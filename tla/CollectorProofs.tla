--------------------------- MODULE CollectorProofs ---------------------------
(***************************************************************************)
(* For any number of names, of variables, and of values on the stack, and  *)
(* any depth of calls: the collector frees nothing that a script which     *)
(* bewares of all the Hazards can still reach.                             *)
(***************************************************************************)
EXTENDS Collector, Induction

(* What TypeOK says, with the lengths that it leaves out.                  *)
ScopeRecords == [names : [Names -> Values], base : 0 .. MaxOperands, args : Lists(MaxItems)]
Entries      == [src : BOOLEAN, vals : Lists(MaxVals), next : 1 .. MaxVals + 1]

Typed == /\ kind \in [Objects -> {"free", "leaf", "list"}]
         /\ gc \in [Objects -> {"OLD", "SAFE"}]
         /\ items \in [Objects -> Lists(MaxItems)]
         /\ scopes \in Seq(ScopeRecords) /\ scopes # <<>>
         /\ operands \in Seq(Entries) /\ Len(operands) <= MaxOperands
         /\ phase \in {"values", "sets"}
         /\ held \in Values

(* Each function's entries lie upon its caller's, and one of them, a       *)
(* VAR_SRC, is all there is while it is being assigned.                    *)
Stacked == /\ \A i \in DOMAIN operands : operands[i].next <= Len(operands[i].vals) + 1
           /\ \A i, j \in DOMAIN scopes : i <= j => scopes[i].base <= scopes[j].base
           /\ Scope.base <= Len(operands)
           /\ phase = "sets" => Above = 1

TypeInv == Typed /\ Stacked

-----------------------------------------------------------------------------
(* Sequences, and the entries of the operand stack.                        *)

LEMMA ListsAre ==
    ASSUME NEW k \in Nat
    PROVE  Lists(k) = {s \in Seq(Values) : Len(s) <= k}
<1>1. ASSUME NEW s \in Lists(k) PROVE s \in Seq(Values) /\ Len(s) <= k
  BY SMTT(30) DEF Lists
<1>2. ASSUME NEW s \in Seq(Values), Len(s) <= k PROVE s \in Lists(k)
  <2>1. Len(s) \in 0 .. k /\ s \in [1 .. Len(s) -> Values]
    BY <1>2
  <2> QED
    BY <2>1 DEF Lists
<1> QED
  BY <1>1, <1>2

LEMMA Constants ==
    /\ MaxObjects \in Nat /\ MaxOperands \in Nat /\ MaxItems \in Nat
    /\ MaxVals \in Nat /\ MaxVals > 0
    /\ Nil \in Values /\ Nil \notin Objects /\ Objects = Values \ {Nil}
    /\ IsFiniteSet(Objects) /\ Cardinality(Objects) = MaxObjects
<1>1. MaxObjects \in Nat
  BY CollectorAssumption
<1>2. IsFiniteSet(1 .. MaxObjects) /\ Cardinality(1 .. MaxObjects) = MaxObjects
  BY <1>1, FS_Interval
<1> QED
  BY <1>1, <1>2, CollectorAssumption DEF Values, Nil, Objects

LEMMA EntriesAre ==
    /\ \A v \in Values : /\ Variable(v) \in Entries /\ Pending(Variable(v)) = <<v>>
                         /\ Variable(v).next <= Len(Variable(v).vals) + 1
                         /\ Variable(v).next = 1
    /\ \A vs \in Seq(Values) : Len(vs) <= MaxVals =>
           /\ Source(vs) \in Entries /\ Pending(Source(vs)) = vs
           /\ Source(vs).next <= Len(vs) + 1 /\ Source(vs).next = 1
    /\ \A e \in Entries : /\ e.vals \in Seq(Values) /\ Len(e.vals) <= MaxVals
                          /\ e.next \in 1 .. MaxVals + 1 /\ e.src \in BOOLEAN
                          /\ Popped(e) \in Values
                          /\ e.next = 1 => Pending(e) = e.vals
<1> USE Constants DEF Entries
<1>1. Lists(MaxVals) = {s \in Seq(Values) : Len(s) <= MaxVals}
  BY ListsAre
<1>2. ASSUME NEW vs \in Seq(Values) PROVE SubSeq(vs, 1, Len(vs)) = vs
  OBVIOUS
<1>3. ASSUME NEW v \in Values
      PROVE  /\ Variable(v) \in Entries /\ Pending(Variable(v)) = <<v>>
             /\ Variable(v).next <= Len(Variable(v).vals) + 1 /\ Variable(v).next = 1
  <2>1. <<v>> \in Seq(Values) /\ Len(<<v>>) = 1
    OBVIOUS
  <2>2. SubSeq(<<v>>, 1, Len(<<v>>)) = <<v>>
    BY <1>2, <2>1
  <2> QED
    BY <1>1, <2>1, <2>2 DEF Variable, Pending
<1>4. ASSUME NEW vs \in Seq(Values), Len(vs) <= MaxVals
      PROVE  /\ Source(vs) \in Entries /\ Pending(Source(vs)) = vs
             /\ Source(vs).next <= Len(vs) + 1 /\ Source(vs).next = 1
  BY <1>1, <1>2, <1>4 DEF Source, Pending
<1>5. ASSUME NEW e \in Entries
      PROVE  /\ e.vals \in Seq(Values) /\ Len(e.vals) <= MaxVals
             /\ e.next \in 1 .. MaxVals + 1 /\ e.src \in BOOLEAN
             /\ Popped(e) \in Values
             /\ e.next = 1 => Pending(e) = e.vals
  <2>1. e.vals \in Seq(Values) /\ Len(e.vals) <= MaxVals
    BY <1>1
  <2>2. Popped(e) \in Values
    BY <2>1 DEF Popped
  <2> QED
    BY <1>2, <2>1, <2>2 DEF Pending
<1> QED
  BY <1>3, <1>4, <1>5

(* The entries that remain, and those that are taken.                      *)
LEMMA Remaining ==
    ASSUME NEW E, NEW s \in Seq(E), NEW n \in 0 .. Len(s)
    PROVE  /\ SubSeq(s, 1, n) \in Seq(E) /\ Len(SubSeq(s, 1, n)) = n
           /\ \A i \in 1 .. n : SubSeq(s, 1, n)[i] = s[i]
  OBVIOUS

LEMMA Appended ==
    ASSUME NEW E, NEW s \in Seq(E), NEW e \in E
    PROVE  /\ Append(s, e) \in Seq(E) /\ Len(Append(s, e)) = Len(s) + 1
           /\ Append(s, e)[Len(s) + 1] = e /\ Last(Append(s, e)) = e
           /\ \A i \in 1 .. Len(s) : Append(s, e)[i] = s[i]
  BY DEF Last

LEMMA GatheredIs ==
    ASSUME Typed, NEW k \in 0 .. Len(operands)
    PROVE  /\ Gathered(k) \in Seq(Values)
           /\ ToSet(Gathered(k)) =
                 UNION {ToSet(operands[i].vals) : i \in Len(operands) - k + 1 .. Len(operands)}
<1> DEFINE n == Len(operands)
           ss == [i \in 1 .. k |-> TopOf(k)[i].vals]
<1>1. n \in Nat /\ k \in Nat /\ \A i \in 1 .. n : operands[i] \in Entries
  BY DEF Typed
<1>2. \A i \in 1 .. k : TopOf(k)[i] = operands[n - k + i] /\ n - k + i \in 1 .. n
  BY <1>1 DEF TopOf, Typed
<1> HIDE DEF n
<1>3. \A i \in 1 .. k : ss[i] = operands[n - k + i].vals
  BY <1>2
<1>4. \A i \in 1 .. k : ss[i] \in Seq(Values)
  BY <1>1, <1>2, <1>3, EntriesAre
<1>5. ss \in Seq(Seq(Values)) /\ DOMAIN ss = 1 .. k
  BY <1>1, <1>4
<1>6. /\ FlattenSeq(ss) \in Seq(Values)
      /\ ToSet(FlattenSeq(ss)) = UNION {ToSet(ss[i]) : i \in 1 .. k}
  BY <1>5, FlattenValues
<1>7. UNION {ToSet(ss[i]) : i \in 1 .. k} =
          UNION {ToSet(operands[i].vals) : i \in n - k + 1 .. n}
  <2>1. \A i \in n - k + 1 .. n : i - (n - k) \in 1 .. k /\ n - k + (i - (n - k)) = i
    BY <1>1
  <2>2. \A i \in 1 .. k : n - k + i \in n - k + 1 .. n
    BY <1>1
  <2> HIDE DEF ss
  <2> QED
    BY <1>3, <2>1, <2>2
<1> QED
  BY <1>6, <1>7 DEF Gathered, n

LEMMA WithoutNilIs ==
    ASSUME NEW vs \in Seq(Values)
    PROVE  /\ WithoutNil(vs) \in Seq(Values) /\ Len(WithoutNil(vs)) <= Len(vs)
           /\ ToSet(WithoutNil(vs)) = ToSet(vs) \ {Nil}
<1> DEFINE ss == [i \in DOMAIN vs |-> IF vs[i] = Nil THEN <<>> ELSE <<vs[i]>>]
<1>1. \A i \in DOMAIN vs : ss[i] \in Seq(Values) /\ Len(ss[i]) <= 1
  OBVIOUS
<1>2. ss \in Seq(Seq(Values)) /\ DOMAIN ss = DOMAIN vs /\ Len(ss) = Len(vs)
  <2>1. DOMAIN vs = 1 .. Len(vs) /\ Len(vs) \in Nat
    OBVIOUS
  <2>2. ss = [i \in 1 .. Len(vs) |-> ss[i]]
    BY <2>1
  <2>3. \A i \in 1 .. Len(vs) : ss[i] \in Seq(Values)
    BY <1>1, <2>1
  <2> HIDE DEF ss
  <2> QED
    BY <2>1, <2>2, <2>3
<1>3. \A i \in DOMAIN vs : ToSet(ss[i]) = {vs[i]} \ {Nil}
  BY DEF ToSet
<1> HIDE DEF ss
<1>4. /\ FlattenSeq(ss) \in Seq(Values)
      /\ ToSet(FlattenSeq(ss)) = UNION {ToSet(ss[i]) : i \in DOMAIN ss}
  BY <1>2, FlattenValues
<1>5. Len(FlattenSeq(ss)) <= Len(ss)
  BY <1>1, <1>2, FlattenShort
<1>6. UNION {ToSet(ss[i]) : i \in DOMAIN ss} = ToSet(vs) \ {Nil}
  <2>1. ToSet(vs) = {vs[i] : i \in DOMAIN vs}
    BY DEF ToSet
  <2> QED
    BY <1>2, <1>3, <2>1
<1> QED
  BY <1>2, <1>4, <1>5, <1>6 DEF WithoutNil, ss

LEMMA FreshIs ==
    ASSUME Free # {}
    PROVE  Fresh \in Objects /\ kind[Fresh] = "free"
<1>1. Free \in SUBSET Nat /\ Free \subseteq Objects
  BY CollectorAssumption DEF Free, Objects
<1>2. \E o \in Free : \A p \in Free : o <= p
  BY <1>1, LeastNumber
<1>3. Fresh \in Free
  BY <1>2 DEF Fresh
<1> QED
  BY <1>1, <1>3 DEF Free

-----------------------------------------------------------------------------
(* TypeOK.                                                                 *)

LEMMA ScopeIs ==
    ASSUME TypeInv
    PROVE  /\ Depth \in Nat /\ Depth > 0 /\ DOMAIN scopes = 1 .. Depth
           /\ \A i \in 1 .. Depth : /\ scopes[i] \in ScopeRecords
                                   /\ scopes[i].names \in [Names -> Values]
                                   /\ scopes[i].base \in 0 .. MaxOperands
                                   /\ scopes[i].args \in Seq(Values)
                                   /\ Len(scopes[i].args) <= MaxItems
           /\ Scope = scopes[Depth] /\ Scope.base \in Nat
           /\ Above = Len(operands) - Scope.base /\ Above \in 0 .. Len(operands)
<1>1. Depth \in Nat /\ Depth > 0 /\ DOMAIN scopes = 1 .. Depth
  BY DEF TypeInv, Typed, Depth
<1>2. \A i \in 1 .. Depth : scopes[i] \in ScopeRecords
  BY <1>1 DEF TypeInv, Typed
<1>3. Scope = scopes[Depth]
  BY DEF Scope, Last, Depth
<1>4. Lists(MaxItems) = {s \in Seq(Values) : Len(s) <= MaxItems}
  BY Constants, ListsAre
<1>5. \A i \in 1 .. Depth : /\ scopes[i].names \in [Names -> Values]
                           /\ scopes[i].base \in 0 .. MaxOperands
                           /\ scopes[i].args \in Seq(Values)
                           /\ Len(scopes[i].args) <= MaxItems
  BY <1>2, <1>4 DEF ScopeRecords
<1>6. Scope.base \in Nat /\ Len(operands) \in Nat /\ Scope.base <= Len(operands)
  BY <1>1, <1>3, <1>5, Constants DEF TypeInv, Typed, Stacked
<1> QED
  BY <1>1, <1>2, <1>3, <1>5, <1>6 DEF Above

LEMMA ItemsAre ==
    ASSUME Typed
    PROVE  \A o \in Objects : items[o] \in Seq(Values) /\ Len(items[o]) <= MaxItems
<1>1. Lists(MaxItems) = {s \in Seq(Values) : Len(s) <= MaxItems}
  BY Constants, ListsAre
<1> QED
  BY <1>1 DEF Typed

LEMMA TypeOKIs == TypeInv => TypeOK
<1> SUFFICES ASSUME TypeInv PROVE TypeOK
  OBVIOUS
<1>1. \A i \in DOMAIN scopes : /\ scopes[i].names \in [Names -> Values]
                              /\ scopes[i].base \in 0 .. MaxOperands
                              /\ scopes[i].args \in Lists(MaxItems)
  <2>1. \A i \in DOMAIN scopes : scopes[i] \in ScopeRecords
    BY DEF TypeInv, Typed
  <2> QED
    BY <2>1 DEF ScopeRecords
<1>2. \A i \in DOMAIN operands : /\ operands[i].src \in BOOLEAN
                                /\ operands[i].vals \in Lists(MaxVals)
                                /\ operands[i].next \in 1 .. MaxVals + 1
  <2>1. \A i \in DOMAIN operands : operands[i] \in Entries
    BY DEF TypeInv, Typed
  <2> QED
    BY <2>1 DEF Entries
<1> QED
  BY <1>1, <1>2 DEF TypeInv, Typed, TypeOK

(* What makes a variable, and what collects.                               *)
Memory == /\ kind \in [Objects -> {"free", "leaf", "list"}]
          /\ gc \in [Objects -> {"OLD", "SAFE"}]
          /\ items \in [Objects -> Lists(MaxItems)]

LEMMA NewTyped ==
    ASSUME Memory, NEW k \in {"leaf", "list"}, NEW its \in Lists(MaxItems), New(k, its)
    PROVE  Memory'
<1>1. Fresh \in Objects
  BY FreshIs DEF New
<1> QED
  BY <1>1 DEF Memory, New

LEMMA CollectTyped ==
    ASSUME Memory, NEW ss, NEW os, Collect(ss, os)
    PROVE  Memory'
<1>1. <<>> \in Lists(MaxItems)
  <2>1. Lists(MaxItems) = {s \in Seq(Values) : Len(s) <= MaxItems} /\ MaxItems >= 0
    BY Constants, ListsAre
  <2>2. <<>> \in Seq(Values) /\ Len(<<>>) = 0
    OBVIOUS
  <2> QED
    BY <2>1, <2>2
<1> QED
  BY <1>1 DEF Memory, Collect

LEMMA OldTyped ==
    ASSUME Memory, NEW v \in Objects, Old(v)
    PROVE  gc' \in [Objects -> {"OLD", "SAFE"}]
  BY DEF Memory, Old

(* What an action has to show of the stacks if it leaves the scopes, but   *)
(* for names.                                                              *)
LEMMA StacksTyped ==
    ASSUME TypeInv, Memory', phase' \in {"values", "sets"}, held' \in Values,
           scopes' \in Seq(ScopeRecords), Len(scopes') = Depth,
           \A i \in 1 .. Depth : scopes'[i].base = scopes[i].base,
           operands' \in Seq(Entries), Len(operands') <= MaxOperands,
           \A i \in 1 .. Len(operands') : operands'[i].next <= Len(operands'[i].vals) + 1,
           Scope.base <= Len(operands'),
           phase' = "sets" => Len(operands') = Scope.base + 1
    PROVE  TypeInv'
<1>0. /\ Depth \in Nat /\ Depth > 0 /\ DOMAIN scopes = 1 .. Depth /\ Scope = scopes[Depth]
      /\ Scope.base \in Nat
  BY ScopeIs
<1>1. Typed'
  BY <1>0 DEF TypeInv, Typed, Memory
<1>2. DOMAIN scopes' = 1 .. Depth /\ Scope'.base = Scope.base
  BY <1>0 DEF Scope, Last
<1>3. Above' = Len(operands') - Scope.base
  BY <1>2 DEF Above
<1>4. phase' = "sets" => Above' = 1
  BY <1>0, <1>3
<1>5. DOMAIN operands' = 1 .. Len(operands')
  OBVIOUS
<1>6. \A i, j \in 1 .. Depth : i <= j => scopes'[i].base <= scopes'[j].base
  BY <1>0 DEF TypeInv, Stacked
<1> QED
  BY <1>1, <1>2, <1>4, <1>5, <1>6 DEF TypeInv, Stacked

LEMMA OperandsAre ==
    ASSUME TypeInv
    PROVE  /\ Len(operands) \in Nat /\ DOMAIN operands = 1 .. Len(operands)
           /\ Len(operands) <= MaxOperands /\ operands \in Seq(Entries)
           /\ \A i \in 1 .. Len(operands) :
                 /\ operands[i] \in Entries /\ operands[i].vals \in Seq(Values)
                 /\ Len(operands[i].vals) <= MaxVals /\ Popped(operands[i]) \in Values
                 /\ operands[i].next <= Len(operands[i].vals) + 1
  BY EntriesAre DEF TypeInv, Typed, Stacked

(* An entry is put upon all but k of those that are there.                 *)
LEMMA PutUpon ==
    ASSUME TypeInv, NEW k \in 0 .. Len(operands), NEW e \in Entries, e.next <= Len(e.vals) + 1,
           operands' = Append(Below(k), e)
    PROVE  /\ operands' \in Seq(Entries) /\ Len(operands') = Len(operands) - k + 1
           /\ operands'[Len(operands')] = e
           /\ \A i \in 1 .. Len(operands) - k : operands'[i] = operands[i]
           /\ \A i \in 1 .. Len(operands') : operands'[i].next <= Len(operands'[i].vals) + 1
<1> DEFINE n == Len(operands) - k
<1>1. n \in 0 .. Len(operands) /\ operands \in Seq(Entries)
  BY OperandsAre
<1>2. /\ Below(k) \in Seq(Entries) /\ Len(Below(k)) = n
      /\ \A i \in 1 .. n : Below(k)[i] = operands[i]
  BY <1>1, Remaining DEF Below
<1>3. /\ operands' \in Seq(Entries) /\ Len(operands') = n + 1 /\ operands'[n + 1] = e
      /\ \A i \in 1 .. n : operands'[i] = operands[i]
  BY <1>2, Appended
<1>4. \A i \in 1 .. n + 1 : i \in 1 .. n \/ i = n + 1
  BY <1>1
<1>5. \A i \in 1 .. n : operands[i].next <= Len(operands[i].vals) + 1
  BY <1>1, OperandsAre
<1> HIDE DEF n
<1> QED
  BY <1>3, <1>4, <1>5 DEF n

LEMMA RestValues ==
    ASSUME NEW V, NEW s \in Seq(V), NEW a \in Nat, a >= 1, a <= Len(s) + 1
    PROVE  ToSet(SubSeq(s, a, Len(s))) = {s[i] : i \in a .. Len(s)}
<1> DEFINE l == Len(s)
           t == SubSeq(s, a, l)
<1>1. /\ l \in Nat /\ DOMAIN t = 1 .. l - a + 1
      /\ \A i \in 1 .. l - a + 1 : t[i] = s[i + a - 1]
  OBVIOUS
<1>2. ToSet(t) = {t[i] : i \in DOMAIN t}
  BY DEF ToSet
<1> HIDE DEF l, t
<1>3. /\ \A i \in a .. l : i - a + 1 \in 1 .. l - a + 1 /\ (i - a + 1) + a - 1 = i
      /\ \A i \in 1 .. l - a + 1 : i + a - 1 \in a .. l
  BY <1>1
<1>4. {t[i] : i \in 1 .. l - a + 1} = {s[i] : i \in a .. l}
  <2>1. ASSUME NEW i \in 1 .. l - a + 1 PROVE t[i] \in {s[j] : j \in a .. l}
    BY <1>1, <1>3
  <2>2. ASSUME NEW j \in a .. l PROVE s[j] \in {t[i] : i \in 1 .. l - a + 1}
    <3>1. t[j - a + 1] = s[j]
      BY <1>1, <1>3
    <3> QED
      BY <1>3, <3>1
  <2> QED
    BY <2>1, <2>2
<1> QED
  BY <1>1, <1>2, <1>4 DEF l, t

(* A VAR_SRC is being assigned: the value that get_value gives, and what   *)
(* it leaves.                                                              *)
LEMMA NextIs ==
    ASSUME TypeInv, phase = "sets"
    PROVE  /\ Len(operands) \in 1 .. Len(operands) /\ Top = operands[Len(operands)]
           /\ NextValue \in Values /\ NextValue \in ToSet(Pending(Top)) \cup {Nil}
           /\ Pending(Top) # <<>> => Top.next <= Len(Top.vals)
<1>1. Len(operands) \in 1 .. Len(operands)
  <2>1. Above = 1 /\ Above \in 0 .. Len(operands) /\ Len(operands) \in Nat
    BY ScopeIs, OperandsAre DEF TypeInv, Stacked
  <2> QED
    BY <2>1
<1>2. Top = operands[Len(operands)] /\ Top \in Entries /\ Top.next <= Len(Top.vals) + 1
  BY <1>1, OperandsAre DEF Top, Last
<1>3. Top.vals \in Seq(Values) /\ Top.next \in 1 .. MaxVals + 1
  BY <1>2, EntriesAre
<1>4. Pending(Top) \in Seq(Values) /\ (Top.next = Len(Top.vals) + 1 => Pending(Top) = <<>>)
  BY <1>2, <1>3, Constants DEF Pending
<1>5. NextValue \in Values /\ NextValue \in ToSet(Pending(Top)) \cup {Nil}
  <2>1. CASE Pending(Top) = <<>>
    BY <2>1, Constants DEF NextValue
  <2>2. CASE Pending(Top) # <<>>
    <3>1. 1 \in DOMAIN Pending(Top) /\ Pending(Top)[1] \in Values /\ Head(Pending(Top)) = Pending(Top)[1]
      BY <1>4, <2>2
    <3> QED
      BY <2>2, <3>1 DEF NextValue, ToSet
  <2> QED
    BY <2>1, <2>2
<1>6. Pending(Top) # <<>> => Top.next <= Len(Top.vals)
  BY <1>2, <1>3, <1>4, Constants, SMTT(30)
<1> QED
  BY <1>1, <1>2, <1>5, <1>6

LEMMA TakenIs ==
    ASSUME TypeInv, phase = "sets", Taken
    PROVE  /\ operands' \in Seq(Entries) /\ Len(operands') = Len(operands)
           /\ \A i \in 1 .. Len(operands) :
                 /\ operands'[i].next <= Len(operands'[i].vals) + 1
                 /\ operands'[i].src = operands[i].src
                 /\ ToSet(Pending(operands'[i])) \subseteq ToSet(Pending(operands[i]))
                 /\ i # Len(operands) => operands'[i] = operands[i]
<1> USE Constants
<1> DEFINE n == Len(operands)
           m == IF Pending(Top) = <<>> THEN Top.next ELSE Top.next + 1
           e == [Top EXCEPT !.next = m]
<1>1. /\ n \in 1 .. n /\ n \in Nat /\ Top = operands[n] /\ Top \in Entries /\ operands \in Seq(Entries)
      /\ \A i \in 1 .. n : operands[i].next <= Len(operands[i].vals) + 1
  BY NextIs, OperandsAre
<1>2. /\ Top.vals \in Seq(Values) /\ Top.next \in 1 .. MaxVals + 1 /\ Len(Top.vals) <= MaxVals
      /\ Top.next <= Len(Top.vals) + 1
  BY <1>1, EntriesAre
<1>3. m \in 1 .. MaxVals + 1 /\ m <= Len(Top.vals) + 1 /\ m >= Top.next
  BY <1>2, NextIs
<1> HIDE DEF m
<1>4. e \in Entries /\ e.next = m /\ e.vals = Top.vals /\ e.src = Top.src
  BY <1>1, <1>3 DEF Entries
<1>5. operands' = [operands EXCEPT ![n] = e]
  BY <1>1 DEF Taken, m
<1>6. ToSet(Pending(e)) \subseteq ToSet(Pending(Top))
  <2> DEFINE l == Len(Top.vals)
  <2>1. /\ Pending(e) = SubSeq(Top.vals, m, l) /\ Pending(Top) = SubSeq(Top.vals, Top.next, l)
    BY <1>4 DEF Pending
  <2>2. l \in Nat /\ m \in Nat /\ Top.next \in Nat /\ Top.next <= m /\ m <= l + 1 /\ Top.next >= 1
    BY <1>2, <1>3
  <2>3. /\ ToSet(SubSeq(Top.vals, m, l)) = {Top.vals[i] : i \in m .. l}
        /\ ToSet(SubSeq(Top.vals, Top.next, l)) = {Top.vals[i] : i \in Top.next .. l}
    BY <1>2, <1>3, <2>2, RestValues
  <2>4. \A i \in m .. l : i \in Top.next .. l
    BY <2>2
  <2> HIDE DEF l
  <2> QED
    BY <2>1, <2>3, <2>4
<1> HIDE DEF e
<1>7. /\ operands' \in Seq(Entries) /\ Len(operands') = n
      /\ \A i \in 1 .. n : operands'[i] = IF i = n THEN e ELSE operands[i]
  BY <1>1, <1>4, <1>5
<1>8. e.next <= Len(e.vals) + 1
  BY <1>3, <1>4
<1> QED
  BY <1>1, <1>4, <1>6, <1>7, <1>8

LEMMA InitTyped == Init => TypeInv
<1> SUFFICES ASSUME Init PROVE TypeInv
  OBVIOUS
<1>1. <<>> \in Lists(MaxItems) /\ MaxOperands \in Nat
  <2>1. Lists(MaxItems) = {s \in Seq(Values) : Len(s) <= MaxItems} /\ MaxItems >= 0
    BY Constants, ListsAre
  <2>2. <<>> \in Seq(Values) /\ Len(<<>>) = 0
    OBVIOUS
  <2> QED
    BY <2>1, <2>2, Constants
<1>2. Globals \in ScopeRecords /\ Globals.base = 0
  BY <1>1, Constants DEF Globals, ScopeRecords
<1>3. Typed
  BY <1>1, <1>2, Constants DEF Init, Typed
<1>4. Stacked
  <2>1. scopes = <<Globals>> /\ operands = <<>> /\ phase = "values"
    BY DEF Init
  <2>2. DOMAIN scopes = {1} /\ scopes[1] = Globals /\ Scope = Globals
    BY <2>1 DEF Scope, Last
  <2>3. DOMAIN operands = {} /\ Len(operands) = 0
    BY <2>1
  <2> QED
    BY <1>2, <2>1, <2>2, <2>3 DEF Stacked
<1> QED
  BY <1>3, <1>4 DEF TypeInv

LEMMA StepTyped == TypeInv /\ [Next]_vars => TypeInv'
<1> SUFFICES ASSUME TypeInv, [Next]_vars PROVE TypeInv'
  OBVIOUS
<1> USE Constants
<1>0. /\ Memory /\ phase \in {"values", "sets"} /\ held \in Values
      /\ scopes \in Seq(ScopeRecords) /\ Len(scopes) = Depth
      /\ phase = "sets" => Len(operands) = Scope.base + 1
  <2>1. phase = "sets" => Above = 1
    BY DEF TypeInv, Stacked
  <2>2. Above = Len(operands) - Scope.base /\ Scope.base \in Nat /\ Len(operands) \in Nat
    BY ScopeIs, OperandsAre
  <2>3. phase = "sets" => Len(operands) = Scope.base + 1
    BY <2>1, <2>2
  <2> QED
    BY <2>3 DEF TypeInv, Typed, Memory, Depth
<1>a. /\ Depth \in Nat /\ Depth > 0 /\ DOMAIN scopes = 1 .. Depth
      /\ Scope = scopes[Depth] /\ Scope.base \in Nat /\ Scope.names \in [Names -> Values]
      /\ Scope.args \in Seq(Values) /\ Len(Scope.args) <= MaxItems
      /\ Above = Len(operands) - Scope.base /\ Above \in 0 .. Len(operands)
  BY ScopeIs
<1>b. /\ Len(operands) \in Nat /\ DOMAIN operands = 1 .. Len(operands)
      /\ Len(operands) <= MaxOperands /\ operands \in Seq(Entries)
      /\ \A i \in 1 .. Len(operands) : /\ operands[i] \in Entries /\ Popped(operands[i]) \in Values
                                      /\ operands[i].next <= Len(operands[i].vals) + 1
  BY OperandsAre
<1>c. <<>> \in Lists(MaxItems) /\ \A s \in Seq(Values) : Len(s) <= MaxItems => s \in Lists(MaxItems)
  <2>1. Lists(MaxItems) = {s \in Seq(Values) : Len(s) <= MaxItems} /\ MaxItems >= 0
    BY ListsAre
  <2>2. <<>> \in Seq(Values) /\ Len(<<>>) = 0
    OBVIOUS
  <2> QED
    BY <2>1, <2>2
<1>d. ASSUME NEW e \in Entries, e.next <= Len(e.vals) + 1, Push(e)
      PROVE  /\ operands' \in Seq(Entries) /\ Len(operands') = Len(operands) + 1
             /\ Len(operands') <= MaxOperands
             /\ \A i \in 1 .. Len(operands') : operands'[i].next <= Len(operands'[i].vals) + 1
  <2>1. Below(0) = operands
    BY <1>b DEF Below
  <2>2. operands' = Append(Below(0), e) /\ Len(operands) < MaxOperands
    BY <1>d, <2>1 DEF Push
  <2>3. 0 \in 0 .. Len(operands)
    BY <1>b
  <2>4. /\ operands' \in Seq(Entries) /\ Len(operands') = Len(operands) - 0 + 1
        /\ \A i \in 1 .. Len(operands') : operands'[i].next <= Len(operands'[i].vals) + 1
    BY <1>d, <2>2, <2>3, PutUpon
  <2> QED
    BY <1>b, <2>2, <2>4
(* An action in phase "values" that leaves the scopes and pushes.          *)
<1>e. ASSUME NEW e \in Entries, e.next <= Len(e.vals) + 1, Push(e), Memory',
             phase = "values", UNCHANGED <<scopes, phase, held>>
      PROVE  TypeInv'
  <2>1. /\ operands' \in Seq(Entries) /\ Len(operands') = Len(operands) + 1
        /\ Len(operands') <= MaxOperands
        /\ \A i \in 1 .. Len(operands') : operands'[i].next <= Len(operands'[i].vals) + 1
    BY <1>d, <1>e
  <2>2. phase' = "values" /\ Scope.base <= Len(operands') /\ held' = held /\ scopes' = scopes
    BY <1>a, <1>b, <1>e, <2>1
  <2> QED
    BY <1>0, <1>e, <2>1, <2>2, StacksTyped
(* An action that leaves the scopes and puts an entry upon all but k.      *)
<1>f. ASSUME NEW k \in 0 .. Len(operands), NEW e \in Entries, e.next <= Len(e.vals) + 1,
             operands' = Append(Below(k), e), Len(operands') <= MaxOperands, Memory', k <= Above,
             UNCHANGED <<scopes, held>>, phase' = "values" \/ (phase' = "sets" /\ k = Above)
      PROVE  TypeInv'
  <2>1. /\ operands' \in Seq(Entries) /\ Len(operands') = Len(operands) - k + 1
        /\ \A i \in 1 .. Len(operands') : operands'[i].next <= Len(operands'[i].vals) + 1
    BY <1>f, PutUpon
  <2>2. Scope.base <= Len(operands') /\ (k = Above => Len(operands') = Scope.base + 1)
    <3>1. /\ Len(operands) \in Nat /\ Scope.base \in Nat /\ Above = Len(operands) - Scope.base
          /\ k \in Nat /\ k <= Above /\ Len(operands') = Len(operands) - k + 1
      BY <1>a, <1>b, <1>f, <2>1
    <3> QED
      BY <3>1
  <2>3. /\ phase' \in {"values", "sets"} /\ (phase' = "sets" => Len(operands') = Scope.base + 1)
        /\ held' = held /\ scopes' = scopes
    BY <1>f, <2>2
  <2> QED
    BY <1>0, <1>f, <2>1, <2>2, <2>3, StacksTyped
(* The values that are gathered.                                           *)
<1>g. ASSUME NEW k \in 0 .. Len(operands), Len(Gathered(k)) <= MaxVals
      PROVE  /\ Gathered(k) \in Seq(Values) /\ Source(Gathered(k)) \in Entries
             /\ Source(Gathered(k)).next <= Len(Source(Gathered(k)).vals) + 1
  <2>1. Gathered(k) \in Seq(Values)
    BY GatheredIs DEF TypeInv
  <2>2. Source(Gathered(k)) \in Entries /\ Source(Gathered(k)).next <= Len(Gathered(k)) + 1
    BY <1>g, <2>1, EntriesAre
  <2> QED
    BY <2>1, <2>2 DEF Source
<1>h. ASSUME phase = "sets"
      PROVE  /\ NextValue \in Values
             /\ Taken => /\ operands' \in Seq(Entries) /\ Len(operands') = Len(operands)
                         /\ \A i \in 1 .. Len(operands') :
                               operands'[i].next <= Len(operands'[i].vals) + 1
  BY <1>h, NextIs, TakenIs
<1>1. CASE PushStr
  <2>1. /\ Memory' /\ UNCHANGED <<scopes, phase, held>> /\ phase = "values"
        /\ Fresh \in Values /\ Push(Variable(Fresh))
    BY <1>0, <1>1, <1>c, NewTyped, FreshIs DEF PushStr, New
  <2> QED
    BY <1>e, <2>1, EntriesAre
<1>2. ASSUME NEW n \in Names, PushVar(n) PROVE TypeInv'
  <2>1. Scope.names[n] \in Objects
    BY <1>2, <1>a DEF PushVar
  <2>2. Memory'
    <3>1. gc' \in [Objects -> {"OLD", "SAFE"}]
      BY <1>2, <1>0, <2>1, OldTyped DEF PushVar
    <3> QED
      BY <1>2, <1>0, <3>1 DEF PushVar, Memory
  <2> QED
    BY <1>2, <1>e, <2>1, <2>2, EntriesAre DEF PushVar
<1>3. ASSUME NEW k \in 0 .. MaxOperands, PushList(k) PROVE TypeInv'
  <2> DEFINE popped == [i \in 1 .. k |-> Popped(TopOf(k)[i])]
  <2>1. k \in 0 .. Len(operands) /\ k <= Above /\ k <= MaxItems /\ k \in Nat
    BY <1>3, <1>a, <1>b DEF PushList
  <2>2. popped \in Seq(Values) /\ Len(popped) = k
    <3>1. \A i \in 1 .. k : /\ Len(operands) - k + i \in 1 .. Len(operands)
                            /\ TopOf(k)[i] = operands[Len(operands) - k + i]
      BY <1>b, <2>1 DEF TopOf
    <3>2. \A i \in 1 .. k : popped[i] \in Values
      BY <1>b, <3>1
    <3> QED
      BY <2>1, <3>2
  <2> HIDE DEF popped
  <2>3. WithoutNil(popped) \in Lists(MaxItems)
    <3>1. WithoutNil(popped) \in Seq(Values) /\ Len(WithoutNil(popped)) <= Len(popped)
      BY <2>2, WithoutNilIs
    <3>2. Len(WithoutNil(popped)) <= MaxItems
      BY <2>1, <2>2, <3>1
    <3> QED
      BY <1>c, <3>1, <3>2
  <2>4. New("list", WithoutNil(popped)) /\ operands' = Append(Below(k), Variable(Fresh))
        /\ Len(operands') <= MaxOperands /\ UNCHANGED <<scopes, phase, held>> /\ phase = "values"
    BY <1>3 DEF PushList, popped
  <2>5. Memory' /\ Fresh \in Values
    BY <1>0, <2>3, <2>4, NewTyped, FreshIs DEF New
  <2> QED
    BY <1>f, <2>1, <2>4, <2>5, EntriesAre
<1>4. CASE Get
  <2> DEFINE list == Popped(Top)
  <2>1. Len(operands) > 0 /\ 1 \in 0 .. Len(operands) /\ 1 <= Above /\ Top \in Entries /\ list \in Objects
    <3>1. Len(operands) \in 1 .. Len(operands) /\ Above >= 1
      BY <1>4, <1>a, <1>b DEF Get
    <3>2. Top \in Entries /\ list \in Values
      BY <1>b, <3>1 DEF Top, Last
    <3> QED
      BY <1>4, <1>b, <3>1, <3>2 DEF Get
  <2>2. PICK v \in ToSet(items[list]) \ {Nil} : operands' = Append(Below(1), Variable(v)) /\ Old(v)
    BY <1>4 DEF Get
  <2>3. v \in Objects
    <3>1. items[list] \in Seq(Values)
      BY <2>1, ItemsAre DEF TypeInv
    <3> QED
      BY <2>2, <3>1 DEF ToSet
  <2>4. Memory'
    <3>1. gc' \in [Objects -> {"OLD", "SAFE"}]
      BY <1>0, <2>2, <2>3, OldTyped
    <3> QED
      BY <1>4, <1>0, <3>1 DEF Get, Memory
  <2>5. Len(operands') <= MaxOperands
    <3>1. Len(operands') = Len(operands) - 1 + 1
      BY <2>1, <2>2, <2>3, PutUpon, EntriesAre
    <3> QED
      BY <1>b, <3>1
  <2>6. UNCHANGED <<scopes, phase, held>> /\ phase = "values"
    BY <1>4 DEF Get
  <2> QED
    BY <1>f, <2>1, <2>2, <2>3, <2>4, <2>5, <2>6, EntriesAre
<1>5. CASE MakeSrc
  <2>1. /\ Above \in 0 .. Len(operands) /\ Above > 0 /\ Len(Gathered(Above)) <= MaxVals
        /\ operands' = Append(Below(Above), Source(Gathered(Above))) /\ phase' = "sets"
        /\ UNCHANGED <<kind, gc, items, scopes, held>>
    BY <1>5, <1>a DEF MakeSrc
  <2>2. /\ Source(Gathered(Above)) \in Entries
        /\ Source(Gathered(Above)).next <= Len(Source(Gathered(Above)).vals) + 1
    BY <1>g, <2>1
  <2>3. Len(operands') <= MaxOperands
    <3>1. Len(operands') = Len(operands) - Above + 1
      BY <2>1, <2>2, PutUpon
    <3> QED
      BY <1>b, <2>1, <3>1
  <2>4. Memory' /\ Above <= Above
    BY <1>0, <2>1 DEF Memory
  <2> QED
    BY <1>f, <2>1, <2>2, <2>3, <2>4
<1>6. ASSUME NEW n \in Names, Set(n) PROVE TypeInv'
  <2>1. /\ phase = "sets" /\ Storing(NextValue) /\ Taken /\ UNCHANGED <<phase, held>>
        /\ scopes' = [scopes EXCEPT ![Depth].names[n] = Stored(NextValue)]
    BY <1>6 DEF Set
  <2>2. NextValue \in Values
    BY <1>h, <2>1
  <2>3. Memory' /\ Stored(NextValue) \in Values
    <3>1. CASE NextValue = Nil
      <4>1. New("leaf", <<>>)
        BY <2>1, <3>1 DEF Storing
      <4>2. Memory' /\ Fresh \in Values
        BY <1>0, <1>c, <4>1, NewTyped, FreshIs DEF New
      <4> QED
        BY <3>1, <4>2 DEF Stored
    <3>2. CASE NextValue # Nil
      BY <1>0, <2>1, <2>2, <3>2 DEF Storing, Stored, Memory
    <3> QED
      BY <3>1, <3>2
  <2>4. /\ scopes' \in Seq(ScopeRecords) /\ Len(scopes') = Depth
        /\ \A i \in 1 .. Depth : scopes'[i].base = scopes[i].base
    <3> DEFINE r == [Scope EXCEPT !.names[n] = Stored(NextValue)]
    <3>1. Scope \in ScopeRecords /\ Depth \in 1 .. Depth
      BY <1>0, <1>a
    <3>2. r \in ScopeRecords /\ r.base = Scope.base
      BY <2>3, <3>1 DEF ScopeRecords
    <3>3. scopes' = [scopes EXCEPT ![Depth] = r]
      BY <1>a, <2>1
    <3> HIDE DEF r
    <3> QED
      BY <1>0, <1>a, <3>1, <3>2, <3>3
  <2>5. /\ operands' \in Seq(Entries) /\ Len(operands') = Len(operands)
        /\ \A i \in 1 .. Len(operands') : operands'[i].next <= Len(operands'[i].vals) + 1
    BY <1>h, <2>1
  <2>6. /\ Scope.base <= Len(operands') /\ Len(operands') <= MaxOperands
        /\ Len(operands') = Scope.base + 1 /\ phase' = phase /\ held' = held
    <3>1. Len(operands) = Scope.base + 1 /\ Scope.base \in Nat /\ Len(operands) <= MaxOperands
      BY <1>0, <1>a, <1>b, <2>1
    <3> QED
      BY <2>1, <2>5, <3>1
  <2> QED
    BY <1>0, <2>3, <2>4, <2>5, <2>6, StacksTyped
<1>7. ASSUME NEW n \in Names, Put(n) PROVE TypeInv'
  <2> DEFINE list == Scope.names[n]
  <2>1. /\ phase = "sets" /\ Taken /\ UNCHANGED <<kind, scopes, phase, held>>
        /\ list \in Objects /\ Old(list)
    BY <1>7, <1>a DEF Put
  <2>2. NextValue \in Values
    BY <1>h, <2>1
  <2>3. PICK i \in 1 .. Len(items[list]) + 1 :
           /\ i <= MaxItems
           /\ items' = [items EXCEPT ![list] =
                            IF i <= Len(@) THEN [@ EXCEPT ![i] = NextValue]
                                           ELSE Append(@, NextValue)]
    BY <1>7 DEF Put
  <2>4. items[list] \in Seq(Values) /\ Len(items[list]) <= MaxItems
    BY <2>1, ItemsAre DEF TypeInv
  <2> DEFINE its == IF i <= Len(items[list]) THEN [items[list] EXCEPT ![i] = NextValue]
                                             ELSE Append(items[list], NextValue)
  <2>5. its \in Seq(Values) /\ Len(its) <= MaxItems
    <3>1. CASE i <= Len(items[list])
      BY <2>2, <2>4, <3>1
    <3>2. CASE ~(i <= Len(items[list]))
      <4>1. Len(items[list]) + 1 = i
        BY <2>4, <3>2
      <4>2. /\ Append(items[list], NextValue) \in Seq(Values)
            /\ Len(Append(items[list], NextValue)) = Len(items[list]) + 1
        BY <2>2, <2>4
      <4> QED
        BY <2>3, <3>2, <4>1, <4>2
    <3> QED
      BY <3>1, <3>2
  <2>6. items' = [items EXCEPT ![list] = its] /\ its \in Lists(MaxItems)
    BY <1>c, <2>1, <2>3, <2>5
  <2>7. Memory'
    <3>1. gc' \in [Objects -> {"OLD", "SAFE"}]
      BY <1>0, <2>1, OldTyped
    <3> HIDE DEF its
    <3> QED
      BY <1>0, <2>1, <2>6, <3>1 DEF Memory
  <2>8. /\ operands' \in Seq(Entries) /\ Len(operands') = Len(operands)
        /\ \A j \in 1 .. Len(operands') : operands'[j].next <= Len(operands'[j].vals) + 1
    BY <1>h, <2>1
  <2>9. /\ Scope.base <= Len(operands') /\ Len(operands') <= MaxOperands
        /\ Len(operands') = Scope.base + 1 /\ phase' = phase /\ held' = held /\ scopes' = scopes
    BY <1>0, <1>a, <1>b, <2>1, <2>8
  <2> QED
    BY <1>0, <2>7, <2>8, <2>9, StacksTyped
<1>8. CASE Dst
  <2>1. /\ Above = 1 /\ operands' = Below(1) /\ phase' = "values" /\ UNCHANGED <<scopes, held>>
        /\ Collect(scopes, operands')
    BY <1>8 DEF Dst
  <2>2. 1 \in 0 .. Len(operands) /\ Len(operands) - 1 \in 0 .. Len(operands)
    BY <1>a, <1>b, <2>1
  <2>3. /\ operands' \in Seq(Entries) /\ Len(operands') = Len(operands) - 1
        /\ \A i \in 1 .. Len(operands) - 1 : operands'[i] = operands[i]
    BY <1>b, <2>1, <2>2, Remaining DEF Below
  <2>4. Len(operands') = Scope.base /\ Len(operands') <= MaxOperands
    BY <1>a, <1>b, <2>1, <2>3
  <2>5. \A i \in 1 .. Len(operands') : operands'[i].next <= Len(operands'[i].vals) + 1
    <3>1. \A i \in 1 .. Len(operands') : i \in 1 .. Len(operands) /\ operands'[i] = operands[i]
      BY <1>b, <2>3
    <3> QED
      BY <1>b, <3>1
  <2>6. Memory'
    BY <1>0, <2>1, CollectTyped
  <2>7. phase' \in {"values", "sets"} /\ phase' # "sets" /\ Scope.base <= Len(operands')
        /\ scopes' = scopes /\ held' = held
    BY <1>a, <2>1, <2>4
  <2> QED
    BY <1>0, <2>3, <2>4, <2>5, <2>6, <2>7, StacksTyped
<1>9. ASSUME NEW k \in 0 .. MaxOperands, NEW listing \in BOOLEAN, Call(k, listing) PROVE TypeInv'
  <2> DEFINE args == IF listing THEN Gathered(k) ELSE <<>>
             s == [Globals EXCEPT !.base = Len(operands) - k, !.args = args]
             e == Source(Gathered(k))
  <2>1. /\ k <= Above /\ Len(args) <= MaxItems /\ Len(Gathered(k)) <= MaxVals
        /\ operands' = Append(Below(k), e) /\ Len(operands') <= MaxOperands
        /\ scopes' = Append(scopes, s) /\ phase' = "sets" /\ UNCHANGED <<kind, gc, items, held>>
    BY <1>9 DEF Call
  <2>2. /\ k \in 0 .. Len(operands) /\ Len(operands) - k \in 0 .. MaxOperands
        /\ Scope.base <= Len(operands) - k
    <3>1. /\ k \in Nat /\ k <= Above /\ Above = Len(operands) - Scope.base /\ Scope.base \in Nat
          /\ Len(operands) \in Nat /\ Len(operands) <= MaxOperands
      BY <1>a, <1>b, <2>1
    <3> QED
      BY <3>1
  <2>3. e \in Entries /\ e.next <= Len(e.vals) + 1 /\ Gathered(k) \in Seq(Values)
    BY <1>g, <2>1, <2>2
  <2>4. args \in Lists(MaxItems)
    BY <1>c, <2>1, <2>3
  <2>5. s \in ScopeRecords /\ s.base = Len(operands) - k
    BY <2>2, <2>4 DEF Globals, ScopeRecords
  <2> HIDE DEF s, e, args
  <2>6. /\ operands' \in Seq(Entries) /\ Len(operands') = Len(operands) - k + 1
        /\ \A i \in 1 .. Len(operands') : operands'[i].next <= Len(operands'[i].vals) + 1
    BY <2>1, <2>2, <2>3, PutUpon
  <2>7. /\ scopes' \in Seq(ScopeRecords) /\ Len(scopes') = Depth + 1 /\ scopes'[Depth + 1] = s
        /\ \A i \in 1 .. Depth : scopes'[i] = scopes[i]
    BY <1>0, <2>1, <2>5, Appended, SMTT(30)
  <2>8. Typed'
    <3>1. scopes' # <<>>
      BY <2>1
    <3> QED
      BY <1>0, <2>1, <2>6, <2>7, <3>1 DEF Memory, Typed
  <2>9. Stacked'
    <3>1. Scope' = s /\ DOMAIN scopes' = 1 .. Depth + 1
      BY <1>a, <2>7 DEF Scope, Last
    <3>2. Above' = 1 /\ Scope'.base <= Len(operands')
      <4>1. Len(operands') = s.base + 1 /\ s.base \in Nat
        BY <2>2, <2>5, <2>6
      <4> QED
        BY <3>1, <4>1 DEF Above
    <3>3. ASSUME NEW i \in 1 .. Depth + 1, NEW j \in 1 .. Depth + 1, i <= j
          PROVE  scopes'[i].base <= scopes'[j].base
      <4>1. CASE j \in 1 .. Depth
        <5>1. i \in 1 .. Depth /\ scopes'[i] = scopes[i] /\ scopes'[j] = scopes[j]
          BY <1>a, <2>7, <3>3, <4>1
        <5>2. scopes[i].base <= scopes[j].base
          BY <1>a, <3>3, <4>1, <5>1 DEF TypeInv, Stacked
        <5> QED
          BY <5>1, <5>2
      <4>2. CASE j = Depth + 1 /\ i \in 1 .. Depth
        <5>1. scopes[i].base <= scopes[Depth].base /\ scopes[i].base \in Nat
          <6>1. i \in DOMAIN scopes /\ Depth \in DOMAIN scopes /\ i <= Depth
            BY <1>a, <4>2
          <6>2. \A a, b \in DOMAIN scopes : a <= b => scopes[a].base <= scopes[b].base
            BY DEF TypeInv, Stacked
          <6>3. scopes[i].base \in Nat
            BY <4>2, ScopeIs
          <6> QED
            BY <6>1, <6>2, <6>3
        <5>2. scopes'[i].base <= Scope.base /\ scopes'[i].base \in Nat
          BY <1>a, <2>7, <4>2, <5>1
        <5>3. scopes'[j].base = Len(operands) - k
          BY <2>5, <2>7, <4>2
        <5>4. Scope.base \in Nat /\ Len(operands) - k \in Nat
          BY <1>a, <2>2
        <5> QED
          BY ONLY <2>2, <5>2, <5>3, <5>4
      <4>3. CASE j = Depth + 1 /\ i = Depth + 1
        <5>1. scopes'[i].base \in Nat /\ scopes'[i] = scopes'[j]
          BY <2>2, <2>5, <2>7, <4>3
        <5> QED
          BY <5>1
      <4> QED
        BY <1>a, <3>3, <4>1, <4>2, <4>3
    <3>4. DOMAIN operands' = 1 .. Len(operands')
      BY <2>6
    <3> QED
      BY <2>6, <3>1, <3>2, <3>3, <3>4 DEF Stacked
  <2> QED
    BY <2>8, <2>9 DEF TypeInv
<1>10. CASE Args
  <2>1. /\ phase = "values" /\ New("list", Scope.args) /\ Push(Source(<<Fresh>>))
        /\ UNCHANGED <<scopes, phase, held>>
    BY <1>10 DEF Args
  <2>2. Fresh \in Values /\ Memory'
    <3>1. Scope.args \in Lists(MaxItems)
      BY <1>a, <1>c
    <3> QED
      BY <1>0, <2>1, <3>1, NewTyped, FreshIs DEF New
  <2>3. <<Fresh>> \in Seq(Values) /\ Len(<<Fresh>>) = 1 /\ Len(<<Fresh>>) <= MaxVals
    BY <2>2
  <2>4. Source(<<Fresh>>) \in Entries /\ Source(<<Fresh>>).next <= Len(Source(<<Fresh>>).vals) + 1
    <3>1. Source(<<Fresh>>) \in Entries /\ Source(<<Fresh>>).next <= Len(<<Fresh>>) + 1
      BY <2>3, EntriesAre
    <3>2. Source(<<Fresh>>).vals = <<Fresh>>
      BY DEF Source
    <3> QED
      BY <3>1, <3>2
  <2> QED
    BY <1>e, <2>1, <2>2, <2>4
(* A function ends: of what it had on the stack, nothing is left but its   *)
(* result.                                                                 *)
<1>i. ASSUME Depth > 1, phase = "values", UNCHANGED <<phase, held>>, Memory', scopes' = Front(scopes),
             NEW k \in 0 .. Len(operands), k <= Above, NEW e \in Entries, e.next <= Len(e.vals) + 1,
             operands' = Append(Below(k), e), Len(operands') <= MaxOperands
      PROVE  TypeInv'
  <2>1. /\ operands' \in Seq(Entries) /\ Len(operands') = Len(operands) - k + 1
        /\ \A i \in 1 .. Len(operands') : operands'[i].next <= Len(operands'[i].vals) + 1
    BY <1>i, PutUpon
  <2>2. /\ scopes' \in Seq(ScopeRecords) /\ Len(scopes') = Depth - 1
        /\ \A i \in 1 .. Depth - 1 : scopes'[i] = scopes[i]
    BY <1>0, <1>a, <1>i, Remaining DEF Front
  <2>3. Typed'
    <3>1. scopes' # <<>>
      BY <1>a, <1>i, <2>2
    <3> QED
      BY <1>0, <1>i, <2>1, <2>2, <3>1 DEF Memory, Typed
  <2>4. Stacked'
    <3>1. Scope' = scopes[Depth - 1] /\ DOMAIN scopes' = 1 .. Depth - 1
      BY <1>a, <1>i, <2>2 DEF Scope, Last
    <3>2. Scope'.base <= Len(operands')
      <4>1. /\ scopes[Depth - 1].base <= scopes[Depth].base
            /\ scopes[Depth - 1].base \in Nat /\ scopes[Depth].base \in Nat
        <5>1. Depth - 1 \in 1 .. Depth /\ Depth \in 1 .. Depth /\ Depth - 1 <= Depth
          BY <1>a, <1>i
        <5> QED
          BY <1>a, <5>1, ScopeIs DEF TypeInv, Stacked
      <4>2. /\ Scope'.base <= Scope.base /\ Scope'.base \in Nat /\ Scope.base \in Nat
            /\ Above = Len(operands) - Scope.base /\ Len(operands) \in Nat /\ k \in Nat /\ k <= Above
        BY <1>a, <1>b, <1>i, <3>1, <4>1
      <4> QED
        BY <2>1, <4>2
    <3>3. \A i, j \in 1 .. Depth - 1 : i <= j => scopes'[i].base <= scopes'[j].base
      <4>1. \A i \in 1 .. Depth - 1 : i \in 1 .. Depth
        BY <1>a
      <4> QED
        BY <1>a, <2>2, <4>1 DEF TypeInv, Stacked
    <3>4. DOMAIN operands' = 1 .. Len(operands') /\ phase' # "sets"
      BY <1>i, <2>1
    <3> QED
      BY <2>1, <3>1, <3>2, <3>3, <3>4 DEF Stacked
  <2> QED
    BY <2>3, <2>4 DEF TypeInv
<1>11. CASE EndCall
  <2>1. /\ Depth > 1 /\ phase = "values" /\ Above = 0 /\ UNCHANGED <<phase, held>>
        /\ scopes' = Front(scopes) /\ Collect(scopes', operands) /\ Push(Source(<<Nil>>))
    BY <1>11 DEF EndCall
  <2>2. Memory'
    BY <1>0, <2>1, CollectTyped
  <2>3. <<Nil>> \in Seq(Values) /\ Len(<<Nil>>) = 1 /\ Len(<<Nil>>) <= MaxVals
    OBVIOUS
  <2>4. Source(<<Nil>>) \in Entries /\ Source(<<Nil>>).next <= Len(Source(<<Nil>>).vals) + 1
    <3>1. Source(<<Nil>>) \in Entries /\ Source(<<Nil>>).next <= Len(<<Nil>>) + 1
      BY <2>3, EntriesAre
    <3>2. Source(<<Nil>>).vals = <<Nil>>
      BY DEF Source
    <3> QED
      BY <3>1, <3>2
  <2>5. Below(0) = operands /\ 0 \in 0 .. Len(operands) /\ 0 <= Above
    BY <1>b, <2>1 DEF Below
  <2>6. Len(operands') <= MaxOperands /\ operands' = Append(Below(0), Source(<<Nil>>))
    BY <1>d, <2>1, <2>4, <2>5 DEF Push
  <2> QED
    BY <1>i, <2>1, <2>2, <2>4, <2>5, <2>6
<1>12. CASE Return
  <2>1. /\ Depth > 1 /\ phase = "values" /\ Len(Gathered(Above)) <= MaxVals
        /\ operands' = Append(Below(Above), Source(Gathered(Above)))
        /\ Len(operands') <= MaxOperands /\ scopes' = Front(scopes)
        /\ Collect(scopes', operands') /\ UNCHANGED <<phase, held>>
    BY <1>12 DEF Return
  <2>2. Memory' /\ Above \in 0 .. Len(operands) /\ Above <= Above
    BY <1>0, <1>a, <2>1, CollectTyped
  <2>3. /\ Source(Gathered(Above)) \in Entries
        /\ Source(Gathered(Above)).next <= Len(Source(Gathered(Above)).vals) + 1
    BY <1>g, <2>1, <2>2
  <2> QED
    BY <1>i, <2>1, <2>2, <2>3
<1>j. ASSUME Memory', held' \in Values, UNCHANGED <<scopes, operands, phase>>
      PROVE  TypeInv'
  <2>1. Scope.base <= Len(operands)
    BY <1>a, <1>b
  <2> QED
    BY <1>0, <1>b, <1>j, <2>1, StacksTyped
<1>13. ASSUME NEW n \in Names, Listen(n) PROVE TypeInv'
  <2>1. Memory' /\ held' \in Values /\ UNCHANGED <<scopes, operands, phase>>
    BY <1>13, <1>0, <1>a DEF Listen, Memory
  <2> QED
    BY <1>j, <2>1
<1>14. CASE CollectElsewhere
  <2>1. Memory' /\ held' \in Values /\ UNCHANGED <<scopes, operands, phase>>
    BY <1>14, <1>0, CollectTyped DEF CollectElsewhere
  <2> QED
    BY <1>j, <2>1
<1>15. CASE UNCHANGED vars
  <2>1. Memory' /\ held' \in Values /\ UNCHANGED <<scopes, operands, phase>>
    BY <1>15, <1>0 DEF vars, Memory
  <2> QED
    BY <1>j, <2>1
<1> QED
  BY <1>1, <1>2, <1>3, <1>4, <1>5, <1>6, <1>7, <1>8, <1>9, <1>10, <1>11, <1>12, <1>13, <1>14, <1>15
     DEF Next

(* Every state has its types, the entries of the operand stack never       *)
(* outgrow it, and the scopes are stacked: a function has no less on the   *)
(* operand stack than its caller had, no VAR_SRC is read beyond its own    *)
(* end, and it is the only entry while it is being assigned.               *)
THEOREM CollectorTyped == Spec => [](TypeOK /\ Stacked)
<1>1. Spec => []TypeInv
  BY InitTyped, StepTyped, PTL DEF Spec
<1>2. TypeInv => TypeOK /\ Stacked
  BY TypeOKIs DEF TypeInv
<1> QED
  BY <1>1, <1>2, PTL

-----------------------------------------------------------------------------
(* What leads to what, for the items that there are or will be.            *)
HeldIn(its, S)  == (UNION {ToSet(its[o]) : o \in S}) \ {Nil}
ReachIn(its, S) == LET r[n \in 0 .. MaxObjects] ==
                         IF n = 0 THEN S ELSE LET T == r[n - 1] IN T \cup HeldIn(its, T)
                   IN  r[MaxObjects]

(* Marking ends with all that S leads to, and nothing else: MaxObjects     *)
(* rounds are enough, since each but the last adds a variable.             *)
LEMMA ReachIs ==
    ASSUME NEW its \in [Objects -> Seq(Values)], NEW S \in SUBSET Objects
    PROVE  /\ ReachIn(its, S) \in SUBSET Objects
           /\ S \subseteq ReachIn(its, S)
           /\ HeldIn(its, ReachIn(its, S)) \subseteq ReachIn(its, S)
           /\ \A T \in SUBSET Objects :
                 S \subseteq T /\ HeldIn(its, T) \subseteq T => ReachIn(its, S) \subseteq T
<1> DEFINE N == MaxObjects
           X == SUBSET Objects
           more == [T \in X |-> T \cup HeldIn(its, T)]
           step == [n \in Nat |-> more]
           Is(f) == f = [n \in 0 .. N |-> IF n = 0 THEN S ELSE f[n - 1] \cup HeldIn(its, f[n - 1])]
           r[n \in 0 .. N] == IF n = 0 THEN S ELSE r[n - 1] \cup HeldIn(its, r[n - 1])
<1>1. N \in Nat
  BY Constants
<1> HIDE DEF N
<1>2. ASSUME NEW T \in X PROVE HeldIn(its, T) \in X
  <2>1. \A o \in T : its[o] \in Seq(Values)
    OBVIOUS
  <2>2. \A o \in T : ToSet(its[o]) \subseteq Values
    BY <2>1 DEF ToSet
  <2> QED
    BY <2>2, Constants DEF HeldIn
<1>3. more \in [X -> X] /\ S \in X /\ \A T \in X : more[T] = T \cup HeldIn(its, T)
  BY <1>2
<1>4. step \in [Nat -> [X -> X]] /\ \A n \in Nat : step[n] = more
  BY <1>3
<1> HIDE DEF X, more, step
<1>5. PICK f : Recursion(f, X, S, step, N)
  BY <1>1, <1>3, <1>4, RecursionExists
<1>6. /\ f \in [0 .. N -> X] /\ f[0] = S
      /\ \A n \in 1 .. N : f[n] = f[n - 1] \cup HeldIn(its, f[n - 1])
  <2>1. f \in [0 .. N -> X] /\ f[0] = S /\ \A n \in 1 .. N : f[n] = step[n][f[n - 1]]
    BY <1>5 DEF Recursion
  <2>2. ASSUME NEW n \in 1 .. N PROVE f[n] = f[n - 1] \cup HeldIn(its, f[n - 1])
    <3>1. n - 1 \in 0 .. N /\ n \in Nat
      BY <1>1
    <3>2. f[n - 1] \in X
      BY <2>1, <3>1
    <3> QED
      BY <1>3, <1>4, <2>1, <3>1, <3>2
  <2> QED
    BY <2>1, <2>2
<1>7. Is(f)
  <2>1. f = [n \in 0 .. N |-> f[n]]
    BY <1>6
  <2>2. \A n \in 0 .. N : f[n] = IF n = 0 THEN S ELSE f[n - 1] \cup HeldIn(its, f[n - 1])
    BY <1>1, <1>6
  <2> QED
    BY <2>1, <2>2
<1>8. Is(r)
  <2>1. r = CHOOSE h : Is(h)
    OBVIOUS
  <2> QED
    BY <1>7, <2>1
<1>9. ReachIn(its, S) = r[N]
  BY DEF ReachIn, N
<1> HIDE DEF r
<1>10. /\ r[0] = S /\ DOMAIN r = 0 .. N
       /\ \A n \in 1 .. N : r[n] = r[n - 1] \cup HeldIn(its, r[n - 1])
  <2> DEFINE Grow(T) == T \cup HeldIn(its, T)
  <2>1. r = [n \in 0 .. N |-> IF n = 0 THEN S ELSE Grow(r[n - 1])]
    BY <1>8
  <2> HIDE DEF Grow, Is
  <2>2. \A n \in 0 .. N : r[n] = IF n = 0 THEN S ELSE Grow(r[n - 1])
    BY <2>1
  <2>3. DOMAIN r = 0 .. N
    BY <2>1
  <2>4. r[0] = S /\ \A n \in 1 .. N : r[n] = Grow(r[n - 1])
    BY <1>1, <2>2
  <2> QED
    BY <2>3, <2>4 DEF Grow
<1> HIDE DEF Is
<1>11. r \in [0 .. N -> X]
  <2> DEFINE A == {n \in Nat : n <= N => r[n] \in X}
  <2>1. 0 \in A
    BY <1>3, <1>10
  <2>2. ASSUME NEW n \in A PROVE n + 1 \in A
    <3> SUFFICES ASSUME n + 1 <= N PROVE r[n + 1] \in X
      OBVIOUS
    <3>1. n + 1 \in 1 .. N /\ (n + 1) - 1 = n /\ n <= N
      BY <1>1
    <3>2. r[n + 1] = r[n] \cup HeldIn(its, r[n]) /\ r[n] \in X
      BY <1>10, <3>1
    <3> QED
      BY <1>2, <3>2 DEF X
  <2>3. A = Nat
    <3> HIDE DEF A
    <3>1. A \in SUBSET Nat
      BY DEF A
    <3> QED
      BY <2>1, <2>2, <3>1, AllNumbers
  <2>4. \A n \in 0 .. N : r[n] \in X
    BY <1>1, <2>3
  <2>5. r = [n \in 0 .. N |-> r[n]]
    <3> DEFINE Grow(T) == T \cup HeldIn(its, T)
    <3>1. r = [n \in 0 .. N |-> IF n = 0 THEN S ELSE Grow(r[n - 1])]
      BY <1>8 DEF Is
    <3> HIDE DEF Grow
    <3> QED
      BY <3>1
  <2> QED
    BY <2>4, <2>5
<1>12. \A n \in 1 .. N : r[n] = more[r[n - 1]]
  <2> TAKE n \in 1 .. N
  <2>1. n - 1 \in 0 .. N
    BY <1>1
  <2>2. r[n - 1] \in X
    BY <1>11, <2>1
  <2> QED
    BY <1>3, <1>10, <2>2
<1>13. /\ IsFiniteSet(Objects) /\ Cardinality(Objects) <= N
       /\ \A T \in SUBSET Objects : T \subseteq more[T]
       /\ more \in [SUBSET Objects -> SUBSET Objects] /\ r \in [0 .. N -> SUBSET Objects]
  <2>1. IsFiniteSet(Objects) /\ Cardinality(Objects) = N /\ N <= N
    BY <1>1, Constants DEF N
  <2>2. \A T \in SUBSET Objects : T \subseteq more[T]
    BY <1>3 DEF X
  <2>3. more \in [SUBSET Objects -> SUBSET Objects] /\ r \in [0 .. N -> SUBSET Objects]
    BY <1>3, <1>11 DEF X
  <2> QED
    BY <2>1, <2>2, <2>3
<1>14. /\ more[r[N]] = r[N] /\ r[0] \subseteq r[N]
       /\ \A T \in SUBSET Objects : r[0] \subseteq T /\ more[T] = T
                                     /\ (\A U \in SUBSET T : more[U] \subseteq more[T])
                                    => r[N] \subseteq T
  <2> DEFINE Y == Objects
  <2>1. /\ IsFiniteSet(Y) /\ Cardinality(Y) <= N /\ more \in [SUBSET Y -> SUBSET Y]
        /\ \A T \in SUBSET Y : T \subseteq more[T]
        /\ r \in [0 .. N -> SUBSET Y] /\ \A n \in 1 .. N : r[n] = more[r[n - 1]]
    BY <1>12, <1>13
  <2> HIDE DEF Y
  <2>2. /\ more[r[N]] = r[N] /\ r[0] \subseteq r[N]
        /\ \A T \in SUBSET Y : r[0] \subseteq T /\ more[T] = T
                                /\ (\A U \in SUBSET T : more[U] \subseteq more[T])
                               => r[N] \subseteq T
    BY ONLY <1>1, <2>1, GrownUp, ZenonT(60)
  <2> QED
    BY <2>2 DEF Y
<1>15. r[N] \in SUBSET Objects
  BY <1>1, <1>13
<1>16. HeldIn(its, r[N]) \subseteq r[N]
  BY <1>3, <1>14, <1>15 DEF X
<1>17. ASSUME NEW T \in SUBSET Objects, S \subseteq T, HeldIn(its, T) \subseteq T
       PROVE  r[N] \subseteq T
  <2>1. more[T] = T
    BY <1>3, <1>17 DEF X
  <2>2. \A U \in SUBSET T : more[U] \subseteq more[T]
    BY <1>3, <1>17 DEF X, HeldIn
  <2> QED
    BY <1>10, <1>14, <1>17, <2>1, <2>2
<1> QED
  BY <1>9, <1>10, <1>14, <1>15, <1>16, <1>17

-----------------------------------------------------------------------------
(* NoDangling.                                                             *)

ArgsOf(ss)    == (UNION {ToSet(ss[i].args) : i \in DOMAIN ss}) \ {Nil}
PendingOf(os) == (UNION {ToSet(Pending(os[i])) : i \in DOMAIN os}) \ {Nil}
RootsOf(ss, os, h) == AllNamed(ss) \cup ({h} \ {Nil}) \cup ArgsOf(ss) \cup PendingOf(os)

(* In phase "values" nothing has been taken from any VAR_SRC, in phase     *)
(* "sets" from the top one alone.                                          *)
Unread == \A i \in DOMAIN operands :
             operands[i].next = 1 \/ (phase = "sets" /\ i = Len(operands))

(* No VAR_SRC waits below the entries of the function that runs.           *)
NoneWaits == \A i \in 1 .. Scope.base : ~operands[i].src

(* A function's arguments have names in the functions that called it, and  *)
(* those do not change before it ends.                                     *)
ArgsNamed == \A i \in DOMAIN scopes :
                ToSet(scopes[i].args) \ {Nil} \subseteq UNION {Named(scopes[j]) : j \in 1 .. i - 1}

HeldSafe == held # Nil => gc[held] = "SAFE"

SafeInv == Unread /\ NoneWaits /\ ArgsNamed /\ HeldSafe /\ NoDangling

LEMMA RestWithin ==
    ASSUME NEW V, NEW s \in Seq(V), NEW a \in Nat, a >= 1
    PROVE  ToSet(SubSeq(s, a, Len(s))) \subseteq ToSet(s)
<1> DEFINE t == SubSeq(s, a, Len(s))
<1>1. \A j \in 1 .. Len(t) : j + a - 1 \in 1 .. Len(s) /\ t[j] = s[j + a - 1]
  OBVIOUS
<1>2. DOMAIN t = 1 .. Len(t) /\ DOMAIN s = 1 .. Len(s)
  OBVIOUS
<1> HIDE DEF t
<1>3. ToSet(t) \subseteq ToSet(s)
  BY <1>1, <1>2 DEF ToSet
<1> QED
  BY <1>3 DEF t

LEMMA RootsIn ==
    ASSUME NEW ss \in Seq(ScopeRecords), NEW os \in Seq(Entries), NEW h \in Values
    PROVE  /\ RootsOf(ss, os, h) \in SUBSET Objects
           /\ AllNamed(ss) \cup OnStack(os) \in SUBSET Objects
<1> USE Constants
<1>1. AllNamed(ss) \subseteq Objects
  <2>1. \A i \in DOMAIN ss : ss[i] \in ScopeRecords
    OBVIOUS
  <2>2. \A i \in DOMAIN ss : ss[i].names \in [Names -> Values]
    BY <2>1 DEF ScopeRecords
  <2> QED
    BY <2>2 DEF AllNamed, Named
<1>2. ArgsOf(ss) \subseteq Objects
  <2>1. Lists(MaxItems) = {s \in Seq(Values) : Len(s) <= MaxItems}
    BY ListsAre
  <2>2. \A i \in DOMAIN ss : ss[i] \in ScopeRecords
    OBVIOUS
  <2>3. \A i \in DOMAIN ss : ss[i].args \in Seq(Values)
    BY <2>1, <2>2 DEF ScopeRecords
  <2>4. \A i \in DOMAIN ss : ToSet(ss[i].args) \subseteq Values
    BY <2>3 DEF ToSet
  <2> QED
    BY <2>4 DEF ArgsOf
<1>3. \A i \in DOMAIN os : ToSet(os[i].vals) \subseteq Values /\ ToSet(Pending(os[i])) \subseteq ToSet(os[i].vals)
  <2> TAKE i \in DOMAIN os
  <2>1. os[i] \in Entries
    OBVIOUS
  <2>2. os[i].vals \in Seq(Values) /\ os[i].next \in 1 .. MaxVals + 1
    BY <2>1, EntriesAre
  <2>3. ToSet(os[i].vals) \subseteq Values
    BY <2>2 DEF ToSet
  <2>4. ToSet(Pending(os[i])) \subseteq ToSet(os[i].vals)
    BY <2>2, RestWithin DEF Pending
  <2> QED
    BY <2>3, <2>4
<1>4. PendingOf(os) \subseteq Objects /\ OnStack(os) \subseteq Objects
  BY <1>3 DEF PendingOf, OnStack
<1> QED
  BY <1>1, <1>2, <1>4 DEF RootsOf

(* What is needed, and what will be.                                       *)
LEMMA NeededIs ==
    ASSUME TypeInv
    PROVE  /\ Needed \in SUBSET Objects
           /\ RootsOf(scopes, operands, held) \subseteq Needed
           /\ \A o \in Needed : ToSet(items[o]) \ {Nil} \subseteq Needed
<1> DEFINE S == RootsOf(scopes, operands, held)
<1>1. S \in SUBSET Objects
  BY RootsIn DEF TypeInv, Typed
<1>2. items \in [Objects -> Seq(Values)]
  BY ItemsAre DEF TypeInv, Typed
<1>3. Needed = ReachIn(items, S)
  BY DEF Needed, Reach, ReachIn, HeldBy, HeldIn, RootsOf, ArgsOf, PendingOf
<1> HIDE DEF S
<1>4. Needed \in SUBSET Objects /\ S \subseteq Needed /\ HeldIn(items, Needed) \subseteq Needed
  BY <1>1, <1>2, <1>3, ReachIs
<1>5. \A o \in Needed : ToSet(items[o]) \ {Nil} \subseteq Needed
  BY <1>4 DEF HeldIn
<1> QED
  BY <1>4, <1>5 DEF S

LEMMA NeededWithin ==
    ASSUME TypeInv', NEW T \in SUBSET Objects,
           RootsOf(scopes', operands', held') \subseteq T,
           \A o \in T : ToSet(items'[o]) \ {Nil} \subseteq T
    PROVE  Needed' \subseteq T
<1> DEFINE S == RootsOf(scopes', operands', held')
<1>1. items' \in [Objects -> Seq(Values)]
  <2>1. Lists(MaxItems) = {s \in Seq(Values) : Len(s) <= MaxItems}
    BY Constants, ListsAre
  <2>2. items' \in [Objects -> Lists(MaxItems)]
    BY DEF TypeInv, Typed
  <2> QED
    BY <2>1, <2>2
<1>2. Needed' = ReachIn(items', S)
  BY DEF Needed, Reach, ReachIn, HeldBy, HeldIn, RootsOf, ArgsOf, PendingOf
<1>3. S \in SUBSET Objects /\ HeldIn(items', T) \subseteq T
  BY DEF HeldIn
<1> HIDE DEF S
<1>4. S \subseteq T
  BY DEF S
<1> QED
  BY <1>1, <1>2, <1>3, <1>4, ReachIs

(* An action that frees nothing.                                           *)
LEMMA NewAlive ==
    ASSUME TypeInv, TypeInv', NoDangling, NEW k \in {"leaf", "list"}, NEW its, New(k, its),
           ToSet(its) \ {Nil} \subseteq Needed,
           RootsOf(scopes', operands', held') \subseteq Needed \cup {Fresh}
    PROVE  NoDangling'
<1> DEFINE T == Needed \cup {Fresh}
<1>1. Fresh \in Objects /\ kind[Fresh] = "free" /\ T \in SUBSET Objects
  BY FreshIs, NeededIs DEF New
<1>2. kind' = [kind EXCEPT ![Fresh] = k] /\ items' = [items EXCEPT ![Fresh] = its]
  BY DEF New
<1>3. \A o \in Needed : kind[o] # "free" /\ o # Fresh /\ items'[o] = items[o] /\ kind'[o] = kind[o]
  BY <1>1, <1>2 DEF NoDangling, TypeInv, Typed
<1>4. kind'[Fresh] # "free" /\ items'[Fresh] = its
  BY <1>1, <1>2 DEF TypeInv, Typed
<1>5. \A o \in T : ToSet(items'[o]) \ {Nil} \subseteq T
  BY <1>3, <1>4, NeededIs
<1> HIDE DEF T
<1>6. Needed' \subseteq T
  BY <1>1, <1>5, NeededWithin DEF T
<1> QED
  BY <1>3, <1>4, <1>6 DEF NoDangling, T

LEMMA SameAlive ==
    ASSUME TypeInv, TypeInv', NoDangling, UNCHANGED <<kind, items>>,
           RootsOf(scopes', operands', held') \subseteq Needed
    PROVE  NoDangling'
<1>1. Needed' \subseteq Needed
  BY NeededIs, NeededWithin
<1> QED
  BY <1>1 DEF NoDangling

(* What the collector marks.                                               *)
LEMMA MarkedIs ==
    ASSUME TypeInv, NEW ss \in Seq(ScopeRecords), NEW os \in Seq(Entries)
    PROVE  /\ Marked(ss, os) \in SUBSET Objects
           /\ AllNamed(ss) \cup OnStack(os) \cup Safe \subseteq Marked(ss, os)
           /\ \A o \in Marked(ss, os) : ToSet(items[o]) \ {Nil} \subseteq Marked(ss, os)
           /\ \A T \in SUBSET Objects :
                 /\ AllNamed(ss) \cup OnStack(os) \cup Safe \subseteq T
                 /\ \A o \in T : ToSet(items[o]) \ {Nil} \subseteq T
                 => Marked(ss, os) \subseteq T
<1> DEFINE M == Marked(ss, os)
           S == AllNamed(ss) \cup OnStack(os) \cup Safe
<1>1. S \in SUBSET Objects
  <2>1. AllNamed(ss) \cup OnStack(os) \in SUBSET Objects
    BY RootsIn, Constants
  <2> QED
    BY <2>1 DEF Safe
<1>2. items \in [Objects -> Seq(Values)]
  BY ItemsAre DEF TypeInv, Typed
<1>3. M = ReachIn(items, S)
  BY DEF Marked, Reach, ReachIn, HeldBy, HeldIn
<1> HIDE DEF M, S
<1>4. /\ M \in SUBSET Objects /\ S \subseteq M /\ HeldIn(items, M) \subseteq M
      /\ \A T \in SUBSET Objects : S \subseteq T /\ HeldIn(items, T) \subseteq T => M \subseteq T
  BY <1>1, <1>2, <1>3, ReachIs
<1>5. \A T \in SUBSET Objects :
         HeldIn(items, T) \subseteq T <=> \A o \in T : ToSet(items[o]) \ {Nil} \subseteq T
  BY DEF HeldIn
<1> QED
  BY <1>4, <1>5 DEF M, S

LEMMA MarkedGrows ==
    ASSUME TypeInv, NEW ss \in Seq(ScopeRecords), NEW os \in Seq(Entries), NEW more \in Seq(Entries),
           OnStack(os) \subseteq OnStack(more)
    PROVE  Marked(ss, os) \subseteq Marked(ss, more)
<1>1. /\ Marked(ss, more) \in SUBSET Objects
      /\ AllNamed(ss) \cup OnStack(os) \cup Safe \subseteq Marked(ss, more)
      /\ \A o \in Marked(ss, more) : ToSet(items[o]) \ {Nil} \subseteq Marked(ss, more)
  BY MarkedIs
<1> QED
  BY <1>1, MarkedIs

(* An action that collects: what is needed then was needed before, and the *)
(* collector has marked it.                                                *)
LEMMA CollectAlive ==
    ASSUME TypeInv, TypeInv', NoDangling, HeldSafe,
           NEW ss \in Seq(ScopeRecords), NEW os \in Seq(Entries), Collect(ss, os), UNCHANGED held,
           RootsOf(scopes', operands', held') \subseteq Needed,
           AllNamed(scopes') \cup ArgsOf(scopes') \cup PendingOf(operands') \subseteq Marked(ss, os)
    PROVE  NoDangling' /\ HeldSafe'
<1> DEFINE M == Marked(ss, os)
           S == AllNamed(ss) \cup OnStack(os) \cup Safe
<1>1. M \in SUBSET Objects /\ S \subseteq M /\ \A o \in M : ToSet(items[o]) \ {Nil} \subseteq M
  BY MarkedIs
<1>2. held # Nil => held \in M
  <2> SUFFICES ASSUME held # Nil PROVE held \in Safe
    BY <1>1
  <2>1. held \in Objects /\ held \in Needed
    BY NeededIs, Constants DEF TypeInv, Typed, RootsOf
  <2> QED
    BY <2>1 DEF Safe, HeldSafe, NoDangling
<1>3. CASE UNCHANGED <<kind, gc, items>>
  BY <1>3, SameAlive DEF HeldSafe
<1>4. CASE /\ kind'  = [o \in Objects |-> IF o \in M THEN kind[o] ELSE "free"]
           /\ gc'    = [o \in Objects |-> IF o \in M THEN gc[o] ELSE "OLD"]
           /\ items' = [o \in Objects |-> IF o \in M THEN items[o] ELSE <<>>]
  <2> HIDE DEF M, S
  <2> DEFINE T == Needed \cap M
  <2>1. \A o \in T : o \in Objects /\ kind'[o] = kind[o] /\ items'[o] = items[o] /\ kind[o] # "free"
    BY <1>1, <1>4 DEF NoDangling
  <2>2. T \in SUBSET Objects /\ \A o \in T : ToSet(items'[o]) \ {Nil} \subseteq T
    BY <1>1, <2>1, NeededIs
  <2>3. RootsOf(scopes', operands', held') \subseteq T
    BY <1>2 DEF RootsOf, M
  <2> HIDE DEF T
  <2>4. Needed' \subseteq T
    BY <2>2, <2>3, NeededWithin
  <2>5. HeldSafe'
    <3> SUFFICES ASSUME held # Nil PROVE gc'[held] = "SAFE"
      BY DEF HeldSafe
    <3> QED
      BY <1>1, <1>2, <1>4 DEF HeldSafe
  <2> QED
    BY <2>1, <2>4, <2>5 DEF NoDangling
<1> QED
  BY <1>3, <1>4 DEF Collect

(* What an entry that is put upon others adds to what is needed.           *)
LEMMA RootsUpon ==
    ASSUME TypeInv, NEW k \in 0 .. Len(operands), NEW e \in Entries, e.next = 1,
           operands' = Append(Below(k), e)
    PROVE  /\ PendingOf(operands') \subseteq PendingOf(operands) \cup (ToSet(e.vals) \ {Nil})
           /\ DOMAIN operands' = 1 .. Len(operands) - k + 1 /\ Len(operands') = Len(operands) - k + 1
           /\ operands'[Len(operands) - k + 1] = e
           /\ \A i \in 1 .. Len(operands) - k : operands'[i] = operands[i] /\ i \in DOMAIN operands
<1> DEFINE n == Len(operands) - k
<1>1. e.next <= Len(e.vals) + 1 /\ Pending(e) = e.vals
  <2>1. e.vals \in Seq(Values) /\ Pending(e) = e.vals
    BY EntriesAre
  <2> QED
    BY <2>1
<1>2. /\ operands' \in Seq(Entries) /\ Len(operands') = n + 1 /\ operands'[n + 1] = e
      /\ \A i \in 1 .. n : operands'[i] = operands[i]
  BY <1>1, PutUpon
<1>3. n \in Nat /\ DOMAIN operands' = 1 .. n + 1 /\ \A i \in 1 .. n : i \in DOMAIN operands
  BY <1>2, OperandsAre
<1> HIDE DEF n
<1>4. \A i \in 1 .. n + 1 : i \in 1 .. n \/ i = n + 1
  BY <1>3
<1>5. PendingOf(operands') \subseteq PendingOf(operands) \cup (ToSet(e.vals) \ {Nil})
  BY <1>1, <1>2, <1>3, <1>4 DEF PendingOf
<1> QED
  BY <1>2, <1>3, <1>5 DEF n

(* What the entries hold is needed, in phase "values" all of it.           *)
LEMMA ValuesNeeded ==
    ASSUME TypeInv, SafeInv, phase = "values"
    PROVE  \A i \in 1 .. Len(operands) :
              /\ ToSet(operands[i].vals) \ {Nil} \subseteq PendingOf(operands)
              /\ Popped(operands[i]) # Nil => Popped(operands[i]) \in PendingOf(operands)
<1> SUFFICES ASSUME NEW i \in 1 .. Len(operands)
             PROVE  /\ ToSet(operands[i].vals) \ {Nil} \subseteq PendingOf(operands)
                    /\ Popped(operands[i]) # Nil => Popped(operands[i]) \in PendingOf(operands)
  OBVIOUS
<1>1. operands[i] \in Entries /\ i \in DOMAIN operands /\ operands[i].next = 1
  BY OperandsAre DEF SafeInv, Unread
<1>2. Pending(operands[i]) = operands[i].vals /\ operands[i].vals \in Seq(Values)
  BY <1>1, EntriesAre
<1>3. ToSet(operands[i].vals) \ {Nil} \subseteq PendingOf(operands)
  BY <1>1, <1>2 DEF PendingOf
<1>4. Popped(operands[i]) # Nil => Popped(operands[i]) \in ToSet(operands[i].vals)
  <2> SUFFICES ASSUME Popped(operands[i]) # Nil
               PROVE  Popped(operands[i]) \in ToSet(operands[i].vals)
    OBVIOUS
  <2>1. operands[i].vals # <<>> /\ Popped(operands[i]) = Head(operands[i].vals)
    BY DEF Popped
  <2>2. 1 \in DOMAIN operands[i].vals /\ Head(operands[i].vals) = operands[i].vals[1]
    BY <1>2, <2>1
  <2> QED
    BY <2>1, <2>2 DEF ToSet
<1> QED
  BY <1>3, <1>4

LEMMA GatheredNeeded ==
    ASSUME TypeInv, SafeInv, phase = "values", NEW k \in 0 .. Len(operands)
    PROVE  ToSet(Gathered(k)) \ {Nil} \subseteq PendingOf(operands)
<1>1. \A i \in Len(operands) - k + 1 .. Len(operands) : i \in 1 .. Len(operands)
  BY OperandsAre
<1>2. ToSet(Gathered(k)) = UNION {ToSet(operands[i].vals) : i \in Len(operands) - k + 1 .. Len(operands)}
  BY GatheredIs DEF TypeInv
<1> QED
  BY <1>1, <1>2, ValuesNeeded

(* A stack without a VAR_SRC: the collector marks all its values.          *)
LEMMA AllOnStack ==
    ASSUME NEW os \in Seq(Entries), \A i \in DOMAIN os : ~os[i].src
    PROVE  PendingOf(os) \subseteq OnStack(os)
<1>1. \A i \in DOMAIN os : ToSet(Pending(os[i])) \subseteq ToSet(os[i].vals)
  <2> TAKE i \in DOMAIN os
  <2>1. os[i] \in Entries
    OBVIOUS
  <2>2. os[i].vals \in Seq(Values) /\ os[i].next \in 1 .. MaxVals + 1
    BY <2>1, EntriesAre
  <2> QED
    BY <2>2, RestWithin, Constants DEF Pending
<1> QED
  BY <1>1 DEF PendingOf, OnStack

LEMMA PendingUpon ==
    ASSUME NEW os \in Seq(Entries), NEW e \in Entries, e.next = 1
    PROVE  /\ PendingOf(Append(os, e)) \subseteq PendingOf(os) \cup (ToSet(e.vals) \ {Nil})
           /\ OnStack(os) \subseteq OnStack(Append(os, e))
<1> DEFINE n == Len(os)
           more == Append(os, e)
<1>1. /\ n \in Nat /\ DOMAIN os = 1 .. n /\ DOMAIN more = 1 .. n + 1
      /\ more[n + 1] = e /\ \A i \in 1 .. n : more[i] = os[i]
  OBVIOUS
<1>2. Pending(e) = e.vals
  BY EntriesAre
<1> HIDE DEF n, more
<1>3. \A i \in 1 .. n : i \in 1 .. n + 1
  BY <1>1
<1>4. \A i \in 1 .. n + 1 : i \in 1 .. n \/ i = n + 1
  BY <1>1
<1>5. PendingOf(more) \subseteq PendingOf(os) \cup (ToSet(e.vals) \ {Nil})
  BY <1>1, <1>2, <1>4 DEF PendingOf
<1>6. OnStack(os) \subseteq OnStack(more)
  BY <1>1, <1>3 DEF OnStack
<1> QED
  BY <1>5, <1>6 DEF more

LEMMA ArgsMarked ==
    ASSUME NEW ss \in Seq(ScopeRecords),
           \A i \in DOMAIN ss :
              ToSet(ss[i].args) \ {Nil} \subseteq UNION {Named(ss[j]) : j \in 1 .. i - 1}
    PROVE  ArgsOf(ss) \subseteq AllNamed(ss)
<1>1. \A i \in DOMAIN ss : \A j \in 1 .. i - 1 : j \in DOMAIN ss
  <2>1. DOMAIN ss = 1 .. Len(ss) /\ Len(ss) \in Nat
    OBVIOUS
  <2> QED
    BY <2>1
<1> QED
  BY <1>1 DEF ArgsOf, AllNamed

LEMMA InitSafe == Init => SafeInv
<1> SUFFICES ASSUME Init PROVE SafeInv
  OBVIOUS
<1>1. TypeInv
  BY InitTyped
<1>2. DOMAIN operands = {} /\ DOMAIN scopes = {1} /\ scopes[1] = Globals /\ Scope = Globals /\ held = Nil
  BY DEF Init, Scope, Last
<1>3. AllNamed(scopes) = {} /\ ArgsOf(scopes) = {} /\ PendingOf(operands) = {}
  BY <1>2 DEF AllNamed, Named, ArgsOf, PendingOf, Globals, ToSet
<1>4. RootsOf(scopes, operands, held) = {}
  BY <1>2, <1>3 DEF RootsOf
<1>5. Needed = {}
  <2> DEFINE S == RootsOf(scopes, operands, held)
  <2>1. items \in [Objects -> Seq(Values)]
    BY <1>1, ItemsAre DEF TypeInv, Typed
  <2>2. Needed = ReachIn(items, S)
    BY DEF Needed, Reach, ReachIn, HeldBy, HeldIn, RootsOf, ArgsOf, PendingOf
  <2>3. S = {}
    BY <1>4
  <2> HIDE DEF S
  <2>4. HeldIn(items, {}) \subseteq {} /\ {} \in SUBSET Objects
    BY DEF HeldIn
  <2> QED
    BY <2>1, <2>2, <2>3, <2>4, ReachIs
<1>6. NoDangling
  BY <1>5 DEF NoDangling
<1>7. Unread /\ HeldSafe
  BY <1>2 DEF Unread, HeldSafe
<1>8. NoneWaits /\ ArgsNamed
  BY <1>2 DEF NoneWaits, ArgsNamed, Globals, ToSet
<1> QED
  BY <1>6, <1>7, <1>8 DEF SafeInv

LEMMA StepSafe ==
    ASSUME Careful = Hazards, TypeInv, TypeInv', SafeInv, [Next]_vars
    PROVE  SafeInv'
<1> USE Constants
<1>a. /\ Len(operands) \in Nat /\ DOMAIN operands = 1 .. Len(operands) /\ operands \in Seq(Entries)
      /\ \A i \in 1 .. Len(operands) : operands[i] \in Entries
      /\ Depth \in Nat /\ Depth > 0 /\ DOMAIN scopes = 1 .. Depth /\ Scope = scopes[Depth]
      /\ scopes \in Seq(ScopeRecords) /\ Len(scopes) = Depth
      /\ Scope.base \in Nat /\ Above = Len(operands) - Scope.base /\ Above \in 0 .. Len(operands)
  BY OperandsAre, ScopeIs DEF TypeInv, Typed, Depth
<1>b. /\ Needed \in SUBSET Objects /\ \A o \in Needed : ToSet(items[o]) \ {Nil} \subseteq Needed
      /\ RootsOf(scopes, operands, held) \subseteq Needed
      /\ AllNamed(scopes) \subseteq Needed /\ ArgsOf(scopes) \subseteq Needed
      /\ PendingOf(operands) \subseteq Needed /\ {held} \ {Nil} \subseteq Needed
      /\ NoDangling /\ HeldSafe /\ Unread /\ NoneWaits /\ ArgsNamed
  <2>1. /\ Needed \in SUBSET Objects /\ \A o \in Needed : ToSet(items[o]) \ {Nil} \subseteq Needed
        /\ RootsOf(scopes, operands, held) \subseteq Needed
    BY NeededIs
  <2> QED
    BY <2>1 DEF RootsOf, SafeInv
<1>c. \A n \in Names : Scope.names[n] # Nil => Scope.names[n] \in AllNamed(scopes)
  <2>1. Depth \in DOMAIN scopes
    BY <1>a
  <2> QED
    BY <1>a, <2>1 DEF AllNamed, Named
<1>k. ASSUME scopes' = scopes PROVE ArgsNamed'
  <2>1. \A i \in DOMAIN scopes :
           UNION {Named(scopes'[j]) : j \in 1 .. i - 1} = UNION {Named(scopes[j]) : j \in 1 .. i - 1}
    BY <1>k
  <2>2. \A i \in DOMAIN scopes :
           ToSet(scopes[i].args) \ {Nil} \subseteq UNION {Named(scopes'[j]) : j \in 1 .. i - 1}
    BY <1>b, <2>1 DEF ArgsNamed
  <2>3. \A i \in DOMAIN scopes' :
           ToSet(scopes'[i].args) \ {Nil} \subseteq UNION {Named(scopes'[j]) : j \in 1 .. i - 1}
    BY <1>k, <2>2
  <2> QED
    BY <2>3 DEF ArgsNamed
(* An entry is put upon all but k, in the same function.                   *)
<1>d. ASSUME NEW k \in 0 .. Len(operands), k <= Above, NEW e \in Entries, e.next = 1,
             operands' = Append(Below(k), e), phase = "values", UNCHANGED <<scopes, held>>
      PROVE  /\ Unread' /\ NoneWaits' /\ ArgsNamed'
             /\ RootsOf(scopes', operands', held') \subseteq Needed \cup (ToSet(e.vals) \ {Nil})
  <2> DEFINE n == Len(operands) - k
  <2>1. /\ PendingOf(operands') \subseteq PendingOf(operands) \cup (ToSet(e.vals) \ {Nil})
        /\ DOMAIN operands' = 1 .. n + 1 /\ operands'[n + 1] = e
        /\ \A i \in 1 .. n : operands'[i] = operands[i] /\ i \in DOMAIN operands
    BY <1>d, RootsUpon
  <2>2. n \in Nat /\ Scope.base <= n
    BY <1>a, <1>d
  <2> HIDE DEF n
  <2>3. \A i \in 1 .. n + 1 : i \in 1 .. n \/ i = n + 1
    BY <2>2
  <2>4. Unread'
    BY <1>b, <1>d, <2>1, <2>3 DEF Unread
  <2>5. NoneWaits'
    <3>1. Scope' = Scope /\ \A i \in 1 .. Scope.base : i \in 1 .. n
      BY <1>a, <1>d, <2>2, SMTT(30) DEF Scope
    <3> QED
      BY <1>b, <2>1, <3>1 DEF NoneWaits
  <2>6. ArgsNamed'
    BY <1>d, <1>k
  <2>7. RootsOf(scopes', operands', held') \subseteq Needed \cup (ToSet(e.vals) \ {Nil})
    BY <1>b, <1>d, <2>1 DEF RootsOf
  <2> QED
    BY <2>4, <2>5, <2>6, <2>7
<1>e. ASSUME NEW e, Push(e) PROVE operands' = Append(Below(0), e) /\ 0 \in 0 .. Len(operands) /\ 0 <= Above
  <2>1. Below(0) = operands
    BY <1>a DEF Below
  <2> QED
    BY <1>a, <1>e, <2>1 DEF Push
<1>f. ASSUME NEW v \in Values
      PROVE  /\ Variable(v) \in Entries /\ Variable(v).next = 1
             /\ ToSet(Variable(v).vals) \ {Nil} = {v} \ {Nil}
  <2>1. ToSet(<<v>>) = {v}
    BY DEF ToSet
  <2> QED
    BY <2>1, EntriesAre DEF Variable
<1>g. ASSUME NEW k \in 0 .. Len(operands), Len(Gathered(k)) <= MaxVals, phase = "values"
      PROVE  /\ Source(Gathered(k)) \in Entries /\ Source(Gathered(k)).next = 1
             /\ ToSet(Source(Gathered(k)).vals) \ {Nil} \subseteq PendingOf(operands)
             /\ ToSet(Gathered(k)) \ {Nil} \subseteq PendingOf(operands)
  <2>1. Gathered(k) \in Seq(Values)
    BY GatheredIs DEF TypeInv
  <2>2. ToSet(Gathered(k)) \ {Nil} \subseteq PendingOf(operands)
    BY <1>g, GatheredNeeded
  <2> QED
    BY <1>g, <2>1, <2>2, EntriesAre DEF Source
(* The listener stays safe.                                                *)
<1>h. ASSUME NEW v \in Objects, Old(v), UNCHANGED held PROVE HeldSafe'
  BY <1>b, <1>h DEF Old, HeldSafe, Hazards, TypeInv, Typed
<1>i. ASSUME UNCHANGED <<gc, held>> PROVE HeldSafe'
  BY <1>b, <1>i DEF HeldSafe
<1>1. CASE PushStr
  <2>1. /\ phase = "values" /\ New("leaf", <<>>) /\ Push(Variable(Fresh)) /\ UNCHANGED <<scopes, held>>
        /\ UNCHANGED gc /\ Fresh \in Values
    BY <1>1, FreshIs DEF PushStr, New
  <2>2. /\ Unread' /\ NoneWaits' /\ ArgsNamed'
        /\ RootsOf(scopes', operands', held') \subseteq Needed \cup {Fresh}
    BY <1>d, <1>e, <1>f, <2>1, ZenonT(30)
  <2>3. NoDangling'
    <3>1. ToSet(<<>>) \ {Nil} \subseteq Needed
      BY DEF ToSet
    <3> QED
      BY <1>b, <2>1, <2>2, <3>1, NewAlive
  <2> QED
    BY <1>i, <2>1, <2>2, <2>3 DEF SafeInv
<1>2. ASSUME NEW n \in Names, PushVar(n) PROVE SafeInv'
  <2> DEFINE v == Scope.names[n]
  <2>1. /\ phase = "values" /\ v # Nil /\ Push(Variable(v)) /\ Old(v) /\ UNCHANGED <<kind, items, scopes, held>>
    BY <1>2 DEF PushVar
  <2>2. v \in Needed /\ v \in Objects /\ v \in Values
    BY <1>b, <1>c, <2>1
  <2> HIDE DEF v
  <2>3. /\ Unread' /\ NoneWaits' /\ ArgsNamed' /\ RootsOf(scopes', operands', held') \subseteq Needed
    <3>1. /\ Variable(v) \in Entries /\ Variable(v).next = 1
          /\ ToSet(Variable(v).vals) \ {Nil} \subseteq Needed
      BY <1>f, <2>2
    <3>2. operands' = Append(Below(0), Variable(v)) /\ 0 \in 0 .. Len(operands) /\ 0 <= Above
      BY <1>e, <2>1
    <3> QED
      BY <1>d, <2>1, <3>1, <3>2
  <2>4. NoDangling' /\ HeldSafe'
    BY <1>b, <1>h, <2>1, <2>2, <2>3, SameAlive
  <2> QED
    BY <2>3, <2>4 DEF SafeInv
<1>3. ASSUME NEW k \in 0 .. MaxOperands, PushList(k) PROVE SafeInv'
  <2> DEFINE popped == [i \in 1 .. k |-> Popped(TopOf(k)[i])]
  <2>1. k \in 0 .. Len(operands) /\ k <= Above /\ k \in Nat /\ phase = "values"
    BY <1>3, <1>a DEF PushList
  <2>2. popped \in Seq(Values) /\ ToSet(popped) \ {Nil} \subseteq Needed
    <3>1. \A i \in 1 .. k : /\ Len(operands) - k + i \in 1 .. Len(operands)
                            /\ TopOf(k)[i] = operands[Len(operands) - k + i]
      BY <1>a, <2>1 DEF TopOf
    <3>2. \A i \in 1 .. k : popped[i] \in Values
      BY <3>1, OperandsAre
    <3>3. popped \in Seq(Values) /\ DOMAIN popped = 1 .. k
      BY <2>1, <3>2
    <3>4. \A i \in 1 .. k : popped[i] # Nil => popped[i] \in PendingOf(operands)
      BY <2>1, <3>1, ValuesNeeded
    <3> QED
      BY <1>b, <3>3, <3>4 DEF ToSet
  <2> HIDE DEF popped
  <2>3. /\ New("list", WithoutNil(popped)) /\ operands' = Append(Below(k), Variable(Fresh))
        /\ UNCHANGED <<scopes, held, gc>> /\ Fresh \in Values
    BY <1>3, FreshIs DEF PushList, New, popped
  <2>4. /\ Unread' /\ NoneWaits' /\ ArgsNamed'
        /\ RootsOf(scopes', operands', held') \subseteq Needed \cup {Fresh}
    BY <1>d, <1>f, <2>1, <2>3, ZenonT(30)
  <2>5. ToSet(WithoutNil(popped)) \ {Nil} \subseteq Needed
    BY <2>2, WithoutNilIs
  <2>6. NoDangling'
    BY <1>b, <2>3, <2>4, <2>5, NewAlive
  <2> QED
    BY <1>i, <2>3, <2>4, <2>6 DEF SafeInv
<1>4. CASE Get
  <2> DEFINE list == Popped(Top)
  <2>1. /\ phase = "values" /\ Above > 0 /\ list # Nil /\ UNCHANGED <<kind, items, scopes, held>>
    BY <1>4 DEF Get
  <2>2. PICK v \in ToSet(items[list]) \ {Nil} : operands' = Append(Below(1), Variable(v)) /\ Old(v)
    BY <1>4 DEF Get
  <2>3. Len(operands) \in 1 .. Len(operands) /\ 1 \in 0 .. Len(operands) /\ 1 <= Above
    BY <1>a, <2>1
  <2>4. list \in Needed
    BY <1>b, <2>1, <2>3, ValuesNeeded DEF Top, Last
  <2>5. v \in Needed /\ v \in Objects /\ v \in Values
    BY <1>b, <2>2, <2>4
  <2>6. /\ Unread' /\ NoneWaits' /\ ArgsNamed' /\ RootsOf(scopes', operands', held') \subseteq Needed
    <3>1. /\ Variable(v) \in Entries /\ Variable(v).next = 1
          /\ ToSet(Variable(v).vals) \ {Nil} \subseteq Needed
      BY <1>f, <2>5
    <3> QED
      BY <1>d, <2>1, <2>2, <2>3, <3>1
  <2>7. NoDangling' /\ HeldSafe'
    BY <1>b, <1>h, <2>1, <2>2, <2>5, <2>6, SameAlive
  <2> QED
    BY <2>6, <2>7 DEF SafeInv
<1>5. CASE MakeSrc
  <2>1. /\ phase = "values" /\ Above \in 0 .. Len(operands) /\ Above <= Above /\ Len(Gathered(Above)) <= MaxVals
        /\ operands' = Append(Below(Above), Source(Gathered(Above)))
        /\ UNCHANGED <<kind, gc, items, scopes, held>>
    BY <1>5, <1>a DEF MakeSrc
  <2>2. /\ Unread' /\ NoneWaits' /\ ArgsNamed' /\ RootsOf(scopes', operands', held') \subseteq Needed
    <3>1. /\ Source(Gathered(Above)) \in Entries /\ Source(Gathered(Above)).next = 1
          /\ ToSet(Source(Gathered(Above)).vals) \ {Nil} \subseteq Needed
      BY <1>b, <1>g, <2>1
    <3> QED
      BY <1>d, <2>1, <3>1
  <2>3. NoDangling' /\ HeldSafe'
    BY <1>b, <1>i, <2>1, <2>2, SameAlive
  <2> QED
    BY <2>2, <2>3 DEF SafeInv
(* A value is taken from the VAR_SRC, and names may change.                *)
<1>j. ASSUME phase = "sets", Taken, UNCHANGED <<phase, held>>,
             Len(scopes') = Depth, \A i \in 1 .. Depth : scopes'[i].base = scopes[i].base,
             scopes' \in Seq(ScopeRecords)
      PROVE  /\ Unread' /\ NoneWaits' /\ PendingOf(operands') \subseteq PendingOf(operands)
             /\ NextValue # Nil => NextValue \in PendingOf(operands)
             /\ NextValue \in Values
  <2>1. /\ operands' \in Seq(Entries) /\ Len(operands') = Len(operands)
        /\ \A i \in 1 .. Len(operands) :
              /\ operands'[i].src = operands[i].src
              /\ ToSet(Pending(operands'[i])) \subseteq ToSet(Pending(operands[i]))
              /\ i # Len(operands) => operands'[i] = operands[i]
    BY <1>j, TakenIs, Zenon
  <2>2. DOMAIN operands' = 1 .. Len(operands)
    BY <2>1
  <2>3. PendingOf(operands') \subseteq PendingOf(operands)
    BY <1>a, <2>1, <2>2, ZenonT(30) DEF PendingOf
  <2>4. Unread'
    BY <1>a, <1>b, <1>j, <2>1, <2>2, Zenon DEF Unread
  <2>5. NoneWaits'
    <3>1. Scope'.base = Scope.base /\ \A i \in 1 .. Scope.base : i \in 1 .. Len(operands)
      BY <1>a, <1>j DEF Scope, Last
    <3> QED
      BY <1>b, <2>1, <3>1 DEF NoneWaits
  <2>6. NextValue \in Values /\ (NextValue # Nil => NextValue \in PendingOf(operands))
    BY <1>a, <1>j, NextIs DEF PendingOf
  <2> QED
    BY <2>3, <2>4, <2>5, <2>6
<1>6. ASSUME NEW n \in Names, Set(n) PROVE SafeInv'
  <2> DEFINE v == Stored(NextValue)
             r == [Scope EXCEPT !.names[n] = v]
  <2>1. /\ phase = "sets" /\ Storing(NextValue) /\ Taken /\ UNCHANGED <<phase, held>>
        /\ scopes' = [scopes EXCEPT ![Depth].names[n] = v]
    BY <1>6 DEF Set
  <2>2. /\ scopes' = [scopes EXCEPT ![Depth] = r] /\ Scope \in ScopeRecords /\ Depth \in 1 .. Depth
    BY <1>a, <2>1
  <2>3. r.names = [Scope.names EXCEPT ![n] = v] /\ r.base = Scope.base /\ r.args = Scope.args
    BY <2>2 DEF ScopeRecords
  <2> HIDE DEF r, v
  <2>4. /\ Len(scopes') = Depth /\ DOMAIN scopes' = 1 .. Depth
        /\ \A i \in 1 .. Depth : scopes'[i] = IF i = Depth THEN r ELSE scopes[i]
        /\ scopes' \in Seq(ScopeRecords)
    BY <1>a, <2>2 DEF TypeInv, Typed
  <2>5. \A i \in 1 .. Depth : scopes'[i].base = scopes[i].base /\ scopes'[i].args = scopes[i].args
    BY <1>a, <2>3, <2>4
  <2>6. /\ Unread' /\ NoneWaits' /\ PendingOf(operands') \subseteq PendingOf(operands)
        /\ (NextValue # Nil => NextValue \in PendingOf(operands)) /\ NextValue \in Values
    BY <1>j, <2>1, <2>4, <2>5
  <2>7. AllNamed(scopes') \subseteq AllNamed(scopes) \cup ({v} \ {Nil})
    <3>1. Named(r) \subseteq Named(Scope) \cup ({v} \ {Nil})
      BY <2>3, ScopeIs DEF Named
    <3> QED
      BY <1>a, <2>2, <2>4, <3>1 DEF AllNamed
  <2>8. ArgsOf(scopes') = ArgsOf(scopes)
    BY <1>a, <2>4, <2>5 DEF ArgsOf
  <2>9. RootsOf(scopes', operands', held') \subseteq Needed \cup ({v} \ {Nil})
    BY <1>b, <2>1, <2>6, <2>7, <2>8 DEF RootsOf
  <2>10. ArgsNamed'
    <3> SUFFICES ASSUME NEW i \in 1 .. Depth
                 PROVE  ToSet(scopes'[i].args) \ {Nil} \subseteq UNION {Named(scopes'[j]) : j \in 1 .. i - 1}
      BY <2>4 DEF ArgsNamed
    <3>1. \A j \in 1 .. i - 1 : j \in 1 .. Depth /\ j # Depth
      BY <1>a
    <3>2. \A j \in 1 .. i - 1 : scopes'[j] = scopes[j]
      BY <2>4, <3>1
    <3>3. ToSet(scopes[i].args) \ {Nil} \subseteq UNION {Named(scopes[j]) : j \in 1 .. i - 1}
      BY <1>a, <1>b DEF ArgsNamed
    <3>4. {Named(scopes'[j]) : j \in 1 .. i - 1} = {Named(scopes[j]) : j \in 1 .. i - 1}
      BY <3>2
    <3> QED
      BY <2>5, <3>3, <3>4
  <2>11. NoDangling' /\ HeldSafe'
    <3>1. CASE NextValue = Nil
      <4>1. New("leaf", <<>>) /\ v = Fresh /\ UNCHANGED gc
        BY <2>1, <3>1 DEF Storing, Stored, New, v
      <4>2. ToSet(<<>>) \ {Nil} \subseteq Needed
        BY DEF ToSet
      <4> QED
        BY <1>b, <1>i, <2>1, <2>9, <4>1, <4>2, NewAlive
    <3>2. CASE NextValue # Nil
      <4>1. UNCHANGED <<kind, gc, items>> /\ v \in Needed
        BY <1>b, <2>1, <2>6, <3>2 DEF Storing, Stored, v
      <4> QED
        BY <1>b, <1>i, <2>1, <2>9, <4>1, SameAlive
    <3> QED
      BY <3>1, <3>2
  <2> QED
    BY <2>6, <2>10, <2>11 DEF SafeInv
<1>7. ASSUME NEW n \in Names, Put(n) PROVE SafeInv'
  <2> DEFINE list == Scope.names[n]
  <2>1. /\ phase = "sets" /\ Taken /\ UNCHANGED <<kind, scopes, phase, held>> /\ list # Nil /\ Old(list)
        /\ NextValue # Nil
    BY <1>7 DEF Put
  <2>2. list \in Needed /\ list \in Objects
    BY <1>b, <1>c, <2>1
  <2>3. PICK i \in 1 .. Len(items[list]) + 1 :
           items' = [items EXCEPT ![list] =
                        IF i <= Len(@) THEN [@ EXCEPT ![i] = NextValue] ELSE Append(@, NextValue)]
    BY <1>7 DEF Put
  <2> DEFINE its == IF i <= Len(items[list]) THEN [items[list] EXCEPT ![i] = NextValue]
                                             ELSE Append(items[list], NextValue)
  <2>4. /\ Unread' /\ NoneWaits' /\ PendingOf(operands') \subseteq PendingOf(operands)
        /\ NextValue \in Needed /\ NextValue \in Values
    <3>1. Len(scopes') = Depth /\ scopes' \in Seq(ScopeRecords) /\ \A j \in 1 .. Depth : scopes'[j].base = scopes[j].base
      BY <1>a, <2>1
    <3> QED
      BY <1>b, <1>j, <2>1, <3>1
  <2>5. ToSet(its) \subseteq ToSet(items[list]) \cup {NextValue}
    <3>1. items[list] \in Seq(Values) /\ Len(items[list]) \in Nat
      BY <2>2, ItemsAre DEF TypeInv
    <3>2. CASE i <= Len(items[list])
      BY <3>1, <3>2 DEF ToSet
    <3>3. CASE ~(i <= Len(items[list]))
      <4>1. /\ DOMAIN Append(items[list], NextValue) = 1 .. Len(items[list]) + 1
            /\ DOMAIN items[list] = 1 .. Len(items[list])
            /\ \A j \in 1 .. Len(items[list]) + 1 :
                  Append(items[list], NextValue)[j] =
                      IF j = Len(items[list]) + 1 THEN NextValue ELSE items[list][j]
        BY <2>4, <3>1
      <4>2. \A j \in 1 .. Len(items[list]) + 1 : j # Len(items[list]) + 1 => j \in 1 .. Len(items[list])
        BY <3>1
      <4> QED
        BY <3>3, <4>1, <4>2 DEF ToSet
    <3> QED
      BY <3>2, <3>3
  <2>6. items' = [items EXCEPT ![list] = its]
    BY <2>3
  <2> HIDE DEF its
  <2>7. \A o \in Needed : ToSet(items'[o]) \ {Nil} \subseteq Needed
    <3>1. \A o \in Objects : items'[o] = IF o = list THEN its ELSE items[o]
      BY <2>6 DEF TypeInv, Typed
    <3>2. ToSet(items[list]) \ {Nil} \subseteq Needed
      BY <1>b, <2>2
    <3>3. ToSet(its) \ {Nil} \subseteq Needed
      BY <2>4, <2>5, <3>2
    <3> HIDE DEF list
    <3> QED
      BY <1>b, <3>1, <3>3
  <2>8. RootsOf(scopes', operands', held') \subseteq Needed
    BY <1>b, <2>1, <2>4 DEF RootsOf
  <2>9. NoDangling'
    <3>1. Needed' \subseteq Needed
      BY <1>b, <2>7, <2>8, NeededWithin
    <3> QED
      BY <1>b, <2>1, <3>1 DEF NoDangling
  <2>10. ArgsNamed' /\ HeldSafe'
    <3>1. ArgsNamed'
      BY <1>b, <2>1 DEF ArgsNamed
    <3>2. HeldSafe'
      BY <1>h, <2>1, <2>2
    <3> QED
      BY <3>1, <3>2
  <2> QED
    BY <2>4, <2>9, <2>10 DEF SafeInv
<1>8. CASE Dst
  <2>1. /\ Above = 1 /\ operands' = Below(1) /\ Collect(scopes, operands') /\ UNCHANGED <<scopes, held>>
        /\ phase' = "values"
    BY <1>8 DEF Dst
  <2> DEFINE n == Len(operands) - 1
  <2>2. n \in 0 .. Len(operands) /\ n = Scope.base /\ n \in Nat /\ Len(operands) = n + 1
    BY <1>a, <2>1
  <2> HIDE DEF n
  <2>3. Below(1) = SubSeq(operands, 1, n)
    BY DEF Below, n
  <2>4. /\ operands' \in Seq(Entries) /\ DOMAIN operands' = 1 .. n
        /\ \A i \in 1 .. n : operands'[i] = operands[i]
    <3> DEFINE os == SubSeq(operands, 1, n)
    <3>1. os \in Seq(Entries) /\ Len(os) = n /\ \A i \in 1 .. n : os[i] = operands[i]
      <4>1. operands \in Seq(Entries) /\ n \in 0 .. Len(operands)
        BY <1>a, <2>2
      <4> QED
        BY ONLY <4>1, Remaining
    <3> HIDE DEF os
    <3>2. DOMAIN os = 1 .. n
      BY <3>1
    <3> QED
      BY <2>1, <2>3, <3>1, <3>2 DEF os
  <2>5. \A i \in 1 .. n : i \in DOMAIN operands /\ i # Len(operands)
    BY <1>a, <2>2
  <2>6. \A i \in 1 .. n : ~operands'[i].src
    BY <1>b, <2>2, <2>4 DEF NoneWaits
  <2>7. Unread'
    BY <1>b, <2>4, <2>5 DEF Unread
  <2>8. NoneWaits'
    BY <2>1, <2>2, <2>6 DEF NoneWaits, Scope
  <2>9. ArgsNamed'
    BY <1>b, <1>k, <2>1
  <2>10. PendingOf(operands') \subseteq PendingOf(operands)
    BY <2>4, <2>5 DEF PendingOf
  <2>11. RootsOf(scopes', operands', held') \subseteq Needed
    BY <1>b, <2>1, <2>10 DEF RootsOf
  <2>12. AllNamed(scopes) \cup ArgsOf(scopes) \cup PendingOf(operands') \subseteq Marked(scopes, operands')
    <3>1. ArgsOf(scopes) \subseteq AllNamed(scopes)
      BY <1>a, <1>b, ArgsMarked DEF ArgsNamed
    <3>2. PendingOf(operands') \subseteq OnStack(operands')
      BY <2>4, <2>6, AllOnStack
    <3>3. AllNamed(scopes) \cup OnStack(operands') \subseteq Marked(scopes, operands')
      BY <1>a, <2>4, MarkedIs
    <3> QED
      BY <3>1, <3>2, <3>3
  <2>13. NoDangling' /\ HeldSafe'
    <3>1. scopes' = scopes /\ held' = held
      BY <2>1
    <3> QED
      BY <1>a, <1>b, <2>1, <2>4, <2>11, <2>12, <3>1, CollectAlive
  <2> QED
    BY <2>7, <2>8, <2>9, <2>13 DEF SafeInv
<1>9. ASSUME NEW k \in 0 .. MaxOperands, NEW listing \in BOOLEAN, Call(k, listing) PROVE SafeInv'
  <2> DEFINE args == IF listing THEN Gathered(k) ELSE <<>>
             s == [Globals EXCEPT !.base = Len(operands) - k, !.args = args]
             n == Len(operands) - k
  <2>1. /\ phase = "values" /\ k <= Above /\ Len(Gathered(k)) <= MaxVals
        /\ ToSet(args) \ {Nil} \subseteq AllNamed(scopes)
        /\ operands' = Append(Below(k), Source(Gathered(k)))
        /\ \A i \in DOMAIN Below(k) : ~operands[i].src
        /\ scopes' = Append(scopes, s)
        /\ phase' = "sets" /\ UNCHANGED <<kind, gc, items, held>>
    BY <1>9 DEF Call, Hazards
  <2>2. k \in 0 .. Len(operands) /\ n \in Nat /\ n \in 0 .. Len(operands)
    BY <1>a, <2>1, SMTT(30)
  <2>3. s.base = n /\ s.args = args /\ s.names = [m \in Names |-> Nil]
    BY DEF Globals
  <2> HIDE DEF s, n, args
  <2>4. /\ DOMAIN scopes' = 1 .. Depth + 1 /\ scopes'[Depth + 1] = s /\ Scope' = s
        /\ \A i \in 1 .. Depth : scopes'[i] = scopes[i]
    <3>1. Len(scopes') = Depth + 1 /\ DOMAIN scopes' = 1 .. Depth + 1
      BY <1>a, <2>1
    <3> QED
      BY <1>a, <2>1, <3>1 DEF Scope, Last
  <2>5. \A i \in 1 .. Depth + 1 : i \in 1 .. Depth \/ i = Depth + 1
    BY <1>a
  <2>6. /\ Source(Gathered(k)) \in Entries /\ Source(Gathered(k)).next = 1
        /\ ToSet(Source(Gathered(k)).vals) \ {Nil} \subseteq PendingOf(operands)
    BY <1>g, <2>1, <2>2
  <2>7. /\ PendingOf(operands') \subseteq PendingOf(operands)
        /\ DOMAIN operands' = 1 .. n + 1 /\ Len(operands') = n + 1
        /\ \A i \in 1 .. n : operands'[i] = operands[i] /\ i \in DOMAIN operands
    BY <2>1, <2>2, <2>6, RootsUpon DEF n
  <2>8. Unread'
    <3>1. \A i \in 1 .. n + 1 : i \in 1 .. n \/ i = n + 1
      BY <2>2
    <3> QED
      BY <1>b, <2>1, <2>7, <3>1 DEF Unread
  <2>9. NoneWaits'
    <3>1. DOMAIN Below(k) = 1 .. n
      BY <1>a, <2>2, Remaining DEF Below, n
    <3> QED
      BY <2>1, <2>3, <2>4, <2>7, <3>1 DEF NoneWaits
  <2>10. ArgsNamed'
    <3> SUFFICES ASSUME NEW i \in 1 .. Depth + 1
                 PROVE  ToSet(scopes'[i].args) \ {Nil} \subseteq UNION {Named(scopes'[j]) : j \in 1 .. i - 1}
      BY <2>4 DEF ArgsNamed
    <3>1. \A j \in 1 .. i - 1 : j \in 1 .. Depth
      BY <1>a
    <3>2. {Named(scopes'[j]) : j \in 1 .. i - 1} = {Named(scopes[j]) : j \in 1 .. i - 1}
      BY <2>4, <3>1
    <3>3. CASE i \in 1 .. Depth
      <4>1. ToSet(scopes[i].args) \ {Nil} \subseteq UNION {Named(scopes[j]) : j \in 1 .. i - 1}
        BY <1>a, <1>b, <3>3 DEF ArgsNamed
      <4> QED
        BY <2>4, <3>2, <3>3, <4>1
    <3>4. CASE i = Depth + 1
      <4>1. i - 1 = Depth
        BY <1>a, <3>4
      <4>2. AllNamed(scopes) = UNION {Named(scopes[j]) : j \in 1 .. i - 1}
        BY <1>a, <4>1 DEF AllNamed
      <4> QED
        BY <2>1, <2>3, <2>4, <3>2, <3>4, <4>2
    <3> QED
      BY <2>5, <3>3, <3>4
  <2>11. AllNamed(scopes') \subseteq AllNamed(scopes)
    <3>1. Named(s) = {}
      BY <2>3 DEF Named
    <3> QED
      BY <1>a, <2>4, <2>5, <3>1 DEF AllNamed
  <2>12. ArgsOf(scopes') \subseteq ArgsOf(scopes) \cup AllNamed(scopes)
    BY <1>a, <2>1, <2>3, <2>4, <2>5 DEF ArgsOf
  <2>13. RootsOf(scopes', operands', held') \subseteq Needed
    BY <1>b, <2>1, <2>7, <2>11, <2>12 DEF RootsOf
  <2>14. NoDangling' /\ HeldSafe'
    BY <1>b, <1>i, <2>1, <2>13, SameAlive
  <2> QED
    BY <2>8, <2>9, <2>10, <2>14 DEF SafeInv
<1>10. CASE Args
  <2>1. /\ phase = "values" /\ New("list", Scope.args) /\ Push(Source(<<Fresh>>)) /\ UNCHANGED <<scopes, held>>
        /\ UNCHANGED gc /\ Fresh \in Values
    BY <1>10, FreshIs DEF Args, New
  <2>2. Source(<<Fresh>>) \in Entries /\ Source(<<Fresh>>).next = 1 /\ Source(<<Fresh>>).vals = <<Fresh>>
    <3>1. <<Fresh>> \in Seq(Values) /\ Len(<<Fresh>>) = 1
      BY <2>1
    <3> QED
      BY <3>1, EntriesAre DEF Source
  <2>3. operands' = Append(Below(0), Source(<<Fresh>>)) /\ 0 \in 0 .. Len(operands) /\ 0 <= Above
    BY <1>e, <2>1
  <2>4. /\ Unread' /\ NoneWaits' /\ ArgsNamed'
        /\ RootsOf(scopes', operands', held') \subseteq Needed \cup {Fresh}
    <3>1. ToSet(Source(<<Fresh>>).vals) = {Fresh}
      BY <2>2 DEF ToSet
    <3> QED
      BY <1>d, <2>1, <2>2, <2>3, <3>1
  <2>5. ToSet(Scope.args) \ {Nil} \subseteq Needed
    <3>1. Depth \in DOMAIN scopes
      BY <1>a
    <3>2. ToSet(Scope.args) \ {Nil} \subseteq ArgsOf(scopes)
      BY <1>a, <3>1 DEF ArgsOf
    <3> QED
      BY <1>b, <3>2
  <2>6. NoDangling'
    BY <1>b, <2>1, <2>4, <2>5, NewAlive
  <2> QED
    BY <1>i, <2>1, <2>4, <2>6 DEF SafeInv
(* A function ends: its caller's scope is the top one again, and what lies *)
(* below its entries has no VAR_SRC.  One takes the place of its entries.  *)
<1>l. ASSUME Depth > 1, phase = "values", scopes' = Front(scopes), UNCHANGED <<phase, held>>,
             NEW os, os = Below(Above), NEW e \in Entries, e.next = 1, operands' = Append(os, e),
             ToSet(e.vals) \ {Nil} \subseteq Needed
      PROVE  /\ Unread' /\ NoneWaits' /\ ArgsNamed'
             /\ scopes' \in Seq(ScopeRecords) /\ os \in Seq(Entries) /\ operands' \in Seq(Entries)
             /\ RootsOf(scopes', operands', held') \subseteq Needed
             /\ OnStack(os) \subseteq OnStack(operands')
             /\ AllNamed(scopes') \cup ArgsOf(scopes') \subseteq AllNamed(scopes')
             /\ PendingOf(operands') \subseteq OnStack(os) \cup (ToSet(e.vals) \ {Nil})
  <2> DEFINE d == Depth - 1
             n == Scope.base
  <2>1. /\ d \in Nat /\ d > 0 /\ d < Depth /\ scopes' \in Seq(ScopeRecords)
        /\ DOMAIN scopes' = 1 .. d /\ \A i \in 1 .. d : scopes'[i] = scopes[i] /\ i \in 1 .. Depth
        /\ Scope' = scopes[d]
    <3>1. d \in 0 .. Len(scopes) /\ d \in Nat /\ d > 0 /\ d < Depth /\ Front(scopes) = SubSeq(scopes, 1, d)
      BY <1>a, <1>l DEF Front, Depth
    <3>2. /\ scopes' \in Seq(ScopeRecords) /\ Len(scopes') = d
          /\ \A i \in 1 .. d : scopes'[i] = scopes[i]
      BY <1>a, <1>l, <3>1, Remaining
    <3> HIDE DEF d
    <3> QED
      BY <1>a, <3>1, <3>2 DEF Scope, Last
  <2>2. n = Len(operands) - Above /\ n \in 0 .. Len(operands) /\ n \in Nat
    BY <1>a
  <2>3. Scope'.base \in Nat /\ Scope'.base <= n
    <3>1. d \in 1 .. Depth /\ Depth \in 1 .. Depth /\ d <= Depth
      BY <1>a, <2>1
    <3>2. scopes[d].base <= scopes[Depth].base /\ scopes[d].base \in 0 .. MaxOperands
      BY <1>a, <3>1, ScopeIs DEF TypeInv, Stacked
    <3> QED
      BY <1>a, <2>1, <3>2
  <2> HIDE DEF d, n
  <2>4. /\ os \in Seq(Entries) /\ Len(os) = n /\ DOMAIN os = 1 .. n
        /\ \A i \in 1 .. n : os[i] = operands[i] /\ i \in DOMAIN operands
    <3>1. os = SubSeq(operands, 1, n)
      BY <1>l, <2>2 DEF Below
    <3> QED
      BY <1>a, <2>2, <3>1, Remaining, SMTT(30)
  <2>5. /\ operands' \in Seq(Entries) /\ DOMAIN operands' = 1 .. n + 1 /\ operands'[n + 1] = e
        /\ \A i \in 1 .. n : operands'[i] = os[i]
    BY <1>l, <2>4, Appended
  <2>6. \A i \in 1 .. n : ~os[i].src
    BY <1>b, <2>4 DEF NoneWaits, n
  <2>7. Unread'
    <3>1. \A i \in 1 .. n + 1 : i \in 1 .. n \/ i = n + 1
      BY <2>2
    <3> QED
      BY <1>b, <1>l, <2>4, <2>5, <3>1 DEF Unread
  <2>8. NoneWaits'
    <3>1. \A i \in 1 .. Scope'.base : i \in 1 .. n
      BY <2>2, <2>3
    <3> QED
      BY <2>5, <2>6, <3>1 DEF NoneWaits
  <2>9. ArgsNamed'
    <3> SUFFICES ASSUME NEW i \in 1 .. d
                 PROVE  ToSet(scopes'[i].args) \ {Nil} \subseteq UNION {Named(scopes'[j]) : j \in 1 .. i - 1}
      BY <2>1 DEF ArgsNamed
    <3>1. \A j \in 1 .. i - 1 : j \in 1 .. d
      BY <2>1
    <3>2. {Named(scopes'[j]) : j \in 1 .. i - 1} = {Named(scopes[j]) : j \in 1 .. i - 1}
      BY <2>1, <3>1
    <3>3. ToSet(scopes[i].args) \ {Nil} \subseteq UNION {Named(scopes[j]) : j \in 1 .. i - 1}
      BY <1>a, <1>b, <2>1 DEF ArgsNamed
    <3> QED
      BY <2>1, <3>2, <3>3
  <2>10. ArgsOf(scopes') \subseteq AllNamed(scopes')
    BY <2>1, <2>9, ArgsMarked DEF ArgsNamed
  <2>11. AllNamed(scopes') \subseteq AllNamed(scopes)
    BY <1>a, <2>1 DEF AllNamed
  <2>12. /\ PendingOf(operands') \subseteq PendingOf(os) \cup (ToSet(e.vals) \ {Nil})
         /\ OnStack(os) \subseteq OnStack(operands')
    BY <1>l, <2>4, PendingUpon
  <2>13. PendingOf(os) \subseteq OnStack(os)
    BY <2>4, <2>6, AllOnStack
  <2>14. PendingOf(os) \subseteq PendingOf(operands)
    BY <2>4 DEF PendingOf
  <2>15. RootsOf(scopes', operands', held') \subseteq Needed
    BY <1>b, <1>l, <2>10, <2>11, <2>12, <2>14 DEF RootsOf
  <2> QED
    BY <2>1, <2>4, <2>5, <2>7, <2>8, <2>9, <2>10, <2>12, <2>13, <2>15
<1>11. CASE EndCall
  <2>1. /\ Depth > 1 /\ phase = "values" /\ Above = 0 /\ scopes' = Front(scopes)
        /\ Collect(scopes', operands) /\ Push(Source(<<Nil>>)) /\ UNCHANGED <<phase, held>>
    BY <1>11 DEF EndCall
  <2>2. operands = Below(Above) /\ operands' = Append(operands, Source(<<Nil>>))
    BY <1>a, <2>1 DEF Below, Push
  <2>3. /\ Source(<<Nil>>) \in Entries /\ Source(<<Nil>>).next = 1
        /\ ToSet(Source(<<Nil>>).vals) \ {Nil} = {}
    <3>1. <<Nil>> \in Seq(Values) /\ Len(<<Nil>>) = 1 /\ ToSet(<<Nil>>) = {Nil}
      BY DEF ToSet
    <3> QED
      BY <3>1, EntriesAre DEF Source
  <2>4. /\ Unread' /\ NoneWaits' /\ ArgsNamed' /\ scopes' \in Seq(ScopeRecords)
        /\ RootsOf(scopes', operands', held') \subseteq Needed
        /\ AllNamed(scopes') \cup ArgsOf(scopes') \subseteq AllNamed(scopes')
        /\ PendingOf(operands') \subseteq OnStack(operands)
    BY <1>l, <2>1, <2>2, <2>3
  <2>5. AllNamed(scopes') \cup OnStack(operands) \subseteq Marked(scopes', operands)
    BY <1>a, <2>4, MarkedIs
  <2>6. NoDangling' /\ HeldSafe'
    <3>1. AllNamed(scopes') \cup ArgsOf(scopes') \cup PendingOf(operands') \subseteq Marked(scopes', operands)
      BY <2>4, <2>5
    <3> QED
      BY <1>a, <1>b, <2>1, <2>4, <3>1, CollectAlive
  <2> QED
    BY <2>4, <2>6 DEF SafeInv
<1>12. CASE Return
  <2> DEFINE os == Below(Above)
             e == Source(Gathered(Above))
  <2>1. /\ Depth > 1 /\ phase = "values" /\ scopes' = Front(scopes) /\ Len(Gathered(Above)) <= MaxVals
        /\ operands' = Append(os, e) /\ Collect(scopes', operands') /\ UNCHANGED <<phase, held>>
        /\ ToSet(Gathered(Above)) \ {Nil} \subseteq Marked(scopes', os)
    BY <1>12 DEF Return, Hazards
  <2>2. /\ e \in Entries /\ e.next = 1 /\ e.vals = Gathered(Above)
        /\ ToSet(e.vals) \ {Nil} \subseteq Needed
    <3>1. e.vals = Gathered(Above)
      BY DEF Source
    <3> QED
      BY <1>a, <1>b, <1>g, <2>1, <3>1
  <2> HIDE DEF e, os
  <2>3. os = Below(Above)
    BY DEF os
  <2>4. /\ Unread' /\ NoneWaits' /\ ArgsNamed'
        /\ scopes' \in Seq(ScopeRecords) /\ os \in Seq(Entries) /\ operands' \in Seq(Entries)
        /\ RootsOf(scopes', operands', held') \subseteq Needed
        /\ OnStack(os) \subseteq OnStack(operands')
        /\ AllNamed(scopes') \cup ArgsOf(scopes') \subseteq AllNamed(scopes')
        /\ PendingOf(operands') \subseteq OnStack(os) \cup (ToSet(e.vals) \ {Nil})
    BY <1>l, <2>1, <2>2, <2>3
  <2>5. AllNamed(scopes') \cup OnStack(operands') \subseteq Marked(scopes', operands')
    BY <2>4, MarkedIs
  <2>6. Marked(scopes', os) \subseteq Marked(scopes', operands')
    BY <2>4, MarkedGrows
  <2>7. AllNamed(scopes') \cup ArgsOf(scopes') \cup PendingOf(operands') \subseteq Marked(scopes', operands')
    BY <2>1, <2>2, <2>4, <2>5, <2>6
  <2>8. NoDangling' /\ HeldSafe'
    BY <1>b, <2>1, <2>4, <2>7, CollectAlive
  <2> QED
    BY <2>4, <2>8 DEF SafeInv
<1>13. ASSUME NEW n \in Names, Listen(n) PROVE SafeInv'
  <2> DEFINE v == Scope.names[n]
  <2>1. /\ v # Nil /\ held' = v /\ gc' = [gc EXCEPT ![v] = "SAFE"]
        /\ UNCHANGED <<kind, items, scopes, operands, phase>>
    BY <1>13 DEF Listen
  <2>2. v \in AllNamed(scopes) /\ v \in Objects
    BY <1>b, <1>c, <2>1
  <2> HIDE DEF v
  <2>3. HeldSafe'
    BY <2>1, <2>2 DEF HeldSafe, TypeInv, Typed
  <2>4. Unread' /\ NoneWaits' /\ ArgsNamed'
    <3>1. scopes' = scopes /\ operands' = operands /\ phase' = phase
      BY <2>1
    <3>2. Unread' /\ NoneWaits'
      BY <1>b, <3>1 DEF Unread, NoneWaits, Scope
    <3> QED
      BY <1>b, <1>k, <3>1, <3>2
  <2>5. RootsOf(scopes', operands', held') \subseteq Needed
    BY <1>b, <2>1, <2>2 DEF RootsOf
  <2>6. NoDangling'
    BY <1>b, <2>1, <2>5, SameAlive
  <2> QED
    BY <2>3, <2>4, <2>6 DEF SafeInv
<1>14. CASE CollectElsewhere
  <2>1. /\ \A i \in DOMAIN operands : ~operands[i].src
        /\ Collect(scopes, operands) /\ UNCHANGED <<scopes, operands, phase, held>>
    BY <1>14 DEF CollectElsewhere, Hazards
  <2>2. scopes' = scopes /\ operands' = operands /\ phase' = phase /\ held' = held
    BY <2>1
  <2>3. Unread' /\ NoneWaits' /\ ArgsNamed'
    <3>1. Unread' /\ NoneWaits'
      BY <1>b, <2>2 DEF Unread, NoneWaits, Scope
    <3> QED
      BY <1>b, <1>k, <2>2, <3>1
  <2>4. AllNamed(scopes) \cup ArgsOf(scopes) \cup PendingOf(operands) \subseteq Marked(scopes, operands)
    <3>1. ArgsOf(scopes) \subseteq AllNamed(scopes)
      BY <1>a, <1>b, ArgsMarked DEF ArgsNamed
    <3>2. PendingOf(operands) \subseteq OnStack(operands)
      BY <1>a, <2>1, AllOnStack
    <3>3. AllNamed(scopes) \cup OnStack(operands) \subseteq Marked(scopes, operands)
      BY <1>a, MarkedIs
    <3> QED
      BY <3>1, <3>2, <3>3
  <2>5. NoDangling' /\ HeldSafe'
    BY <1>a, <1>b, <2>1, <2>2, <2>4, CollectAlive
  <2> QED
    BY <2>3, <2>5 DEF SafeInv
<1>15. CASE UNCHANGED vars
  <2>1. /\ scopes' = scopes /\ operands' = operands /\ phase' = phase /\ held' = held
        /\ UNCHANGED <<kind, gc, items>>
    BY <1>15 DEF vars
  <2>2. Unread' /\ NoneWaits' /\ ArgsNamed'
    <3>1. Unread' /\ NoneWaits'
      BY <1>b, <2>1 DEF Unread, NoneWaits, Scope
    <3> QED
      BY <1>b, <1>k, <2>1, <3>1
  <2>3. NoDangling' /\ HeldSafe'
    BY <1>b, <1>i, <2>1, SameAlive
  <2> QED
    BY <2>2, <2>3 DEF SafeInv
<1> QED
  BY <1>1, <1>2, <1>3, <1>4, <1>5, <1>6, <1>7, <1>8, <1>9, <1>10, <1>11, <1>12, <1>13, <1>14, <1>15 DEF Next

-----------------------------------------------------------------------------
(* variable.h:33: a variable "in some structure" is "safe from GC until no *)
(* longer needed".  Of a script that bewares of all the Hazards, the       *)
(* collector (garbage_collect, at a VM_DST, at the end of a run or in      *)
(* another thread) never frees a variable that the script can still reach. *)
THEOREM CollectorSafe ==
    ASSUME Careful = Hazards
    PROVE  Spec => []NoDangling
<1>1. Spec => []TypeInv
  BY InitTyped, StepTyped, PTL DEF Spec
<1>2. TypeInv /\ TypeInv' /\ SafeInv /\ [Next]_vars => SafeInv'
  BY StepSafe
<1>3. SafeInv => NoDangling
  BY DEF SafeInv
<1> QED
  BY <1>1, <1>2, <1>3, InitSafe, PTL DEF Spec
==============================================================================
