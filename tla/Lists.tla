-------------------------------- MODULE Lists --------------------------------
(***************************************************************************)
(* A list of the language, as struct.c keeps it: an array, whose memory    *)
(* grows and shrinks behind its length, and a dic, a hash table of chained *)
(* buckets.  There is one list variable, l, and an action for each thing   *)
(* that a script does to it: a literal, an assignment to an element or to  *)
(* a key, the operators + and -, and the methods remove, insert and sort.  *)
(* List says what the script's author thinks that they do.                 *)
(*                                                                         *)
(* An element is an integer.  A cell of the array's memory that was never  *)
(* written is Null; one that was, and is no longer below length, keeps     *)
(* what it held.  Where the code stops with an error (an index out of      *)
(* bounds, a sort of what are not numbers) or dereferences a Null element, *)
(* an action has a guard.  A dic that is a null pointer is an empty one:   *)
(* every caller of struct.c treats the two alike, but for one case of the  *)
(* comparison that Serial tells of.                                        *)
(***************************************************************************)
EXTENDS Integers, Sequences, FiniteSetsExt, SequencesExt, Loops

CONSTANTS Values,     (* integers that are elements of lists, and values   *)
          Null,       (* the null pointer                                  *)
          Keys,       (* keys: integers, and strings, each named by a      *)
                      (* number that is not an element                     *)
          Hash,       (* default_hashor of each key                        *)
          Literals,   (* list literals: sequences of elements and pairs    *)
          MaxLength,  (* bound: the length to which l grows                *)
          MaxMixed,   (* bound: the same, when its elements are not equal, *)
                      (* and the size of its array, when it has keys       *)
          Half,       (* 2^31: half of what there is of int32_t's          *)
          Careless    (* a script assigns to an element of the list's      *)
                      (* first quarter even when it is more than half full *)

ASSUME ListsAssumption ==
    /\ Values \subseteq Int /\ Keys \subseteq Int /\ Null \notin Values
    /\ Hash \in [Keys -> Int] /\ Half \in Nat \ {0}
    /\ MaxLength \in Nat /\ MaxMixed \in Nat /\ Careless \in BOOLEAN

VARIABLES ordered,  (* list.ordered, an array                              *)
          dic       (* list.dic                                            *)

vars == <<ordered, dic>>

Cells  == Values \cup {Null}
Arrays == [cells : Seq(Cells), length : Nat]

-----------------------------------------------------------------------------
(* struct.c, arrays: index i of the code is cell i + 1, size is the number *)
(* of cells.                                                               *)

Size(a) == Len(a.cells)

ListResize(size, length) ==
    LET grown == IF length > size THEN length * 2 ELSE size
    IN  IF length < grown \div 4 THEN grown \div 2 ELSE grown

Resize(a, n) ==
    [cells  |-> [i \in 1..ListResize(Size(a), n) |->
                   IF i <= Size(a) THEN a.cells[i] ELSE Null],
     length |-> a.length]

NewSize(n) == [cells |-> [i \in 1..n |-> Null], length |-> 0]

(* The elements below length: what is left of them, where the memory has   *)
(* been cut.                                                               *)
Elements(a) == [i \in 1..a.length |-> IF i <= Size(a) THEN a.cells[i] ELSE Null]

ArrayAdd(a, x) ==
    [cells  |-> [Resize(a, a.length + 1).cells EXCEPT ![a.length + 1] = x],
     length |-> a.length + 1]

ArrayInsert(a, index, x) ==
    LET room == Resize(a, a.length + 1).cells
    IN  [cells  |-> [i \in DOMAIN room |->
                       CASE i = index + 1 -> x
                         [] i > index + 1 /\ i <= a.length + 1 -> room[i - 1]
                         [] OTHER -> room[i]],
         length |-> a.length + 1]

ArraySet(a, index, x) ==
    [cells  |-> [Resize(a, index + 1).cells EXCEPT ![index + 1] = x],
     length |-> IF a.length <= index + 1 THEN index + 1 ELSE a.length]

(* From behind the end list_remove's assertion lets a count of 0 pass, and *)
(* its memmove is then of 2^32 elements less some, which ends the program. *)
Removable(a, start, n) ==
    LET count == IF n < 0 THEN a.length - start ELSE n
    IN  start <= a.length /\ start + count <= a.length

(* The memmove leaves the cells behind the new end as they were.           *)
ListRemove(a, start, n) ==
    LET count == IF n < 0 THEN a.length - start ELSE n
    IN  [cells  |-> [i \in DOMAIN a.cells |->
                       IF i > start /\ i <= a.length - count THEN a.cells[i + count]
                       ELSE a.cells[i]],
         length |-> a.length - count]

ArrayRemove(a, start, n) ==
    LET removed == ListRemove(a, start, n) IN Resize(removed, removed.length)

ArrayCopyShort(a) ==               (* a slip: all but the last element *)
    [cells  |-> [i \in DOMAIN a.cells |-> IF i < a.length THEN a.cells[i] ELSE Null],
     length |-> a.length]
ArrayCopy(a) ==
    [cells  |-> [i \in DOMAIN a.cells |-> IF i <= a.length THEN a.cells[i] ELSE Null],
     length |-> a.length]

ArrayPart(a, start, n) ==
    LET front == ArrayRemove(ArrayCopy(a), start + n, a.length - start - n)
        part  == ArrayRemove(front, 0, start)
    IN  Resize(part, part.length)

ArrayAppendShort(a, b) ==          (* a slip: makes room for b alone *)
    LET room == Resize(a, b.length).cells
    IN  [cells  |-> [i \in DOMAIN room |->
                       IF i > a.length /\ i <= a.length + b.length
                       THEN b.cells[i - a.length] ELSE room[i]],
         length |-> a.length + b.length]

ArrayAppend(a, b) ==
    LET room == Resize(a, a.length + b.length).cells
    IN  [cells  |-> [i \in DOMAIN room |->
                       IF i > a.length /\ i <= a.length + b.length
                       THEN b.cells[i - a.length] ELSE room[i]],
         length |-> a.length + b.length]

-----------------------------------------------------------------------------
(* struct.c, dics.                                                         *)

Buckets == 0..15
Bucket(k) == Hash[k] % 16
Dics == [Buckets -> Seq([key : Keys, val : Values])]
EmptyDic == [b \in Buckets |-> <<>>]

Chain(m, k) == m[Bucket(k)]
At(chain, k) == {i \in DOMAIN chain : chain[i].key = k}
DicHas(m, k) == At(Chain(m, k), k) # {}
DicGet(m, k) == IF DicHas(m, k) THEN Chain(m, k)[Min(At(Chain(m, k), k))].val ELSE Null

DicInsertAgain(m, k, v) ==         (* a slip: does not look for the key *)
    [m EXCEPT ![Bucket(k)] = <<[key |-> k, val |-> v]>> \o @]

DicInsert(m, k, v) ==
    [m EXCEPT ![Bucket(k)] =
        IF DicHas(m, k) THEN [@ EXCEPT ![Min(At(@, k))].val = v]
        ELSE <<[key |-> k, val |-> v]>> \o @]

DicRemove(m, k) ==
    IF DicHas(m, k) THEN [m EXCEPT ![Bucket(k)] = RemoveAt(@, Min(At(@, k)))] ELSE m

DicPairs(m) == FlattenSeq([b \in 1..16 |-> m[b - 1]])   (* dic_keys and dic_vals *)

Entries == [key : Keys, val : Values]

DicMinus[a \in Dics] ==
    [pairs \in Seq(Entries) |->
        Loop([i \in DOMAIN pairs |-> [m \in Dics |-> DicRemove(m, pairs[i].key)]], a)]

DicInsertNew(m, p) == IF DicHas(m, p.key) THEN m ELSE DicInsert(m, p.key, p.val)
DicUnion[a \in Dics] ==
    [pairs \in Seq(Entries) |->
        Loop([i \in DOMAIN pairs |-> [m \in Dics |-> DicInsertNew(m, pairs[i])]], a)]

DicCopy(m) == DicUnion[EmptyDic][DicPairs(m)]

(* "setting a value to nil means removing the key"; Null stands for nil.   *)
VariableDicInsertNil(m, k, v) == DicInsert(m, k, v)   (* a slip: nil is a value *)
VariableDicInsert(m, k, v) == IF v = Null THEN DicRemove(m, k) ELSE DicInsert(m, k, v)

-----------------------------------------------------------------------------
(* variable.c and vm.c: whole lists, as records of an array and a dic.     *)

Variables == [ordered : Arrays, dic : Dics]
Items     == [val : Values] \cup [key : Keys, val : Cells]

ASSUME LiteralsAssumption == Literals \subseteq Seq(Items)

NewList[elements \in Seq(Cells)] ==   (* variable_new_list *)
    Loop([i \in DOMAIN elements |-> [a \in Arrays |-> ArraySet(a, a.length, elements[i])]],
         NewSize(0))

AddAll[a \in Arrays] ==
    [elements \in Seq(Cells) |->
        Loop([i \in DOMAIN elements |-> [b \in Arrays |-> ArrayAdd(b, elements[i])]], a)]

(* push_list takes the items from the stack, the last one first.           *)
Taken(v, item) ==
    IF "key" \in DOMAIN item THEN [v EXCEPT !.dic = VariableDicInsert(@, item.key, item.val)]
    ELSE [v EXCEPT !.ordered = ArrayInsert(@, 0, item.val)]
EmptyList == [ordered |-> NewSize(0), dic |-> EmptyDic]
PushList(items) ==
    Loop([i \in DOMAIN items |-> [v \in Variables |-> Taken(v, items[Len(items) + 1 - i])]],
         EmptyList)

VariableCopy(v) == [ordered |-> ArrayCopy(v.ordered), dic |-> DicCopy(v.dic)]

VariablePartShort(a, start, n) ==  (* a slip: -1 is the last element, not the end *)
    LET m      == IF n < 0 THEN a.length + n - start ELSE n
        length == IF m < 0 THEN 0 ELSE m
    IN  IF a.length = 0 \/ start > a.length THEN NewSize(0)
        ELSE NewList[Elements(ArrayPart(a, start, length))]

VariablePart(a, start, n) ==
    LET m      == IF n < 0 THEN a.length + n + 1 - start ELSE n
        length == IF m < 0 THEN 0 ELSE m
    IN  IF a.length = 0 \/ start > a.length THEN NewSize(0)
        ELSE NewList[Elements(ArrayPart(a, start, length))]

Holds(a, x) == {i \in 1..a.length : a.cells[i] = x}
VariableFind(a, x) == IF Holds(a, x) = {} THEN -1 ELSE Min(Holds(a, x)) - 1

PurgeBoth(v, x) ==                 (* a slip: the key goes too *)
    LET position == VariableFind(v.ordered, x)
        without  == IF x \in Keys THEN DicRemove(v.dic, x) ELSE v.dic
    IN  [ordered |-> IF position # -1 THEN ArrayRemove(v.ordered, position, 1) ELSE v.ordered,
         dic |-> without]

(* A key of the dic goes only when no element is found.                    *)
Purge(v, x) ==
    LET position == VariableFind(v.ordered, x)
    IN  IF position # -1 THEN [v EXCEPT !.ordered = ArrayRemove(@, position, 1)]
        ELSE [v EXCEPT !.dic = IF x \in Keys THEN DicRemove(@, x) ELSE @]

PurgeAll[v \in Variables] ==
    [elements \in Seq(Cells) |->
        Loop([i \in DOMAIN elements |-> [u \in Variables |-> Purge(u, elements[i])]], v)]

ListPlus(u, v) ==
    LET w == VariableCopy(u)
    IN  [ordered |-> AddAll[w.ordered][Elements(v.ordered)],
         dic     |-> DicUnion[w.dic][DicPairs(v.dic)]]

ListMinus(u, v) ==
    LET w == PurgeAll[VariableCopy(u)][Elements(v.ordered)]
    IN  [w EXCEPT !.dic = DicMinus[@][DicPairs(v.dic)]]

(* cfnc_insert reads the position that it is given, and does not use it.   *)
InsertAtEnd(a, x) ==
    LET insertion == NewList[Elements(ArraySet(NewSize(1), 0, x))]
        first     == VariablePart(ArrayCopy(a), 0, a.length)
        second    == VariablePart(ArrayCopy(a), a.length, -1)
    IN  ArrayCopy(ArrayAppend(ArrayAppend(ArrayCopy(first), insertion), second))

(* sys.c: heapsortfg.  compar subtracts, in the width of an int32_t.       *)
Compar(x, y) == ((x - y + Half) % (2 * Half)) - Half

(* A turn of the loop that pushes t down from index, among the first n     *)
(* cells; once t's place is found it is index, and nothing changes.        *)
Sink(heap, t, n) ==
    LET s     == heap.cells
        left  == heap.index * 2 + 1
        child == IF left + 1 < n /\ Compar(s[left + 2], s[left + 1]) > 0 THEN left + 1 ELSE left
    IN  IF left < n /\ Compar(s[child + 1], t) > 0
        THEN [cells |-> [s EXCEPT ![heap.index + 1] = s[child + 1]], index |-> child]
        ELSE heap

Heaps == [cells : Seq(Int), index : Nat]
SiftDown(s, t, parent, n) ==
    LET heap == Loop([i \in 1..n |-> [h \in Heaps |-> Sink(h, t, n)]],
                     [cells |-> s, index |-> parent])
    IN  [heap.cells EXCEPT ![heap.index + 1] = t]

(* The first stage makes a heap of s, from the last parent to the first;   *)
(* the second takes out the largest, and the last cell of what is left.    *)
Heapify(s, parent) == SiftDown(s, s[parent + 1], parent, Len(s))
Extract(s, n)      == SiftDown([s EXCEPT ![n + 1] = s[1]], s[n + 1], 0, n)

Heapified[s \in Seq(Int)] ==
    LET half == Len(s) \div 2
    IN  Loop([i \in 1..half |-> [r \in Seq(Int) |-> Heapify(r, half - i)]], s)
Extracted[s \in Seq(Int)] ==
    Loop([i \in 1..Len(s) - 1 |-> [r \in Seq(Int) |-> Extract(r, Len(s) - i)]], s)
HeapSorted(s) == IF s = <<>> THEN s ELSE Extracted[Heapified[s]]

Numeric(a) == Null \notin ToSet(Elements(a))    (* no element is a null pointer *)

-----------------------------------------------------------------------------
(* What scripts do.                                                        *)

List == [ordered |-> ordered, dic |-> dic]
Become(v) == ordered' = v.ordered /\ dic' = v.dic
Mixed(v)  == Cardinality(ToSet(Elements(v.ordered))) > 1
Grow(v)   == /\ v.ordered.length <= IF Mixed(v) THEN MaxMixed ELSE MaxLength
             /\ v.dic # EmptyDic => Size(v.ordered) <= MaxMixed
             /\ Become(v)

Init == \E items \in Literals : /\ ordered = PushList(items).ordered
                                /\ dic = PushList(items).dic

(* l = [...] *)
Literal == \E items \in Literals : Become(PushList(items))

(* l[i] = x: the list_put of an integer. *)
Put(i, x) ==
    /\ Careless \/ ordered.length <= ListResize(Size(ordered), i + 1)
    /\ Grow([List EXCEPT !.ordered = ArraySet(@, i, x)])

(* l.k = v: the list_put of a string, on the list itself. *)
PutKey(k, v) == Grow([List EXCEPT !.dic = VariableDicInsert(@, k, v)])

(* l = l + x, l = l + (k:v) and l = l + [...]: binary_op_lst, on a copy. *)
PlusElement(x) == Grow([VariableCopy(List) EXCEPT !.ordered = ArrayAdd(@, x)])
PlusPair(k, v) == Grow([VariableCopy(List) EXCEPT !.dic = VariableDicInsert(@, k, v)])
PlusList(v)    == Grow(ListPlus(List, v))

(* l = l - x and l = l - [...] *)
MinusElement(x) == Numeric(ordered) /\ Become(Purge(VariableCopy(List), x))
MinusList(v)    == Numeric(ordered) /\ Become(ListMinus(List, v))

(* l.remove(start, n); a negative n, any at all, removes all from start on. *)
(* What it returns is made first, from elements that are no null pointers.  *)
Snip(start, n) ==
    /\ ordered.length > 0 /\ Removable(ordered, start, n)
    /\ Numeric(VariablePart(ordered, start, n))
    /\ Become([List EXCEPT !.ordered = ArrayRemove(@, start, n)])

(* l.insert(x, position) *)
Insert(x) == Numeric(ordered) /\ Grow([List EXCEPT !.ordered = InsertAtEnd(@, x)])

(* l.sort() *)
Sort ==
    /\ Numeric(ordered)
    /\ Become([List EXCEPT !.ordered.cells =
                  HeapSorted(Elements(ordered)) \o SubSeq(@, ordered.length + 1, Len(@))])

Next == \/ Literal \/ Sort
        \/ \E x \in Values : PlusElement(x) \/ MinusElement(x) \/ Insert(x)
        \/ \E i \in 0..MaxLength - 1, x \in Values : Put(i, x)
        \/ \E k \in Keys, v \in Cells : PutKey(k, v) \/ PlusPair(k, v)
        \/ \E items \in Literals : PlusList(PushList(items)) \/ MinusList(PushList(items))
        \/ \E start \in 0..MaxLength - 1, n \in -MaxLength..MaxLength : Snip(start, n)

Spec == Init /\ [][Next]_vars

-----------------------------------------------------------------------------
(* The elements of the list are in its memory: length never passes size.   *)
(* Every write behind the end resizes first, and what list_resize cuts     *)
(* must be what is no longer used.                                         *)
Fits == ordered.length <= Size(ordered)

TypeOK == /\ ordered \in Arrays
          /\ dic \in Dics

(* A key is in the bucket of its hash and there once, whatever was        *)
(* inserted, united and removed in whichever order: else dic_remove would  *)
(* bring an older value back, and dic_keys name a key twice.               *)
KeysOnce ==
    /\ \A b \in Buckets : \A i \in DOMAIN dic[b] : Bucket(dic[b][i].key) = b
    /\ \A k \in Keys : Cardinality(At(Chain(dic, k), k)) <= 1

(* l.part and what l.remove returns: the elements from start on, which    *)
(* leave the list itself and its memory alone; a negative length counts    *)
(* back from the end.                                                      *)
PartsOf ==
    Numeric(ordered) =>
    \A start \in 0..ordered.length : \A n \in -ordered.length..ordered.length - start :
        Elements(VariablePart(ordered, start, n)) =
            SubSeq(Elements(ordered), start + 1, IF n < 0 THEN ordered.length + n + 1 ELSE start + n)

(* A list that is a copy shares no fate with the original: equal elements, *)
(* and an equal value for each key, though its chains may be turned round. *)
Copies ==
    LET copy == VariableCopy(List)
    IN  /\ Elements(copy.ordered) = Elements(ordered)
        /\ \A k \in Keys : DicGet(copy.dic, k) = DicGet(dic, k)

(* What lists do is what scripts expect of them.                           *)
Script == INSTANCE ScriptList WITH
            seq <- Elements(ordered), map <- [k \in Keys |-> DicGet(dic, k)]
Implements == Script!Spec
==============================================================================
