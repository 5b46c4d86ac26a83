---------------------------- MODULE InterpProofs -----------------------------
(***************************************************************************)
(* What the machine keeps whatever its bytecode is: every run finds at its *)
(* end the state that it began with, and changes no other; and what the    *)
(* compiler and the machine agree on whatever the pieces of code are that  *)
(* the compiler puts together (Layout): where each lies, and which of them *)
(* comes next.                                                             *)
(***************************************************************************)
EXTENDS Interp, Layout, SerialProofs

(* Sequences, of whatever.                                                 *)
Row(s) == s \in Seq({s[i] : i \in DOMAIN s})

LEMMA RowIs ==
    ASSUME NEW s, Row(s)
    PROVE  Len(s) \in Nat /\ DOMAIN s = 1..Len(s) /\ (s = <<>> <=> Len(s) = 0)
  BY DEF Row

LEMMA SequenceIsRow ==
    ASSUME NEW S, NEW t \in Seq(S)
    PROVE  Row(t)
  BY DEF Row

LEMMA AppendIs ==
    ASSUME NEW s, Row(s), NEW e
    PROVE  /\ Row(Append(s, e)) /\ Len(Append(s, e)) = Len(s) + 1 /\ Append(s, e)[Len(s) + 1] = e
           /\ \A i \in 1..Len(s) : Append(s, e)[i] = s[i]
<1> DEFINE S == {s[i] : i \in DOMAIN s} \cup {e}
           t == Append(s, e)
<1>1. s \in Seq(S) /\ e \in S
  BY DEF Row
<1>2. t \in Seq(S) /\ Len(t) = Len(s) + 1 /\ t[Len(s) + 1] = e /\ \A i \in 1..Len(s) : t[i] = s[i]
  BY <1>1
<1>3. Row(t)
  BY <1>2, SequenceIsRow
<1> QED
  BY <1>2, <1>3

LEMMA FrontIs ==
    ASSUME NEW s, Row(s), s # <<>>
    PROVE  /\ Row(Front(s)) /\ Len(Front(s)) = Len(s) - 1 /\ Last(s) = s[Len(s)]
           /\ \A i \in 1..Len(s) - 1 : Front(s)[i] = s[i]
<1> DEFINE S == {s[i] : i \in DOMAIN s}
           t == Front(s)
<1>1. s \in Seq(S) /\ Len(s) \in Nat /\ Len(s) > 0
  BY DEF Row
<1>2. t \in Seq(S) /\ Len(t) = Len(s) - 1 /\ \A i \in 1..Len(s) - 1 : t[i] = s[i]
  <2>1. t = SubSeq(s, 1, Len(s) - 1)
    BY DEF Front
  <2> HIDE DEF t, S
  <2>2. \A i \in 1..Len(s) - 1 : i \in 1..Len(s) /\ s[i] \in S
    BY <1>1
  <2> DEFINE n == Len(s) - 1
  <2>3. n \in Nat
    BY <1>1
  <2> HIDE DEF n
  <2>4. /\ SubSeq(s, 1, n) \in Seq(S) /\ Len(SubSeq(s, 1, n)) = IF 1 <= n THEN n - 1 + 1 ELSE 0
        /\ \A i \in 1..n - 1 + 1 : SubSeq(s, 1, n)[i] = s[1 + i - 1]
    BY <2>2, <2>3, SubSeqProperties DEF n
  <2>5. t \in Seq(S) /\ Len(t) = n /\ \A i \in 1..n : t[i] = s[i]
    <3>1. t = SubSeq(s, 1, n)
      BY <2>1 DEF n
    <3> QED
      BY <2>3, <2>4, <3>1
  <2> QED
    BY <2>5 DEF n
<1>3. Row(t)
  BY <1>2, SequenceIsRow
<1> QED
  BY <1>2, <1>3 DEF Last

LEMMA ExceptIs ==
    ASSUME NEW s, Row(s), NEW k \in 1..Len(s), NEW e
    PROVE  /\ Row([s EXCEPT ![k] = e]) /\ Len([s EXCEPT ![k] = e]) = Len(s)
           /\ \A i \in 1..Len(s) : [s EXCEPT ![k] = e][i] = IF i = k THEN e ELSE s[i]
<1> DEFINE S == {s[i] : i \in DOMAIN s} \cup {e}
           t == [s EXCEPT ![k] = e]
<1>1. s \in Seq(S) /\ e \in S
  BY DEF Row
<1>2. t \in Seq(S) /\ Len(t) = Len(s) /\ \A i \in 1..Len(s) : t[i] = IF i = k THEN e ELSE s[i]
  BY <1>1
<1>3. Row(t)
  BY <1>2, SequenceIsRow
<1> QED
  BY <1>2, <1>3

-----------------------------------------------------------------------------
(* The runs in progress.                                                   *)

IsFrame(f) ==
    /\ f = [n \in DOMAIN f |-> f[n]]
    /\ DOMAIN f = {"kind", "program", "pc", "inst", "over", "inState", "more", "depth", "level"}
    /\ f.kind \in {"program", "call", "where", "how", "trial", "catcher"} /\ f.inState \in BOOLEAN
    /\ f.kind \in {"where", "how", "trial", "catcher"} => f.inState
    /\ f.kind = "call" => ~f.inState
    /\ f.level \in Nat

(* A session has one program, which runs the others; each has its state,   *)
(* or is in that of the run below.                                         *)
Piled(fs, n, e) ==
    /\ Row(fs)
    /\ \A i \in 1..Len(fs) : IsFrame(fs[i]) /\ (fs[i].kind = "program" <=> i = 1) /\ fs[i].level > 0
    /\ \A i \in 2..Len(fs) : fs[i].level = fs[i - 1].level + (IF fs[i].inState THEN 0 ELSE 1)
    /\ fs # <<>> => fs[Len(fs)].level = n
    /\ fs # <<>> /\ e = 1 => fs[1].level = 1

IInv == /\ session \in DOMAIN Sessions /\ entered \in Nat
        /\ Row(states) /\ Piled(frames, Len(states), entered)
        /\ entered = 0 => frames = <<>> /\ states = <<>>

(* The frames gs are the frames fs, but for where they are in their code.  *)
Alike(fs, gs) ==
    /\ Row(gs) /\ Len(gs) = Len(fs)
    /\ \A i \in 1..Len(fs) : /\ IsFrame(gs[i]) /\ gs[i].kind = fs[i].kind
                             /\ gs[i].inState = fs[i].inState /\ gs[i].level = fs[i].level

LEMMA AlikePiled ==
    ASSUME NEW fs, NEW gs, NEW n, NEW e, Piled(fs, n, e), Alike(fs, gs)
    PROVE  Piled(gs, n, e)
<1>1. Len(fs) \in Nat /\ Len(gs) = Len(fs) /\ (fs = <<>> <=> gs = <<>>)
  BY RowIs DEF Alike, Piled
<1>2. /\ Row(gs)
      /\ \A i \in 1..Len(fs) : /\ IsFrame(gs[i]) /\ gs[i].kind = fs[i].kind
                               /\ gs[i].inState = fs[i].inState /\ gs[i].level = fs[i].level
  BY DEF Alike
<1>3. \A i \in 1..Len(gs) : IsFrame(gs[i]) /\ (gs[i].kind = "program" <=> i = 1) /\ gs[i].level > 0
  BY <1>1, <1>2 DEF Piled
<1>4. ASSUME NEW i \in 2..Len(gs)
      PROVE  gs[i].level = gs[i - 1].level + (IF gs[i].inState THEN 0 ELSE 1)
  <2>1. i \in 1..Len(fs) /\ i - 1 \in 1..Len(fs) /\ i \in 2..Len(fs)
    BY <1>1
  <2>2. fs[i].level = fs[i - 1].level + (IF fs[i].inState THEN 0 ELSE 1)
    BY <2>1 DEF Piled
  <2> QED
    BY <1>2, <2>1, <2>2
<1>5. ASSUME gs # <<>>
      PROVE  gs[Len(gs)].level = n /\ (e = 1 => gs[1].level = 1)
  <2>1. fs # <<>> /\ Len(fs) \in 1..Len(fs) /\ 1 \in 1..Len(fs)
    BY <1>1, <1>5, RowIs DEF Piled
  <2> QED
    BY <1>1, <1>2, <2>1 DEF Piled
<1> QED
  BY <1>2, <1>3, <1>4, <1>5 DEF Piled

(* A run that is started by the uppermost.                                 *)
LEMMA UponPiled ==
    ASSUME NEW fs, NEW n \in Nat, NEW e, Piled(fs, n, e), fs # <<>>, NEW f, IsFrame(f), f.kind # "program",
           NEW m \in Nat, m = n + (IF f.inState THEN 0 ELSE 1), f.level = m
    PROVE  Piled(Append(fs, f), m, e)
<1> DEFINE gs == Append(fs, f)
<1>1. Len(fs) \in Nat /\ Len(fs) > 0
  BY RowIs DEF Piled
<1>2. /\ Row(gs) /\ Len(gs) = Len(fs) + 1 /\ gs[Len(fs) + 1] = f
      /\ \A i \in 1..Len(fs) : gs[i] = fs[i]
  BY AppendIs DEF Piled
<1> HIDE DEF gs
<1>3. /\ \A i \in 1..Len(fs) : IsFrame(fs[i]) /\ (fs[i].kind = "program" <=> i = 1) /\ fs[i].level > 0
      /\ \A i \in 2..Len(fs) : fs[i].level = fs[i - 1].level + (IF fs[i].inState THEN 0 ELSE 1)
      /\ fs[Len(fs)].level = n /\ (e = 1 => fs[1].level = 1)
  BY DEF Piled
<1>4. m > 0 /\ f.inState \in BOOLEAN
  <2>1. Len(fs) \in 1..Len(fs)
    BY <1>1
  <2>2. n > 0
    BY <1>3, <2>1
  <2>3. f.inState \in BOOLEAN
    BY DEF IsFrame
  <2> QED
    BY <2>2, <2>3
<1>5. \A i \in 1..Len(gs) : IsFrame(gs[i]) /\ (gs[i].kind = "program" <=> i = 1) /\ gs[i].level > 0
  BY <1>1, <1>2, <1>3, <1>4
<1>6. \A i \in 2..Len(gs) : gs[i].level = gs[i - 1].level + (IF gs[i].inState THEN 0 ELSE 1)
  <2> TAKE i \in 2..Len(gs)
  <2>1. CASE i = Len(fs) + 1
    BY <1>1, <1>2, <1>3, <2>1
  <2>2. CASE i \in 2..Len(fs)
    BY <1>1, <1>2, <1>3, <2>2
  <2> QED
    BY <1>1, <1>2, <2>1, <2>2
<1> QED
  <2>1. gs[Len(gs)].level = m /\ (e = 1 => gs[1].level = 1)
    <3>1. 1 \in 1..Len(fs)
      BY <1>1
    <3> QED
      BY <1>2, <1>3, <3>1
  <2>2. Piled(gs, m, e)
    BY <1>2, <1>5, <1>6, <2>1 DEF Piled
  <2> QED
    BY <2>2 DEF gs

(* The uppermost run, which is not the program, has ended.                 *)
LEMMA UnderPiled ==
    ASSUME NEW fs, NEW n \in Nat, NEW e, Piled(fs, n, e), fs # <<>>, Last(fs).kind # "program"
    PROVE  /\ Front(fs) # <<>> /\ Row(Front(fs)) /\ Len(Front(fs)) = Len(fs) - 1 /\ Len(fs) \in Nat
           /\ n - (IF Last(fs).inState THEN 0 ELSE 1) \in Nat \ {0}
           /\ Piled(Front(fs), n - (IF Last(fs).inState THEN 0 ELSE 1), e)
<1> DEFINE gs == Front(fs)
           m  == n - (IF Last(fs).inState THEN 0 ELSE 1)
           l  == Len(fs)
<1>1. l \in Nat /\ l > 0 /\ Row(fs)
  BY RowIs DEF Piled
<1>2. /\ Row(gs) /\ Len(gs) = l - 1 /\ Last(fs) = fs[l] /\ \A i \in 1..l - 1 : gs[i] = fs[i]
  BY FrontIs DEF Piled
<1> HIDE DEF gs
<1>3. /\ \A i \in 1..l : IsFrame(fs[i]) /\ (fs[i].kind = "program" <=> i = 1) /\ fs[i].level > 0
      /\ \A i \in 2..l : fs[i].level = fs[i - 1].level + (IF fs[i].inState THEN 0 ELSE 1)
      /\ fs[l].level = n /\ (e = 1 => fs[1].level = 1)
  BY DEF Piled
<1>4. l > 1
  <2>1. l # 1
    BY <1>2, <1>3
  <2> HIDE DEF l
  <2> QED
    BY <1>1, <2>1
<1>5. gs # <<>>
  BY <1>1, <1>2, <1>4, RowIs
<1>6. /\ IsFrame(fs[l - 1]) /\ fs[l - 1].level > 0 /\ IsFrame(fs[l])
      /\ fs[l].level = fs[l - 1].level + (IF fs[l].inState THEN 0 ELSE 1)
  <2>1. l - 1 \in 1..l /\ l \in 2..l /\ l \in 1..l
    <3> HIDE DEF l
    <3> QED
      BY <1>1, <1>4
  <2> QED
    BY <1>3, <2>1
<1>7. m \in Nat \ {0} /\ fs[l - 1].level = m
  BY <1>2, <1>3, <1>6 DEF IsFrame
<1> HIDE DEF m
<1>8. \A i \in 1..l - 1 : IsFrame(gs[i]) /\ (gs[i].kind = "program" <=> i = 1) /\ gs[i].level > 0
  BY <1>1, <1>2, <1>3
<1>9. \A i \in 2..l - 1 : gs[i].level = gs[i - 1].level + (IF gs[i].inState THEN 0 ELSE 1)
  <2> TAKE i \in 2..l - 1
  <2>1. i \in 2..l /\ i - 1 \in 1..l - 1 /\ i \in 1..l - 1
    BY <1>1
  <2>2. gs[i] = fs[i] /\ gs[i - 1] = fs[i - 1]
    BY <1>2, <2>1
  <2> QED
    BY <1>3, <2>1, <2>2
<1>10. gs[Len(gs)].level = m /\ (e = 1 => gs[1].level = 1)
  <2>1. l - 1 \in 1..l - 1 /\ 1 \in 1..l - 1
    <3> HIDE DEF l
    <3> QED
      BY <1>1, <1>4
  <2> QED
    BY <1>2, <1>3, <1>7, <2>1
<1>11. Piled(gs, m, e)
  <2> HIDE DEF l
  <2> QED
    BY <1>2, <1>8, <1>9, <1>10 DEF Piled
<1> QED
  BY <1>1, <1>2, <1>5, <1>7, <1>11 DEF m, gs

(* What was there below the last state, sts, is there still, as far as     *)
(* there are so many.                                                      *)
Kept(sts, ts) == \A i \in DOMAIN sts : i < Len(sts) /\ i < Len(ts) + 1 => ts[i] = sts[i]

LEMMA FrameIs ==
    ASSUME NEW kind, NEW program, NEW inState, NEW ops, NEW sts, NEW more, Row(sts),
           NEW f, f = Frame(kind, program, inState, ops, sts, more),
           \/ kind \in {"where", "how", "trial", "catcher"} /\ inState = TRUE
           \/ kind = "call" /\ inState = FALSE
           \/ kind = "program" /\ inState \in BOOLEAN
    PROVE  IsFrame(f) /\ f.kind = kind /\ f.inState = inState /\ f.level = Len(sts)
<1>1. Len(sts) \in Nat
  BY RowIs
<1> QED
  BY <1>1 DEF Frame, IsFrame

LEMMA SameAlike ==
    ASSUME NEW fs, NEW n, NEW e, Piled(fs, n, e)
    PROVE  Alike(fs, fs)
  BY DEF Piled, Alike

LEMMA TopIs ==
    ASSUME IInv, frames # <<>>
    PROVE  /\ Len(frames) \in Nat \ {0} /\ Len(states) \in Nat \ {0} /\ IsFrame(Top)
           /\ Top = frames[Len(frames)] /\ Top.level = Len(states)
           /\ Row(Others) /\ Len(Others) = Len(frames) - 1
           /\ \A i \in 1..Len(frames) - 1 : Others[i] = frames[i]
<1>1. Row(frames) /\ Len(frames) \in Nat /\ Len(frames) > 0
  BY RowIs DEF IInv, Piled
<1>2. /\ Top = frames[Len(frames)] /\ Row(Others) /\ Len(Others) = Len(frames) - 1
      /\ \A i \in 1..Len(frames) - 1 : Others[i] = frames[i]
  BY <1>1, FrontIs DEF Top, Others
<1>3. Len(frames) \in 1..Len(frames)
  BY <1>1
<1>4. IsFrame(Top) /\ Top.level > 0 /\ Top.level = Len(states)
  BY <1>2, <1>3 DEF IInv, Piled
<1>5. Len(states) \in Nat
  BY RowIs DEF IInv
<1> QED
  BY <1>1, <1>2, <1>4, <1>5

(* Only where it is in its code changes of the uppermost run.              *)
LEMMA MovedAlike ==
    ASSUME IInv, frames # <<>>, NEW f, IsFrame(f), f.kind = Top.kind, f.inState = Top.inState,
           f.level = Top.level
    PROVE  Alike(frames, Append(Others, f))
<1> DEFINE gs == Append(Others, f)
           l  == Len(frames)
<1>1. /\ l \in Nat \ {0} /\ Top = frames[l] /\ Row(Others) /\ Len(Others) = l - 1
      /\ \A i \in 1..l - 1 : Others[i] = frames[i]
  BY TopIs
<1>2. \A i \in 1..l : IsFrame(frames[i])
  BY DEF IInv, Piled
<1>3. Row(gs) /\ Len(gs) = l - 1 + 1 /\ gs[l - 1 + 1] = f /\ \A i \in 1..l - 1 : gs[i] = Others[i]
  BY <1>1, AppendIs
<1> HIDE DEF gs, l
<1>4. Len(gs) = l /\ gs[l] = f
  BY <1>1, <1>3
<1>5. ASSUME NEW i \in 1..l
      PROVE  /\ IsFrame(gs[i]) /\ gs[i].kind = frames[i].kind
             /\ gs[i].inState = frames[i].inState /\ gs[i].level = frames[i].level
  <2>1. CASE i = l
    BY <1>1, <1>4, <2>1
  <2>2. CASE i # l
    <3>1. i \in 1..l - 1
      BY <1>1, <2>2
    <3> QED
      BY <1>1, <1>2, <1>3, <3>1
  <2> QED
    BY <2>1, <2>2
<1> QED
  BY <1>3, <1>4, <1>5 DEF Alike, gs, l

LEMMA Going ==
    ASSUME IInv, frames # <<>>
    PROVE  /\ \A pc : Alike(frames, Moved(pc))
           /\ \A inst : Alike(frames, Left(inst))
<1>1. IsFrame(Top)
  BY TopIs
<1>2. ASSUME NEW pc PROVE Alike(frames, Moved(pc))
  <2> DEFINE f == [Top EXCEPT !.inst = Instruction, !.pc = pc]
  <2>1. IsFrame(f) /\ f.kind = Top.kind /\ f.inState = Top.inState /\ f.level = Top.level
    BY <1>1 DEF IsFrame
  <2> HIDE DEF f
  <2>2. Alike(frames, Append(Others, f))
    BY <2>1, MovedAlike
  <2> QED
    BY <2>2 DEF Moved, f
<1>3. ASSUME NEW inst PROVE Alike(frames, Left(inst))
  <2> DEFINE f == [Top EXCEPT !.inst = inst, !.over = TRUE]
  <2>1. IsFrame(f) /\ f.kind = Top.kind /\ f.inState = Top.inState /\ f.level = Top.level
    BY <1>1 DEF IsFrame
  <2> HIDE DEF f
  <2>2. Alike(frames, Append(Others, f))
    BY <2>1, MovedAlike
  <2> QED
    BY <2>2 DEF Left, f
<1> QED
  BY <1>2, <1>3

(* The run that started the one that has ended is over as well.            *)
LEMMA OverAlike ==
    ASSUME NEW fs, NEW n, NEW e, Piled(fs, n, e), fs # <<>>, NEW inst
    PROVE  /\ Alike(fs, [fs EXCEPT ![Len(fs)].over = TRUE])
           /\ Alike(fs, [fs EXCEPT ![Len(fs)].over = TRUE, ![Len(fs)].inst = inst])
<1> DEFINE l == Len(fs)
           f == [fs[l] EXCEPT !.over = TRUE]
           g == [f EXCEPT !.inst = inst]
           fa == [fs EXCEPT ![l] = f]
           ga == [fa EXCEPT ![l] = g]
<1>1. Row(fs) /\ l \in Nat /\ l \in 1..l
  BY RowIs DEF Piled
<1>2. \A i \in 1..l : IsFrame(fs[i])
  BY DEF Piled
<1>3. IsFrame(fs[l])
  BY <1>1, <1>2
<1>4. IsFrame(f) /\ f.kind = fs[l].kind /\ f.inState = fs[l].inState /\ f.level = fs[l].level
  BY <1>3 DEF IsFrame
<1>5. IsFrame(g) /\ g.kind = fs[l].kind /\ g.inState = fs[l].inState /\ g.level = fs[l].level
  BY <1>4 DEF IsFrame
<1>6. [fs EXCEPT ![l].over = TRUE] = fa /\ [fs EXCEPT ![l].over = TRUE, ![l].inst = inst] = ga
  BY <1>1 DEF Row
<1> HIDE DEF f, g, l
<1>7. Row(fa) /\ Len(fa) = Len(fs) /\ \A i \in 1..Len(fs) : fa[i] = IF i = l THEN f ELSE fs[i]
  BY <1>1, ExceptIs DEF l
<1>8. Row(ga) /\ Len(ga) = Len(fs) /\ \A i \in 1..Len(fs) : ga[i] = IF i = l THEN g ELSE fa[i]
  <2> HIDE DEF fa
  <2>1. l \in 1..Len(fa)
    BY <1>1, <1>7 DEF l
  <2> QED
    BY <1>7, <2>1, ExceptIs
<1>9. Alike(fs, fa)
  BY <1>2, <1>4, <1>7 DEF Alike, l
<1>10. Alike(fs, ga)
  BY <1>2, <1>5, <1>7, <1>8 DEF Alike, l
<1> QED
  BY <1>6, <1>9, <1>10 DEF l

-----------------------------------------------------------------------------
(* What a step does.                                                       *)

LEMMA SetIs ==
    ASSUME NEW sts, Row(sts), sts # <<>>, NEW name, NEW v
    PROVE  LET ts == SetNamedVariable(sts, name, v)
           IN  Row(ts) /\ Len(ts) = Len(sts) /\ \A i \in 1..Len(sts) - 1 : ts[i] = sts[i]
<1>1. Len(sts) \in Nat /\ Len(sts) > 0
  BY RowIs
<1>2. PICK e : SetNamedVariable(sts, name, v) = [sts EXCEPT ![Len(sts)] = e]
  BY DEF SetNamedVariable, SetIn
<1>3. Len(sts) \in 1..Len(sts)
  BY <1>1
<1> DEFINE ts == [sts EXCEPT ![Len(sts)] = e]
<1>4. /\ Row(ts) /\ Len(ts) = Len(sts)
      /\ \A i \in 1..Len(sts) : ts[i] = IF i = Len(sts) THEN e ELSE sts[i]
  <2> DEFINE k == Len(sts)
  <2>1. k \in 1..Len(sts)
    BY <1>3
  <2> HIDE DEF k
  <2>2. LET u == [sts EXCEPT ![k] = e]
        IN  Row(u) /\ Len(u) = Len(sts) /\ \A i \in 1..Len(sts) : u[i] = IF i = k THEN e ELSE sts[i]
    BY <2>1, ExceptIs
  <2> QED
    BY <2>2 DEF k
<1> HIDE DEF ts
<1>5. \A i \in 1..Len(sts) - 1 : ts[i] = sts[i]
  BY <1>1, <1>4
<1> QED
  BY <1>2, <1>4, <1>5 DEF ts

(* A step of one run, by which none starts and none ends.                  *)
LEMMA Goes ==
    ASSUME IInv, frames # <<>>, Alike(frames, frames'), UNCHANGED <<session, entered>>, Row(states'),
           Len(states') = Len(states), \A i \in 1..Len(states) - 1 : states'[i] = states[i]
    PROVE  IInv' /\ Kept(states, states')
<1>1. Piled(frames', Len(states'), entered')
  BY AlikePiled DEF IInv
<1>2. entered # 0
  BY DEF IInv
<1>3. DOMAIN states = 1..Len(states) /\ Len(states) \in Nat
  BY RowIs DEF IInv
<1>4. Kept(states, states')
  BY <1>3 DEF Kept
<1> QED
  BY <1>1, <1>2, <1>4 DEF IInv

(* vm_exit.                                                                *)
LEMMA Exits ==
    ASSUME IInv, frames # <<>>, frames' = <<>>, UNCHANGED <<session, entered, states>>
    PROVE  IInv' /\ Kept(states, states')
<1>1. Piled(<<>>, Len(states'), entered')
  BY DEF Piled, Row
<1>2. entered # 0
  BY DEF IInv
<1> QED
  BY <1>1, <1>2 DEF IInv, Kept

(* One run starts another.                                                 *)
LEMMA Calls ==
    ASSUME IInv, frames # <<>>, UNCHANGED <<session, entered>>, NEW fs, Alike(frames, fs), NEW f, IsFrame(f),
           frames' = Append(fs, f), f.kind # "program", f.level = Len(states'), Row(states'),
           Len(states') = Len(states) + (IF f.inState THEN 0 ELSE 1),
           \A i \in 1..Len(states) - 1 : states'[i] = states[i]
    PROVE  IInv' /\ Kept(states, states')
<1>1. Piled(fs, Len(states), entered) /\ Len(states) \in Nat /\ Len(states') \in Nat /\ fs # <<>>
  <2>1. Piled(fs, Len(states), entered) /\ Len(states) \in Nat /\ Len(states') \in Nat
    BY AlikePiled, RowIs DEF IInv
  <2>2. Len(fs) = Len(frames) /\ Row(fs) /\ Row(frames)
    BY DEF Alike, IInv, Piled
  <2> QED
    BY <2>1, <2>2, RowIs
<1>2. Piled(frames', Len(states'), entered')
  BY <1>1, UponPiled
<1>3. entered # 0
  BY DEF IInv
<1>4. DOMAIN states = 1..Len(states)
  BY RowIs DEF IInv
<1>5. Kept(states, states')
  BY <1>1, <1>4 DEF Kept
<1> QED
  BY <1>2, <1>3, <1>5 DEF IInv

(* The states at the end of a run, and the runs that are left.             *)
LEMMA EndIs ==
    ASSUME IInv, frames # <<>>
    PROVE  /\ Row(RunStates) /\ Len(RunStates) = Len(states) - (IF Top.inState THEN 0 ELSE 1)
           /\ Len(RunStates) \in Nat /\ \A i \in 1..Len(RunStates) : RunStates[i] = states[i]
           /\ Top.kind # "program" =>
                 Piled(Others, Len(RunStates), entered) /\ Others # <<>> /\ RunStates # <<>>
<1>1. IsFrame(Top) /\ Len(states) \in Nat \ {0} /\ Row(states) /\ states # <<>>
  BY TopIs, RowIs DEF IInv
<1>2. /\ Row(RunStates) /\ Len(RunStates) = Len(states) - (IF Top.inState THEN 0 ELSE 1)
      /\ Len(RunStates) \in Nat /\ \A i \in 1..Len(RunStates) : RunStates[i] = states[i]
  BY <1>1, FrontIs DEF RunStates, IsFrame
<1>3. ASSUME Top.kind # "program"
      PROVE  Piled(Others, Len(RunStates), entered) /\ Others # <<>> /\ RunStates # <<>>
  BY <1>1, <1>2, <1>3, UnderPiled, RowIs DEF IInv, Top, Others
<1> QED
  BY <1>2, <1>3

(* A run ends, and the one that started it goes on.                        *)
LEMMA Ends ==
    ASSUME IInv, frames # <<>>, Top.kind # "program", UNCHANGED <<session, entered>>,
           Alike(Others, frames'), Row(states'), Len(states') = Len(RunStates),
           \A i \in 1..Len(RunStates) : i < Len(RunStates) \/ ~Top.inState => states'[i] = RunStates[i]
    PROVE  IInv' /\ Kept(states, states')
<1>1. /\ Piled(Others, Len(RunStates), entered) /\ Len(RunStates) \in Nat
      /\ Len(RunStates) = Len(states) - (IF Top.inState THEN 0 ELSE 1)
      /\ \A i \in 1..Len(RunStates) : RunStates[i] = states[i]
  BY EndIs
<1>2. Piled(frames', Len(states'), entered')
  BY <1>1, AlikePiled
<1>3. entered # 0
  BY DEF IInv
<1>4. DOMAIN states = 1..Len(states) /\ Len(states) \in Nat
  BY RowIs DEF IInv
<1>5. Kept(states, states')
  <2> SUFFICES ASSUME NEW i \in 1..Len(states), i < Len(states), i < Len(states') + 1
               PROVE  states'[i] = states[i]
    BY <1>4 DEF Kept
  <2>1. Top.inState \in BOOLEAN
    BY TopIs DEF IsFrame
  <2>2. i \in 1..Len(RunStates) /\ (i < Len(RunStates) \/ ~Top.inState)
    <3> DEFINE r == Len(RunStates)
               b == Len(states)
    <3>1. b \in Nat /\ i \in 1..b /\ i < b /\ i < r + 1 /\ r \in Nat
      BY <1>1, <1>4
    <3>2. (Top.inState /\ r = b) \/ (~Top.inState /\ r = b - 1)
      BY <1>1, <2>1
    <3> HIDE DEF r, b
    <3>3. i \in 1..r /\ (i < r \/ ~Top.inState)
      BY <3>1, <3>2
    <3> QED
      BY <3>3 DEF r
  <2> QED
    BY <1>1, <2>2
<1> QED
  BY <1>2, <1>3, <1>5 DEF IInv

(* iterate, with the runs caller below and the states sts.                 *)
LEMMA NextItemIs ==
    ASSUME NEW caller, NEW n \in Nat, NEW e, Piled(caller, n, e), caller # <<>>,
           NEW sts, Row(sts), Len(sts) = n, sts # <<>>, NEW it, NEW ops, NextItem(caller, it, ops, sts)
    PROVE  /\ Row(states') /\ Len(states') = n /\ \A i \in 1..n - 1 : states'[i] = sts[i]
           /\ Piled(frames', n, e)
<1>1. CASE it.items = <<>>
  BY <1>1 DEF NextItem
<1>2. CASE it.items # <<>>
  <2> DEFINE one == SetNamedVariable(sts, it.who[1], Head(it.items).key)
             two == SetNamedVariable(one, it.who[2], Head(it.items).val)
  <2>1. Row(one) /\ Len(one) = n /\ one # <<>> /\ \A i \in 1..n - 1 : one[i] = sts[i]
    BY SetIs, RowIs
  <2> HIDE DEF one
  <2>2. Row(two) /\ Len(two) = n /\ \A i \in 1..n - 1 : two[i] = one[i]
    BY <2>1, SetIs
  <2>3. states' = one \/ states' = two
    BY <1>2 DEF NextItem, one
  <2> HIDE DEF two
  <2>4. Row(states') /\ Len(states') = n /\ \A i \in 1..n - 1 : states'[i] = sts[i]
    BY <2>1, <2>2, <2>3
  <2>5. PICK f, kind, program, more :
          /\ frames' = Append(caller, f) /\ (kind = "where" \/ kind = "how")
          /\ f = Frame(kind, program, TRUE, ops, states', more)
    BY <1>2 DEF NextItem
  <2>6. IsFrame(f) /\ f.kind # "program" /\ f.inState = TRUE /\ f.level = n
    <3>1. IsFrame(f) /\ f.kind = kind /\ f.inState = TRUE /\ f.level = n
      BY <2>4, <2>5 DEF Frame, IsFrame
    <3> QED
      BY <2>5, <3>1
  <2>7. Piled(frames', n, e)
    <3>1. n = n + (IF f.inState THEN 0 ELSE 1)
      BY <2>6
    <3>2. Piled(Append(caller, f), n, e)
      BY <2>6, <3>1, UponPiled
    <3> QED
      BY <2>5, <3>2
  <2> QED
    BY <2>4, <2>7
<1> QED
  BY <1>1, <1>2

(* An instruction that starts no run.                                      *)
LEMMA OperateKeeps ==
    ASSUME IInv, frames # <<>>, UNCHANGED <<session, entered, states>>,
           \/ frames' = <<>>
           \/ \E pc : frames' = Moved(pc)
           \/ \E inst : frames' = Left(inst)
    PROVE  IInv' /\ Kept(states, states')
<1>1. CASE frames' = <<>>
  BY <1>1, Exits
<1>2. CASE frames' # <<>>
  <2>1. Alike(frames, frames')
    BY <1>2, Going
  <2> QED
    BY <2>1, Goes DEF IInv
<1> QED
  BY <1>1, <1>2

LEMMA FuncCallKeeps ==
    ASSUME IInv, frames # <<>>, NEW func, NEW self, NEW args, NEW next, FuncCall(func, self, args, next)
    PROVE  IInv' /\ Kept(states, states')
<1>1. CASE func.type = "fnc"
  <2>1. PICK env, ops : /\ states' = Entered(FALSE, env) /\ UNCHANGED <<session, entered>>
                        /\ frames' = Append(Moved(next), Frame("call", func.body, FALSE, ops, states', <<>>))
    BY <1>1 DEF FuncCall
  <2> DEFINE f == Frame("call", func.body, FALSE, ops, states', <<>>)
  <2>2. Row(states) /\ states' = Append(states, env)
    BY <2>1 DEF Entered, IInv
  <2>3. Row(states') /\ Len(states') = Len(states) + 1 /\ \A i \in 1..Len(states) : states'[i] = states[i]
    BY <2>2, AppendIs
  <2>4. IsFrame(f) /\ f.kind # "program" /\ f.inState = FALSE /\ f.level = Len(states')
    <3>1. IsFrame(f) /\ f.kind = "call" /\ f.inState = FALSE /\ f.level = Len(states')
      BY <2>3, RowIs DEF Frame, IsFrame
    <3> QED
      BY <3>1
  <2> HIDE DEF f
  <2>5. Alike(frames, Moved(next)) /\ frames' = Append(Moved(next), f) /\ Len(states) \in Nat
    BY <2>1, Going, TopIs DEF f
  <2>6. \A i \in 1..Len(states) - 1 : states'[i] = states[i]
    BY <2>3, <2>5
  <2> QED
    BY <2>1, <2>3, <2>4, <2>5, <2>6, Calls
<1>2. CASE func.type # "fnc"
  <2>1. /\ UNCHANGED <<session, entered, states>>
        /\ frames' = <<>> \/ frames' = Moved(next)
    BY <1>2 DEF FuncCall, Operate, VmExit
  <2> QED
    BY <2>1, OperateKeeps
<1> QED
  BY <1>1, <1>2

(* The instructions that work on operands and go on.                       *)
LEMMA InstructionKeeps ==
    ASSUME IInv, Instructions
    PROVE  IInv' /\ Kept(states, states')
<1> DEFINE Good  == IInv' /\ Kept(states, states')
           Plain == /\ frames # <<>> /\ UNCHANGED <<session, entered, states>>
                    /\ \/ frames' = <<>>
                       \/ \E pc : frames' = Moved(pc)
                       \/ \E inst : frames' = Left(inst)
<1>1. Plain => Good
  BY OperateKeeps
<1> HIDE DEF Plain
<1>2. ASSUME NEW ops, NEW pc, NEW op, At(op), Operate(ops, pc) PROVE Plain
  BY <1>2 DEF At, Operate, Plain
<1>3. ASSUME NEW ops, NEW op, At(op), VmExit(ops) PROVE Plain
  BY <1>3 DEF At, VmExit, Plain
<1>4. PushNil \/ PushInt \/ PushBool \/ PushStr \/ PushVar \/ PushList \/ PushKvp => Plain
  BY <1>2, <1>3, Zenon DEF PushNil, PushInt, PushBool, PushStr, PushVar, PushList, PushKvp
<1>5. PushFnc => Plain
  BY <1>2, <1>3, Zenon DEF PushFnc
<1>6. ListGet \/ UnaryOp \/ NewSource \/ DropSource \/ Jump \/ Iff => Plain
  BY <1>2, Zenon DEF ListGet, UnaryOp, NewSource, DropSource, Jump, Iff
<1>7. ASSUME NEW op, Binary(op) PROVE Plain
  BY <1>2, <1>7, Zenon DEF Binary
<1>8. ASSUME NEW op, BooleanOp(op) PROVE Plain
  BY <1>2, <1>8, Zenon DEF BooleanOp
<1>9. Ret \/ Tro => Plain
  BY DEF Ret, Tro, At, Plain
<1>10. CallFunction \/ Method => Good
  <2>1. ASSUME CallFunction \/ Method
        PROVE  frames # <<>> /\ \E func, self, args, next : FuncCall(func, self, args, next)
    BY <2>1, Zenon DEF CallFunction, Method, At
  <2> QED
    BY <2>1, FuncCallKeeps
<1>11. ASSUME NEW op, Set(op) PROVE Good
  <2>1. PICK name, v, pc : /\ frames # <<>> /\ states' = SetNamedVariable(states, name, v)
                           /\ frames' = Moved(pc) /\ UNCHANGED <<session, entered>>
    BY <1>11 DEF Set, At
  <2>2. Row(states) /\ states # <<>>
    BY <2>1, TopIs, RowIs DEF IInv
  <2>3. /\ Row(states') /\ Len(states') = Len(states)
        /\ \A i \in 1..Len(states) - 1 : states'[i] = states[i]
    BY <2>1, <2>2, SetIs
  <2>4. Alike(frames, frames')
    BY <2>1, Going
  <2> QED
    BY <2>1, <2>3, <2>4, Goes
<1>12. VmTrycatch => Good
  <2> SUFFICES ASSUME VmTrycatch PROVE Good
    OBVIOUS
  <2>1. PICK pc, program, more :
          /\ frames # <<>> /\ UNCHANGED <<session, entered, states>>
          /\ frames' = Append(Moved(pc), Frame("trial", program, TRUE, operands, states, more))
    BY DEF VmTrycatch, At
  <2> DEFINE f == Frame("trial", program, TRUE, operands, states, more)
  <2>2. Row(states) /\ Len(states) \in Nat
    BY RowIs DEF IInv
  <2>3. IsFrame(f) /\ f.kind = "trial" /\ f.inState = TRUE /\ f.level = Len(states)
    BY <2>2 DEF Frame, IsFrame
  <2> HIDE DEF f
  <2>4. f.kind # "program" /\ Len(states') = Len(states) + (IF f.inState THEN 0 ELSE 1) /\ f.level = Len(states')
    BY <2>1, <2>2, <2>3
  <2>5. Alike(frames, Moved(pc)) /\ frames' = Append(Moved(pc), f)
    BY <2>1, Going DEF f
  <2> QED
    BY <2>1, <2>2, <2>3, <2>4, <2>5, Calls
<1>13. ASSUME NEW op, Iterate(op) PROVE Good
  <2>1. PICK pc, it : /\ frames # <<>> /\ UNCHANGED <<session, entered>>
                      /\ NextItem(Moved(pc), it, Below(operands, 1), states)
    BY <1>13, Zenon DEF Iterate, At
  <2> DEFINE n == Len(states)
             caller == Moved(pc)
  <2>2. Alike(frames, caller) /\ Piled(frames, n, entered) /\ n \in Nat \ {0} /\ Row(states)
        /\ Len(frames) \in Nat \ {0}
    BY <2>1, Going, TopIs DEF IInv
  <2> HIDE DEF caller, n
  <2>3. Piled(caller, n, entered) /\ caller # <<>> /\ states # <<>>
    BY <2>2, AlikePiled, RowIs DEF Alike, n
  <2>4. /\ Row(states') /\ Len(states') = n /\ \A i \in 1..n - 1 : states'[i] = states[i]
        /\ Piled(frames', n, entered)
    BY <2>1, <2>2, <2>3, NextItemIs DEF n, caller
  <2>5. entered # 0
    BY <2>1 DEF IInv
  <2>6. DOMAIN states = 1..n
    BY <2>2, RowIs DEF n
  <2>7. Kept(states, states')
    BY <2>2, <2>4, <2>6 DEF Kept, n
  <2> QED
    BY <2>1, <2>4, <2>5, <2>7 DEF IInv
<1> HIDE DEF Good
<1>14. Good
  BY <1>1, <1>4, <1>5, <1>6, <1>7, <1>8, <1>9, <1>10, <1>11, <1>12, <1>13 DEF Instructions
<1> QED
  BY <1>14 DEF Good

(* The run that has ended was in the state of the run below, which goes on *)
(* or starts another.                                                      *)
LEMMA Settles ==
    ASSUME IInv, frames # <<>>, UNCHANGED <<session, entered>>, Row(states'), Len(states') = Len(states),
           \A i \in 1..Len(states) - 1 : states'[i] = states[i], Piled(frames', Len(states'), entered)
    PROVE  IInv' /\ Kept(states, states')
<1>1. entered # 0
  BY DEF IInv
<1>2. DOMAIN states = 1..Len(states) /\ Len(states) \in Nat
  BY RowIs DEF IInv
<1>3. Kept(states, states')
  BY <1>2 DEF Kept
<1> QED
  BY <1>1, <1>3 DEF IInv

LEMMA BodyIs ==
    ASSUME IInv, Ended, Top.kind \in {"where", "how", "trial", "catcher"}
    PROVE  /\ frames # <<>> /\ RunStates = states /\ Row(states) /\ Len(states) \in Nat \ {0} /\ states # <<>>
           /\ Piled(Others, Len(states), entered) /\ Others # <<>>
<1>1. frames # <<>>
  BY DEF Ended
<1>2. Top.kind # "program" /\ Top.inState
  BY <1>1, TopIs DEF IsFrame
<1>3. RunStates = states
  BY <1>2 DEF RunStates
<1> QED
  BY <1>1, <1>2, <1>3, EndIs, TopIs DEF IInv

LEMMA FinishCallKeeps ==
    ASSUME IInv, FinishCall
    PROVE  IInv' /\ Kept(states, states')
<1>1. /\ frames # <<>> /\ Top.kind # "program" /\ UNCHANGED <<session, entered>>
      /\ frames' = Others /\ states' = RunStates
  BY DEF FinishCall, Ended
<1>2. Piled(Others, Len(RunStates), entered) /\ Row(RunStates)
  BY <1>1, EndIs
<1>3. Alike(Others, frames')
  BY <1>1, <1>2, SameAlike
<1> QED
  BY <1>1, <1>2, <1>3, Ends

LEMMA NextItemKeeps ==
    ASSUME IInv, Ended, Top.kind \in {"where", "how"}, UNCHANGED <<session, entered>>,
           NEW it, NEW ops, NextItem(Others, it, ops, RunStates)
    PROVE  IInv' /\ Kept(states, states')
<1>1. /\ frames # <<>> /\ RunStates = states /\ Row(states) /\ Len(states) \in Nat \ {0} /\ states # <<>>
      /\ Piled(Others, Len(states), entered) /\ Others # <<>>
  BY BodyIs
<1> DEFINE n == Len(states)
<1>2. n \in Nat /\ n = Len(states) /\ Piled(Others, n, entered) /\ NextItem(Others, it, ops, states)
  BY <1>1
<1> HIDE DEF n
<1>3. /\ Row(states') /\ Len(states') = n /\ \A i \in 1..n - 1 : states'[i] = states[i]
      /\ Piled(frames', n, entered)
  BY <1>1, <1>2, NextItemIs
<1> QED
  BY <1>1, <1>2, <1>3, Settles

LEMMA FinishWhereKeeps ==
    ASSUME IInv, FinishWhere
    PROVE  IInv' /\ Kept(states, states')
<1> DEFINE ops == Below(RunOperands, 1)
<1>1. Ended /\ Top.kind = "where" /\ UNCHANGED <<session, entered>>
  BY DEF FinishWhere
<1>2. CASE NextItem(Others, Top.more, ops, RunStates)
  BY <1>1, <1>2, NextItemKeeps
<1>3. CASE /\ states' = RunStates
           /\ frames' = Append(Others, Frame("how", Top.more.how, TRUE, ops, states', Top.more))
  <2> DEFINE f == Frame("how", Top.more.how, TRUE, ops, states', Top.more)
  <2>1. /\ frames # <<>> /\ RunStates = states /\ Row(states) /\ Len(states) \in Nat \ {0}
        /\ Piled(Others, Len(states), entered) /\ Others # <<>>
    BY <1>1, BodyIs
  <2>2. IsFrame(f) /\ f.kind = "how" /\ f.inState = TRUE /\ f.level = Len(states)
    BY <1>3, <2>1 DEF Frame, IsFrame
  <2> HIDE DEF f
  <2>3. Piled(Append(Others, f), Len(states), entered)
    <3> DEFINE n == Len(states)
    <3>1. /\ n \in Nat /\ n = n + (IF f.inState THEN 0 ELSE 1) /\ f.level = n /\ Piled(Others, n, entered)
          /\ IsFrame(f) /\ f.kind # "program"
      BY <2>1, <2>2
    <3> HIDE DEF n
    <3>2. Piled(Append(Others, f), n, entered)
      BY <2>1, <3>1, UponPiled
    <3> QED
      BY <3>2 DEF n
  <2> QED
    BY <1>1, <1>3, <2>1, <2>3, Settles DEF f
<1>4. \/ NextItem(Others, Top.more, ops, RunStates)
      \/ /\ states' = RunStates
         /\ frames' = Append(Others, Frame("how", Top.more.how, TRUE, ops, states', Top.more))
  BY DEF FinishWhere
<1> QED
  BY <1>2, <1>3, <1>4

(* The run below is over too.                                              *)
LEMMA OverKeeps ==
    ASSUME IInv, Ended, Top.kind \in {"how", "trial", "catcher"}, UNCHANGED <<session, entered, states>>, NEW inst,
           \/ frames' = [Others EXCEPT ![Len(Others)].over = TRUE]
           \/ frames' = [Others EXCEPT ![Len(Others)].over = TRUE, ![Len(Others)].inst = inst]
    PROVE  IInv' /\ Kept(states, states')
<1>1. /\ frames # <<>> /\ Row(states) /\ Len(states) \in Nat \ {0}
      /\ Piled(Others, Len(states), entered) /\ Others # <<>>
  BY BodyIs
<1>2. Alike(Others, frames')
  <2> DEFINE n  == Len(states)
             fs == Others
  <2>1. Piled(fs, n, entered) /\ fs # <<>>
    BY <1>1
  <2> HIDE DEF n, fs
  <2>2. /\ Alike(fs, [fs EXCEPT ![Len(fs)].over = TRUE])
        /\ Alike(fs, [fs EXCEPT ![Len(fs)].over = TRUE, ![Len(fs)].inst = inst])
    BY <2>1, OverAlike
  <2> QED
    BY <2>2 DEF fs
<1>3. Piled(frames', Len(states), entered)
  BY <1>1, <1>2, AlikePiled
<1> QED
  BY <1>1, <1>3, Settles

LEMMA FinishHowKeeps ==
    ASSUME IInv, FinishHow
    PROVE  IInv' /\ Kept(states, states')
<1>1. Ended /\ Top.kind = "how" /\ UNCHANGED <<session, entered>>
  BY DEF FinishHow
<1>2. CASE Returned
  <2>1. frames' = [Others EXCEPT ![Len(Others)].over = TRUE] /\ states' = states
    BY <1>1, <1>2, BodyIs DEF FinishHow
  <2> QED
    BY <1>1, <2>1, OverKeeps
<1>3. CASE \E it, ops : NextItem(Others, it, ops, RunStates)
  BY <1>1, <1>3, NextItemKeeps
<1>4. Returned \/ \E it, ops : NextItem(Others, it, ops, RunStates)
  BY Zenon DEF FinishHow
<1> QED
  BY <1>2, <1>3, <1>4

LEMMA FinishTrialKeeps ==
    ASSUME IInv, FinishTrial
    PROVE  IInv' /\ Kept(states, states')
<1>1. Ended /\ Top.kind = "trial" /\ UNCHANGED <<session, entered>>
  BY DEF FinishTrial
<1>2. CASE error = NoError
  BY <1>1, <1>2, OverKeeps DEF FinishTrial
<1>3. CASE error # NoError
  <2> DEFINE f == Frame("catcher", Top.more.catcher, TRUE, RunOperands, states', <<>>)
             n == Len(states)
  <2>1. /\ frames # <<>> /\ RunStates = states /\ Row(states) /\ n \in Nat \ {0} /\ states # <<>>
        /\ Piled(Others, n, entered) /\ Others # <<>>
    BY <1>1, BodyIs
  <2>2. frames' = Append(Others, f) /\ states' = SetNamedVariable(states, Top.more.name, error)
    BY <1>3, <2>1 DEF FinishTrial
  <2>3. Row(states') /\ Len(states') = n /\ \A i \in 1..n - 1 : states'[i] = states[i]
    BY <2>1, <2>2, SetIs
  <2>4. IsFrame(f) /\ f.kind = "catcher" /\ f.inState = TRUE /\ f.level = n
    BY <2>1, <2>3 DEF Frame, IsFrame
  <2> HIDE DEF f, n
  <2>5. Piled(Append(Others, f), n, entered)
    <3>1. n \in Nat /\ n = n + (IF f.inState THEN 0 ELSE 1) /\ f.kind # "program"
      BY <2>1, <2>4
    <3> QED
      BY <2>1, <2>4, <3>1, UponPiled
  <2> QED
    BY <1>1, <2>1, <2>2, <2>3, <2>5, Settles DEF n
<1> QED
  BY <1>2, <1>3

LEMMA FinishCatcherKeeps ==
    ASSUME IInv, FinishCatcher
    PROVE  IInv' /\ Kept(states, states')
<1>1. Ended /\ Top.kind = "catcher" /\ UNCHANGED <<session, entered, states>>
  BY DEF FinishCatcher
<1>2. \E inst : \/ frames' = [Others EXCEPT ![Len(Others)].over = TRUE]
               \/ frames' = [Others EXCEPT ![Len(Others)].over = TRUE, ![Len(Others)].inst = inst]
  <2> DEFINE n  == Len(states)
             fs == Others
             l  == Len(fs)
             b  == IF Returned THEN "RET" ELSE fs[l].inst
  <2>1. Row(fs) /\ fs # <<>> /\ \A i \in 1..l : IsFrame(fs[i])
    BY <1>1, BodyIs DEF Piled
  <2>2. l \in 1..l /\ DOMAIN fs = 1..l
    <3>1. l \in Nat /\ l # 0 /\ DOMAIN fs = 1..l
      BY <2>1, RowIs
    <3> QED
      BY <3>1
  <2>3. IsFrame(fs[l])
    BY <2>1, <2>2
  <2>4. frames' = [fs EXCEPT ![l].over = TRUE, ![l].inst = IF Returned THEN "RET" ELSE @]
    BY DEF FinishCatcher
  <2> HIDE DEF fs, l
  <2>5. [fs[l] EXCEPT !.over = TRUE].inst = fs[l].inst
    BY <2>3 DEF IsFrame
  <2>6. [fs EXCEPT ![l].over = TRUE][l] = [fs[l] EXCEPT !.over = TRUE]
    BY <2>2
  <2>7. frames' = [fs EXCEPT ![l].over = TRUE, ![l].inst = b]
    BY <2>4, <2>5, <2>6
  <2> QED
    BY <2>7 DEF fs, l
<1> QED
  BY <1>1, <1>2, OverKeeps

LEMMA EnterKeeps ==
    ASSUME IInv, Enter
    PROVE  IInv' /\ Kept(states, states')
<1> DEFINE f == Frame("program", Inputs[entered'], Interactive, operands, states', <<>>)
<1>1. /\ frames = <<>> /\ entered' = entered + 1 /\ states' = Entered(Interactive, <<>>)
      /\ frames' = <<f>> /\ UNCHANGED session
  BY DEF Enter
<1>2. Interactive \in BOOLEAN
  BY SessionsAssumption DEF IInv, Interactive, Given
<1>3. Row(states) /\ Len(states) \in Nat /\ DOMAIN states = 1..Len(states) /\ (states = <<>> <=> Len(states) = 0)
  BY RowIs DEF IInv
<1>4. /\ Row(states') /\ Len(states') \in Nat \ {0} /\ \A i \in 1..Len(states) : states'[i] = states[i]
      /\ states = <<>> => Len(states') = 1
  <2>1. CASE Interactive /\ states # <<>>
    BY <1>1, <1>3, <2>1 DEF Entered
  <2>2. CASE ~(Interactive /\ states # <<>>)
    <3>1. states' = Append(states, <<>>)
      BY <1>1, <2>2 DEF Entered
    <3>2. /\ Row(states') /\ Len(states') = Len(states) + 1
          /\ \A i \in 1..Len(states) : states'[i] = states[i]
      BY <1>3, <3>1, AppendIs
    <3> QED
      BY <1>3, <3>2
  <2> QED
    BY <2>1, <2>2
<1>5. IsFrame(f) /\ f.kind = "program" /\ f.level = Len(states')
  BY <1>2, <1>4 DEF Frame, IsFrame
<1> HIDE DEF f
<1>6. entered' \in Nat \ {0} /\ (entered' = 1 => f.level = 1)
  BY <1>1, <1>4, <1>5 DEF IInv
<1>7. Row(frames') /\ Len(frames') = 1 /\ frames'[1] = f
  <2>1. <<f>> \in Seq({f}) /\ Len(<<f>>) = 1 /\ <<f>>[1] = f
    OBVIOUS
  <2>2. Row(<<f>>)
    BY <2>1, SequenceIsRow
  <2> QED
    BY <1>1, <2>1, <2>2
<1>8. Piled(frames', Len(states'), entered')
  BY <1>4, <1>5, <1>6, <1>7 DEF Piled
<1>9. Kept(states, states')
  BY <1>3, <1>4 DEF Kept
<1> QED
  BY <1>1, <1>4, <1>6, <1>8, <1>9 DEF IInv

LEMMA FinishProgramKeeps ==
    ASSUME IInv, FinishProgram
    PROVE  IInv' /\ Kept(states, states')
<1>1. frames # <<>> /\ frames' = <<>> /\ states' = RunStates /\ UNCHANGED <<session, entered>>
  BY DEF FinishProgram, Ended
<1>2. /\ Row(RunStates) /\ Len(RunStates) = Len(states) - (IF Top.inState THEN 0 ELSE 1)
      /\ Len(RunStates) \in Nat /\ \A i \in 1..Len(RunStates) : RunStates[i] = states[i]
  BY <1>1, EndIs
<1>3. Piled(<<>>, Len(states'), entered')
  BY DEF Piled, Row
<1>4. entered # 0
  BY <1>1 DEF IInv
<1>5. DOMAIN states = 1..Len(states) /\ Len(states) \in Nat
  BY RowIs DEF IInv
<1>6. Kept(states, states')
  <2> SUFFICES ASSUME NEW i \in 1..Len(states), i < Len(states') + 1
               PROVE  states'[i] = states[i]
    BY <1>5 DEF Kept
  <2> DEFINE r == Len(RunStates)
  <2>1. i < r + 1 /\ r \in Nat
    BY <1>1, <1>2
  <2> HIDE DEF r
  <2>2. i \in 1..r
    BY <2>1
  <2> QED
    BY <1>1, <1>2, <2>2 DEF r
<1> QED
  BY <1>1, <1>2, <1>3, <1>4, <1>6 DEF IInv

LEMMA InitHolds == Init => IInv
<1>1. Row(<<>>)
  BY DEF Row
<1> QED
  BY <1>1 DEF Init, IInv, Piled, Given

LEMMA StepKeeps ==
    ASSUME IInv, [Next]_vars
    PROVE  IInv' /\ Kept(states, states')
<1>1. CASE Next
  <2>1. CASE Instructions
    BY <2>1, InstructionKeeps
  <2>2. CASE FinishCall
    BY <2>2, FinishCallKeeps
  <2>3. CASE FinishWhere
    BY <2>3, FinishWhereKeeps
  <2>4. CASE FinishHow
    BY <2>4, FinishHowKeeps
  <2>5. CASE FinishTrial
    BY <2>5, FinishTrialKeeps
  <2>6. CASE FinishCatcher
    BY <2>6, FinishCatcherKeeps
  <2>7. CASE Enter
    BY <2>7, EnterKeeps
  <2>8. CASE FinishProgram
    BY <2>8, FinishProgramKeeps
  <2>9. CASE Rest
    BY <2>9 DEF Rest, vars, IInv, Kept
  <2> QED
    BY <1>1, <2>1, <2>2, <2>3, <2>4, <2>5, <2>6, <2>7, <2>8, <2>9 DEF Next
<1>2. CASE UNCHANGED vars
  BY <1>2 DEF vars, IInv, Kept
<1> QED
  BY <1>1, <1>2

LEMMA Invariant == Spec => []IInv
<1>1. IInv /\ [Next]_vars => IInv'
  BY StepKeeps
<1> QED
  BY <1>1, InitHolds, PTL DEF Spec

-----------------------------------------------------------------------------
(* The states.                                                             *)

LEMMA StatesAtEnd == IInv => StatePerCall
<1> SUFFICES ASSUME IInv, frames # <<>> PROVE StatePerCall
  BY DEF StatePerCall
<1>1. Top.level = Len(states)
  BY TopIs
<1>2. Row(frames) /\ Len(frames) \in Nat /\ DOMAIN frames = 1..Len(frames)
  BY RowIs DEF IInv, Piled
<1>3. \A i \in DOMAIN frames \ {1} : i \in 2..Len(frames)
  BY <1>2
<1>4. /\ \A i \in 2..Len(frames) : frames[i].level = frames[i - 1].level + (IF frames[i].inState THEN 0 ELSE 1)
      /\ entered = 1 => frames[1].level = 1
  BY DEF IInv, Piled
<1> QED
  BY <1>1, <1>3, <1>4 DEF StatePerCall

(* Whatever the bytecode is, as many states are on the program stack as the   *)
(* runs in progress have made: the assertion of run (vm.c:1554) holds when *)
(* it ends, and it drops its own state and no other.                       *)
THEOREM StatesMatch == Spec => []StatePerCall
  BY Invariant, StatesAtEnd, PTL

(* Whatever the bytecode is, no instruction and no end of a run changes the   *)
(* variables in a state below the last.                                    *)
THEOREM CallersStay == Spec => CallersKept
<1>1. IInv /\ [Next]_vars
         => [\A i \in DOMAIN states : i < Len(states) /\ i < Len(states') + 1 => states'[i] = states[i]]_vars
  BY StepKeeps DEF Kept
<1> QED
  BY <1>1, Invariant, PTL DEF Spec, CallersKept

-----------------------------------------------------------------------------
(* How many bytes there are in the pieces of code.                         *)

(* How many bytes a number takes.                                          *)

LEMMA SizeIs ==
    ASSUME NEW i \in Int32s
    PROVE  /\ SerialEncodeInt(i) \in Seq(Bytes) /\ Len(SerialEncodeInt(i)) = SerialEncodeIntSize(i)
           /\ SerialEncodeIntSize(i) \in 1..5
<1>1. i \in Int /\ HasAbs(i)
  BY Int32Is
<1>2. PICK a, n, g, d : Parts(i, a, n, g, d)
  BY <1>1, PartsAre
<1>3. SerialEncodeIntSize(i) = g + 1 /\ Len(SerialEncodeInt(i)) = g + 1
  BY <1>2, CodeIs
<1>4. g \in 0..4
  BY <1>2 DEF Parts
<1> QED
  BY <1>1, <1>3, <1>4, IntBytes

(* A greater number takes no fewer bytes.                                  *)
LEMMA SizeGrows ==
    ASSUME NEW m \in Nat, NEW n \in Nat, m <= n
    PROVE  SerialEncodeIntSize(m) <= SerialEncodeIntSize(n) /\ SerialEncodeIntSize(-n) = SerialEncodeIntSize(n)
<1> DEFINE Reached(a) == {k \in 1..4 : Weights[k] <= a \div 64}
<1>1. Abs(m) = m /\ Abs(n) = n /\ Abs(-n) = n
  BY DEF Abs
<1>2. m \div 64 \in Int /\ n \div 64 \in Int /\ m \div 64 <= n \div 64
  BY SMT
<1>3. \A k \in 1..4 : Weights[k] \in Int
  BY SMT DEF Weights
<1>4. Reached(m) \subseteq Reached(n)
  BY <1>2, <1>3
<1>5. IsFiniteSet(1..4)
  <2>1. 1 \in Int /\ 4 \in Int
    OBVIOUS
  <2> QED
    BY <2>1, FS_Interval
<1>6. IsFiniteSet(Reached(n))
  <2>1. Reached(n) \subseteq 1..4
    OBVIOUS
  <2> HIDE DEF Reached
  <2> QED
    BY <1>5, <2>1, FS_Subset
<1> HIDE DEF Reached
<1>7. /\ Cardinality(Reached(m)) <= Cardinality(Reached(n))
      /\ Cardinality(Reached(m)) \in Nat /\ Cardinality(Reached(n)) \in Nat
  BY <1>4, <1>6, FS_Subset, FS_CardinalityType
<1>8. /\ SerialEncodeIntSize(m) = 1 + Cardinality(Reached(m))
      /\ SerialEncodeIntSize(n) = 1 + Cardinality(Reached(n))
      /\ SerialEncodeIntSize(-n) = 1 + Cardinality(Reached(n))
  BY <1>1 DEF SerialEncodeIntSize, Groups, Reached
<1> QED
  BY <1>7, <1>8

(* The instruction of each opcode.                                         *)
LEMMA OpcodeIs ==
    ASSUME NEW op \in Range(Opcodes)
    PROVE  Opcode[op] \in Nat /\ Opcodes[Opcode[op] + 1] = op
<1>1. DOMAIN Opcodes = 1..49
  BY DEF Opcodes
<1> DEFINE C == CHOOSE i \in DOMAIN Opcodes : Opcodes[i] = op
<1>2. \E i \in DOMAIN Opcodes : Opcodes[i] = op
  BY DEF Range
<1>3. C \in DOMAIN Opcodes /\ Opcodes[C] = op
  BY <1>2
<1> HIDE DEF C
<1>4. C \in Int /\ C - 1 \in Nat /\ C - 1 + 1 = C
  BY <1>1, <1>3
<1>5. Opcode[op] = C - 1
  BY DEF Opcode, C
<1> QED
  BY <1>3, <1>4, <1>5

(* The instructions of the layouts are among them.                         *)
LEMMA JumpOpcodes ==
    {"AND", "ORR", "IFF", "JMP", "TRY", "FNC", "ITR", "COM", "NIL"} \subseteq Range(Opcodes)
<1>1. /\ Opcodes[35] = "AND" /\ Opcodes[36] = "ORR" /\ Opcodes[37] = "IFF" /\ Opcodes[38] = "JMP"
      /\ Opcodes[44] = "TRY" /\ Opcodes[9] = "FNC" /\ Opcodes[42] = "ITR" /\ Opcodes[43] = "COM"
      /\ Opcodes[1] = "NIL"
  BY DEF Opcodes
<1>2. DOMAIN Opcodes = 1..49
  BY DEF Opcodes
<1>3. /\ 35 \in 1..49 /\ 36 \in 1..49 /\ 37 \in 1..49 /\ 38 \in 1..49 /\ 44 \in 1..49
      /\ 9 \in 1..49 /\ 42 \in 1..49 /\ 43 \in 1..49 /\ 1 \in 1..49
  OBVIOUS
<1> QED
  BY <1>1, <1>2, <1>3 DEF Range

(* An instruction is one byte.                                             *)
LEMMA StepIs ==
    ASSUME NEW op \in Range(Opcodes)
    PROVE  Step(op) \in Seq(Bytes) /\ Len(Step(op)) = 1 /\ Step(op)[1] = Opcode[op]
  BY OpcodeIs DEF Step, Bytes

(* A jump is an instruction and its operand.                               *)
LEMMA JumpIs ==
    ASSUME NEW offset \in Int32s, offset # 0
    PROVE  /\ GenerateJump(offset) = Step("JMP") \o SerialEncodeInt(offset)
           /\ GenerateJump(offset) \in Seq(Bytes)
           /\ Len(GenerateJump(offset)) = 1 + SerialEncodeIntSize(offset)
<1>1. GenerateJump(offset) = Step("JMP") \o SerialEncodeInt(offset)
  BY DEF GenerateJump
<1>2. Step("JMP") \in Seq(Bytes) /\ Len(Step("JMP")) = 1
  BY StepIs, JumpOpcodes
<1>3. /\ SerialEncodeInt(offset) \in Seq(Bytes) /\ Len(SerialEncodeInt(offset)) = SerialEncodeIntSize(offset)
      /\ SerialEncodeIntSize(offset) \in Nat
  BY SizeIs
<1> DEFINE s == Step("JMP")
           t == SerialEncodeInt(offset)
<1> HIDE DEF s, t
<1>4. s \o t \in Seq(Bytes) /\ Len(s \o t) = Len(s) + Len(t)
  BY <1>2, <1>3, ConcatProperties DEF s, t
<1> QED
  BY <1>1, <1>2, <1>3, <1>4 DEF s, t

(* Sums of lengths that are not beyond the last.                           *)
LEMMA LengthsAdd ==
    ASSUME NEW x \in Nat, NEW y \in Nat, NEW M \in Nat, x > 0, x + y + 11 <= M
    PROVE  /\ \A l \in 1..5 : x + l + y \in Nat /\ x + l + y # 0 /\ x + l + y <= M
           /\ \A l, k \in 1..5 : l <= k => x + l + y <= x + k + y
  OBVIOUS

(* The lengths a jump can have.                                            *)
LEMMA JumpLengths == \A n \in 2..6 : n \in Nat /\ 2 <= n /\ n <= 6
  OBVIOUS

(* How far the jump back of a loop goes.                                   *)
TurnBy(ifa, over, b) == -(Len(ifa) + Len(over) + Len(b))

(* The lengths of a loop's two jumps are right about each other.           *)
LEMMA LoopJumpsFit ==
    ASSUME NEW ifa \in Seq(Bytes), NEW b \in Seq(Bytes), ifa # <<>>, Len(ifa) + Len(b) + 11 <= Most
    PROVE  /\ LoopJumps(ifa, b).over = SerialEncodeInt(Len(b) + Len(LoopJumps(ifa, b).back))
           /\ LoopJumps(ifa, b).back = GenerateJump(TurnBy(ifa, LoopJumps(ifa, b).over, b))
           /\ Len(LoopJumps(ifa, b).back) \in 2..6
<1> DEFINE over(n) == SerialEncodeInt(Len(b) + n)
           offset(n) == Len(ifa) + Len(over(n)) + Len(b)
           back(n) == GenerateJump(-offset(n))
           F(n)    == Len(back(n))
<1>1. Len(ifa) \in Nat /\ Len(b) \in Nat /\ Len(ifa) > 0 /\ Most \in Nat
  BY MostIs
<1>2. /\ \A l \in 1..5 : /\ Len(ifa) + l + Len(b) \in Nat /\ Len(ifa) + l + Len(b) # 0
                          /\ Len(ifa) + l + Len(b) <= Most
      /\ \A l, k \in 1..5 : l <= k => Len(ifa) + l + Len(b) <= Len(ifa) + k + Len(b)
  BY <1>1, LengthsAdd
<1>3. ASSUME NEW n \in 2..6
      PROVE  /\ Len(b) + n \in Nat /\ Len(over(n)) = SerialEncodeIntSize(Len(b) + n)
             /\ Len(over(n)) \in 1..5
  <2>1. Len(b) + n \in Nat /\ Len(b) + n \in 0..Most
    BY <1>1
  <2>2. Len(b) + n \in Int32s
    BY <2>1, LengthIs
  <2> QED
    BY <2>1, <2>2, SizeIs
<1> HIDE DEF over
<1>4. ASSUME NEW n \in 2..6
      PROVE  /\ offset(n) \in Nat /\ F(n) = 1 + SerialEncodeIntSize(offset(n))
             /\ SerialEncodeIntSize(offset(n)) \in Int /\ F(n) \in 2..6
  <2>1. offset(n) \in Nat /\ offset(n) # 0 /\ offset(n) <= Most
    <3>1. Len(over(n)) \in 1..5
      BY <1>3
    <3> QED
      BY <1>2, <3>1, Zenon
  <2> HIDE DEF offset
  <2>2. -offset(n) \in Int32s /\ -offset(n) # 0
    BY <2>1, <1>1, SMT DEF Int32s
  <2>3. F(n) = 1 + SerialEncodeIntSize(-offset(n)) /\ SerialEncodeIntSize(-offset(n)) \in 1..5
    BY <2>2, JumpIs, SizeIs
  <2>4. SerialEncodeIntSize(-offset(n)) = SerialEncodeIntSize(offset(n))
    BY <2>1, SizeGrows
  <2> HIDE DEF F
  <2> QED
    BY <2>1, <2>3, <2>4
<1>5. ASSUME NEW m \in 2..6, NEW n \in 2..6, m <= n
      PROVE  F(m) <= F(n)
  <2>1. Len(over(m)) <= Len(over(n))
    <3>1. SerialEncodeIntSize(Len(b) + m) <= SerialEncodeIntSize(Len(b) + n)
      <4>1. Len(b) + m \in Nat /\ Len(b) + n \in Nat /\ Len(b) + m <= Len(b) + n
        BY <1>1, <1>5
      <4> QED
        BY <4>1, SizeGrows
    <3> QED
      BY <1>3, <3>1
  <2>2. offset(m) \in Nat /\ offset(n) \in Nat /\ offset(m) <= offset(n)
    <3>1. Len(over(m)) \in 1..5 /\ Len(over(n)) \in 1..5
      BY <1>3
    <3> QED
      BY <1>2, <2>1, <3>1, Zenon
  <2> HIDE DEF offset
  <2>3. SerialEncodeIntSize(offset(m)) <= SerialEncodeIntSize(offset(n))
    BY <2>2, SizeGrows
  <2>4. /\ F(m) = 1 + SerialEncodeIntSize(offset(m)) /\ SerialEncodeIntSize(offset(m)) \in Int
        /\ F(n) = 1 + SerialEncodeIntSize(offset(n)) /\ SerialEncodeIntSize(offset(n)) \in Int
    BY <1>4
  <2> HIDE DEF F
  <2> QED
    BY <2>3, <2>4
<1> DEFINE a == F(2)
           c == F(a)
           d == F(c)
           e == F(d)
           Is(f) == f = [k \in 0..4 |-> IF k = 0 THEN 2 ELSE F(f[k - 1])]
           tried == CHOOSE f : Is(f)
           g == [k \in 0..4 |-> IF k = 0 THEN 2 ELSE IF k = 1 THEN a ELSE IF k = 2 THEN c
                                 ELSE IF k = 3 THEN d ELSE e]
<1>6. LoopJumps(ifa, b) = [over |-> over(tried[4]), back |-> back(tried[4])]
  BY DEF LoopJumps, over
<1> HIDE DEF back, F
<1>7. tried[4] = e
  <2>1. Is(g)
    <3>1. ASSUME NEW k \in 0..4 PROVE g[k] = IF k = 0 THEN 2 ELSE F(g[k - 1])
      <4>1. g[0] = 2 /\ g[1] = a /\ g[2] = c /\ g[3] = d /\ g[4] = e
        OBVIOUS
      <4>2. k = 0 \/ k = 1 \/ k = 2 \/ k = 3 \/ k = 4
        OBVIOUS
      <4> HIDE DEF g
      <4> QED
        BY <4>1, <4>2
    <3> QED
      BY <3>1
  <2>2. Is(tried)
    <3> HIDE DEF Is, g
    <3> QED
      BY <2>1
  <2> HIDE DEF tried, g
  <2>3. /\ tried[0] = 2 /\ tried[1] = F(tried[0]) /\ tried[2] = F(tried[1]) /\ tried[3] = F(tried[2])
        /\ tried[4] = F(tried[3])
    BY <2>2
  <2> QED
    BY <2>3
<1> HIDE DEF tried, a, c, d, e, g, Is
<1>8. a \in 2..6 /\ c \in 2..6 /\ d \in 2..6 /\ e \in 2..6 /\ F(e) \in 2..6
  <2>1. \A n \in 2..6 : F(n) \in 2..6
    BY <1>4
  <2>2. a \in 2..6
    <3>1. 2 \in 2..6
      OBVIOUS
    <3> QED
      BY <2>1, <3>1 DEF a
  <2>3. c \in 2..6
    BY <2>1, <2>2 DEF c
  <2>4. d \in 2..6
    BY <2>1, <2>3 DEF d
  <2>5. e \in 2..6
    BY <2>1, <2>4 DEF e
  <2> QED
    BY <2>1, <2>2, <2>3, <2>4, <2>5
<1>9. F(e) = e
  <2>1. 2 <= a /\ a <= c /\ c <= d /\ d <= e /\ e <= F(e)
    BY <1>5, <1>8 DEF a, c, d, e
  <2>2. /\ a = 2 => c = a
        /\ c = a => d = c
        /\ d = c => e = d
        /\ e = d => F(e) = e
    BY DEF a, c, d, e
  <2> QED
    BY <1>8, <2>1, <2>2
<1>10. LoopJumps(ifa, b).over = over(e) /\ LoopJumps(ifa, b).back = back(e) /\ Len(back(e)) = e
  BY <1>6, <1>7, <1>9 DEF F
<1> DEFINE jumps == LoopJumps(ifa, b)
<1>11. jumps.over = SerialEncodeInt(Len(b) + e)
  BY <1>10, Zenon DEF over
<1>12. back(e) = GenerateJump(TurnBy(ifa, over(e), b))
  BY SMT DEF back, TurnBy
<1>13. jumps.back = GenerateJump(TurnBy(ifa, jumps.over, b)) /\ Len(jumps.back) = e
  <2>1. jumps.over = over(e) /\ jumps.back = back(e) /\ Len(back(e)) = e
    BY <1>10, Zenon
  <2> HIDE DEF jumps, offset
  <2> QED
    BY <1>12, <2>1, Zenon
<1> HIDE DEF jumps, offset
<1>14. /\ jumps.over = SerialEncodeInt(Len(b) + Len(jumps.back))
       /\ jumps.back = GenerateJump(TurnBy(ifa, jumps.over, b)) /\ Len(jumps.back) \in 2..6
  BY <1>8, <1>11, <1>13, Zenon
<1> QED
  BY <1>14, Zenon DEF jumps

-----------------------------------------------------------------------------
(* What the run in progress finds in its code.                             *)

(* Pieces of code that lie one after the other.                            *)
LEMMA FourLie ==
    ASSUME NEW V, NEW s \in Seq(V), NEW t \in Seq(V), NEW u \in Seq(V), NEW v \in Seq(V),
           NEW buf, NEW at \in Nat, Lies(buf, at, s \o t \o u \o v)
    PROVE  /\ Lies(buf, at, s) /\ Lies(buf, at + Len(s), t)
           /\ Lies(buf, at + Len(s) + Len(t), u) /\ Lies(buf, at + Len(s) + Len(t) + Len(u), v)
           /\ Len(s \o t \o u \o v) = Len(s) + Len(t) + Len(u) + Len(v)
           /\ Lies(buf, at, s \o t)
<1>1. s \o t \in Seq(V) /\ s \o t \o u \in Seq(V)
  BY ConcatProperties
<1>2. /\ Len(s) \in Nat /\ Len(t) \in Nat /\ Len(u) \in Nat /\ Len(v) \in Nat
      /\ Len(s \o t) = Len(s) + Len(t) /\ Len(s \o t \o u) = Len(s \o t) + Len(u)
  BY <1>1, LenProperties, ConcatProperties
<1>3. /\ Lies(buf, at, s \o t \o u) /\ Lies(buf, at + Len(s \o t \o u), v)
      /\ Len(s \o t \o u \o v) = Len(s \o t \o u) + Len(v)
  BY <1>1, LiesSplit
<1>4. Lies(buf, at, s \o t) /\ Lies(buf, at + Len(s \o t), u)
  BY <1>1, <1>3, LiesSplit
<1>5. Lies(buf, at, s) /\ Lies(buf, at + Len(s), t)
  BY <1>4, LiesSplit
<1>6. /\ at + Len(s \o t) = at + Len(s) + Len(t)
      /\ at + Len(s \o t \o u) = at + Len(s) + Len(t) + Len(u)
      /\ Len(s \o t \o u \o v) = Len(s) + Len(t) + Len(u) + Len(v)
  BY <1>2, <1>3
<1> QED
  BY <1>3, <1>4, <1>5, <1>6

(* The same of three.                                                      *)
LEMMA ThreeLie ==
    ASSUME NEW V, NEW s \in Seq(V), NEW t \in Seq(V), NEW u \in Seq(V),
           NEW buf, NEW at \in Nat, Lies(buf, at, s \o t \o u)
    PROVE  /\ Lies(buf, at, s) /\ Lies(buf, at + Len(s), t)
           /\ Lies(buf, at + Len(s) + Len(t), u)
           /\ Len(s \o t \o u) = Len(s) + Len(t) + Len(u)
<1>1. s \o t \in Seq(V)
  BY ConcatProperties
<1>2. /\ Len(s) \in Nat /\ Len(t) \in Nat /\ Len(u) \in Nat
      /\ Len(s \o t) = Len(s) + Len(t)
  BY <1>1, LenProperties, ConcatProperties
<1>3. /\ Lies(buf, at, s \o t) /\ Lies(buf, at + Len(s \o t), u)
      /\ Len(s \o t \o u) = Len(s \o t) + Len(u)
  BY <1>1, LiesSplit
<1>4. Lies(buf, at, s) /\ Lies(buf, at + Len(s), t)
  BY <1>3, LiesSplit
<1>5. at + Len(s \o t) = at + Len(s) + Len(t) /\ Len(s \o t \o u) = Len(s) + Len(t) + Len(u)
  BY <1>2, <1>3
<1> QED
  BY <1>3, <1>4, <1>5

(* The run goes on, and code lies in its program from at on.               *)
Runs(code, at) ==
    /\ frames # <<>> /\ ~Top.over /\ Row(Top.program)
    /\ at \in Nat /\ Lies(Top.program, at, code)

(* An instruction is executed where it lies, and no other.                 *)
LEMMA Found ==
    ASSUME NEW op \in Range(Opcodes), NEW at, Runs(Step(op), at), Top.pc = at
    PROVE  At(op)
<1>1. at + 1 - 1 \in DOMAIN Top.program /\ Top.program[at + 1 - 1] = Opcode[op] /\ at \in Nat
  <2>1. Len(Step(op)) = 1 /\ Step(op)[1] = Opcode[op] /\ 1 \in 1..1
    BY StepIs
  <2> QED
    BY <2>1 DEF Runs, Lies
<1>2. at + 1 - 1 = at
  BY <1>1
<1>3. Len(Top.program) \in Nat /\ DOMAIN Top.program = 1..Len(Top.program)
  BY RowIs DEF Runs
<1>4. at <= Len(Top.program)
  BY <1>1, <1>2, <1>3
<1>5. ~Ended
  BY <1>3, <1>4, <1>1 DEF Ended, Runs
<1>6. Instruction = op
  BY <1>1, <1>2, OpcodeIs DEF Instruction
<1> QED
  BY <1>5, <1>6 DEF At, Runs

(* A step of the machine executes the instruction that it is at.           *)
LEMMA Executed ==
    ASSUME NEW op, At(op), Next
    PROVE  /\ op = "JMP" => Jump
           /\ op = "IFF" => Iff
           /\ op \in {"AND", "ORR"} => BooleanOp(op)
           /\ op = "TRY" => VmTrycatch
           /\ op = "FNC" => PushFnc
           /\ op \in {"ITR", "COM"} => Iterate(op)
<1>1. frames # <<>> /\ ~Ended
  BY DEF At
<1>2. ASSUME NEW o, At(o) PROVE o = op
  BY <1>2 DEF At
<1>3. Instructions
  <2>1. ~FinishCall /\ ~FinishWhere /\ ~FinishHow /\ ~FinishTrial /\ ~FinishCatcher /\ ~FinishProgram
    BY <1>1, Zenon DEF FinishCall, FinishWhere, FinishHow, FinishTrial, FinishCatcher, FinishProgram
  <2>2. ~Enter /\ ~Rest
    BY <1>1, Zenon DEF Enter, Rest, Over
  <2> QED
    BY <2>1, <2>2, Zenon DEF Next
<1>4. /\ PushNil => op = "NIL"
      /\ PushInt => op = "INT"
      /\ PushBool => op = "BUL"
      /\ PushStr => op = "STR"
      /\ PushVar => op = "VAR"
      /\ PushFnc => op = "FNC"
      /\ PushList => op = "LST"
      /\ PushKvp => op = "KVP"
      /\ ListGet => op = "GET"
  BY <1>2, Zenon DEF PushNil, PushInt, PushBool, PushStr, PushVar, PushFnc, PushList, PushKvp, ListGet
<1>5. /\ UnaryOp => op \in {"NOT", "NEG"}
      /\ NewSource => op = "SRC"
      /\ DropSource => op = "DST"
      /\ Jump => op = "JMP"
      /\ Iff => op = "IFF"
      /\ CallFunction => op = "CAL"
      /\ Method => op = "MET"
      /\ Ret => op = "RET"
      /\ VmTrycatch => op = "TRY"
      /\ Tro => op = "TRO"
  BY <1>2, Zenon DEF UnaryOp, NewSource, DropSource, Jump, Iff, CallFunction, Method, Ret, VmTrycatch, Tro
<1>6. \A o : /\ Binary(o) => op = o
             /\ Set(o) => op = o
             /\ BooleanOp(o) => op = o
             /\ Iterate(o) => op = o
  BY <1>2, Zenon DEF Binary, Set, BooleanOp, Iterate
<1>7. \/ PushNil \/ PushInt \/ PushBool \/ PushStr \/ PushVar \/ PushFnc \/ PushList \/ PushKvp
      \/ ListGet \/ UnaryOp \/ NewSource \/ DropSource \/ Jump \/ Iff \/ CallFunction \/ Method \/ Ret
      \/ VmTrycatch \/ Tro
      \/ op \in {"ADD", "SUB", "MUL", "EQU", "NEQ", "GTN", "LTN", "GRQ", "LEQ"}
      \/ op \in {"SET", "STX"}
      \/ op \in {"AND", "ORR"} /\ BooleanOp(op)
      \/ op \in {"ITR", "COM"} /\ Iterate(op)
  BY <1>3, <1>6, Zenon DEF Instructions
<1> QED
  BY <1>4, <1>5, <1>7

(* The operand of an instruction.                                          *)
LEMMA OperandIs ==
    ASSUME NEW op \in Range(Opcodes), NEW i \in Int32s, NEW at, Runs(Step(op), at), Top.pc = at,
           Lies(Top.program, at + 1, SerialEncodeInt(i))
    PROVE  At(op) /\ Operand = [val |-> i, next |-> at + 1 + Len(SerialEncodeInt(i))]
<1>1. At(op)
  BY Found
<1>2. at \in Nat /\ at + 1 \in Nat
  BY DEF Runs
<1>3. SerialDecodeInt(Top.program, at + 1) = [val |-> i, next |-> at + 1 + Len(SerialEncodeInt(i))]
  BY <1>2, IntReads
<1> QED
  BY <1>1, <1>3 DEF Operand

(* Quoted code is taken out as it is.                                      *)
LEMMA QuotedIs ==
    ASSUME NEW code \in Seq(Bytes), Len(code) <= Most
    PROVE  /\ Quoted(code) \in Seq(Bytes) /\ Len(code) \in Int32s
           /\ Len(Quoted(code)) = Len(SerialEncodeInt(Len(code))) + Len(code)
<1>1. Len(code) \in Nat /\ Most \in Nat
  BY MostIs
<1>2. Len(code) \in Int32s
  BY <1>1, LengthIs
<1> DEFINE s == SerialEncodeInt(Len(code))
<1>3. s \in Seq(Bytes)
  BY <1>2, SizeIs
<1> HIDE DEF s
<1>4. s \o code \in Seq(Bytes) /\ Len(s \o code) = Len(s) + Len(code)
  BY <1>3, ConcatProperties
<1> QED
  BY <1>2, <1>4 DEF Quoted, s

(* The machine takes out the code that was quoted, and goes on after it.   *)
LEMMA CodeReads ==
    ASSUME NEW code \in Seq(Bytes), Len(code) <= Most, NEW at, Runs(Quoted(code), at)
    PROVE  Code(at) = [val |-> code, next |-> at + Len(Quoted(code))]
<1> DEFINE s == SerialEncodeInt(Len(code))
           P == Top.program
           from == at + Len(s)
           n == Len(code)
<1>1. s \in Seq(Bytes) /\ n \in Int32s /\ Len(Quoted(code)) = Len(s) + n /\ at \in Nat
  BY QuotedIs, SizeIs DEF Runs
<1>2. Lies(P, at, s \o code)
  BY DEF Runs, Quoted
<1>3. Row(P) /\ Len(P) \in Nat /\ DOMAIN P = 1..Len(P)
  BY RowIs DEF Runs
<1> HIDE DEF s, P
<1>4. Lies(P, at, s) /\ Lies(P, from, code)
  BY <1>1, <1>2, LiesSplit
<1>5. SerialDecodeInt(P, at) = [val |-> n, next |-> from]
  BY <1>1, <1>4, IntReads DEF s
<1>6. n \in Nat /\ from \in Nat /\ Len(s) \in Nat
  BY <1>1
<1>7. SubSeq(P, from, from + n - 1) = code
  <2> HIDE DEF from, n
  <2>1. \A k \in 1..n : from + k - 1 \in DOMAIN P /\ P[from + k - 1] = code[k]
    BY <1>4 DEF Lies, n
  <2>2. CASE n = 0
    <3>1. code = <<>>
      BY <2>2 DEF n
    <3>2. from + n - 1 < from /\ from + n - 1 \in Int
      BY <1>6, <2>2
    <3> DEFINE S == {P[i] : i \in DOMAIN P}
    <3>3. P \in Seq(S)
      BY <1>3 DEF Row
    <3> HIDE DEF S
    <3>4. SubSeq(P, from, from + n - 1) = <<>>
      BY <1>6, <3>2, <3>3, SubSeqEmpty
    <3> QED
      BY <3>1, <3>4
  <2>3. CASE n > 0
    <3> DEFINE S == {P[i] : i \in DOMAIN P}
               t == SubSeq(P, from, from + n - 1)
    <3>1. P \in Seq(S)
      BY <1>3 DEF Row
    <3>2. \A i \in from..from + n - 1 : i \in DOMAIN P
      <4>1. ASSUME NEW i \in from..from + n - 1 PROVE i \in DOMAIN P
        <5>1. i - from + 1 \in 1..n /\ from + (i - from + 1) - 1 = i
          BY <1>6
        <5> QED
          BY <2>1, <5>1
      <4> QED
        BY <4>1
    <3>3. \A i \in from..from + n - 1 : P[i] \in S
      BY <3>2
    <3> HIDE DEF S
    <3>4. /\ from \in Int /\ from + n - 1 \in Int /\ from <= from + n - 1
          /\ from + n - 1 - from + 1 = n
      BY <1>6, <2>3
    <3> DEFINE last == from + n - 1
    <3>5. /\ last \in Int /\ from <= last /\ last - from + 1 = n
      BY <1>6, <2>3
    <3>6. \A i \in from..last : P[i] \in S
      BY <3>3
    <3>7. SubSeq(P, from, last) = t
      OBVIOUS
    <3> HIDE DEF last, t
    <3>8. t \in Seq(S) /\ Len(t) = n /\ \A k \in 1..n : t[k] = P[from + k - 1]
      <4>1. /\ SubSeq(P, from, last) \in Seq(S)
            /\ Len(SubSeq(P, from, last)) = IF from <= last THEN last - from + 1 ELSE 0
            /\ \A i \in 1..last - from + 1 : SubSeq(P, from, last)[i] = P[from + i - 1]
        BY <3>4, <3>5, <3>6, SubSeqProperties
      <4> QED
        BY <3>5, <3>7, <4>1
    <3>9. \A k \in 1..n : t[k] = code[k]
      BY <2>1, <3>8
    <3> HIDE DEF t
    <3>10. t \in Seq(S \cup Bytes) /\ code \in Seq(S \cup Bytes)
      BY <3>8
    <3>11. t = code
      BY <3>8, <3>9, <3>10, SameSeq DEF n
    <3> QED
      BY <3>11 DEF t
  <2> QED
    BY <1>6, <2>2, <2>3
<1>8. at + Len(Quoted(code)) = from + n
  BY <1>1, <1>6
<1>9. IntAt(at) = [val |-> n, next |-> from]
  BY <1>5 DEF IntAt, P
<1>10. SubSeq(Top.program, from, from + n - 1) = code
  BY <1>7 DEF P
<1> HIDE DEF from, n
<1>11. Code(at) = [val |-> SubSeq(Top.program, from, from + n - 1), next |-> from + n]
  BY <1>9 DEF Code
<1> QED
  BY <1>8, <1>10, <1>11

(* A name is read as a name.                                               *)
LEMMA NameIs ==
    ASSUME NEW n \in STRING
    PROVE  Str(n, 1) \in Strings /\ Name(n) \in Seq(Bytes)
<1>1. 1 \in 0..Most
  <2>1. Most \in Nat /\ 1 <= Most
    BY SMT DEF Most
  <2> QED
    BY <2>1
<1>2. Str(n, 1) \in Strings
  <2> DEFINE r == Str(n, 1)
  <2>1. r.type = "str" /\ r.name = n /\ r.len = 1 /\ r = [type |-> "str", name |-> n, len |-> 1]
    BY DEF Str
  <2>2. [type |-> "str", name |-> n, len |-> 1] \in [type : {"str"}, name : STRING, len : 0..Most]
    BY <1>1, Zenon
  <2>3. r \in [type : {"str"}, name : STRING, len : 0..Most] /\ ~(r.len = 0)
    BY <2>1, <2>2
  <2> HIDE DEF r
  <2>4. r \in Strings
    BY <2>3, Zenon DEF Strings
  <2> QED
    BY <2>4 DEF r
<1>3. Name(n) \in Seq(Bytes)
  BY <1>2, StringBytes DEF Name
<1> QED
  BY <1>2, <1>3

(* The machine reads the name that was written, and goes on after it.      *)
LEMMA LabelReads ==
    ASSUME NEW n \in STRING, NEW at \in Nat, Lies(Top.program, at, Name(n))
    PROVE  Label(at) = [val |-> n, next |-> at + Len(Name(n))]
<1>1. SerialDecodeString(Top.program, at) = [val |-> Str(n, 1), next |-> at + Len(Name(n))]
  BY NameIs, StringReads DEF Name
<1> QED
  BY <1>1 DEF Label, Str

(* Names, one after the other.                                             *)
LEMMA NamesAre ==
    ASSUME NEW names \in Seq(STRING)
    PROVE  /\ [i \in DOMAIN names |-> Name(names[i])] \in Seq(Seq(Bytes))
           /\ Len([i \in DOMAIN names |-> Name(names[i])]) = Len(names)
           /\ Names(names) \in Seq(Bytes)
<1> DEFINE n == Len(names)
           ss == [i \in 1..n |-> Name(names[i])]
<1>1. n \in Nat /\ DOMAIN names = 1..n /\ \A i \in 1..n : names[i] \in STRING
  OBVIOUS
<1> HIDE DEF n
<1>2. ss \in [1..n -> Seq(Bytes)]
  BY <1>1, NameIs
<1> HIDE DEF ss
<1>3. ss \in Seq(Seq(Bytes)) /\ Len(ss) = n
  BY <1>1, <1>2, FunSeq
<1>4. FlattenSeq(ss) \in Seq(Bytes)
  <2>1. PICK g \in [0..Len(ss) -> Seq(Bytes)] :
           /\ FlattenSeq(ss) = g[Len(ss)] /\ g[0] = <<>>
           /\ \A i \in 1..Len(ss) : g[i] = g[i - 1] \o ss[i]
    BY <1>3, FlattenFrom
  <2>2. Len(ss) \in 0..Len(ss)
    BY <1>1, <1>3
  <2> QED
    BY <2>1, <2>2
<1> QED
  BY <1>1, <1>3, <1>4 DEF Names, ss, n

(* The machine reads as many names as it is told, and those it was given.  *)
LEMMA LabelsRead ==
    ASSUME NEW names \in Seq(STRING), NEW at \in Nat, Lies(Top.program, at, Names(names))
    PROVE  Labels(at, Len(names)) = [val |-> names, next |-> at + Len(Names(names))]
<1> DEFINE n == Len(names)
           ss == [i \in DOMAIN names |-> Name(names[i])]
<1>1. n \in Nat /\ DOMAIN names = 1..n /\ \A i \in 1..n : names[i] \in STRING
  OBVIOUS
<1>2. ss \in Seq(Seq(Bytes)) /\ Len(ss) = n /\ Names(names) = FlattenSeq(ss)
  BY NamesAre DEF Names
<1>3. \A i \in 1..n : ss[i] = Name(names[i])
  BY <1>1
<1> HIDE DEF ss, n
<1>4. PICK p \in [0..n -> Nat] :
         /\ p[0] = at /\ p[n] = at + Len(FlattenSeq(ss))
         /\ \A i \in 1..n : p[i] = p[i - 1] + Len(ss[i]) /\ Lies(Top.program, p[i - 1], ss[i])
  <2>1. Lies(Top.program, at, FlattenSeq(ss))
    BY <1>2
  <2>2. \E p \in [0..Len(ss) -> Nat] :
           /\ p[0] = at /\ p[Len(ss)] = at + Len(FlattenSeq(ss))
           /\ \A i \in 1..Len(ss) : p[i] = p[i - 1] + Len(ss[i]) /\ Lies(Top.program, p[i - 1], ss[i])
    BY <1>2, <2>1, FlattenLies
  <2> QED
    BY <1>2, <2>2
<1>5. ASSUME NEW i \in 1..n
      PROVE  Label(p[i - 1]) = [val |-> names[i], next |-> p[i]]
  <2>1. i - 1 \in 0..n
    BY <1>1
  <2>2. p[i - 1] \in Nat /\ Lies(Top.program, p[i - 1], Name(names[i])) /\ p[i] = p[i - 1] + Len(Name(names[i]))
    BY <1>3, <1>4, <2>1
  <2> QED
    BY <1>1, <2>2, LabelReads
<1> DEFINE F(x) == Label(x).next
           Is(f) == f = [i \in 0..n |-> IF i = 0 THEN at ELSE F(f[i - 1])]
           starts == CHOOSE f : Is(f)
<1>6. Labels(at, n) = [val |-> [i \in 1..n |-> Label(starts[i - 1]).val], next |-> starts[n]]
  BY DEF Labels
<1>7. \A i \in 1..n : F(p[i - 1]) = p[i]
  <2> TAKE i \in 1..n
  <2>1. Label(p[i - 1]) = [val |-> names[i], next |-> p[i]]
    BY <1>5
  <2> QED
    BY <2>1
<1> HIDE DEF F
<1>8. Is(p)
  <2>1. ASSUME NEW i \in 0..n PROVE p[i] = IF i = 0 THEN at ELSE F(p[i - 1])
    <3>1. i # 0 => i \in 1..n
      BY <1>1
    <3> QED
      BY <1>4, <1>7, <3>1
  <2> QED
    BY <2>1
<1>9. Is(starts)
  <2> HIDE DEF Is
  <2> QED
    BY <1>8
<1> HIDE DEF starts
<1> DEFINE T == {i \in Nat : i <= n => starts[i] = p[i]}
<1>10. T = Nat
  <2>1. 0 \in T
    <3>1. starts[0] = at
      BY <1>1, <1>9
    <3> QED
      BY <1>4, <3>1
  <2>2. ASSUME NEW i \in T PROVE i + 1 \in T
    <3>1. CASE i + 1 <= n
      <4>1. i \in Nat /\ i <= n /\ i + 1 \in 1..n /\ i + 1 \in 0..n /\ i + 1 # 0 /\ i + 1 - 1 = i
        <5>1. i \in Nat
          OBVIOUS
        <5> HIDE DEF T
        <5> QED
          BY <1>1, <3>1, <5>1
      <4>2. starts[i] = p[i]
        BY <4>1
      <4>3. starts[i + 1] = F(starts[i + 1 - 1])
        <5> HIDE DEF T
        <5> QED
          BY <1>9, <4>1
      <4>4. F(p[i + 1 - 1]) = p[i + 1]
        BY <1>7, <4>1
      <4>5. starts[i + 1] = p[i + 1]
        <5> HIDE DEF T
        <5> QED
          BY <4>1, <4>2, <4>3, <4>4
      <4> QED
        BY <4>5
    <3>2. CASE ~(i + 1 <= n)
      BY <3>2
    <3> QED
      BY <3>1, <3>2
  <2> HIDE DEF T
  <2>3. T \in SUBSET Nat
    BY DEF T
  <2> QED
    BY <2>1, <2>2, <2>3, AllNumbers
<1>11. \A i \in 0..n : starts[i] = p[i]
  BY <1>1, <1>10
<1>12. \A i \in 1..n : Label(starts[i - 1]).val = names[i]
  <2> TAKE i \in 1..n
  <2>1. i - 1 \in 0..n
    BY <1>1
  <2>2. starts[i - 1] = p[i - 1]
    BY <1>11, <2>1
  <2>3. Label(p[i - 1]) = [val |-> names[i], next |-> p[i]]
    BY <1>5
  <2> QED
    BY <2>2, <2>3
<1>13. [i \in 1..n |-> Label(starts[i - 1]).val] = names
  <2>1. names = [i \in 1..n |-> names[i]]
    BY <1>1
  <2>2. [i \in 1..n |-> Label(starts[i - 1]).val] = [i \in 1..n |-> names[i]]
    BY <1>12
  <2> QED
    BY <2>1, <2>2
<1>14. starts[n] = at + Len(Names(names))
  BY <1>1, <1>2, <1>4, <1>11
<1> QED
  BY <1>6, <1>13, <1>14 DEF n

-----------------------------------------------------------------------------
(* The layouts.                                                            *)

(* Where the body of a loop begins, from its start.                        *)
BodyAt(test, body) == Len(test) + 1 + Len(LoopJumps(test \o Step("IFF"), body).over)

(* A loop, whatever its test and its body are (compile.c:1404): from the   *)
(* test the machine goes to the body or past the jump back, and from the   *)
(* end of the body to the test, although each of the two jumps counts the  *)
(* bytes of the other.                                                     *)
THEOREM LoopsTurn ==
    ASSUME NEW test \in Seq(Bytes), NEW body \in Seq(Bytes), Len(test) + Len(body) + 12 <= Most,
           NEW at, Runs(LoopCode(test, body), at), Next
    PROVE  /\ Lies(Top.program, at, test) /\ Lies(Top.program, at + BodyAt(test, body), body)
           /\ Top.pc = at + Len(test)
                => frames' = Moved(IF TestOperand(Popped(operands, 0)) THEN at + BodyAt(test, body)
                                   ELSE at + Len(LoopCode(test, body)))
           /\ Top.pc = at + BodyAt(test, body) + Len(body) => frames' = Moved(at)
<1> DEFINE iff  == Step("IFF")
           ifa  == test \o iff
           over == LoopJumps(ifa, body).over
           back == LoopJumps(ifa, body).back
           turn == TurnBy(ifa, over, body)
           go   == Len(body) + Len(back)
           x    == at + Len(test)
           from == x + 1 + Len(over)
           to   == from + Len(body)
           end  == to + Len(back)
<1>1. LoopCode(test, body) = ifa \o over \o body \o back
  BY DEF LoopCode
<1>2. BodyAt(test, body) = Len(test) + 1 + Len(over)
  BY DEF BodyAt
<1>3. Lies(Top.program, at, ifa \o over \o body \o back)
  BY <1>1, Zenon DEF Runs
<1>4. at \in Nat /\ Len(test) \in Nat /\ Len(body) \in Nat
  BY DEF Runs
<1>5. "IFF" \in Range(Opcodes) /\ "JMP" \in Range(Opcodes)
  BY JumpOpcodes
<1>6. iff \in Seq(Bytes)
  BY <1>5, StepIs
<1>7. Len(iff) = 1
  BY <1>5, StepIs
<1> HIDE DEF iff
<1>8. ifa \in Seq(Bytes) /\ Len(ifa) = Len(test) + Len(iff)
  BY <1>6, ConcatProperties
<1> HIDE DEF ifa
<1>9. Len(ifa) = Len(test) + 1 /\ Len(ifa) \in Nat /\ Len(ifa) > 0
  BY <1>4, <1>7, <1>8
<1>10. ifa # <<>>
  BY <1>8, <1>9
<1>11. Len(ifa) + Len(body) + 11 <= Most /\ Most \in Nat
  <2>1. Most \in Nat
    BY MostIs, SMT
  <2> QED
    BY <1>4, <1>9, <2>1
<1>12. over = SerialEncodeInt(go) /\ back = GenerateJump(turn) /\ Len(back) \in 2..6
  <2>1. /\ LoopJumps(ifa, body).over = SerialEncodeInt(Len(body) + Len(LoopJumps(ifa, body).back))
        /\ LoopJumps(ifa, body).back = GenerateJump(TurnBy(ifa, LoopJumps(ifa, body).over, body))
        /\ Len(LoopJumps(ifa, body).back) \in 2..6
    BY <1>8, <1>10, <1>11, LoopJumpsFit, Zenon
  <2> QED
    BY <2>1, Zenon
<1> HIDE DEF over, back
<1>13. Len(back) \in Nat /\ 2 <= Len(back) /\ Len(back) <= 6
  <2>1. Len(back) \in 2..6
    BY <1>12, Zenon
  <2> HIDE DEF turn, go
  <2> QED
    BY <2>1, JumpLengths, Zenon
<1>14. go \in Nat /\ go <= Most
  BY <1>4, <1>9, <1>11, <1>13
<1> HIDE DEF go
<1>15. go \in Int32s
  BY <1>11, <1>14, LengthIs
<1>16. over \in Seq(Bytes) /\ Len(over) = SerialEncodeIntSize(go) /\ SerialEncodeIntSize(go) \in 1..5
  BY <1>12, <1>15, SizeIs
<1>17. Len(over) \in Nat /\ 1 <= Len(over) /\ Len(over) <= 5
  BY <1>16
<1> DEFINE all == Len(ifa) + Len(over) + Len(body)
<1>18. all \in Nat /\ all > 0 /\ all <= Most
  BY <1>4, <1>9, <1>11, <1>17
<1>19. turn = -all
  BY SMT DEF TurnBy
<1> HIDE DEF all, turn
<1>20. turn \in Int32s /\ turn # 0 /\ turn < 0
  BY <1>11, <1>18, <1>19, SMT DEF Int32s
<1>21. back \in Seq(Bytes) /\ back = Step("JMP") \o SerialEncodeInt(turn)
  BY <1>12, <1>20, JumpIs, Zenon
<1>22. /\ Lies(Top.program, at, ifa) /\ Lies(Top.program, at + Len(ifa), over)
       /\ Lies(Top.program, at + Len(ifa) + Len(over), body)
       /\ Lies(Top.program, at + Len(ifa) + Len(over) + Len(body), back)
       /\ Len(ifa \o over \o body \o back) = Len(ifa) + Len(over) + Len(body) + Len(back)
  <2> HIDE DEF x, from, to, end
  <2>1. body \in Seq(Bytes) /\ at \in Nat /\ ifa \in Seq(Bytes) /\ over \in Seq(Bytes) /\ back \in Seq(Bytes)
    BY <1>4, <1>8, <1>16, <1>21, Zenon
  <2> QED
    BY <1>3, <2>1, FourLie
<1>23. /\ x \in Nat /\ x + 1 \in Nat /\ from \in Nat /\ to \in Nat
       /\ at + Len(ifa) = x + 1 /\ at + Len(ifa) + Len(over) = from
       /\ at + Len(ifa) + Len(over) + Len(body) = to
  BY <1>4, <1>9, <1>17
<1>24. at + all = to
  BY <1>4, <1>9, <1>17 DEF all
<1>25. from + go = end
  BY <1>4, <1>13, <1>23 DEF go
<1>26. at + (Len(ifa) + Len(over) + Len(body) + Len(back)) = end
  BY <1>4, <1>9, <1>13, <1>17
<1>27. at + (Len(test) + 1 + Len(over)) = from
  BY <1>4, <1>17
<1> HIDE DEF x, from, to, end
<1>28. at + Len(LoopCode(test, body)) = end /\ at + BodyAt(test, body) = from
  BY <1>1, <1>2, <1>22, <1>26, <1>27, Zenon
<1>29. /\ Lies(Top.program, x + 1, over) /\ Lies(Top.program, from, body)
       /\ Lies(Top.program, to, back)
  BY <1>22, <1>23, Zenon
<1>30. Lies(Top.program, at, test) /\ Lies(Top.program, x, iff)
  <2>1. Lies(Top.program, at, test \o iff)
    BY <1>22, Zenon DEF ifa
  <2>2. Lies(Top.program, at, test) /\ Lies(Top.program, at + Len(test), iff)
    BY <1>4, <1>6, <2>1, LiesSplit
  <2> QED
    BY <2>2, Zenon DEF x
<1>31. ASSUME Top.pc = x
       PROVE  frames' = Moved(IF TestOperand(Popped(operands, 0)) THEN from ELSE end)
  <2>1. Runs(Step("IFF"), x)
    BY <1>23, <1>30, Zenon DEF Runs, iff
  <2>2. Lies(Top.program, x + 1, SerialEncodeInt(go))
    BY <1>12, <1>29, Zenon
  <2>3. At("IFF") /\ Operand = [val |-> go, next |-> x + 1 + Len(SerialEncodeInt(go))]
    BY <1>5, <1>15, <1>31, <2>1, <2>2, OperandIs, Zenon
  <2>4. Operand.val = go /\ Operand.next = from
    BY <1>12, <2>3 DEF from
  <2>5. Iff
    BY <2>3, Executed
  <2>6. frames' = Moved(Operand.next + (IF TestOperand(Popped(operands, 0)) THEN 0 ELSE Operand.val))
    BY <2>5 DEF Iff, Operate
  <2>7. from + 0 = from
    BY <1>23
  <2> QED
    BY <1>25, <2>4, <2>6, <2>7, SMT
<1>32. ASSUME Top.pc = to
       PROVE  frames' = Moved(at)
  <2> DEFINE step == Step("JMP")
             back2 == SerialEncodeInt(turn)
  <2>1. step \in Seq(Bytes) /\ back2 \in Seq(Bytes)
    BY <1>5, <1>20, StepIs, SizeIs
  <2>2. Len(step) = 1
    BY <1>5, StepIs
  <2>3. Lies(Top.program, to, step \o back2)
    BY <1>21, <1>29, Zenon
  <2> HIDE DEF step, back2
  <2>4. Lies(Top.program, to, step) /\ Lies(Top.program, to + Len(step), back2)
    BY <1>23, <2>1, <2>3, LiesSplit
  <2>5. Runs(Step("JMP"), to) /\ Lies(Top.program, to + 1, SerialEncodeInt(turn))
    BY <1>23, <2>2, <2>4, Zenon DEF Runs, step, back2
  <2>6. At("JMP") /\ Operand = [val |-> turn, next |-> to + 1 + Len(SerialEncodeInt(turn))]
    BY <1>5, <1>20, <1>32, <2>5, OperandIs, Zenon
  <2>7. Operand.val = turn
    BY <2>6
  <2>8. Jump
    BY <2>6, Executed
  <2>9. frames' = Moved((IF Operand.val < 0 THEN Top.pc ELSE Operand.next) + Operand.val)
    BY <2>8 DEF Jump, Operate
  <2>10. to + turn = at
    BY <1>4, <1>18, <1>19, <1>24, SMT
  <2> QED
    BY <1>20, <1>32, <2>7, <2>9, <2>10, SMT
<1> QED
  BY <1>28, <1>29, <1>30, <1>31, <1>32, Zenon DEF x, to

(* Where quoted code lies, in quotes.                                      *)
Within(code) == Len(SerialEncodeInt(Len(code)))

(* The count of a quoted code, and then the code.                          *)
LEMMA QuotedLies ==
    ASSUME NEW code \in Seq(Bytes), Len(code) <= Most, NEW buf, NEW at \in Nat, Lies(buf, at, Quoted(code))
    PROVE  /\ Lies(buf, at, SerialEncodeInt(Len(code))) /\ Lies(buf, at + Within(code), code)
           /\ Len(code) \in Int32s /\ Len(code) \in Nat /\ Within(code) \in Nat
           /\ Len(Quoted(code)) = Within(code) + Len(code) /\ Quoted(code) \in Seq(Bytes)
<1>1. Len(code) \in Int32s /\ Len(code) \in Nat
  BY QuotedIs
<1> DEFINE s == SerialEncodeInt(Len(code))
<1>2. s \in Seq(Bytes) /\ Len(s) \in Nat
  BY <1>1, SizeIs
<1>3. Lies(buf, at, s \o code)
  BY DEF Quoted
<1> HIDE DEF s
<1>4. Lies(buf, at, s) /\ Lies(buf, at + Len(s), code)
  BY <1>2, <1>3, LiesSplit
<1> QED
  BY <1>1, <1>2, <1>4, QuotedIs DEF s, Within

(* And, and or, whatever their operands are: at the end of the first the   *)
(* machine goes on with the second, or leaves out what generate_math has   *)
(* put in the instruction (compile.c:1366) and is past the end.            *)
THEOREM EitherDecides ==
    ASSUME NEW op \in {"AND", "ORR"}, NEW left \in Seq(Bytes), NEW right \in Seq(Bytes), Len(right) <= Most,
           NEW at, Runs(EitherCode(op, left, right), at), Top.pc = at + Len(left), Next
    PROVE  LET end  == at + Len(EitherCode(op, left, right))
               from == end - Len(right)
           IN  /\ Lies(Top.program, from, right)
               /\ frames' = Moved(IF TestOperand(Popped(operands, 0)) # (op = "AND") THEN end ELSE from)
<1> DEFINE step == Step(op)
           rest == Quoted(right)
           x    == at + Len(left)
           from == x + 1 + Within(right)
           end  == from + Len(right)
<1>1. EitherCode(op, left, right) = left \o step \o rest
  BY DEF EitherCode
<1>2. at \in Nat /\ Lies(Top.program, at, left \o step \o rest) /\ Len(left) \in Nat
  BY <1>1 DEF Runs
<1>3. op \in Range(Opcodes)
  BY JumpOpcodes
<1>4. step \in Seq(Bytes) /\ rest \in Seq(Bytes)
  BY <1>3, StepIs, QuotedIs
<1>5. Len(step) = 1
  BY <1>3, StepIs
<1> HIDE DEF step, rest
<1>6. /\ Lies(Top.program, x, step) /\ Lies(Top.program, x + 1, rest)
      /\ Len(left \o step \o rest) = Len(left) + 1 + Len(rest) /\ x \in Nat /\ x + 1 \in Nat
  <2> HIDE DEF x, from, end
  <2>1. /\ Lies(Top.program, at + Len(left), step) /\ Lies(Top.program, at + Len(left) + Len(step), rest)
        /\ Len(left \o step \o rest) = Len(left) + Len(step) + Len(rest)
    BY <1>2, <1>4, ThreeLie
  <2> QED
    BY <1>2, <1>5, <2>1 DEF x
<1>7. /\ Lies(Top.program, x + 1, SerialEncodeInt(Len(right))) /\ Lies(Top.program, from, right)
      /\ Len(right) \in Int32s /\ Len(right) \in Nat /\ Within(right) \in Nat
      /\ Len(rest) = Within(right) + Len(right)
  BY <1>6, QuotedLies DEF rest
<1>8. at + Len(EitherCode(op, left, right)) = end /\ end - Len(right) = from /\ from \in Nat
  BY <1>1, <1>2, <1>6, <1>7
<1> HIDE DEF x
<1>9. Runs(Step(op), x) /\ Top.pc = x
  BY <1>6 DEF Runs, step, x
<1>10. At(op) /\ Operand = [val |-> Len(right), next |-> from]
  BY <1>3, <1>7, <1>9, OperandIs DEF Within
<1> HIDE DEF from
<1>11. BooleanOp(op)
  BY <1>10, Executed
<1>12. frames' = Moved(IF TestOperand(Popped(operands, 0)) # (op = "AND") THEN Operand.next + Operand.val
                      ELSE Operand.next)
  BY <1>11 DEF BooleanOp, Operate
<1>13. Operand.next = from /\ Operand.next + Operand.val = end
  BY <1>10
<1> QED
  BY <1>7, <1>8, <1>12, <1>13

(* Sums of lengths, one by one and together.                               *)
LEMMA PiecesAdd ==
    ASSUME NEW x \in Nat, NEW w \in Nat, NEW t \in Nat, NEW s \in Nat, NEW o \in Nat
    PROVE  /\ x + 1 + w \in Nat /\ x + 1 + w + t \in Nat /\ x + 1 + w + t + s \in Nat
           /\ x + 1 + w + t + s + o - o = x + 1 + w + t + s
           /\ x + 1 + w + (t + s) = x + 1 + w + t + s
           /\ x + 1 + (w + (t + s)) = x + 1 + w + t + s
  OBVIOUS

(* A condition, what it leads to and the branches that follow, whatever    *)
(* they are (compile.c:1473): from the test the machine goes to the code   *)
(* of the branch or to that of the others, and from the end of the branch  *)
(* past all of the others.                                                 *)
THEOREM BranchesJoin ==
    ASSUME NEW test \in Seq(Bytes), NEW chosen \in Seq(Bytes), NEW others \in Seq(Bytes),
           Len(chosen) + Len(others) + 6 <= Most,
           NEW at, Runs(BranchCode(test, chosen, others), at), Next
    PROVE  LET end  == at + Len(BranchCode(test, chosen, others))
               last == end - Len(others)
               from == at + Len(test) + 1 + Within(chosen \o GenerateJump(Len(others)))
           IN  /\ Lies(Top.program, at, test) /\ Lies(Top.program, from, chosen)
               /\ Lies(Top.program, last, others)
               /\ Top.pc = at + Len(test)
                    => frames' = Moved(IF TestOperand(Popped(operands, 0)) THEN from ELSE last)
               /\ IF others = <<>> THEN from + Len(chosen) = end
                  ELSE Top.pc = from + Len(chosen) => frames' = Moved(end)
<1> DEFINE iff  == Step("IFF")
           skip == GenerateJump(Len(others))
           code == chosen \o skip
           rest == Quoted(code)
           x    == at + Len(test)
           from == x + 1 + Within(code)
           to   == from + Len(chosen)
           last == to + Len(skip)
           end  == last + Len(others)
<1>1. BranchCode(test, chosen, others) = test \o iff \o rest \o others
  BY DEF BranchCode
<1>2. Lies(Top.program, at, test \o iff \o rest \o others)
  BY <1>1 DEF Runs
<1>3. /\ at \in Nat
      /\ Len(test) \in Nat /\ Len(chosen) \in Nat /\ Len(others) \in Nat /\ Most \in Nat
  BY MostIs DEF Runs
<1>4. "IFF" \in Range(Opcodes) /\ "JMP" \in Range(Opcodes)
  BY JumpOpcodes
<1>5. iff \in Seq(Bytes)
  BY <1>4, StepIs
<1>6. Len(iff) = 1
  BY <1>4, StepIs
<1>7. Len(others) \in Int32s
  <2>1. Len(others) \in 0..Most
    BY <1>3
  <2> QED
    BY <2>1, LengthIs
<1>8. /\ skip \in Seq(Bytes) /\ Len(skip) \in Nat /\ Len(skip) <= 6
      /\ others = <<>> => Len(skip) = 0
      /\ others # <<>> => skip = Step("JMP") \o SerialEncodeInt(Len(others))
  <2>1. CASE others = <<>>
    <3>1. Len(others) = 0
      BY <2>1
    <3>2. skip = <<>>
      BY <3>1 DEF GenerateJump
    <3> HIDE DEF skip
    <3> QED
      BY <2>1, <3>2
  <2>2. CASE others # <<>>
    <3>1. Len(others) # 0
      BY <2>2
    <3>2. /\ skip \in Seq(Bytes) /\ Len(skip) = 1 + SerialEncodeIntSize(Len(others))
          /\ skip = Step("JMP") \o SerialEncodeInt(Len(others)) /\ SerialEncodeIntSize(Len(others)) \in 1..5
      BY <1>7, <3>1, JumpIs, SizeIs
    <3> HIDE DEF skip
    <3> QED
      BY <2>2, <3>2
  <2> QED
    BY <2>1, <2>2
<1>9. skip \in Seq(Bytes) /\ Len(skip) \in Nat /\ Len(skip) <= 6
  BY <1>8
<1> HIDE DEF iff, skip
<1>10. Len(skip) \in Nat /\ Len(skip) <= 6
  BY <1>9
<1>11. code \in Seq(Bytes) /\ Len(code) = Len(chosen) + Len(skip) /\ Len(code) <= Most
  <2>1. code \in Seq(Bytes) /\ Len(code) = Len(chosen) + Len(skip)
    BY <1>9, ConcatProperties
  <2> HIDE DEF code
  <2>2. Len(chosen) + Len(skip) <= Most
    BY <1>3, <1>10
  <2> QED
    BY <2>1, <2>2
<1>12. rest \in Seq(Bytes)
  BY <1>11, QuotedIs
<1> HIDE DEF code, rest
<1>13. /\ Lies(Top.program, at, test) /\ Lies(Top.program, x, iff) /\ Lies(Top.program, x + 1, rest)
      /\ Lies(Top.program, x + 1 + Len(rest), others) /\ x \in Nat /\ x + 1 \in Nat
      /\ Len(test \o iff \o rest \o others) = Len(test) + 1 + Len(rest) + Len(others)
  <2> HIDE DEF x, from, to, last, end
  <2>1. /\ Lies(Top.program, at, test) /\ Lies(Top.program, at + Len(test), iff)
        /\ Lies(Top.program, at + Len(test) + Len(iff), rest)
        /\ Lies(Top.program, at + Len(test) + Len(iff) + Len(rest), others)
        /\ Len(test \o iff \o rest \o others) = Len(test) + Len(iff) + Len(rest) + Len(others)
    BY <1>3, <1>2, <1>5, <1>12, FourLie
  <2> QED
    BY <1>3, <1>6, <2>1 DEF x
<1>14. /\ Lies(Top.program, x + 1, SerialEncodeInt(Len(code))) /\ Lies(Top.program, from, code)
      /\ Len(code) \in Int32s /\ Within(code) \in Nat /\ Len(rest) = Within(code) + Len(code)
  BY <1>11, <1>13, QuotedLies DEF rest
<1>15. /\ from \in Nat /\ to \in Nat /\ last \in Nat /\ at + Len(BranchCode(test, chosen, others)) = end
      /\ end - Len(others) = last /\ from + Len(code) = last /\ x + 1 + Len(rest) = last
  <2>1. x \in Nat /\ Len(code) \in Nat /\ Len(code) = Len(chosen) + Len(skip)
    BY <1>11, <1>13, <1>14
  <2>2. Len(rest) = Within(code) + Len(code) /\ Within(code) \in Nat
    BY <1>14
  <2>3. at + Len(BranchCode(test, chosen, others)) = x + 1 + Len(rest) + Len(others)
    <3>1. Len(BranchCode(test, chosen, others)) = Len(test) + 1 + Len(rest) + Len(others)
      BY <1>1, <1>13
    <3> DEFINE b == BranchCode(test, chosen, others)
    <3> HIDE DEF b
    <3>2. x = at + Len(test) /\ Len(b) = Len(test) + 1 + Len(rest) + Len(others) /\ Len(rest) \in Nat
      BY <2>1, <2>2, <3>1 DEF b
    <3> HIDE DEF x
    <3>3. at + Len(b) = x + 1 + Len(rest) + Len(others)
      BY <1>3, <3>2
    <3> QED
      BY <3>3 DEF b
  <2> HIDE DEF x
  <2>4. x \in Nat /\ Within(code) \in Nat /\ Len(chosen) \in Nat /\ Len(skip) \in Nat /\ Len(others) \in Nat
    BY <1>3, <1>10, <2>1, <2>2
  <2>5. /\ from \in Nat /\ to \in Nat /\ last \in Nat /\ end - Len(others) = last
        /\ from + (Len(chosen) + Len(skip)) = last
        /\ x + 1 + (Within(code) + (Len(chosen) + Len(skip))) = last
    BY <2>4, PiecesAdd
  <2>6. from + Len(code) = last /\ x + 1 + Len(rest) = last
    BY <2>1, <2>2, <2>5, Zenon
  <2> QED
    BY <2>3, <2>5, <2>6
<1>16. Lies(Top.program, from, chosen) /\ Lies(Top.program, to, skip)
  <2> HIDE DEF from
  <2> QED
    BY <1>8, <1>14, <1>15, LiesSplit DEF code
<1> HIDE DEF x, from, to, last, end
<1>17. ASSUME Top.pc = x
       PROVE  frames' = Moved(IF TestOperand(Popped(operands, 0)) THEN from ELSE last)
  <2>1. Runs(Step("IFF"), x)
    BY <1>13 DEF Runs, iff
  <2>2. At("IFF") /\ Operand = [val |-> Len(code), next |-> from]
    BY <1>4, <1>14, <1>17, <2>1, OperandIs DEF Within, from
  <2>3. Iff
    BY <2>2, Executed
  <2>4. frames' = Moved(Operand.next + (IF TestOperand(Popped(operands, 0)) THEN 0 ELSE Operand.val))
    BY <2>3 DEF Iff, Operate
  <2>5. Operand.next = from /\ Operand.val = Len(code) /\ from + 0 = from /\ from + Len(code) = last
    BY <1>15, <2>2
  <2> QED
    BY <2>4, <2>5
<1>18. ASSUME others # <<>>, Top.pc = to
       PROVE  frames' = Moved(end)
  <2> DEFINE step == Step("JMP")
             over == SerialEncodeInt(Len(others))
  <2>1. step \in Seq(Bytes) /\ Len(step) = 1 /\ over \in Seq(Bytes) /\ Len(over) \in Nat
    BY <1>4, <1>7, StepIs, SizeIs
  <2>2. Lies(Top.program, to, step \o over) /\ skip = step \o over
    BY <1>8, <1>16, <1>18
  <2> HIDE DEF step, over
  <2>3. Lies(Top.program, to, step) /\ Lies(Top.program, to + 1, over) /\ Len(step \o over) = 1 + Len(over)
    BY <2>1, <2>2, <1>15, LiesSplit
  <2>4. Runs(Step("JMP"), to)
    BY <2>3, <1>15 DEF Runs, step
  <2>5. At("JMP") /\ Operand = [val |-> Len(others), next |-> to + 1 + Len(over)]
    BY <1>4, <1>7, <1>18, <2>3, <2>4, OperandIs DEF over
  <2>6. Jump
    BY <2>5, Executed
  <2>7. frames' = Moved((IF Operand.val < 0 THEN Top.pc ELSE Operand.next) + Operand.val)
    BY <2>6 DEF Jump, Operate
  <2>8. to + 1 + Len(over) = last /\ last + Len(others) = end /\ ~(Len(others) < 0)
    BY <1>3, <1>15, <2>1, <2>2, <2>3 DEF last, end
  <2>9. (IF Operand.val < 0 THEN Top.pc ELSE Operand.next) + Operand.val = end
    BY <2>5, <2>8
  <2> QED
    BY <2>7, <2>9
<1>19. others = <<>> => to = end
  BY <1>8, <1>15 DEF last, end
<1>20. from = at + Len(test) + 1 + Within(chosen \o GenerateJump(Len(others))) /\ to = from + Len(chosen)
  BY DEF from, to, x, code, skip
<1>21. Lies(Top.program, last, others)
  BY <1>13, <1>15
<1> QED
  BY <1>13, <1>15, <1>16, <1>17, <1>18, <1>19, <1>20, <1>21 DEF x

(* A try statement, whatever is tried and whatever catches                 *)
(* (compile.c:1536): each is run as it is, with the name of the error, and *)
(* the run goes on past the end of what catches.                           *)
THEOREM TriesRun ==
    ASSUME NEW trial \in Seq(Bytes), Len(trial) <= Most, NEW name \in STRING,
           NEW catcher \in Seq(Bytes), Len(catcher) <= Most,
           NEW at, Runs(TryCode(trial, name, catcher), at), Top.pc = at, Next
    PROVE  frames' = Append(Moved(at + Len(TryCode(trial, name, catcher))),
                        Frame("trial", trial, TRUE, operands, states,
                              [name |-> name, catcher |-> catcher, pending |-> error # NoError]))
<1> DEFINE step == Step("TRY")
           tried == Quoted(trial)
           label == Name(name)
           caught == Quoted(catcher)
           one   == at + 1
           two   == one + Len(tried)
           three == two + Len(label)
           end   == three + Len(caught)
<1>1. "TRY" \in Range(Opcodes)
  BY JumpOpcodes
<1>2. step \in Seq(Bytes) /\ tried \in Seq(Bytes) /\ label \in Seq(Bytes) /\ caught \in Seq(Bytes)
  BY <1>1, StepIs, QuotedIs, NameIs
<1>3. Len(step) = 1
  BY <1>1, StepIs
<1>4. at \in Nat /\ TryCode(trial, name, catcher) = step \o tried \o label \o caught
  BY DEF Runs, TryCode
<1>5. Lies(Top.program, at, step \o tried \o label \o caught)
  BY <1>4 DEF Runs
<1> HIDE DEF step, tried, label, caught
<1>6. Len(tried) \in Nat /\ Len(label) \in Nat /\ Len(caught) \in Nat
  BY <1>2
<1>7. one \in Nat /\ two \in Nat /\ three \in Nat
  BY <1>4, <1>6
<1>8. /\ Lies(Top.program, at, step) /\ Lies(Top.program, one, tried)
      /\ Lies(Top.program, two, label) /\ Lies(Top.program, three, caught)
      /\ at + Len(TryCode(trial, name, catcher)) = end
  <2> HIDE DEF one, two, three, end
  <2>1. /\ Lies(Top.program, at, step) /\ Lies(Top.program, at + Len(step), tried)
        /\ Lies(Top.program, at + Len(step) + Len(tried), label)
        /\ Lies(Top.program, at + Len(step) + Len(tried) + Len(label), caught)
        /\ Len(step \o tried \o label \o caught) = Len(step) + Len(tried) + Len(label) + Len(caught)
    BY <1>2, <1>4, <1>5, FourLie
  <2>2. at + (1 + Len(tried) + Len(label) + Len(caught)) = at + 1 + Len(tried) + Len(label) + Len(caught)
    BY <1>4, <1>6
  <2> QED
    BY <1>3, <1>4, <2>1, <2>2 DEF one, two, three, end
<1> HIDE DEF one, two, three, end
<1>9. /\ Runs(Step("TRY"), at) /\ Runs(Quoted(trial), one) /\ Runs(Quoted(catcher), three)
      /\ Lies(Top.program, two, Name(name))
  BY <1>4, <1>7, <1>8 DEF Runs, step, tried, label, caught
<1>10. At("TRY")
  BY <1>1, <1>9, Found
<1>11. VmTrycatch
  BY <1>10, Executed
<1>12. /\ Code(Top.pc + 1) = [val |-> trial, next |-> two]
       /\ Label(two) = [val |-> name, next |-> three]
       /\ Code(three) = [val |-> catcher, next |-> end]
  <2>1. Code(one) = [val |-> trial, next |-> two]
    BY <1>9, CodeReads DEF two, tried
  <2>2. Label(two) = [val |-> name, next |-> three]
    BY <1>7, <1>9, LabelReads DEF three, label
  <2>3. Code(three) = [val |-> catcher, next |-> end]
    BY <1>9, CodeReads DEF end, caught
  <2> QED
    BY <2>1, <2>2, <2>3 DEF one
<1> DEFINE a == Code(Top.pc + 1)
           b == Label(two)
           c == Code(three)
<1>13. a.val = trial /\ a.next = two /\ b.val = name /\ b.next = three /\ c.val = catcher /\ c.next = end
  BY <1>12
<1>14. frames' = Append(Moved(c.next), Frame("trial", a.val, TRUE, operands, states,
                          [name |-> b.val, catcher |-> c.val, pending |-> error # NoError]))
  <2>1. \E x \in {a} : \E y \in {Label(x.next)} : \E z \in {Code(y.next)} :
           frames' = Append(Moved(z.next), Frame("trial", x.val, TRUE, operands, states,
                        [name |-> y.val, catcher |-> z.val, pending |-> error # NoError]))
    BY <1>11 DEF VmTrycatch
  <2>2. Label(a.next) = b /\ Code(b.next) = c
    BY <1>13, Zenon
  <2> HIDE DEF a, b, c
  <2> QED
    BY <2>1, <2>2, Zenon
<1> HIDE DEF a, b, c
<1> QED
  BY <1>8, <1>13, <1>14, Zenon

(* A function, whatever its code and the names it closes over              *)
(* (compile.c:1302): what is put on the stack has that code and no other,  *)
(* and the run goes on past its end; if one of the names has no value, the *)
(* program ends.                                                           *)
THEOREM FunctionsCarry ==
    ASSUME NEW closure \in Seq(STRING), Len(closure) <= Most, NEW body \in Seq(Bytes), Len(body) <= Most,
           NEW at, Runs(FunctionCode(closure, body), at), Top.pc = at, Next
    PROVE  IF Range(closure) \subseteq DOMAIN Env
           THEN /\ frames' = Moved(at + Len(FunctionCode(closure, body)))
                /\ \E pairs : operands' = Append(operands, Fnc(body, pairs))
           ELSE frames' = <<>>
<1> DEFINE step  == Step("FNC")
           count == SerialEncodeInt(Len(closure))
           list  == Names(closure)
           code  == Quoted(body)
           one   == at + 1
           two   == one + Len(count)
           three == two + Len(list)
           end   == three + Len(code)
<1>1. "FNC" \in Range(Opcodes)
  BY JumpOpcodes
<1>2. Len(closure) \in Int32s
  <2>1. Len(closure) \in 0..Most
    BY MostIs
  <2> QED
    BY <2>1, LengthIs
<1>3. step \in Seq(Bytes) /\ count \in Seq(Bytes) /\ list \in Seq(Bytes) /\ code \in Seq(Bytes)
  BY <1>1, <1>2, StepIs, QuotedIs, SizeIs, NamesAre
<1>4. Len(step) = 1
  BY <1>1, StepIs
<1>5. at \in Nat /\ FunctionCode(closure, body) = step \o count \o list \o code
  BY DEF Runs, FunctionCode
<1>6. Lies(Top.program, at, step \o count \o list \o code)
  BY <1>5 DEF Runs
<1> HIDE DEF step, count, list, code
<1>7. Len(count) \in Nat /\ Len(list) \in Nat /\ Len(code) \in Nat
  BY <1>3
<1>8. one \in Nat /\ two \in Nat /\ three \in Nat
  BY <1>5, <1>7
<1>9. /\ Lies(Top.program, at, step) /\ Lies(Top.program, one, count)
      /\ Lies(Top.program, two, list) /\ Lies(Top.program, three, code)
      /\ at + Len(FunctionCode(closure, body)) = end
  <2> HIDE DEF one, two, three, end
  <2>1. /\ Lies(Top.program, at, step) /\ Lies(Top.program, at + Len(step), count)
        /\ Lies(Top.program, at + Len(step) + Len(count), list)
        /\ Lies(Top.program, at + Len(step) + Len(count) + Len(list), code)
        /\ Len(step \o count \o list \o code) = Len(step) + Len(count) + Len(list) + Len(code)
    BY <1>3, <1>5, <1>6, FourLie
  <2>2. at + (1 + Len(count) + Len(list) + Len(code)) = at + 1 + Len(count) + Len(list) + Len(code)
    BY <1>5, <1>7
  <2> QED
    BY <1>4, <1>5, <2>1, <2>2 DEF one, two, three, end
<1> HIDE DEF one, two, three, end
<1>10. /\ Runs(Step("FNC"), at) /\ Lies(Top.program, at + 1, SerialEncodeInt(Len(closure)))
       /\ Runs(Quoted(body), three) /\ Lies(Top.program, two, Names(closure))
  BY <1>5, <1>8, <1>9 DEF Runs, step, count, list, code, one
<1>11. At("FNC") /\ Operand = [val |-> Len(closure), next |-> two]
  BY <1>1, <1>2, <1>10, OperandIs DEF two, one, count
<1>12. PushFnc
  BY <1>11, Executed
<1> DEFINE a == Labels(Operand.next, Operand.val)
           b == Code(three)
<1>13. a = [val |-> closure, next |-> three] /\ b = [val |-> body, next |-> end]
  <2>1. Operand.next = two /\ Operand.val = Len(closure)
    BY <1>11
  <2>2. Labels(two, Len(closure)) = [val |-> closure, next |-> three]
    BY <1>8, <1>10, LabelsRead DEF three, list
  <2>3. Code(three) = [val |-> body, next |-> end]
    BY <1>10, CodeReads DEF end, code
  <2> QED
    BY <2>1, <2>2, <2>3
<1>14. a.val = closure /\ a.next = three /\ b.val = body /\ b.next = end
  BY <1>13
<1>15. IF Range(a.val) \subseteq DOMAIN Env
       THEN Operate(Append(operands,
                Fnc(b.val, FoldLeft(LAMBDA pairs, n : DicPut(pairs, Str(n, 1), Env[n]), <<>>, a.val))), b.next)
       ELSE VmExit(operands)
  <2>1. \E names \in {a} : \E f \in {Code(names.next)} :
           IF Range(names.val) \subseteq DOMAIN Env
           THEN Operate(Append(operands,
                    Fnc(f.val, FoldLeft(LAMBDA pairs, n : DicPut(pairs, Str(n, 1), Env[n]),
                                        <<>>, names.val))), f.next)
           ELSE VmExit(operands)
    BY <1>12 DEF PushFnc
  <2>2. Code(a.next) = b
    BY <1>14, Zenon
  <2> HIDE DEF a, b
  <2> QED
    BY <2>1, <2>2, Zenon
<1> HIDE DEF a, b
<1>16. Range(a.val) = Range(closure)
  BY <1>14, Zenon
<1>17. CASE Range(closure) \subseteq DOMAIN Env
  <2> DEFINE pairs == FoldLeft(LAMBDA p, n : DicPut(p, Str(n, 1), Env[n]), <<>>, a.val)
  <2>1. Operate(Append(operands, Fnc(b.val, pairs)), b.next)
    BY <1>15, <1>16, <1>17, Zenon
  <2> HIDE DEF pairs
  <2>2. operands' = Append(operands, Fnc(body, pairs)) /\ frames' = Moved(end)
    BY <1>14, <2>1, Zenon DEF Operate
  <2> QED
    BY <1>9, <1>17, <2>2, Zenon
<1>18. CASE ~(Range(closure) \subseteq DOMAIN Env)
  <2>1. VmExit(operands)
    BY <1>15, <1>16, <1>18, Zenon
  <2> QED
    BY <1>18, <2>1, Zenon DEF VmExit
<1> QED
  BY <1>17, <1>18, Zenon

(* No condition is written as the instruction that pushes nil, which reads *)
(* as code of no length.                                                   *)
LEMMA NilIsNone == GenerateNil = Quoted(<<>>)
<1>1. Opcode["NIL"] = 0
  <2>1. \A i \in 1..49 : Opcodes[i] = "NIL" <=> i = 1
    BY DEF Opcodes
  <2>2. DOMAIN Opcodes = 1..49
    BY DEF Opcodes
  <2> DEFINE C == CHOOSE i \in DOMAIN Opcodes : Opcodes[i] = "NIL"
  <2>3. 1 \in DOMAIN Opcodes /\ Opcodes[1] = "NIL"
    <3>1. 1 \in 1..49
      OBVIOUS
    <3> QED
      BY <2>1, <2>2, <3>1
  <2>4. C \in DOMAIN Opcodes /\ Opcodes[C] = "NIL"
    BY <2>3, Zenon
  <2>5. C = 1
    BY <2>1, <2>2, <2>4, Zenon
  <2>6. Opcode["NIL"] = C - 1
    BY JumpOpcodes DEF Opcode
  <2> HIDE DEF C
  <2> QED
    BY <2>5, <2>6
<1>2. SerialEncodeInt(0) = <<0>>
  <2>1. 0 \in Int32s
    <3>1. 0 \in 0..Most
      <4>1. Most \in Nat
        BY MostIs, SMT
      <4> QED
        BY <4>1, SMT
    <3> QED
      BY <3>1, LengthIs, SMT
  <2>2. 0 \in Int /\ HasAbs(0) /\ SerialEncodeInt(0) \in Seq(Bytes)
    BY <2>1, Int32Is, SizeIs
  <2>3. PICK a, n, g, d : Parts(0, a, n, g, d)
    BY <2>2, PartsAre
  <2>4. a = 0 /\ n = 0 /\ g = 0
    <3>1. a = Abs(0) /\ n = a \div 64 /\ (g = 0 <=> n = 0)
      BY <2>3 DEF Parts
    <3>2. Abs(0) = 0 /\ 0 \div 64 = 0
      BY SMT DEF Abs
    <3> QED
      BY <3>1, <3>2
  <2>5. Len(SerialEncodeInt(0)) = 1 /\ SerialEncodeInt(0)[1] = FirstOf(0, 0, 0)
    BY <2>3, <2>4, CodeIs
  <2>6. FirstOf(0, 0, 0) = 0
    BY SMT DEF FirstOf
  <2> DEFINE s == SerialEncodeInt(0)
  <2>7. s \in Seq(Bytes) /\ Len(s) = 1 /\ s[1] = 0
    BY <2>2, <2>5, <2>6
  <2> HIDE DEF s
  <2>8. s = <<0>>
    BY <2>7
  <2> QED
    BY <2>8 DEF s
<1>3. Len(<<>>) = 0
  OBVIOUS
<1>4. Quoted(<<>>) = <<0>> \o <<>>
  BY <1>2, <1>3 DEF Quoted
<1>5. <<0>> \o <<>> = <<0>>
  OBVIOUS
<1> QED
  BY <1>1, <1>4, <1>5 DEF GenerateNil, Step

(* One name or two, written as how many are more than one.                 *)
LEMMA NamesCounted ==
    ASSUME NEW n \in 1..2, NEW M \in Nat, 1 <= M
    PROVE  n - 1 \in 0..M /\ n - 1 + 1 = n
  OBVIOUS

(* An iteration or a comprehension, whatever its condition and its body    *)
(* are (compile.c:1498): it goes through the list with its own names,      *)
(* condition and body, and when it is done the run goes on past its end.   *)
THEOREM IterationsRun ==
    ASSUME NEW op \in {"ITR", "COM"}, NEW who \in Seq(STRING), Len(who) \in 1..2,
           NEW where \in Seq(Seq(Bytes)), Len(where) \in 0..1, \A i \in DOMAIN where : Len(where[i]) <= Most,
           NEW how \in Seq(Bytes), Len(how) <= Most,
           NEW at, Runs(IterationCode(op, who, where, how), at), Top.pc = at, Next
    PROVE  NextItem(Moved(at + Len(IterationCode(op, who, where, how))),
               [op |-> op, who |-> who, where |-> IF where = <<>> THEN <<>> ELSE where[1], how |-> how,
                items |-> Items(Popped(operands, 0)), result |-> Lst(<<>>, <<>>)],
               Below(operands, 1), states)
<1> DEFINE only == IF where = <<>> THEN <<>> ELSE where[1]
           step  == Step(op)
           count == SerialEncodeInt(Len(who) - 1)
           list  == Names(who)
           cond  == Quoted(only)
           code  == Quoted(how)
           one   == at + 1
           two   == one + Len(count)
           three == two + Len(list)
           four  == three + Len(cond)
           end   == four + Len(code)
<1>1. op \in Range(Opcodes)
  BY JumpOpcodes
<1>2. Len(who) - 1 \in Int32s /\ Len(who) - 1 + 1 = Len(who)
  <2>1. Len(who) - 1 \in 0..Most /\ Len(who) - 1 + 1 = Len(who)
    <3>1. 1 <= Most
      BY SMT DEF Most
    <3>2. Most \in Nat
      BY MostIs, SMT
    <3> QED
      BY <3>1, <3>2, NamesCounted, Zenon
  <2> QED
    BY <2>1, LengthIs, SMT
<1>3. only \in Seq(Bytes) /\ Len(only) <= Most
  <2>1. CASE where = <<>>
    <3>1. only = <<>>
      BY <2>1
    <3>2. Len(<<>>) = 0 /\ Most \in Nat
      BY MostIs, SMT
    <3>3. Len(<<>>) <= Most /\ <<>> \in Seq(Bytes)
      BY <3>2, SMT
    <3> HIDE DEF only
    <3> QED
      BY <3>1, <3>3, Zenon
  <2>2. CASE where # <<>>
    <3>1. 1 \in DOMAIN where
      BY <2>2
    <3>2. only = where[1] /\ where[1] \in Seq(Bytes) /\ Len(where[1]) <= Most
      BY <2>2, <3>1
    <3> HIDE DEF only
    <3> QED
      BY <3>2
  <2> QED
    BY <2>1, <2>2
<1>4. (IF where = <<>> THEN GenerateNil ELSE Quoted(where[1])) = cond
  BY NilIsNone
<1> HIDE DEF only
<1>5. /\ step \in Seq(Bytes) /\ count \in Seq(Bytes) /\ list \in Seq(Bytes)
      /\ cond \in Seq(Bytes) /\ code \in Seq(Bytes)
  BY <1>1, <1>2, <1>3, StepIs, QuotedIs, SizeIs, NamesAre
<1>6. Len(step) = 1
  BY <1>1, StepIs
<1>7. at \in Nat /\ IterationCode(op, who, where, how) = step \o count \o list \o cond \o code
  BY <1>4 DEF Runs, IterationCode
<1>8. Lies(Top.program, at, step \o count \o list \o cond \o code)
  BY <1>7 DEF Runs
<1> HIDE DEF step, count, list, cond, code
<1>9. Len(count) \in Nat /\ Len(list) \in Nat /\ Len(cond) \in Nat /\ Len(code) \in Nat
  BY <1>5
<1>10. one \in Nat /\ two \in Nat /\ three \in Nat /\ four \in Nat
  BY <1>7, <1>9
<1>11. /\ Lies(Top.program, at, step) /\ Lies(Top.program, one, count)
       /\ Lies(Top.program, two, list) /\ Lies(Top.program, three, cond) /\ Lies(Top.program, four, code)
       /\ at + Len(IterationCode(op, who, where, how)) = end
  <2> DEFINE most == step \o count \o list \o cond
  <2>1. most \in Seq(Bytes)
    <3>1. step \o count \in Seq(Bytes) /\ step \o count \o list \in Seq(Bytes)
      BY <1>5, ConcatProperties
    <3> QED
      BY <1>5, <3>1, ConcatProperties
  <2> HIDE DEF most
  <2>2. /\ Lies(Top.program, at, most) /\ Lies(Top.program, at + Len(most), code)
        /\ Len(most \o code) = Len(most) + Len(code)
    <3>1. Lies(Top.program, at, most \o code)
      BY <1>8 DEF most
    <3> HIDE DEF one, two, three, four, end
    <3> QED
      BY <1>5, <1>7, <2>1, <3>1, LiesSplit
  <2> HIDE DEF one, two, three, four, end
  <2>3. /\ Lies(Top.program, at, step) /\ Lies(Top.program, at + Len(step), count)
        /\ Lies(Top.program, at + Len(step) + Len(count), list)
        /\ Lies(Top.program, at + Len(step) + Len(count) + Len(list), cond)
        /\ Len(most) = Len(step) + Len(count) + Len(list) + Len(cond)
    <3>1. Lies(Top.program, at, step \o count \o list \o cond)
      BY <2>2 DEF most
    <3> QED
      BY <1>5, <1>7, <3>1, FourLie DEF most
  <2>4. /\ at + (1 + Len(count) + Len(list) + Len(cond)) = at + 1 + Len(count) + Len(list) + Len(cond)
        /\ at + (1 + Len(count) + Len(list) + Len(cond) + Len(code))
             = at + 1 + Len(count) + Len(list) + Len(cond) + Len(code)
    BY <1>7, <1>9
  <2>5. IterationCode(op, who, where, how) = most \o code
    BY <1>7 DEF most
  <2> QED
    BY <1>6, <2>2, <2>3, <2>4, <2>5 DEF one, two, three, four, end
<1> HIDE DEF one, two, three, four, end
<1>12. /\ Runs(Step(op), at) /\ Lies(Top.program, at + 1, SerialEncodeInt(Len(who) - 1))
       /\ Runs(Quoted(only), three) /\ Runs(Quoted(how), four) /\ Lies(Top.program, two, Names(who))
  BY <1>7, <1>10, <1>11 DEF Runs, step, count, list, cond, code, one
<1>13. At(op) /\ Operand = [val |-> Len(who) - 1, next |-> two]
  BY <1>1, <1>2, <1>12, OperandIs DEF two, one, count
<1>14. Iterate(op)
  BY <1>13, Executed
<1> DEFINE a == Labels(Operand.next, Operand.val + 1)
           b == Code(three)
           c == Code(four)
           goal(next, names, condition, body) ==
               NextItem(Moved(next),
                   [op |-> op, who |-> names, where |-> condition, how |-> body,
                    items |-> Items(Popped(operands, 0)), result |-> Lst(<<>>, <<>>)],
                   Below(operands, 1), states)
<1>15. /\ a = [val |-> who, next |-> three] /\ b = [val |-> only, next |-> four]
       /\ c = [val |-> how, next |-> end]
  <2>1. Operand.next = two /\ Operand.val + 1 = Len(who)
    BY <1>2, <1>13
  <2>2. Labels(two, Len(who)) = [val |-> who, next |-> three]
    BY <1>10, <1>12, LabelsRead DEF three, list
  <2>3. Code(three) = [val |-> only, next |-> four]
    BY <1>3, <1>12, CodeReads DEF four, cond
  <2>4. Code(four) = [val |-> how, next |-> end]
    BY <1>12, CodeReads DEF end, code
  <2> QED
    BY <2>1, <2>2, <2>3, <2>4
<1>16. /\ a.val = who /\ a.next = three /\ b.val = only /\ b.next = four
       /\ c.val = how /\ c.next = end
  BY <1>15
<1>17. goal(c.next, a.val, b.val, c.val)
  <2>1. \E x \in {a} : \E y \in {Code(x.next)} : \E z \in {Code(y.next)} :
        \E it \in {[op |-> op, who |-> x.val, where |-> y.val, how |-> z.val,
                    items |-> Items(Popped(operands, 0)), result |-> Lst(<<>>, <<>>)]} :
           NextItem(Moved(z.next), it, Below(operands, 1), states)
    BY <1>14 DEF Iterate
  <2>2. Code(a.next) = b /\ Code(b.next) = c
    BY <1>16, Zenon
  <2> HIDE DEF a, b, c
  <2> QED
    BY <2>1, <2>2, Zenon
<1> HIDE DEF a, b, c, goal
<1>18. goal(end, who, only, how)
  BY <1>16, <1>17, Zenon
<1> QED
  BY <1>11, <1>18, Zenon DEF goal, only
==============================================================================
