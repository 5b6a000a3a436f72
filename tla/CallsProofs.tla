------------------------------ MODULE CallsProofs ------------------------------
(* Proofs about Calls for every program text, every depth of calls and every *)
(* order of calls, returns, throws and jumps.                                *)
(*                                                                           *)
(* The idea: the evaluation stack is cut into the parts of the calls under   *)
(* way, in their order.  The stack pointer a call replaced lies in its part; *)
(* so the value a table had for a call further down is found in the first    *)
(* part above it that saved this table, or is still in the table.  It is the *)
(* value the text of that call means, and returning puts it back.            *)
EXTENDS Calls, TLAPS

Lexes   == UNION {[S -> Nat] : S \in SUBSET Ops}
Value   == ({"val"} \X Vals) \cup {Fault}
Flat    == ({"name"} \X (Ops \ Trs)) \cup ({"param"} \X Trs)
Closure == {"closure"} \X Flat \X Seq(Ops) \X Seq(Int) \X Lexes
Given   == Flat \cup Closure

Words == Value \cup ({"op"} \X Ops) \cup ({"sp"} \X Int)
           \cup ({"cell"} \X (Ops \ Trs) \X Value) \cup ({"cell"} \X Trs \X Given)

OpFrames      == [kind : {"op"}, op : Ops, senv : Seq(Ops), base : Nat, lex : Lexes]
ClosureFrames == [kind : {"closure"}, syms : Seq(Ops), svenv : Seq(Ops), floor : Nat, lex : Lexes]
CatchFrames   == [kind : {"catch"}, prev : {Dead} \cup Nat, arg_stack : Nat, lex : Lexes]

Types ==
  /\ stk \in Seq(Words)
  /\ sp \in [Ops -> Int]
  /\ env \in Seq(Ops)
  /\ ctl \in Seq(OpFrames \cup ClosureFrames \cup CatchFrames)
  /\ fn \in {none} \cup Given \cup ({"transform"} \X Trs \X Flat) \cup ({"catch"} \X Flat)
  /\ catchbuf \in {Dead} \cup Nat
  /\ pc \in {"run", "astray"} /\ thrown \in BOOLEAN

(* The part of frame k begins above Floor(k), and its fixed words end at     *)
(* Ceil(k).                                                                  *)
Floor(k) == IF ctl[k].kind = "op" THEN ctl[k].base - 4
            ELSE IF ctl[k].kind = "catch" THEN ctl[k].arg_stack
            ELSE ctl[k].floor
Ceil(k)  == IF ctl[k].kind = "op" THEN ctl[k].base
            ELSE IF ctl[k].kind = "catch" THEN ctl[k].arg_stack
            ELSE ctl[k].floor + Len(ctl[k].syms)

(* A value is on top of the stack, for what is applied or by what returned.  *)
Waiting == fn # none \/ (ctl # <<>> /\ Frame.kind # "op")

PartsSized   == \A k \in DOMAIN ctl : 0 <= Floor(k) /\ Floor(k) <= Ceil(k) /\ Ceil(k) <= Len(stk)
PartsInOrder == \A j, k \in DOMAIN ctl : j < k => Ceil(j) <= Floor(k)
PartsMeet    == \A k \in DOMAIN ctl : ctl[k].kind # "op" /\ k < Len(ctl) => Floor(k + 1) = Ceil(k)
PartsWait    ==
  Waiting => /\ stk # <<>>
             /\ \A k \in DOMAIN ctl : Ceil(k) < Len(stk)
             /\ ctl # <<>> /\ Frame.kind # "op" => Ceil(Len(ctl)) = Len(stk) - 1
Parts == PartsSized /\ PartsInOrder /\ PartsMeet /\ PartsWait

(* What lies in the parts: the records, the saved stack pointers, values.    *)
RecordsLaid ==
  \A k \in Bodies :
    /\ stk[ctl[k].base][1] = "cell" /\ stk[ctl[k].base][2] = ctl[k].op
    /\ stk[ctl[k].base - 1][1] = "sp" /\ stk[ctl[k].base - 3] = <<"op", ctl[k].op>>
SavedLaid ==
  \A k \in DOMAIN ctl : ctl[k].kind = "closure" =>
    \A i \in 1 .. Len(ctl[k].syms) : stk[ctl[k].floor + i][1] = "sp"
TempsLaid ==
  \A k \in Bodies : \A i \in DOMAIN stk :
    ctl[k].base < i /\ (\A j \in DOMAIN ctl : j > k => i <= Floor(j)) => stk[i] \in Value
LineLaid  == \A i \in DOMAIN stk : (\A j \in DOMAIN ctl : i <= Floor(j)) => stk[i] \in Value
TopLaid   == Waiting => Last(stk) \in Value
CellsLaid == \A i \in DOMAIN stk : stk[i][1] = "cell" => \E k \in Bodies : ctl[k].base = i
Laid == RecordsLaid /\ SavedLaid /\ TempsLaid /\ LineLaid /\ TopLaid /\ CellsLaid

(* CatchersNest, without the Max, and that a jump leaves no CATCH under way. *)
Nearest(c, n) ==
  IF c = 0 THEN \A k \in Catchers : k > n
  ELSE c \in Catchers /\ c <= n /\ \A k \in Catchers : k <= n => k <= c
Nesting ==
  /\ IF catchbuf = Dead THEN Catchers = {} ELSE Nearest(catchbuf, Len(ctl))
  /\ \A k \in Catchers : IF ctl[k].prev = Dead THEN \A j \in Catchers : j >= k
                          ELSE Nearest(ctl[k].prev, k - 1)

(* What a text means lives in calls under way.                               *)
Live(lex, n) == \A s \in DOMAIN lex : \E j \in 1 .. n :
                  ctl[j].kind = "op" /\ ctl[j].op = s /\ ctl[j].base = lex[s]
Within(o, D) == IF o[1] = "name" THEN Range(Outer[o[2]]) \subseteq D ELSE o[2] \in D
Bound(w, n)  == IF w[1] = "closure"
                THEN /\ w[3] # <<>> /\ DOMAIN w[4] = DOMAIN w[3]
                     /\ Within(w[2], DOMAIN w[5]) /\ Live(w[5], n)
                ELSE w[1] = "name" /\ Outer[w[2]] = <<>>
LexAt(k) == IF k = 0 THEN <<>> ELSE ctl[k].lex

TextsLive       == \A k \in DOMAIN ctl : Live(ctl[k].lex, k)
TextsOfBodies   == \A k \in Bodies : DOMAIN ctl[k].lex = Range(Env(ctl[k].op))
TextsOfCatchers == \A k \in Catchers : ctl[k].lex = LexAt(k - 1) /\ (k > 1 => ctl[k - 1].kind = "op")
ParamsBound     == \A k \in Bodies : ctl[k].op \in Trs => Bound(stk[ctl[k].base][3], k)
FnBound ==
  fn # none =>
    /\ fn[1] \in {"name", "param"} => Within(fn, DOMAIN Lex)
    /\ fn[1] = "closure" => Bound(fn, Len(ctl))
    /\ fn[1] = "transform" => Range(Outer[fn[2]]) \subseteq DOMAIN Lex /\ Within(fn[3], DOMAIN Lex)
    /\ fn[1] = "catch" => Within(fn[2], DOMAIN Lex)
    /\ fn[1] \in {"transform", "catch"} => ctl = <<>> \/ Frame.kind = "op"

(* Only where no body is under way in the first k frames is the environment  *)
(* empty.                                                                    *)
Low(k) == k = 0 \/ (k = 1 /\ ctl[1].kind = "catch")
NullsAreLow ==
  /\ env = <<>> => Low(Len(ctl))
  /\ \A k \in DOMAIN ctl : ctl[k].kind = "op" /\ ctl[k].senv = <<>> => Low(k - 1)
  /\ \A k \in DOMAIN ctl : ctl[k].kind = "closure" =>
       ctl[k].syms # <<>> /\ (ctl[k].svenv = <<>> => Low(k - 1))
Lexical == TextsLive /\ TextsOfBodies /\ TextsOfCatchers /\ ParamsBound /\ FnBound /\ NullsAreLow

(* While no throw was caught: the environment and the stack pointers.        *)
EnvAt(k) == IF k = 0 THEN <<>>
            ELSE IF ctl[k].kind = "op" THEN Env(ctl[k].op)
            ELSE IF ctl[k].kind = "closure" THEN ctl[k].syms
            ELSE IF k = 1 THEN <<>> ELSE Env(ctl[k - 1].op)
Agrees(w) == w[1] = "closure" =>
               DOMAIN w[5] = Range(w[3]) /\ \A i \in DOMAIN w[3] : w[4][i] = w[5][w[3][i]]

Saves(k, s) == \/ ctl[k].kind = "op" /\ ctl[k].op = s
               \/ ctl[k].kind = "closure" /\ s \in Range(ctl[k].syms)
SavedFor(k, s) ==
  IF ctl[k].kind = "op" THEN stk[ctl[k].base - 1][2]
  ELSE stk[ctl[k].floor + (CHOOSE i \in DOMAIN ctl[k].syms : ctl[k].syms[i] = s)][2]
FirstSaves(j, k, s) == /\ k < j /\ Saves(j, s)
                       /\ \A i \in DOMAIN ctl : k < i /\ i < j => ~Saves(i, s)

EnvsRight ==
  /\ env = EnvAt(Len(ctl))
  /\ \A k \in DOMAIN ctl : /\ ctl[k].kind = "op" => ctl[k].senv = EnvAt(k - 1)
                           /\ ctl[k].kind = "closure" => ctl[k].svenv = EnvAt(k - 1)
                           /\ DOMAIN ctl[k].lex = Range(EnvAt(k))
Current ==
  \A k \in DOMAIN ctl : \A s \in DOMAIN ctl[k].lex :
    (\A j \in DOMAIN ctl : j > k => ~Saves(j, s)) => sp[s] = ctl[k].lex[s]
SavedRight ==
  \A j, k \in DOMAIN ctl : \A s \in DOMAIN ctl[k].lex :
    FirstSaves(j, k, s) => SavedFor(j, s) = ctl[k].lex[s]
ClosuresAgree ==
  /\ \A k \in Bodies : ctl[k].op \in Trs => Agrees(stk[ctl[k].base][3])
  /\ fn # none => Agrees(fn)
Scopes == EnvsRight /\ Current /\ SavedRight /\ ClosuresAgree

IInv == /\ Types
        /\ Running => Parts /\ Laid /\ Nesting /\ Lexical /\ (~thrown => Scopes)
        /\ NeverAstray

-----------------------------------------------------------------------------
(* Sequences.                                                                *)
LEMMA SeqAppend ==
  ASSUME NEW S, NEW s \in Seq(S), NEW x \in S
  PROVE  /\ Append(s, x) \in Seq(S) /\ Len(Append(s, x)) = Len(s) + 1 /\ Append(s, x)[Len(s) + 1] = x
         /\ \A i \in 1 .. Len(s) : Append(s, x)[i] = s[i]
OBVIOUS

LEMMA SeqFirst ==
  ASSUME NEW S, NEW s \in Seq(S), NEW n \in 0 .. Len(s)
  PROVE  /\ SubSeq(s, 1, n) \in Seq(S) /\ Len(SubSeq(s, 1, n)) = n
         /\ \A i \in 1 .. n : SubSeq(s, 1, n)[i] = s[i]
OBVIOUS

LEMMA SeqTyped ==
  ASSUME NEW S, NEW s \in Seq(S)
  PROVE  DOMAIN s = 1 .. Len(s) /\ Len(s) \in Nat /\ \A i \in DOMAIN s : s[i] \in S
OBVIOUS

LEMMA SeqFront ==
  ASSUME NEW S, NEW s \in Seq(S), s # <<>>
  PROVE  /\ Len(s) \in Nat /\ Len(s) > 0 /\ s[Len(s)] \in S /\ Last(s) = s[Len(s)]
         /\ Front(s) \in Seq(S) /\ Len(Front(s)) = Len(s) - 1
         /\ \A i \in 1 .. Len(s) - 1 : Front(s)[i] = s[i]
<1>1. Len(s) \in Nat /\ Len(s) > 0 OBVIOUS
<1>2. Front(s) = SubSeq(s, 1, Len(s) - 1) BY DEF Front
<1>3. Len(s) - 1 \in 0 .. Len(s) BY <1>1
<1> DEFINE n == Len(s) - 1
<1> HIDE DEF n
<1>4. /\ SubSeq(s, 1, n) \in Seq(S) /\ Len(SubSeq(s, 1, n)) = n
      /\ \A i \in 1 .. n : SubSeq(s, 1, n)[i] = s[i]
  BY <1>3, SeqFirst DEF n
<1> QED BY <1>1, <1>2, <1>4 DEF Last, n

(* The first n words with one more on top.                                   *)
LEMMA SeqCut ==
  ASSUME NEW S, NEW s \in Seq(S), NEW n \in 0 .. Len(s), NEW x \in S
  PROVE  LET t == Append(SubSeq(s, 1, n), x)
         IN /\ t \in Seq(S) /\ Len(t) = n + 1 /\ t[n + 1] = x
            /\ \A i \in 1 .. n : t[i] = s[i]
<1> DEFINE f == SubSeq(s, 1, n)
<1>1. f \in Seq(S) /\ Len(f) = n /\ \A i \in 1 .. n : f[i] = s[i] BY SeqFirst
<1> HIDE DEF f
<1>2. /\ Append(f, x) \in Seq(S) /\ Len(Append(f, x)) = n + 1 /\ Append(f, x)[n + 1] = x
      /\ \A i \in 1 .. n : Append(f, x)[i] = f[i]
  BY <1>1, SeqAppend
<1> QED BY <1>1, <1>2 DEF f

LEMMA SeqJoin ==
  ASSUME NEW S, NEW s \in Seq(S), NEW t \in Seq(S)
  PROVE  /\ s \o t \in Seq(S) /\ Len(s \o t) = Len(s) + Len(t)
         /\ \A i \in 1 .. Len(s) : (s \o t)[i] = s[i]
         /\ \A i \in 1 .. Len(t) : (s \o t)[Len(s) + i] = t[i]
OBVIOUS

LEMMA SeqPart ==
  ASSUME NEW S, NEW s \in Seq(S), NEW i \in 1 .. Len(s) + 1
  PROVE  Range(SubSeq(s, i, Len(s))) \subseteq Range(s)
<1>1. Len(s) \in Nat /\ DOMAIN s = 1 .. Len(s) OBVIOUS
<1> DEFINE t == SubSeq(s, i, Len(s))
<1>2. DOMAIN t = 1 .. (Len(s) - i + 1) /\ \A j \in 1 .. (Len(s) - i + 1) : t[j] = s[i + j - 1]
  OBVIOUS
<1>3. ASSUME NEW j \in DOMAIN t PROVE t[j] \in Range(s)
  <2> HIDE DEF t
  <2>1. j \in Int /\ 1 <= j /\ j <= Len(s) - i + 1 /\ t[j] = s[i + j - 1] BY <1>1, <1>2
  <2>2. i + j - 1 \in DOMAIN s BY <1>1, <2>1
  <2> QED BY <2>1, <2>2 DEF Range
<1> QED BY <1>3 DEF Range

LEMMA SeqEmpty == DOMAIN <<>> = {} /\ Len(<<>>) = 0 /\ Range(<<>>) = {}
BY DEF Range

LEMMA SeqOne ==
  ASSUME NEW S, NEW x \in S
  PROVE  <<x>> \in Seq(S) /\ Len(<<x>>) = 1 /\ <<x>>[1] = x
OBVIOUS

LEMMA SeqRange ==
  ASSUME NEW S, NEW s \in Seq(S)
  PROVE  /\ Range(s) \subseteq S
         /\ \A i \in 1 .. Len(s) : s[i] \in Range(s)
         /\ \A x \in Range(s) : \E i \in 1 .. Len(s) : s[i] = x
BY DEF Range

-----------------------------------------------------------------------------
(* The environment of a text.                                                *)
LEMMA EnvOfText ==
  ASSUME NEW f \in Ops
  PROVE  /\ Outer[f] \in Seq(Ops) /\ Env(f) \in Seq(Ops) /\ Env(f) # <<>> /\ Head(Env(f)) = f
         /\ Range(Env(f)) = {f} \cup Range(Outer[f]) /\ Range(Outer[f]) \subseteq Ops
         /\ f \notin Range(Outer[f])
         /\ Outer[f] # <<>> => Outer[f][1] \in Range(Outer[f])
<1> DEFINE o == Outer[f]
           q == <<f>> \o o
<1>0. o \in Seq(Ops) BY CallsConstants
<1>a. f \notin Range(o) BY CallsConstants, <1>0 DEF Range
<1>e. Env(f) = q BY DEF Env
<1> HIDE DEF o
<1>1. q \in Seq(Ops) /\ Len(q) = Len(o) + 1 /\ Len(o) \in Nat BY <1>0
<1>2. q[1] = f /\ \A i \in 1 .. Len(o) : q[i + 1] = o[i] BY <1>0
<1> HIDE DEF q
<1>3. \A i \in 2 .. Len(o) + 1 : i - 1 \in 1 .. Len(o) /\ q[i] = o[i - 1]
  <2> TAKE i \in 2 .. Len(o) + 1
  <2>1. i - 1 \in 1 .. Len(o) /\ (i - 1) + 1 = i BY <1>1
  <2> QED BY <1>2, <2>1
<1>4. DOMAIN q = 1 .. Len(o) + 1 /\ DOMAIN o = 1 .. Len(o) BY <1>0, <1>1
<1>5. Head(q) = f /\ q # <<>> BY <1>1, <1>2
<1>6. ASSUME NEW x \in Range(q) PROVE x \in {f} \cup Range(o)
  <2>1. PICK i \in DOMAIN q : q[i] = x BY DEF Range
  <2>2. CASE i = 1 BY <1>2, <2>1, <2>2
  <2>3. CASE i # 1
    <3>1. i \in 2 .. Len(o) + 1 BY <1>1, <1>4, <2>3
    <3> QED BY <1>3, <1>4, <2>1, <3>1 DEF Range
  <2> QED BY <2>2, <2>3
<1>7. f \in Range(q) BY <1>1, <1>2, <1>4 DEF Range
<1>8. ASSUME NEW x \in Range(o) PROVE x \in Range(q)
  <2>1. PICK i \in DOMAIN o : o[i] = x BY DEF Range
  <2>2. i + 1 \in DOMAIN q /\ q[i + 1] = x BY <1>1, <1>2, <1>4, <2>1
  <2> QED BY <2>2 DEF Range
<1>9. Range(q) = {f} \cup Range(o) BY <1>6, <1>7, <1>8
<1>10. Range(o) \subseteq Ops /\ (o # <<>> => o[1] \in Range(o)) BY <1>0 DEF Range
<1> QED BY <1>0, <1>a, <1>e, <1>1, <1>5, <1>9, <1>10 DEF o

(* What the types say of a frame.                                            *)
LEMMA FrameTypes ==
  ASSUME Types
  PROVE  /\ DOMAIN ctl = 1 .. Len(ctl) /\ Len(ctl) \in Nat /\ (ctl = <<>> <=> Len(ctl) = 0)
         /\ ctl # <<>> => Len(ctl) \in DOMAIN ctl /\ Frame = ctl[Len(ctl)]
         /\ DOMAIN stk = 1 .. Len(stk) /\ Len(stk) \in Nat
         /\ \A i \in DOMAIN stk : stk[i] \in Words
         /\ \A k \in DOMAIN ctl :
              /\ ctl[k].kind \in {"op", "closure", "catch"} /\ ctl[k].lex \in Lexes
              /\ Floor(k) \in Int /\ Ceil(k) \in Int
              /\ ctl[k].kind = "op" => /\ ctl[k].op \in Ops /\ ctl[k].senv \in Seq(Ops) /\ ctl[k].base \in Nat
                                      /\ Floor(k) = ctl[k].base - 4 /\ Ceil(k) = ctl[k].base
                                      /\ ctl[k] \in OpFrames
              /\ ctl[k].kind = "closure" =>
                   /\ ctl[k].syms \in Seq(Ops) /\ Len(ctl[k].syms) \in Nat /\ ctl[k].svenv \in Seq(Ops)
                   /\ ctl[k].floor \in Nat
                   /\ Floor(k) = ctl[k].floor /\ Ceil(k) = ctl[k].floor + Len(ctl[k].syms)
              /\ ctl[k].kind = "catch" => /\ ctl[k].prev \in {Dead} \cup Nat /\ ctl[k].arg_stack \in Nat
                                         /\ Floor(k) = ctl[k].arg_stack /\ Ceil(k) = ctl[k].arg_stack
<1>1. DOMAIN ctl = 1 .. Len(ctl) /\ Len(ctl) \in Nat /\ (ctl = <<>> <=> Len(ctl) = 0) BY DEF Types
<1>2. ctl # <<>> => Len(ctl) \in DOMAIN ctl /\ Frame = ctl[Len(ctl)] BY <1>1 DEF Frame, Last
<1>3. DOMAIN stk = 1 .. Len(stk) /\ Len(stk) \in Nat /\ \A i \in DOMAIN stk : stk[i] \in Words
  BY SeqTyped DEF Types
<1>4. ASSUME NEW k \in DOMAIN ctl
      PROVE  /\ ctl[k].kind \in {"op", "closure", "catch"} /\ ctl[k].lex \in Lexes
             /\ Floor(k) \in Int /\ Ceil(k) \in Int
             /\ ctl[k].kind = "op" => /\ ctl[k].op \in Ops /\ ctl[k].senv \in Seq(Ops) /\ ctl[k].base \in Nat
                                     /\ Floor(k) = ctl[k].base - 4 /\ Ceil(k) = ctl[k].base
                                     /\ ctl[k] \in OpFrames
             /\ ctl[k].kind = "closure" =>
                  /\ ctl[k].syms \in Seq(Ops) /\ Len(ctl[k].syms) \in Nat /\ ctl[k].svenv \in Seq(Ops)
                  /\ ctl[k].floor \in Nat
                  /\ Floor(k) = ctl[k].floor /\ Ceil(k) = ctl[k].floor + Len(ctl[k].syms)
             /\ ctl[k].kind = "catch" => /\ ctl[k].prev \in {Dead} \cup Nat /\ ctl[k].arg_stack \in Nat
                                        /\ Floor(k) = ctl[k].arg_stack /\ Ceil(k) = ctl[k].arg_stack
  <2>1. ctl[k] \in OpFrames \cup ClosureFrames \cup CatchFrames BY DEF Types
  <2>2. CASE ctl[k] \in OpFrames BY <2>2 DEF OpFrames, Floor, Ceil
  <2>3. CASE ctl[k] \in ClosureFrames BY <2>3 DEF ClosureFrames, Floor, Ceil
  <2>4. CASE ctl[k] \in CatchFrames BY <2>4 DEF CatchFrames, Floor, Ceil
  <2> QED BY <2>1, <2>2, <2>3, <2>4
<1> QED BY <1>1, <1>2, <1>3, <1>4

LEMMA ValueTypes == \A w \in Value : w[1] \in {"val", "fault"} /\ w \in Words
BY DEF Value, Fault, Words

LEMMA FlatTypes ==
  \A o \in Flat : /\ o[1] \in {"name", "param"} /\ o \in Given
                  /\ o[1] = "name" => o[2] \in Ops \ Trs
                  /\ o[1] = "param" => o[2] \in Trs
BY DEF Flat, Given

LEMMA ClosureTypes ==
  \A c \in Closure : /\ c[1] = "closure" /\ c[2] \in Flat /\ c[3] \in Seq(Ops) /\ c[4] \in Seq(Int)
                     /\ c[5] \in Lexes
BY DEF Closure

LEMMA SpTypes == \A w \in Words : w[1] = "sp" => w[2] \in Int
BY ValueTypes DEF Words

LEMMA CellTypes ==
  ASSUME NEW w \in Words, w[1] = "cell"
  PROVE  w[2] \in Ops /\ (w[2] \notin Trs => w[3] \in Value) /\ (w[2] \in Trs => w[3] \in Given)
<1>1. w \notin Value BY ValueTypes
<1>2. w \in ({"cell"} \X (Ops \ Trs) \X Value) \cup ({"cell"} \X Trs \X Given) BY <1>1 DEF Words
<1> QED BY <1>2, CallsConstants

LEMMA MadeWords ==
  /\ \A f \in Ops : <<"op", f>> \in Words
  /\ \A n \in Int : <<"sp", n>> \in Words
  /\ \A f \in Ops \ Trs, v \in Value : <<"cell", f, v>> \in Words
  /\ \A t \in Trs, o \in Given : <<"cell", t, o>> \in Words
  /\ Fault \in Value /\ \A v \in Vals : <<"val", v>> \in Value
  /\ \A o \in Flat, e \in Seq(Ops), q \in Seq(Int), l \in Lexes : <<"closure", o, e, q, l>> \in Given
BY DEF Words, Value, Given, Closure

(* What is in scope of the text under way names tables of it.                *)
LEMMA ScopeOfText ==
  ASSUME Types, Evaluating
  PROVE  /\ Here \in Seq(Ops)
         /\ \A f \in Ops : InScope(f) => Range(Outer[f]) \subseteq Range(Here)
<1>1. Here \in Seq(Ops) BY FrameTypes, EnvOfText DEF Here, Evaluating
<1>2. ASSUME NEW f \in Ops, InScope(f) PROVE Range(Outer[f]) \subseteq Range(Here)
  <2>1. PICK i \in 1 .. Len(Here) + 1 : Outer[f] = SubSeq(Here, i, Len(Here)) BY <1>2 DEF InScope
  <2>2. Range(SubSeq(Here, i, Len(Here))) \subseteq Range(Here) BY <1>1, SeqPart
  <2> QED BY <2>1, <2>2
<1> QED BY <1>1, <1>2

LEMMA LexTypes ==
  ASSUME Types
  PROVE  Lex \in Lexes /\ (ctl = <<>> => Lex = <<>> /\ DOMAIN Lex = {}) /\ DOMAIN Lex \subseteq Ops
<1>1. CASE ctl = <<>>
  <2>1. <<>> \in [{} -> Nat] OBVIOUS
  <2> QED BY <1>1, <2>1, SeqEmpty DEF Lex, Lexes
<1>2. CASE ctl # <<>> BY <1>2, FrameTypes DEF Lex, Lexes
<1> QED BY <1>1, <1>2

LEMMA InitIInv == Init => IInv
<1> SUFFICES ASSUME Init PROVE IInv OBVIOUS
<1>1. ctl = <<>> /\ stk = <<>> /\ env = <<>> /\ fn = none /\ catchbuf = 0 /\ pc = "run" BY DEF Init
<1>2. Types
  <2>1. stk \in Seq(Words) /\ env \in Seq(Ops) /\ ctl \in Seq(OpFrames \cup ClosureFrames \cup CatchFrames)
    BY <1>1
  <2>2. sp \in [Ops -> Int] BY DEF Init
  <2>3. thrown \in BOOLEAN BY DEF Init
  <2>4. catchbuf \in {Dead} \cup Nat /\ pc \in {"run", "astray"} BY <1>1
  <2>5. fn \in {none} BY <1>1
  <2> QED BY <2>1, <2>2, <2>3, <2>4, <2>5 DEF Types
<1>3. DOMAIN ctl = {} /\ Len(ctl) = 0 /\ DOMAIN stk = {} BY <1>1, SeqEmpty
<1>4. Bodies = {} /\ Catchers = {} BY <1>3 DEF Bodies, Catchers
<1>5. ~Waiting BY <1>1 DEF Waiting
<1>6. Parts BY <1>3, <1>5 DEF Parts, PartsSized, PartsInOrder, PartsMeet, PartsWait
<1>7. Laid BY <1>3, <1>4, <1>5 DEF Laid, RecordsLaid, SavedLaid, TempsLaid, LineLaid, TopLaid, CellsLaid
<1>8. Nesting BY <1>1, <1>4 DEF Nesting, Nearest, Dead
<1>9. Lexical
  BY <1>1, <1>3, <1>4
  DEF Lexical, TextsLive, TextsOfBodies, TextsOfCatchers, ParamsBound, FnBound, NullsAreLow, Low
<1>10. Scopes
  BY <1>1, <1>3, <1>4 DEF Scopes, EnvsRight, Current, SavedRight, ClosuresAgree, EnvAt
<1>11. NeverAstray BY <1>1 DEF NeverAstray
<1> QED BY <1>2, <1>6, <1>7, <1>8, <1>9, <1>10, <1>11 DEF IInv

-----------------------------------------------------------------------------
(* The saved stack pointer of a table lies in the part of the frame.         *)
LEMMA SavedPlace ==
  ASSUME Types, Parts, NEW j \in DOMAIN ctl, NEW s, Saves(j, s)
  PROVE  \E i \in Nat : /\ Floor(j) < i /\ i <= Ceil(j) /\ i <= Len(stk)
                        /\ SavedFor(j, s) = stk[i][2]
                        /\ SavedFor(j, s)' = (IF ctl'[j] = ctl[j] THEN stk'[i][2] ELSE SavedFor(j, s)')
                        /\ Laid => stk[i][1] = "sp"
<1>1. CASE ctl[j].kind = "op"
  <2> DEFINE i == ctl[j].base - 1
  <2>1. i \in Nat /\ Floor(j) < i /\ i <= Ceil(j) /\ i <= Len(stk)
    BY <1>1, FrameTypes DEF Parts, PartsSized
  <2>2. Laid => stk[i][1] = "sp" BY <1>1 DEF Laid, RecordsLaid, Bodies
  <2> QED BY <1>1, <2>1, <2>2 DEF SavedFor
<1>2. CASE ctl[j].kind = "closure"
  <2> DEFINE c == CHOOSE i \in DOMAIN ctl[j].syms : ctl[j].syms[i] = s
  <2>1. c \in 1 .. Len(ctl[j].syms)
    <3>1. \E i0 \in DOMAIN ctl[j].syms : ctl[j].syms[i0] = s BY <1>2 DEF Saves, Range
    <3>2. DOMAIN ctl[j].syms = 1 .. Len(ctl[j].syms) BY <1>2, FrameTypes
    <3> QED BY <3>1, <3>2
  <2>2. SavedFor(j, s) = stk[ctl[j].floor + c][2] BY <1>2 DEF SavedFor
  <2>3. ctl'[j] = ctl[j] => SavedFor(j, s)' = stk'[ctl[j].floor + c][2] BY <1>2 DEF SavedFor
  <2> HIDE DEF c
  <2> DEFINE i == ctl[j].floor + c
  <2>4. i \in Nat /\ Floor(j) < i /\ i <= Ceil(j) /\ i <= Len(stk)
    BY <1>2, <2>1, FrameTypes DEF Parts, PartsSized
  <2>5. Laid => stk[i][1] = "sp" BY <1>2, <2>1 DEF Laid, SavedLaid
  <2> QED BY <2>2, <2>3, <2>4, <2>5
<1> QED BY <1>1, <1>2, FrameTypes DEF Saves

(* The temporaries of the text under way lie above all that is fixed.        *)
LEMMA Fixed ==
  ASSUME Types, Parts, NEW m, m = (IF ctl = <<>> THEN 0 ELSE Ceil(Len(ctl)))
  PROVE  m \in Nat /\ m <= Len(stk) /\ \A k \in DOMAIN ctl : Ceil(k) <= m /\ Floor(k) <= m
<1>1. /\ DOMAIN ctl = 1 .. Len(ctl) /\ Len(ctl) \in Nat /\ (ctl = <<>> <=> Len(ctl) = 0)
      /\ ctl # <<>> => Len(ctl) \in DOMAIN ctl
      /\ Len(stk) \in Nat
      /\ \A k \in DOMAIN ctl : Floor(k) \in Int /\ Ceil(k) \in Int
  BY FrameTypes
<1>2. CASE ctl = <<>> BY <1>1, <1>2
<1>3. CASE ctl # <<>>
  <2>1. m = Ceil(Len(ctl)) /\ 0 <= Floor(Len(ctl)) /\ Floor(Len(ctl)) <= m /\ m <= Len(stk)
    BY <1>1, <1>3 DEF Parts, PartsSized
  <2>2. ASSUME NEW k \in DOMAIN ctl PROVE Ceil(k) <= m /\ Floor(k) <= m
    <3>1. Floor(k) <= Ceil(k) BY DEF Parts, PartsSized
    <3>2. k = Len(ctl) \/ k < Len(ctl) BY <1>1
    <3>3. k < Len(ctl) => Ceil(k) <= Floor(Len(ctl)) BY <1>1, <1>3 DEF Parts, PartsInOrder
    <3> QED BY <1>1, <1>3, <2>1, <3>1, <3>2, <3>3
  <2>3. m \in Int BY <1>1, <1>3, <2>1
  <2> QED BY <1>1, <1>3, <2>1, <2>2, <2>3
<1> QED BY <1>2, <1>3

LEMMA Temporaries ==
  ASSUME Types, Parts, Laid, Evaluating
  PROVE  LET m == IF ctl = <<>> THEN 0 ELSE Frame.base
         IN /\ m \in Nat /\ m <= Len(stk) /\ Temps = Len(stk) - m /\ Temps \in Nat
            /\ \A k \in DOMAIN ctl : Ceil(k) <= m /\ Floor(k) <= m
            /\ \A i \in m + 1 .. Len(stk) : stk[i] \in Value
<1>1. /\ DOMAIN ctl = 1 .. Len(ctl) /\ Len(ctl) \in Nat /\ (ctl = <<>> <=> Len(ctl) = 0)
      /\ ctl # <<>> => Len(ctl) \in DOMAIN ctl /\ Frame = ctl[Len(ctl)] /\ Frame.kind = "op"
      /\ DOMAIN stk = 1 .. Len(stk) /\ Len(stk) \in Nat
  BY FrameTypes DEF Evaluating
<1> DEFINE m == IF ctl = <<>> THEN 0 ELSE Frame.base
<1>2. m = (IF ctl = <<>> THEN 0 ELSE Ceil(Len(ctl))) BY <1>1, FrameTypes
<1>3. Temps = Len(stk) - m BY DEF Temps
<1> HIDE DEF m
<1>4. m \in Nat /\ m <= Len(stk) /\ \A k \in DOMAIN ctl : Ceil(k) <= m /\ Floor(k) <= m
  BY <1>2, Fixed
<1>5. ASSUME NEW i \in m + 1 .. Len(stk) PROVE stk[i] \in Value
  <2>1. i \in DOMAIN stk /\ i > m BY <1>1, <1>4
  <2>2. CASE ctl = <<>>
    <3>1. \A j \in DOMAIN ctl : i <= Floor(j) BY <1>1, <2>2
    <3> QED BY <2>1, <3>1 DEF Laid, LineLaid
  <2>3. CASE ctl # <<>>
    <3>1. Len(ctl) \in Bodies /\ ctl[Len(ctl)].base = m BY <1>1, <2>3 DEF Bodies, m
    <3>2. \A j \in DOMAIN ctl : ~ (j > Len(ctl)) BY <1>1
    <3> QED BY <2>1, <3>1, <3>2 DEF Laid, TempsLaid
  <2> QED BY <2>2, <2>3
<1>6. Temps \in Nat BY <1>1, <1>3, <1>4
<1> QED BY <1>3, <1>4, <1>5, <1>6 DEF m

(* A cell on the stack is that of a record in use, and holds what its table  *)
(* may hold.                                                                 *)
LEMMA CellOfRecord ==
  ASSUME Types, Parts, Laid, NEW s \in Ops, Finds(s)
  PROVE  /\ sp[s] \in DOMAIN stk /\ stk[sp[s]] \in Words
         /\ \E k \in Bodies : ctl[k].base = sp[s] /\ ctl[k].op = s
         /\ s \notin Trs => Cell(s) \in Value
         /\ s \in Trs => Cell(s) \in Given
<1>1. sp[s] \in DOMAIN stk /\ stk[sp[s]] \in Words /\ stk[sp[s]][1] = "cell" /\ stk[sp[s]][2] = s
  BY FrameTypes DEF Finds
<1>2. PICK k \in Bodies : ctl[k].base = sp[s] BY <1>1 DEF Laid, CellsLaid
<1>3. ctl[k].op = s BY <1>1, <1>2 DEF Laid, RecordsLaid
<1>4. (s \notin Trs => Cell(s) \in Value) /\ (s \in Trs => Cell(s) \in Given)
  BY <1>1, CellTypes DEF Cell
<1> QED BY <1>1, <1>2, <1>3, <1>4

(* Before a throw a name of the text under way is found where it means.      *)
LEMMA Found ==
  ASSUME IInv, Running, ~thrown, NEW s \in DOMAIN Lex
  PROVE  s \in Ops /\ Finds(s) /\ sp[s] = Lex[s] /\ sp[s] # -1
<1>1. Types /\ Parts /\ Laid /\ Lexical /\ Scopes BY DEF IInv
<1>2. /\ DOMAIN ctl = 1 .. Len(ctl) /\ Len(ctl) \in Nat
      /\ ctl # <<>> => Len(ctl) \in DOMAIN ctl /\ Frame = ctl[Len(ctl)]
      /\ DOMAIN stk = 1 .. Len(stk) /\ Len(stk) \in Nat
  BY <1>1, FrameTypes
<1>3. ctl # <<>> /\ s \in Ops BY <1>1, LexTypes
<1>4. Lex = ctl[Len(ctl)].lex BY <1>2, <1>3 DEF Lex
<1>5. \A j \in DOMAIN ctl : ~ (j > Len(ctl)) BY <1>2
<1>6. sp[s] = Lex[s] BY <1>1, <1>2, <1>3, <1>4, <1>5 DEF Scopes, Current
<1>7. PICK j \in 1 .. Len(ctl) : ctl[j].kind = "op" /\ ctl[j].op = s /\ ctl[j].base = Lex[s]
  BY <1>1, <1>2, <1>3, <1>4 DEF Lexical, TextsLive, Live
<1>8. j \in Bodies BY <1>2, <1>7 DEF Bodies
<1>9. 0 <= Floor(j) /\ Ceil(j) <= Len(stk) /\ Floor(j) = ctl[j].base - 4 /\ Ceil(j) = ctl[j].base
      /\ ctl[j].base \in Nat
  BY <1>1, <1>2, <1>7, FrameTypes DEF Parts, PartsSized
<1>10. sp[s] \in DOMAIN stk /\ sp[s] # -1 BY <1>2, <1>6, <1>7, <1>9
<1>11. stk[sp[s]][1] = "cell" /\ stk[sp[s]][2] = s BY <1>1, <1>6, <1>7, <1>8 DEF Laid, RecordsLaid
<1> QED BY <1>3, <1>6, <1>10, <1>11 DEF Finds

(* The scope of a text of a body is that of its frame.                       *)
LEMMA HereIsLex ==
  ASSUME Types, Lexical, Evaluating
  PROVE  Range(Here) = DOMAIN Lex
<1>1. CASE ctl = <<>> BY <1>1, SeqEmpty DEF Here, Lex
<1>2. CASE ctl # <<>>
  <2>1. Len(ctl) \in DOMAIN ctl /\ Frame = ctl[Len(ctl)] /\ Frame.kind = "op"
    BY <1>2, FrameTypes DEF Evaluating
  <2>2. Len(ctl) \in Bodies BY <2>1 DEF Bodies
  <2> QED BY <1>2, <2>1, <2>2 DEF Here, Lex, Lexical, TextsOfBodies
<1> QED BY <1>1, <1>2

(* Going astray.                                                             *)
LEMMA AstrayStep ==
  ASSUME IInv, Astray, thrown \/ catchbuf = Dead
  PROVE  IInv'
<1>1. UNCHANGED <<stk, sp, env, ctl, fn, catchbuf, thrown, cuts>> /\ pc' = "astray" BY DEF Astray
<1>2. Types' BY <1>1 DEF IInv, Types, OpFrames, ClosureFrames, CatchFrames, Words, Value, Given, Flat, Closure, Lexes
<1>3. NeverAstray' BY <1>1 DEF NeverAstray
<1>4. ~Running' BY <1>1 DEF Running
<1> QED BY <1>2, <1>3, <1>4 DEF IInv

-----------------------------------------------------------------------------
(* Only the argument of apply changes.                                       *)
LEMMA FnStep ==
  ASSUME IInv, Running, UNCHANGED <<stk, sp, env, ctl, catchbuf, pc, thrown, cuts>>,
         fn' \in {none} \cup Given \cup ({"transform"} \X Trs \X Flat) \cup ({"catch"} \X Flat),
         Waiting' => /\ stk # <<>> /\ Last(stk) \in Value
                     /\ \A k \in DOMAIN ctl : Ceil(k) < Len(stk)
                     /\ ctl # <<>> /\ Frame.kind # "op" => Ceil(Len(ctl)) = Len(stk) - 1,
         FnBound', ~thrown /\ fn' # none => Agrees(fn')
  PROVE  IInv'
<1>1. Types /\ Running /\ Parts /\ Laid /\ Nesting /\ Lexical /\ (~thrown => Scopes) /\ NeverAstray
  BY DEF IInv
<1>2. UNCHANGED <<stk, sp, env, ctl, catchbuf, pc, thrown, cuts>> OBVIOUS
<1>3. Types' BY <1>1, <1>2 DEF Types, OpFrames, ClosureFrames, CatchFrames, Words, Value, Given, Flat, Closure, Lexes
<1>4. \A k \in DOMAIN ctl : Floor(k)' = Floor(k) /\ Ceil(k)' = Ceil(k) BY <1>2 DEF Floor, Ceil
<1>5. Bodies' = Bodies /\ Catchers' = Catchers BY <1>2 DEF Bodies, Catchers
<1>6. PartsSized' /\ PartsInOrder' /\ PartsMeet'
  BY <1>1, <1>2 DEF Parts, PartsSized, PartsInOrder, PartsMeet, Floor, Ceil
<1>7. PartsWait' /\ TopLaid'
  <2>1. Ceil(Len(ctl))' = Ceil(Len(ctl)) BY <1>2 DEF Ceil
  <2>2. Frame' = Frame BY <1>2 DEF Frame
  <2> QED BY <1>2, <1>4, <2>1, <2>2 DEF PartsWait, TopLaid
<1>8. RecordsLaid' BY <1>1, <1>2, <1>5 DEF Laid, RecordsLaid
<1>9. SavedLaid' /\ CellsLaid' BY <1>1, <1>2, <1>5 DEF Laid, SavedLaid, CellsLaid
<1>10. TempsLaid' /\ LineLaid'
  BY <1>1, <1>2, <1>4, <1>5 DEF Laid, TempsLaid, LineLaid
<1>11. Nesting' BY <1>1, <1>2, <1>5 DEF Nesting, Nearest
<1>12. TextsLive' BY <1>1, <1>2 DEF Lexical, TextsLive, Live
<1>13. TextsOfBodies' /\ TextsOfCatchers'
  BY <1>1, <1>2, <1>5 DEF Lexical, TextsOfBodies, TextsOfCatchers, LexAt
<1>14. ParamsBound'
  <2>1. \A w, n : Bound(w, n)' = Bound(w, n) BY <1>2 DEF Bound, Live
  <2> QED BY <1>1, <1>2, <1>5, <2>1 DEF Lexical, ParamsBound
<1>15. NullsAreLow' BY <1>1, <1>2 DEF Lexical, NullsAreLow, Low
<1>16. ~thrown => Scopes'
  <2> SUFFICES ASSUME ~thrown PROVE Scopes' OBVIOUS
  <2>1. EnvsRight' BY <1>1, <1>2 DEF Scopes, EnvsRight, EnvAt
  <2>2. Current' BY <1>1, <1>2 DEF Scopes, Current, Saves
  <2>3. SavedRight' BY SMTT(30), <1>1, <1>2 DEF Scopes, SavedRight, FirstSaves, Saves, SavedFor
  <2>4. ClosuresAgree'
    <3>1. \A k \in Bodies' : ctl'[k].op \in Trs => Agrees(stk'[ctl'[k].base][3])
      BY <1>1, <1>2, <1>5 DEF Scopes, ClosuresAgree
    <3>2. fn' # none => Agrees(fn') OBVIOUS
    <3> QED BY <3>1, <3>2 DEF ClosuresAgree
  <2> QED BY <2>1, <2>2, <2>3, <2>4 DEF Scopes
<1>17. NeverAstray' BY <1>1, <1>2 DEF NeverAstray
<1> QED
  BY <1>2, <1>3, <1>6, <1>7, <1>8, <1>9, <1>10, <1>11, <1>12, <1>13, <1>14, <1>15, <1>16, <1>17
  DEF IInv, Parts, Laid, Lexical

-----------------------------------------------------------------------------
(* A step of the body under way that touches its temporaries, and variables  *)
(* that are no parameters.                                                   *)
LEMMA QuietStep ==
  ASSUME IInv, Evaluating, Quiet, stk' \in Seq(Words),
         NEW m \in Nat, m = (IF ctl = <<>> THEN 0 ELSE Frame.base), m <= Len(stk'),
         \A i \in 1 .. m :
           \/ stk'[i] = stk[i]
           \/ stk[i][1] = "cell" /\ stk'[i][1] = "cell" /\ stk'[i][2] = stk[i][2] /\ stk[i][2] \notin Trs,
         \A i \in m + 1 .. Len(stk') : stk'[i] \in Value
  PROVE  IInv'
<1>1. Types /\ Running /\ Parts /\ Laid /\ Nesting /\ Lexical /\ (~thrown => Scopes) /\ NeverAstray
  BY DEF IInv, Evaluating
<1>2. /\ DOMAIN ctl = 1 .. Len(ctl) /\ Len(ctl) \in Nat /\ (ctl = <<>> <=> Len(ctl) = 0)
      /\ ctl # <<>> => Len(ctl) \in DOMAIN ctl /\ Frame = ctl[Len(ctl)] /\ Frame.kind = "op"
      /\ fn = none /\ DOMAIN stk = 1 .. Len(stk) /\ Len(stk) \in Nat
  BY <1>1, FrameTypes DEF Evaluating
<1>3. UNCHANGED <<sp, env, ctl, fn, catchbuf, pc, thrown, cuts>> BY DEF Quiet
<1>4. Types' BY <1>1, <1>3 DEF Types, OpFrames, ClosureFrames, CatchFrames, Words, Value, Given, Flat, Closure, Lexes
<1>5. ~Waiting' BY <1>2, <1>3 DEF Waiting, Frame
<1>6. \A k \in DOMAIN ctl : Floor(k)' = Floor(k) /\ Ceil(k)' = Ceil(k) BY <1>3 DEF Floor, Ceil
<1>7. Bodies' = Bodies /\ Catchers' = Catchers BY <1>3 DEF Bodies, Catchers
<1>8. m <= Len(stk) /\ \A k \in DOMAIN ctl : Ceil(k) <= m /\ Floor(k) <= m
  <2>1. CASE ctl = <<>> BY <1>2, <2>1
  <2>2. CASE ctl # <<>>
    <3>1. m = Ceil(Len(ctl)) /\ Floor(Len(ctl)) = m - 4 BY <1>1, <1>2, <2>2, FrameTypes
    <3>2. \A k \in DOMAIN ctl : k < Len(ctl) => Ceil(k) <= m - 4
      BY <1>1, <1>2, <2>2, <3>1 DEF Parts, PartsInOrder
    <3>3. \A k \in DOMAIN ctl : k = Len(ctl) \/ k < Len(ctl) BY <1>2
    <3>4. \A k \in DOMAIN ctl : Ceil(k) <= m
      <4> TAKE k \in DOMAIN ctl
      <4> QED BY <1>1, <3>1, <3>2, <3>3, FrameTypes
    <3>5. \A k \in DOMAIN ctl : Floor(k) <= m
      <4> TAKE k \in DOMAIN ctl
      <4> QED BY <1>1, <3>4, FrameTypes DEF Parts, PartsSized
    <3>6. m <= Len(stk) BY <1>1, <1>2, <2>2, <3>1 DEF Parts, PartsSized
    <3> QED BY <3>4, <3>5, <3>6
  <2> QED BY <2>1, <2>2
<1>9. Parts'
  <2>1. Len(stk') \in Nat BY SeqTyped
  <2>2. \A k \in DOMAIN ctl : Ceil(k) <= Len(stk')
    <3> TAKE k \in DOMAIN ctl
    <3> QED BY <1>1, <1>8, <2>1, FrameTypes
  <2>3. PartsSized' BY <1>1, <1>3, <1>6, <2>2 DEF Parts, PartsSized
  <2>4. PartsInOrder' BY <1>1, <1>3, <1>6 DEF Parts, PartsInOrder
  <2>5. PartsMeet' BY <1>1, <1>3 DEF Parts, PartsMeet, Floor, Ceil
  <2>6. PartsWait' BY <1>5 DEF PartsWait
  <2> QED BY <2>3, <2>4, <2>5, <2>6 DEF Parts
<1>10. \A k \in Bodies : /\ ctl[k].base \in 4 .. m /\ ctl[k].base - 1 \in 1 .. m /\ ctl[k].base - 3 \in 1 .. m
                         /\ k \in DOMAIN ctl
  <2> TAKE k \in Bodies
  <2>1. k \in DOMAIN ctl /\ ctl[k].kind = "op" BY DEF Bodies
  <2>2. Floor(k) >= 0 /\ Ceil(k) <= m BY <1>1, <1>8, <2>1 DEF Parts, PartsSized
  <2> QED BY SMTT(30), <1>1, <2>1, <2>2, FrameTypes
<1>11. \A k \in DOMAIN ctl : ctl[k].kind = "closure" =>
         \A i \in 1 .. Len(ctl[k].syms) : ctl[k].floor + i \in 1 .. m
  <2> TAKE k \in DOMAIN ctl
  <2>2. Floor(k) >= 0 /\ Ceil(k) <= m BY <1>1, <1>8 DEF Parts, PartsSized
  <2> QED BY SMTT(30), <1>1, <2>2, FrameTypes
<1>12. \A x \in 1 .. m : /\ x \in DOMAIN stk
                         /\ stk'[x][1] = stk[x][1]
                         /\ stk[x][1] # "cell" => stk'[x] = stk[x]
                         /\ stk[x][1] = "cell" => stk'[x][2] = stk[x][2]
                         /\ stk[x][1] = "cell" /\ stk[x][2] \in Trs => stk'[x] = stk[x]
  BY <1>2, <1>8
<1>13. DOMAIN stk' = 1 .. Len(stk') /\ Len(stk') \in Nat BY SeqTyped
<1>14. \A i \in DOMAIN stk' : i > m => stk'[i] \in Value BY <1>13
<1>15. Laid'
  <2>0. \A i \in DOMAIN stk' : i \in 1 .. m \/ i > m BY <1>13
  <2>1. RecordsLaid'
    <3>1. \A k \in Bodies :
            /\ stk'[ctl[k].base][1] = "cell" /\ stk'[ctl[k].base][2] = ctl[k].op
            /\ stk'[ctl[k].base - 1][1] = "sp" /\ stk'[ctl[k].base - 3] = <<"op", ctl[k].op>>
      <4> TAKE k \in Bodies
      <4>1. /\ stk[ctl[k].base][1] = "cell" /\ stk[ctl[k].base][2] = ctl[k].op
            /\ stk[ctl[k].base - 1][1] = "sp" /\ stk[ctl[k].base - 3] = <<"op", ctl[k].op>>
        BY <1>1 DEF Laid, RecordsLaid
      <4>2. ctl[k].base \in 1 .. m /\ ctl[k].base - 1 \in 1 .. m /\ ctl[k].base - 3 \in 1 .. m
        BY <1>10
      <4>3. stk'[ctl[k].base][1] = "cell" /\ stk'[ctl[k].base][2] = ctl[k].op
        BY <1>12, <4>1, <4>2
      <4>4. stk'[ctl[k].base - 1][1] = "sp" BY <1>12, <4>1, <4>2
      <4>5. stk[ctl[k].base - 3][1] # "cell" BY <4>1
      <4>6. stk'[ctl[k].base - 3] = <<"op", ctl[k].op>> BY <1>12, <4>1, <4>2, <4>5
      <4> QED BY <4>3, <4>4, <4>6
    <3> QED BY <1>3, <1>7, <3>1 DEF RecordsLaid
  <2>2. SavedLaid' BY <1>1, <1>3, <1>11, <1>12 DEF Laid, SavedLaid
  <2>3. \A i \in 1 .. m : stk[i] \in Value => stk'[i] \in Value BY <1>12, ValueTypes
  <2>4. TempsLaid'
    <3>1. \A k \in Bodies : \A i \in DOMAIN stk' :
            ctl[k].base < i /\ (\A j \in DOMAIN ctl : j > k => i <= Floor(j)) => stk'[i] \in Value
      <4> TAKE k \in Bodies
      <4> TAKE i \in DOMAIN stk'
      <4>1. CASE i > m BY <1>14, <4>1
      <4>2. CASE i \in 1 .. m
        <5>1. i \in DOMAIN stk BY <1>12, <4>2
        <5>2. stk[i] \in Value => stk'[i] \in Value BY <2>3, <4>2
        <5> QED BY <1>1, <5>1, <5>2 DEF Laid, TempsLaid
      <4> QED BY <2>0, <4>1, <4>2
    <3> QED BY <1>3, <1>6, <1>7, <3>1 DEF TempsLaid
  <2>5. LineLaid'
    <3>1. \A i \in DOMAIN stk' : (\A j \in DOMAIN ctl : i <= Floor(j)) => stk'[i] \in Value
      <4> TAKE i \in DOMAIN stk'
      <4>1. CASE i > m BY <1>14, <4>1
      <4>2. CASE i \in 1 .. m
        <5>1. i \in DOMAIN stk BY <1>12, <4>2
        <5>2. stk[i] \in Value => stk'[i] \in Value BY <2>3, <4>2
        <5> QED BY <1>1, <5>1, <5>2 DEF Laid, LineLaid
      <4> QED BY <2>0, <4>1, <4>2
    <3> QED BY <1>3, <1>6, <3>1 DEF LineLaid
  <2>6. CellsLaid'
    <3>1. \A i \in DOMAIN stk' : stk'[i][1] = "cell" => \E k \in Bodies : ctl[k].base = i
      <4> TAKE i \in DOMAIN stk'
      <4>1. CASE i > m BY <1>14, <4>1, ValueTypes
      <4>2. CASE i \in 1 .. m
        <5>1. i \in DOMAIN stk /\ stk'[i][1] = stk[i][1] BY <1>12, <4>2
        <5> QED BY <1>1, <5>1 DEF Laid, CellsLaid
      <4> QED BY <2>0, <4>1, <4>2
    <3> QED BY <1>3, <1>7, <3>1 DEF CellsLaid
  <2>7. TopLaid' BY <1>5 DEF TopLaid
  <2> QED BY <2>1, <2>2, <2>4, <2>5, <2>6, <2>7 DEF Laid
<1>16. Nesting' BY <1>1, <1>3, <1>7 DEF Nesting, Nearest
<1>17. \A k \in Bodies : ctl[k].op \in Trs => stk'[ctl[k].base] = stk[ctl[k].base]
  <2> TAKE k \in Bodies
  <2>1. ctl[k].base \in 1 .. m BY <1>10
  <2>2. stk[ctl[k].base][1] = "cell" /\ stk[ctl[k].base][2] = ctl[k].op BY <1>1 DEF Laid, RecordsLaid
  <2> QED BY <1>12, <2>1, <2>2
<1>18. Lexical'
  <2>1. TextsLive' BY <1>1, <1>3 DEF Lexical, TextsLive, Live
  <2>2. TextsOfBodies' BY <1>1, <1>3, <1>7 DEF Lexical, TextsOfBodies
  <2>3. TextsOfCatchers' BY <1>1, <1>3, <1>7 DEF Lexical, TextsOfCatchers, LexAt
  <2>4. ParamsBound'
    <3>1. \A k \in Bodies : ctl[k].op \in Trs => Bound(stk'[ctl[k].base][3], k)
      BY <1>1, <1>17 DEF Lexical, ParamsBound
    <3> QED BY <1>3, <1>7, <3>1 DEF ParamsBound, Bound, Live
  <2>5. FnBound' BY <1>2, <1>3 DEF FnBound
  <2>6. NullsAreLow' BY <1>1, <1>3 DEF Lexical, NullsAreLow, Low
  <2> QED BY <2>1, <2>2, <2>3, <2>4, <2>5, <2>6 DEF Lexical
<1>19. ~thrown => Scopes'
  <2> SUFFICES ASSUME ~thrown PROVE Scopes' OBVIOUS
  <2>1. \A j, k \in DOMAIN ctl : \A s : FirstSaves(j, k, s) => SavedFor(j, s)' = SavedFor(j, s)
    <3> SUFFICES ASSUME NEW j \in DOMAIN ctl, NEW s, Saves(j, s) PROVE SavedFor(j, s)' = SavedFor(j, s)
      BY DEF FirstSaves
    <3>1. PICK i \in Nat : /\ Floor(j) < i /\ i <= Ceil(j)
                           /\ SavedFor(j, s) = stk[i][2] /\ SavedFor(j, s)' = stk'[i][2]
                           /\ stk[i][1] = "sp"
      BY <1>1, <1>3, SavedPlace
    <3>2. 0 <= Floor(j) /\ Floor(j) \in Int /\ Ceil(j) \in Int /\ Ceil(j) <= m
      BY <1>1, <1>8, FrameTypes DEF Parts, PartsSized
    <3>3. i \in 1 .. m BY <3>1, <3>2
    <3> QED BY <1>12, <3>1, <3>3
  <2>2. \A j, k \in DOMAIN ctl : \A s : FirstSaves(j, k, s)' = FirstSaves(j, k, s)
    BY <1>3 DEF FirstSaves, Saves
  <2>3. EnvsRight' BY <1>1, <1>3 DEF Scopes, EnvsRight, EnvAt
  <2>4. Current' BY <1>1, <1>3 DEF Scopes, Current, Saves
  <2>5. SavedRight' BY <1>1, <1>3, <2>1, <2>2 DEF Scopes, SavedRight
  <2>6. ClosuresAgree'
    <3>1. \A k \in Bodies : ctl[k].op \in Trs => Agrees(stk'[ctl[k].base][3])
      BY <1>1, <1>17 DEF Scopes, ClosuresAgree
    <3> QED BY <1>2, <1>3, <1>7, <3>1 DEF ClosuresAgree, Agrees
  <2> QED BY <2>3, <2>4, <2>5, <2>6 DEF Scopes
<1>20. NeverAstray' BY <1>1, <1>3 DEF NeverAstray
<1> QED BY <1>3, <1>4, <1>9, <1>15, <1>16, <1>18, <1>19, <1>20 DEF IInv, Running
-----------------------------------------------------------------------------
(* The steps that push no frame and return from none.                        *)
LEMMA PushConstStep ==
  ASSUME IInv, NEW v \in Vals, PushConst(v)
  PROVE  IInv'
<1> DEFINE m == IF ctl = <<>> THEN 0 ELSE Frame.base
<1>1. Types /\ Parts /\ Laid BY DEF IInv, PushConst, Evaluating
<1>2. /\ m \in Nat /\ m <= Len(stk) /\ \A i \in m + 1 .. Len(stk) : stk[i] \in Value
      /\ stk \in Seq(Words) /\ Len(stk) \in Nat
  BY <1>1, Temporaries DEF Types, PushConst
<1> HIDE DEF m
<1>3. <<"val", v>> \in Words /\ <<"val", v>> \in Value BY MadeWords, ValueTypes
<1>4. stk' \in Seq(Words) /\ Len(stk') = Len(stk) + 1 /\ stk'[Len(stk) + 1] = <<"val", v>>
      /\ \A i \in 1 .. Len(stk) : stk'[i] = stk[i]
  BY <1>2, <1>3, SeqAppend DEF PushConst
<1>5. \A i \in 1 .. m : stk'[i] = stk[i] BY <1>2, <1>4
<1>6. \A i \in m + 1 .. Len(stk') : stk'[i] \in Value BY <1>2, <1>3, <1>4
<1>7. m <= Len(stk') BY <1>2, <1>4
<1> QED BY <1>2, <1>4, <1>5, <1>6, <1>7, QuietStep DEF PushConst, m

LEMMA DiscardStep ==
  ASSUME IInv, Discard
  PROVE  IInv'
<1> DEFINE m == IF ctl = <<>> THEN 0 ELSE Frame.base
<1>1. Types /\ Parts /\ Laid BY DEF IInv, Discard, Evaluating
<1>2. /\ m \in Nat /\ Len(stk) > m /\ \A i \in m + 1 .. Len(stk) : stk[i] \in Value
      /\ stk \in Seq(Words) /\ Len(stk) \in Nat
  BY <1>1, Temporaries DEF Types, Discard
<1> HIDE DEF m
<1>3. stk # <<>> BY <1>2
<1>4. stk' \in Seq(Words) /\ Len(stk') = Len(stk) - 1 /\ \A i \in 1 .. Len(stk) - 1 : stk'[i] = stk[i]
  BY <1>2, <1>3, SeqFront DEF Discard
<1>5. \A i \in 1 .. m : stk'[i] = stk[i] BY <1>2, <1>4
<1>6. \A i \in m + 1 .. Len(stk') : stk'[i] \in Value BY <1>2, <1>4
<1>7. m <= Len(stk') BY <1>2, <1>4
<1> QED BY <1>2, <1>4, <1>5, <1>6, <1>7, QuietStep DEF Discard, m

(* The temporary on top is replaced by a value.                              *)
LEMMA ReplaceTop ==
  ASSUME IInv, Evaluating, Temps > 0, Quiet, NEW w \in Value, stk' = Append(Front(stk), w)
  PROVE  IInv'
<1> DEFINE m == IF ctl = <<>> THEN 0 ELSE Frame.base
<1>1. Types /\ Parts /\ Laid BY DEF IInv, Evaluating
<1>2. /\ m \in Nat /\ Len(stk) > m /\ \A i \in m + 1 .. Len(stk) : stk[i] \in Value
      /\ stk \in Seq(Words) /\ Len(stk) \in Nat
  BY <1>1, Temporaries DEF Types
<1> HIDE DEF m
<1>3. stk # <<>> BY <1>2
<1> DEFINE f == Front(stk)
<1>4. f \in Seq(Words) /\ Len(f) = Len(stk) - 1 /\ \A i \in 1 .. Len(stk) - 1 : f[i] = stk[i]
  BY <1>2, <1>3, SeqFront
<1>4a. w \in Words BY ValueTypes
<1> HIDE DEF f
<1>5. stk' = Append(f, w) BY DEF f
<1>6. stk' \in Seq(Words) /\ Len(stk') = Len(f) + 1 /\ stk'[Len(f) + 1] = w
      /\ \A i \in 1 .. Len(f) : stk'[i] = f[i]
  BY <1>4, <1>4a, <1>5, SeqAppend
<1>7. \A i \in 1 .. m : stk'[i] = stk[i] BY <1>2, <1>4, <1>6
<1>8. \A i \in m + 1 .. Len(stk') : stk'[i] \in Value BY <1>2, <1>4, <1>6
<1>9. m <= Len(stk') BY <1>2, <1>4, <1>6
<1> QED BY <1>2, <1>6, <1>7, <1>8, <1>9, QuietStep DEF m

LEMMA ReadVarStep ==
  ASSUME IInv, NEW s \in Ops, ReadVar(s)
  PROVE  IInv'
<1> DEFINE m == IF ctl = <<>> THEN 0 ELSE Frame.base
<1>1. Types /\ Parts /\ Laid /\ Lexical /\ Evaluating /\ Running BY DEF IInv, ReadVar, Evaluating
<1>2. /\ m \in Nat /\ m <= Len(stk) /\ \A i \in m + 1 .. Len(stk) : stk[i] \in Value
      /\ stk \in Seq(Words) /\ Len(stk) \in Nat
  BY <1>1, Temporaries DEF Types
<1> HIDE DEF m
<1>3. ASSUME NEW w \in Value, stk' = Append(stk, w), Quiet PROVE IInv'
  <2>1. w \in Words BY ValueTypes
  <2>2. stk' \in Seq(Words) /\ Len(stk') = Len(stk) + 1 /\ stk'[Len(stk) + 1] = w
        /\ \A i \in 1 .. Len(stk) : stk'[i] = stk[i]
    BY <1>2, <1>3, <2>1, SeqAppend
  <2>3. \A i \in 1 .. m : stk'[i] = stk[i] BY <1>2, <2>2
  <2>4. \A i \in m + 1 .. Len(stk') : stk'[i] \in Value BY <1>2, <2>2
  <2>5. m <= Len(stk') BY <1>2, <2>2
  <2> QED BY <1>1, <1>2, <1>3, <2>2, <2>3, <2>4, <2>5, QuietStep DEF m
<1>4. CASE sp[s] = -1 BY <1>3, <1>4, MadeWords DEF ReadVar
<1>5. CASE sp[s] # -1 /\ Finds(s)
  <2>1. s \notin Trs /\ stk' = Append(stk, Cell(s)) /\ Quiet BY <1>5 DEF ReadVar
  <2>2. Cell(s) \in Value BY <1>1, <1>5, <2>1, CellOfRecord
  <2> QED BY <1>3, <2>1, <2>2
<1>6. CASE sp[s] # -1 /\ ~Finds(s)
  <2>1. Astray /\ s \in DOMAIN Lex BY <1>1, <1>6, HereIsLex DEF ReadVar
  <2>2. thrown BY <1>1, <1>6, <2>1, Found
  <2> QED BY <2>1, <2>2, AstrayStep
<1> QED BY <1>4, <1>5, <1>6

LEMMA SetVarStep ==
  ASSUME IInv, NEW s \in Ops, SetVar(s)
  PROVE  IInv'
<1> DEFINE m == IF ctl = <<>> THEN 0 ELSE Frame.base
<1>1. /\ Types /\ Parts /\ Laid /\ Lexical /\ Evaluating /\ Running
      /\ Temps > 0 /\ s \in Range(Here) /\ s \notin Trs
  BY DEF IInv, SetVar, Evaluating
<1>2. /\ m \in Nat /\ Len(stk) > m /\ \A i \in m + 1 .. Len(stk) : stk[i] \in Value
      /\ \A k \in DOMAIN ctl : Ceil(k) <= m
      /\ stk \in Seq(Words) /\ Len(stk) \in Nat /\ DOMAIN stk = 1 .. Len(stk)
  BY <1>1, Temporaries, FrameTypes DEF Types
<1>3. stk # <<>> BY <1>2
<1> DEFINE v == Last(stk)
<1>4. v \in Value BY <1>2, <1>3, SeqFront
<1> HIDE DEF m, v
<1>5. CASE sp[s] = -1
  <2>1. stk' = Append(Front(stk), Fault) /\ Quiet BY <1>5 DEF SetVar
  <2> QED BY <1>1, <2>1, MadeWords, ReplaceTop
<1>6. CASE sp[s] # -1 /\ Finds(s)
  <2> DEFINE c == sp[s]
             w == <<"cell", s, v>>
  <2>1. stk' = [stk EXCEPT ![c] = w] /\ Quiet BY <1>6 DEF SetVar, v
  <2>2. c \in DOMAIN stk /\ stk[c][1] = "cell" /\ stk[c][2] = s BY <1>6 DEF Finds
  <2>3. w \in Words /\ w[1] = "cell" /\ w[2] = s BY <1>1, <1>4, MadeWords
  <2>4. PICK k \in Bodies : ctl[k].base = c BY <1>1, <1>6, CellOfRecord
  <2>5. c <= m
    <3>1. k \in DOMAIN ctl /\ Ceil(k) = c BY <1>1, <2>4, FrameTypes DEF Bodies
    <3> QED BY <1>2, <3>1
  <2> HIDE DEF c, w
  <2>6. stk' \in Seq(Words) /\ Len(stk') = Len(stk) BY <1>2, <2>1, <2>2, <2>3
  <2>7. \A i \in 1 .. Len(stk) : stk'[i] = IF i = c THEN w ELSE stk[i] BY <1>2, <2>1, <2>2
  <2>8. \A i \in 1 .. m :
           \/ stk'[i] = stk[i]
           \/ stk[i][1] = "cell" /\ stk'[i][1] = "cell" /\ stk'[i][2] = stk[i][2] /\ stk[i][2] \notin Trs
    <3> TAKE i \in 1 .. m
    <3>1. i \in 1 .. Len(stk) BY <1>2
    <3>2. stk'[i] = IF i = c THEN w ELSE stk[i] BY <2>7, <3>1
    <3> QED BY <1>1, <2>2, <2>3, <3>2
  <2>9. \A i \in m + 1 .. Len(stk') : stk'[i] \in Value
    <3> TAKE i \in m + 1 .. Len(stk')
    <3>1. c \in Int BY <1>2, <2>2
    <3>2. i \in 1 .. Len(stk) /\ i # c /\ i \in m + 1 .. Len(stk) BY <1>2, <2>5, <2>6, <3>1
    <3> QED BY <1>2, <2>7, <3>2
  <2>10. m <= Len(stk') BY <1>2, <2>6
  <2> QED BY <1>1, <1>2, <2>1, <2>6, <2>8, <2>9, <2>10, QuietStep DEF m
<1>7. CASE sp[s] # -1 /\ ~Finds(s)
  <2>1. Astray /\ s \in DOMAIN Lex BY <1>1, <1>7, HereIsLex DEF SetVar
  <2>2. thrown BY <1>1, <1>7, <2>1, Found
  <2> QED BY <2>1, <2>2, AstrayStep
<1> QED BY <1>5, <1>6, <1>7

LEMMA ApplyStep ==
  ASSUME IInv, Evaluating, NEW o \in Applied, Apply(o)
  PROVE  IInv'
<1>1. Types /\ Parts /\ Laid /\ Lexical /\ Running BY DEF IInv, Evaluating
<1> DEFINE m == IF ctl = <<>> THEN 0 ELSE Frame.base
<1>2. /\ m \in Nat /\ Len(stk) > m /\ \A i \in m + 1 .. Len(stk) : stk[i] \in Value
      /\ \A k \in DOMAIN ctl : Ceil(k) <= m /\ Ceil(k) \in Int
      /\ stk \in Seq(Words) /\ Len(stk) \in Nat
  BY <1>1, Temporaries, FrameTypes DEF Types, Apply
<1> HIDE DEF m
<1>3. stk # <<>> BY <1>2
<1>4. Last(stk) \in Value BY <1>2, <1>3, SeqFront
<1>5. \A k \in DOMAIN ctl : Ceil(k) < Len(stk) BY <1>2
<1>6. ctl = <<>> \/ Frame.kind = "op" BY DEF Evaluating
<1>7. \A p \in Named : /\ p \in Flat /\ Within(p, DOMAIN Lex) /\ p[1] \in {"name", "param"}
  <2>1. /\ \A f \in Ops : InScope(f) => Range(Outer[f]) \subseteq DOMAIN Lex
        /\ Range(Here) = DOMAIN Lex
    BY <1>1, ScopeOfText, HereIsLex
  <2> QED BY <2>1 DEF Named, Flat, Within
<1>8. \A f \in Ops : InScope(f) => Range(Outer[f]) \subseteq DOMAIN Lex
  BY <1>1, ScopeOfText, HereIsLex
<1>9. /\ fn' \in {none} \cup Given \cup ({"transform"} \X Trs \X Flat) \cup ({"catch"} \X Flat)
      /\ FnBound' /\ Agrees(fn')
  <2>1. fn' = o /\ Lex' = Lex /\ ctl' = ctl /\ (ctl = <<>> \/ Frame'.kind = "op")
    BY <1>6 DEF Apply, Lex, Frame
  <2>2. CASE o \in Named BY <1>7, <2>1, <2>2 DEF Given, FnBound, Agrees
  <2>3. CASE o \in {<<"transform", t, p>> : t \in {u \in Trs : InScope(u)}, p \in Named}
    <3>1. PICK t \in Trs, p \in Named : o = <<"transform", t, p>> /\ InScope(t) BY <2>3
    <3>2. t \in Ops /\ p \in Flat /\ Within(p, DOMAIN Lex) /\ Range(Outer[t]) \subseteq DOMAIN Lex
      BY <1>7, <1>8, <3>1, CallsConstants
    <3>3. o[1] = "transform" /\ o[2] = t /\ o[3] = p /\ o \in {"transform"} \X Trs \X Flat
      BY <3>1, <3>2
    <3> QED BY <2>1, <3>2, <3>3 DEF FnBound, Agrees
  <2>4. CASE o \in {<<"catch", p>> : p \in Named}
    <3>1. PICK p \in Named : o = <<"catch", p>> BY <2>4
    <3>2. p \in Flat /\ Within(p, DOMAIN Lex) BY <1>7, <3>1
    <3>3. o[1] = "catch" /\ o[2] = p /\ o \in {"catch"} \X Flat BY <3>1, <3>2
    <3> QED BY <2>1, <3>2, <3>3 DEF FnBound, Agrees
  <2> QED BY <2>2, <2>3, <2>4 DEF Applied
<1>10. UNCHANGED <<stk, sp, env, ctl, catchbuf, pc, thrown, cuts>> BY DEF Apply
<1> QED BY <1>1, <1>3, <1>4, <1>5, <1>6, <1>9, <1>10, FnStep

(* What the cell of a transformer's parameter holds may be applied anywhere  *)
(* above its record.                                                         *)
LEMMA ParamOfRecord ==
  ASSUME Types, Parts, Laid, Lexical, NEW t \in Trs, Finds(t)
  PROVE  Cell(t) \in Given /\ Bound(Cell(t), Len(ctl)) /\ (Scopes => Agrees(Cell(t)))
<1>1. t \in Ops BY CallsConstants
<1>2. PICK k \in Bodies : ctl[k].base = sp[t] /\ ctl[k].op = t BY <1>1, CellOfRecord
<1>3. Cell(t) \in Given BY <1>1, CellOfRecord
<1>4. Bound(Cell(t), k) /\ (Scopes => Agrees(Cell(t)))
  BY <1>2 DEF Lexical, ParamsBound, Scopes, ClosuresAgree, Cell
<1>5. k \in 1 .. Len(ctl) /\ Len(ctl) \in Nat BY FrameTypes DEF Bodies
<1>6. 1 .. k \subseteq 1 .. Len(ctl) BY <1>5
<1>7. Bound(Cell(t), Len(ctl)) BY <1>4, <1>6 DEF Bound, Live
<1> QED BY <1>3, <1>4, <1>7

LEMMA ApplyParamStep ==
  ASSUME IInv, ApplyParam
  PROVE  IInv'
<1>1. Types /\ Parts /\ Laid /\ Lexical /\ Running /\ fn # none /\ fn[1] = "param"
  BY DEF IInv, ApplyParam, Applying
<1>2. fn \in Flat /\ fn[2] \in Trs
  <2>1. fn \in Given \cup ({"transform"} \X Trs \X Flat) \cup ({"catch"} \X Flat)
    BY <1>1 DEF Types
  <2> QED BY <1>1, <2>1, FlatTypes, ClosureTypes DEF Given
<1>3. fn[2] \in DOMAIN Lex BY <1>1 DEF Lexical, FnBound, Within
<1>4. CASE Finds(fn[2])
  <2>1. fn' = Cell(fn[2]) /\ UNCHANGED <<stk, sp, env, ctl, catchbuf, pc, thrown, cuts>>
    BY <1>4 DEF ApplyParam
  <2>2. fn' \in Given /\ Bound(fn', Len(ctl)) /\ (Scopes => Agrees(fn'))
    BY <1>1, <1>2, <1>4, <2>1, ParamOfRecord
  <2>3. FnBound'
    <3>1. Lex' = Lex /\ ctl' = ctl BY <2>1 DEF Lex, Frame
    <3>2. Bound(fn, Len(ctl))' BY <2>1, <2>2 DEF Bound, Live
    <3>3. fn'[1] \in {"name", "closure"} BY <2>2 DEF Bound
    <3>4. fn'[1] = "name" => Outer[fn'[2]] = <<>> BY <2>2 DEF Bound
    <3>5. fn'[1] = "name" => Within(fn', DOMAIN Lex) BY <3>4, SeqEmpty DEF Within
    <3>6. fn'[1] = "closure" => Bound(fn, Len(ctl))' BY <3>2
    <3> QED BY <3>1, <3>3, <3>5, <3>6 DEF FnBound, Within
  <2>4. Waiting BY <1>1 DEF Waiting
  <2>5. /\ stk # <<>> /\ Last(stk) \in Value
        /\ \A k \in DOMAIN ctl : Ceil(k) < Len(stk)
        /\ ctl # <<>> /\ Frame.kind # "op" => Ceil(Len(ctl)) = Len(stk) - 1
    BY <1>1, <2>4 DEF Parts, PartsWait, Laid, TopLaid
  <2>6. ~thrown => Scopes BY <1>1 DEF IInv
  <2> QED BY <1>1, <2>1, <2>2, <2>3, <2>5, <2>6, FnStep
<1>5. CASE ~Finds(fn[2])
  <2>1. Astray BY <1>5 DEF ApplyParam
  <2>2. thrown BY <1>1, <1>3, <1>5, Found
  <2> QED BY <2>1, <2>2, AstrayStep
<1> QED BY <1>4, <1>5

LEMMA NextLineStep ==
  ASSUME IInv, NextLine
  PROVE  IInv'
<1>1. /\ Types /\ Running /\ Nesting /\ Lexical /\ NeverAstray /\ ctl = <<>> /\ fn = none
      /\ stk' = <<>> /\ env' = <<>> /\ thrown' = FALSE
      /\ UNCHANGED <<sp, ctl, fn, catchbuf, pc, cuts>>
  BY DEF IInv, NextLine, Evaluating
<1>2. ctl' = <<>> /\ fn' = none /\ pc' = "run" /\ DOMAIN ctl' = {} /\ Len(ctl') = 0 /\ DOMAIN stk' = {}
  BY <1>1, SeqEmpty DEF Running
<1>3. Bodies' = {} /\ Catchers' = {} /\ Bodies = {} /\ Catchers = {}
  BY <1>1, <1>2, SeqEmpty DEF Bodies, Catchers
<1>4. ~Waiting' BY <1>2 DEF Waiting
<1>5. Types'
  <2>0. <<>> \in Seq(Words) /\ <<>> \in Seq(Ops) /\ FALSE \in BOOLEAN OBVIOUS
  <2>1. stk' \in Seq(Words) /\ env' \in Seq(Ops) /\ thrown' \in BOOLEAN BY <1>1, <2>0
  <2> QED BY <1>1, <2>1 DEF Types, OpFrames, ClosureFrames, CatchFrames, Words, Value, Given, Flat, Closure, Lexes
<1>6. Parts' BY <1>2, <1>4 DEF Parts, PartsSized, PartsInOrder, PartsMeet, PartsWait
<1>7. Laid'
  BY <1>2, <1>3, <1>4 DEF Laid, RecordsLaid, SavedLaid, TempsLaid, LineLaid, TopLaid, CellsLaid
<1>8. Nesting' BY <1>1, <1>3 DEF Nesting, Nearest
<1>9. Lexical'
  BY <1>2, <1>3
  DEF Lexical, TextsLive, TextsOfBodies, TextsOfCatchers, ParamsBound, FnBound, NullsAreLow, Low
<1>10. Scopes'
  BY <1>1, <1>2, <1>3 DEF Scopes, EnvsRight, Current, SavedRight, ClosuresAgree, EnvAt
<1>11. NeverAstray' BY <1>2 DEF NeverAstray
<1> QED BY <1>5, <1>6, <1>7, <1>8, <1>9, <1>10, <1>11 DEF IInv

LEMMA JumpStep ==
  ASSUME IInv, Jump
  PROVE  IInv'
<1>1. /\ Types /\ Running /\ Nesting /\ NeverAstray
      /\ stk' = <<>> /\ env' = <<>> /\ thrown' = FALSE /\ fn' = none /\ pc' = "run"
      /\ ctl' = SubSeq(ctl, 1, 0) /\ sp' = sp
      /\ catchbuf' = IF catchbuf = 0 THEN 0 ELSE Dead
  BY DEF IInv, Jump, Leave, Running
<1>2. ctl' = <<>> BY <1>1
<1>3. DOMAIN ctl' = {} /\ Len(ctl') = 0 /\ DOMAIN stk' = {} BY <1>1, <1>2, SeqEmpty
<1>4. Bodies' = {} /\ Catchers' = {} BY <1>3 DEF Bodies, Catchers
<1>5. ~Waiting' BY <1>1, <1>2 DEF Waiting
<1>6. Types'
  <2>0. <<>> \in Seq(Words) /\ <<>> \in Seq(Ops) /\ FALSE \in BOOLEAN OBVIOUS
  <2>1. stk' \in Seq(Words) /\ env' \in Seq(Ops) /\ thrown' \in BOOLEAN BY <1>1, <2>0
  <2>2. catchbuf' \in {Dead} \cup Nat /\ sp' \in [Ops -> Int] BY <1>1 DEF Types
  <2>3. ctl' \in Seq(OpFrames \cup ClosureFrames \cup CatchFrames) BY <1>2
  <2> QED BY <1>1, <2>1, <2>2, <2>3 DEF Types, OpFrames, ClosureFrames, CatchFrames, Words, Value, Given, Flat, Closure, Lexes
<1>7. Parts' BY <1>3, <1>5 DEF Parts, PartsSized, PartsInOrder, PartsMeet, PartsWait
<1>8. Laid'
  BY <1>3, <1>4, <1>5 DEF Laid, RecordsLaid, SavedLaid, TempsLaid, LineLaid, TopLaid, CellsLaid
<1>9. Nesting' BY <1>1, <1>4 DEF Nesting, Nearest, Dead
<1>10. Lexical'
  BY <1>1, <1>3, <1>4
  DEF Lexical, TextsLive, TextsOfBodies, TextsOfCatchers, ParamsBound, FnBound, NullsAreLow, Low
<1>11. Scopes'
  BY <1>1, <1>3, <1>4 DEF Scopes, EnvsRight, Current, SavedRight, ClosuresAgree, EnvAt
<1>12. NeverAstray' BY <1>1 DEF NeverAstray
<1> QED BY <1>6, <1>7, <1>8, <1>9, <1>10, <1>11, <1>12 DEF IInv
-----------------------------------------------------------------------------
(* Frames that a step leaves alone.                                          *)
AllFrames == OpFrames \cup ClosureFrames \cup CatchFrames

LEMMA SameFrames ==
  ASSUME NEW m \in Nat, \A k \in 1 .. m : ctl'[k] = ctl[k]
  PROVE  /\ \A k \in 1 .. m : Floor(k)' = Floor(k) /\ Ceil(k)' = Ceil(k)
         /\ \A k \in 0 .. m : EnvAt(k)' = EnvAt(k) /\ LexAt(k)' = LexAt(k) /\ Low(k)' = Low(k)
         /\ \A k \in 1 .. m : \A s : Saves(k, s)' = Saves(k, s)
         /\ \A k \in 0 .. m : \A lex : Live(lex, k)' = Live(lex, k)
         /\ \A k \in 0 .. m : \A w : Bound(w, k)' = Bound(w, k)
<1>1. \A k \in 1 .. m : Floor(k)' = Floor(k) /\ Ceil(k)' = Ceil(k) BY DEF Floor, Ceil
<1>2. ASSUME NEW k \in 0 .. m PROVE EnvAt(k)' = EnvAt(k) /\ LexAt(k)' = LexAt(k) /\ Low(k)' = Low(k)
  <2>1. k = 0 \/ k = 1 \/ (k \in 1 .. m /\ k - 1 \in 1 .. m) OBVIOUS
  <2>2. CASE k = 0 BY <2>2 DEF EnvAt, LexAt, Low
  <2>3. CASE k = 1 /\ k \in 1 .. m BY <2>3 DEF EnvAt, LexAt, Low
  <2>4. CASE k \in 1 .. m /\ k - 1 \in 1 .. m /\ k # 1 BY <2>4 DEF EnvAt, LexAt, Low
  <2> QED BY <2>1, <2>2, <2>3, <2>4
<1>3. \A k \in 1 .. m : \A s : Saves(k, s)' = Saves(k, s) BY DEF Saves
<1>4. \A k \in 0 .. m : \A lex : Live(lex, k)' = Live(lex, k)
  <2> TAKE k \in 0 .. m
  <2> TAKE lex
  <2>1. \A j \in 1 .. k : ctl'[j] = ctl[j] OBVIOUS
  <2> QED BY <2>1 DEF Live
<1>5. \A k \in 0 .. m : \A w : Bound(w, k)' = Bound(w, k) BY <1>4 DEF Bound
<1> QED BY <1>1, <1>2, <1>3, <1>4, <1>5

LEMMA Grown ==
  ASSUME Types, NEW g \in AllFrames, NEW n, n = Len(ctl) + 1, ctl' = Append(ctl, g)
  PROVE  /\ n \in Nat /\ n >= 1 /\ n - 1 = Len(ctl) /\ n - 1 \in Nat
         /\ Len(ctl') = n /\ ctl'[n] = g /\ Frame' = g /\ ctl' # <<>>
         /\ DOMAIN ctl = 1 .. n - 1 /\ DOMAIN ctl' = 1 .. n /\ DOMAIN ctl' = DOMAIN ctl \cup {n}
         /\ \A k \in DOMAIN ctl : k < n /\ k \in Nat /\ ctl'[k] = ctl[k]
         /\ \A k \in DOMAIN ctl' : k = n \/ (k \in DOMAIN ctl /\ k < n)
         /\ Bodies' = Bodies \cup (IF g.kind = "op" THEN {n} ELSE {})
         /\ Catchers' = Catchers \cup (IF g.kind = "catch" THEN {n} ELSE {})
<1>1. ctl \in Seq(AllFrames) /\ Len(ctl) \in Nat /\ DOMAIN ctl = 1 .. Len(ctl) BY DEF Types, AllFrames
<1>2. /\ ctl' \in Seq(AllFrames) /\ Len(ctl') = n /\ ctl'[n] = g
      /\ \A i \in 1 .. Len(ctl) : ctl'[i] = ctl[i]
  BY <1>1, SeqAppend
<1>3. DOMAIN ctl' = 1 .. n BY <1>2
<1>4. ctl' # <<>> /\ Frame' = g BY <1>1, <1>2 DEF Frame, Last
<1>5. Bodies' = Bodies \cup (IF g.kind = "op" THEN {n} ELSE {})
  BY <1>1, <1>2, <1>3 DEF Bodies
<1>6. Catchers' = Catchers \cup (IF g.kind = "catch" THEN {n} ELSE {})
  BY <1>1, <1>2, <1>3 DEF Catchers
<1> QED BY <1>1, <1>2, <1>3, <1>4, <1>5, <1>6

(* A new frame above all others: the parts and what lies in them.            *)
LEMMA PushedParts ==
  ASSUME IInv, Running, stk' \in Seq(Words), fn # none,
         NEW g \in AllFrames, NEW n, n = Len(ctl) + 1, ctl' = Append(ctl, g),
         Floor(n)' = Len(stk) - 1, Ceil(n)' \in Nat, Floor(n)' <= Ceil(n)', Ceil(n)' <= Len(stk'),
         IF g.kind = "op" THEN fn' = none ELSE Ceil(n)' = Len(stk') - 1
  PROVE  Parts'
<1>1. Types /\ Parts /\ Waiting BY DEF IInv, Waiting
<1>2. /\ n \in Nat /\ n >= 1 /\ n - 1 = Len(ctl) /\ n - 1 \in Nat /\ n \notin DOMAIN ctl
      /\ Len(ctl') = n /\ ctl'[n] = g /\ Frame' = g /\ ctl' # <<>>
      /\ DOMAIN ctl = 1 .. n - 1 /\ DOMAIN ctl' = DOMAIN ctl \cup {n}
      /\ \A k \in DOMAIN ctl : k < n /\ k \in Nat /\ ctl'[k] = ctl[k]
      /\ \A k \in DOMAIN ctl' : k = n \/ (k \in DOMAIN ctl /\ k < n)
  BY <1>1, Grown
<1>3. \A k \in DOMAIN ctl : /\ Floor(k)' = Floor(k) /\ Ceil(k)' = Ceil(k)
                            /\ Floor(k) \in Int /\ Ceil(k) \in Int
  BY <1>1, <1>2, SameFrames, FrameTypes
<1>4. Len(stk) \in Nat /\ stk # <<>> /\ Len(stk) >= 1 /\ Len(stk') \in Nat
      /\ \A k \in DOMAIN ctl : Ceil(k) <= Len(stk) - 1
  <2>1. stk # <<>> /\ \A k \in DOMAIN ctl : Ceil(k) < Len(stk) BY <1>1 DEF Parts, PartsWait
  <2>2. Len(stk) \in Nat /\ (stk # <<>> => Len(stk) >= 1) BY <1>1 DEF Types
  <2>3. Len(stk') \in Nat BY SeqTyped
  <2> QED BY <1>3, <2>1, <2>2, <2>3
<1>5. PartsSized'
  <2>1. ASSUME NEW k \in DOMAIN ctl PROVE 0 <= Floor(k) /\ Floor(k) <= Ceil(k) /\ Ceil(k) <= Len(stk')
    BY <1>1, <1>3, <1>4 DEF Parts, PartsSized
  <2>2. 0 <= Floor(n)' BY <1>4
  <2> QED BY <1>2, <1>3, <2>1, <2>2 DEF PartsSized
<1>6. PartsInOrder'
  <2> SUFFICES ASSUME NEW j \in DOMAIN ctl', NEW k \in DOMAIN ctl', j < k PROVE Ceil(j)' <= Floor(k)'
    BY DEF PartsInOrder
  <2>1. j \in DOMAIN ctl BY <1>2
  <2>2. CASE k \in DOMAIN ctl BY <1>1, <1>3, <2>1, <2>2 DEF Parts, PartsInOrder
  <2>3. CASE k = n BY <1>3, <1>4, <2>1, <2>3
  <2> QED BY <1>2, <2>2, <2>3
<1>7. PartsMeet'
  <2> SUFFICES ASSUME NEW k \in DOMAIN ctl', ctl'[k].kind # "op", k < Len(ctl')
               PROVE Floor(k + 1)' = Ceil(k)'
    BY DEF PartsMeet
  <2>1. k \in DOMAIN ctl /\ ctl[k].kind # "op" BY <1>2
  <2>2. CASE k < n - 1
    <3>1. k + 1 \in DOMAIN ctl BY <1>2, <2>1, <2>2
    <3>2. Floor(k + 1) = Ceil(k) BY <1>1, <1>2, <2>1, <2>2 DEF Parts, PartsMeet
    <3> QED BY <1>3, <2>1, <3>1, <3>2
  <2>3. CASE k = n - 1
    <3>0. ctl # <<>> BY <2>1, SeqEmpty
    <3>1. Frame = ctl[k] /\ k + 1 = n BY <1>1, <1>2, <2>3, <3>0, FrameTypes
    <3>2. Ceil(k) = Len(stk) - 1 BY <1>1, <1>2, <2>1, <2>3, <3>0, <3>1 DEF Parts, PartsWait
    <3> QED BY <1>3, <2>1, <3>1, <3>2
  <2> QED BY <1>2, <2>1, <2>2, <2>3
<1>8. PartsWait'
  <2>1. CASE g.kind = "op" BY <1>2, <2>1 DEF PartsWait, Waiting
  <2>2. CASE g.kind # "op"
    <3>1. Ceil(n)' = Len(stk') - 1 /\ Len(stk') > 0 BY <1>4, <2>2
    <3>2. \A k \in DOMAIN ctl : Ceil(k)' < Len(stk') BY <1>3, <1>4, <3>1
    <3>3. stk' # <<>> BY <3>1, SeqEmpty
    <3>4. \A k \in DOMAIN ctl' : Ceil(k)' < Len(stk') BY <1>2, <1>4, <3>1, <3>2
    <3> QED BY <1>2, <3>1, <3>3, <3>4 DEF PartsWait
  <2> QED BY <2>1, <2>2
<1> QED BY <1>5, <1>6, <1>7, <1>8 DEF Parts

LEMMA PushedLaid ==
  ASSUME IInv, Running, stk' \in Seq(Words), fn # none, Parts', Types',
         NEW g \in AllFrames, NEW n, n = Len(ctl) + 1, ctl' = Append(ctl, g),
         Floor(n)' = Len(stk) - 1, Ceil(n)' \in Nat, Floor(n)' <= Ceil(n)', Ceil(n)' <= Len(stk'),
         IF g.kind = "op" THEN fn' = none ELSE Ceil(n)' = Len(stk') - 1,
         \A i \in 1 .. Len(stk) - 1 : stk'[i] = stk[i],
         \A i \in Ceil(n)' + 1 .. Len(stk') : stk'[i] \in Value,
         g.kind = "op" => /\ stk'[g.base][1] = "cell" /\ stk'[g.base][2] = g.op
                          /\ stk'[g.base - 1][1] = "sp" /\ stk'[g.base - 3] = <<"op", g.op>>,
         g.kind = "closure" => \A i \in 1 .. Len(g.syms) : stk'[g.floor + i][1] = "sp",
         \A i \in Len(stk) .. Ceil(n)' : stk'[i][1] = "cell" => g.kind = "op" /\ g.base = i
  PROVE  Laid'
<1>1. Types /\ Parts /\ Laid /\ Waiting BY DEF IInv, Waiting
<1>2. /\ n \in Nat /\ n >= 1 /\ n - 1 = Len(ctl) /\ n - 1 \in Nat /\ n \notin DOMAIN ctl
      /\ Len(ctl') = n /\ ctl'[n] = g /\ Frame' = g /\ ctl' # <<>>
      /\ DOMAIN ctl = 1 .. n - 1 /\ DOMAIN ctl' = DOMAIN ctl \cup {n}
      /\ \A k \in DOMAIN ctl : k < n /\ k \in Nat /\ ctl'[k] = ctl[k]
      /\ \A k \in DOMAIN ctl' : k = n \/ (k \in DOMAIN ctl /\ k < n)
      /\ Bodies' = Bodies \cup (IF g.kind = "op" THEN {n} ELSE {})
  BY <1>1, Grown
<1>3. \A k \in DOMAIN ctl : /\ Floor(k)' = Floor(k) /\ Ceil(k)' = Ceil(k)
                            /\ Floor(k) \in Int /\ Ceil(k) \in Int
  BY <1>1, <1>2, SameFrames, FrameTypes
<1>4. Len(stk) \in Nat /\ stk # <<>> /\ Len(stk) >= 1 /\ Len(stk') \in Nat
      /\ DOMAIN stk' = 1 .. Len(stk') /\ DOMAIN stk = 1 .. Len(stk)
      /\ \A k \in DOMAIN ctl : Ceil(k) <= Len(stk) - 1
  <2>1. stk # <<>> /\ \A k \in DOMAIN ctl : Ceil(k) < Len(stk) BY <1>1 DEF Parts, PartsWait
  <2>2. Len(stk) \in Nat /\ (stk # <<>> => Len(stk) >= 1) /\ DOMAIN stk = 1 .. Len(stk)
    BY <1>1 DEF Types
  <2>3. Len(stk') \in Nat /\ DOMAIN stk' = 1 .. Len(stk') BY SeqTyped
  <2> QED BY <1>3, <2>1, <2>2, <2>3
<1>5. \A k \in Bodies : k \in DOMAIN ctl /\ ctl'[k] = ctl[k] /\ ctl[k].kind = "op"
                        /\ ctl[k].base \in 4 .. Len(stk) - 1
  <2> TAKE k \in Bodies
  <2>1. k \in DOMAIN ctl /\ ctl[k].kind = "op" BY DEF Bodies
  <2>2. Floor(k) >= 0 /\ Ceil(k) <= Len(stk) - 1 BY <1>1, <1>4, <2>1 DEF Parts, PartsSized
  <2> QED BY <1>1, <1>2, <1>4, <2>1, <2>2, FrameTypes
<1>6. \A i \in 1 .. Len(stk) - 1 : i \in DOMAIN stk /\ stk'[i] = stk[i] BY <1>4
<1>7. RecordsLaid'
  <2> SUFFICES ASSUME NEW k \in Bodies'
               PROVE  /\ stk'[ctl'[k].base][1] = "cell" /\ stk'[ctl'[k].base][2] = ctl'[k].op
                      /\ stk'[ctl'[k].base - 1][1] = "sp"
                      /\ stk'[ctl'[k].base - 3] = <<"op", ctl'[k].op>>
    BY DEF RecordsLaid
  <2>1. CASE k \in Bodies
    <3> DEFINE b == ctl[k].base
    <3>1. b \in 1 .. Len(stk) - 1 /\ b - 1 \in 1 .. Len(stk) - 1 /\ b - 3 \in 1 .. Len(stk) - 1
          /\ ctl'[k] = ctl[k]
      BY SMTT(30), <1>4, <1>5, <2>1
    <3>2. stk'[b] = stk[b] /\ stk'[b - 1] = stk[b - 1] /\ stk'[b - 3] = stk[b - 3] BY <1>6, <3>1
    <3> QED BY <1>1, <2>1, <3>1, <3>2 DEF Laid, RecordsLaid
  <2>2. CASE k = n /\ g.kind = "op" BY <1>2, <2>2
  <2> QED BY <1>2, <2>1, <2>2
<1>8. SavedLaid'
  <2> SUFFICES ASSUME NEW k \in DOMAIN ctl', ctl'[k].kind = "closure",
                      NEW i \in 1 .. Len(ctl'[k].syms)
               PROVE  stk'[ctl'[k].floor + i][1] = "sp"
    BY DEF SavedLaid
  <2>1. CASE k \in DOMAIN ctl
    <3>1. ctl'[k] = ctl[k] BY <1>2, <2>1
    <3>2. Floor(k) >= 0 /\ Ceil(k) <= Len(stk) - 1 BY <1>1, <1>4, <2>1 DEF Parts, PartsSized
    <3>3. ctl[k].floor + i \in 1 .. Len(stk) - 1 BY SMTT(30), <1>1, <1>4, <2>1, <3>1, <3>2, FrameTypes
    <3>4. stk'[ctl[k].floor + i] = stk[ctl[k].floor + i] BY <1>6, <3>3
    <3> QED BY <1>1, <2>1, <3>1, <3>4 DEF Laid, SavedLaid
  <2>2. CASE k = n BY <1>2, <2>2
  <2> QED BY <1>2, <2>1, <2>2
<1>9. TempsLaid'
  <2> SUFFICES ASSUME NEW k \in Bodies', NEW i \in DOMAIN stk', ctl'[k].base < i,
                      \A j \in DOMAIN ctl' : j > k => i <= Floor(j)'
               PROVE  stk'[i] \in Value
    BY DEF TempsLaid
  <2>1. CASE k \in Bodies
    <3>1. i <= Len(stk) - 1 BY <1>2, <1>5, <2>1
    <3>2. i \in 1 .. Len(stk) - 1 BY <1>4, <3>1
    <3>3. \A j \in DOMAIN ctl : j > k => i <= Floor(j) BY <1>2, <1>3
    <3>4. ctl[k].base < i BY <1>5, <2>1
    <3>5. i \in DOMAIN stk /\ stk'[i] = stk[i] BY <1>6, <3>2
    <3> QED BY <1>1, <2>1, <3>3, <3>4, <3>5 DEF Laid, TempsLaid
  <2>2. CASE k = n /\ g.kind = "op"
    <3>1. Ceil(n)' = g.base BY <1>2, <2>2 DEF Ceil
    <3>2. i \in Ceil(n)' + 1 .. Len(stk') BY <1>2, <1>4, <2>2, <3>1
    <3> QED BY <3>2
  <2> QED BY <1>2, <2>1, <2>2
<1>10. LineLaid'
  <2> SUFFICES ASSUME NEW i \in DOMAIN stk', \A j \in DOMAIN ctl' : i <= Floor(j)'
               PROVE  stk'[i] \in Value
    BY DEF LineLaid
  <2>1. i \in 1 .. Len(stk) - 1 BY <1>2, <1>4
  <2>2. \A j \in DOMAIN ctl : i <= Floor(j) BY <1>2, <1>3
  <2>3. i \in DOMAIN stk /\ stk'[i] = stk[i] BY <1>6, <2>1
  <2> QED BY <1>1, <2>2, <2>3 DEF Laid, LineLaid
<1>11. TopLaid'
  <2>1. CASE g.kind = "op" BY <1>2, <2>1 DEF TopLaid, Waiting
  <2>2. CASE g.kind # "op"
    <3>1. Len(stk') \in Ceil(n)' + 1 .. Len(stk') BY <1>4, <2>2
    <3>2. Last(stk') = stk'[Len(stk')] BY DEF Last
    <3> QED BY <3>1, <3>2 DEF TopLaid
  <2> QED BY <2>1, <2>2
<1>12. CellsLaid'
  <2> SUFFICES ASSUME NEW i \in DOMAIN stk', stk'[i][1] = "cell" PROVE \E k \in Bodies' : ctl'[k].base = i
    BY DEF CellsLaid
  <2>1. CASE i \in 1 .. Len(stk) - 1
    <3>1. i \in DOMAIN stk /\ stk[i][1] = "cell" BY <1>6, <2>1
    <3>2. PICK k \in Bodies : ctl[k].base = i BY <1>1, <3>1 DEF Laid, CellsLaid
    <3> QED BY <1>2, <1>5, <3>2
  <2>2. CASE i \in Len(stk) .. Ceil(n)' BY <1>2, <2>2
  <2>3. CASE i \in Ceil(n)' + 1 .. Len(stk') BY <2>3, ValueTypes
  <2>4. i \in 1 .. Len(stk) - 1 \/ i \in Len(stk) .. Ceil(n)' \/ i \in Ceil(n)' + 1 .. Len(stk')
    BY <1>4
  <2> QED BY <2>1, <2>2, <2>3, <2>4
<1> QED BY <1>7, <1>8, <1>9, <1>10, <1>11, <1>12 DEF Laid
(* The same for the CATCHes, the texts and the stack pointers.               *)
LEMMA PushedNesting ==
  ASSUME IInv, Running, NEW g \in AllFrames, NEW n, n = Len(ctl) + 1, ctl' = Append(ctl, g),
         IF g.kind = "catch" THEN g.prev = catchbuf /\ catchbuf' = n ELSE catchbuf' = catchbuf
  PROVE  Nesting'
<1>1. Types /\ Nesting /\ catchbuf \in {Dead} \cup Nat BY DEF IInv, Types
<1>2. /\ n \in Nat /\ n >= 1 /\ n - 1 = Len(ctl) /\ Len(ctl') = n /\ ctl'[n] = g
      /\ \A k \in DOMAIN ctl : k < n /\ k \in Nat /\ ctl'[k] = ctl[k]
      /\ Catchers' = Catchers \cup (IF g.kind = "catch" THEN {n} ELSE {})
  BY <1>1, Grown
<1>3. \A k \in Catchers : k \in DOMAIN ctl /\ k < n /\ k \in Nat /\ ctl'[k] = ctl[k]
  BY <1>2 DEF Catchers
<1>4. \A c \in Nat, m \in Nat : m < n /\ Nearest(c, m) => Nearest(c, m)'
  BY <1>2, <1>3 DEF Nearest
<1>5. ASSUME NEW k \in Catchers
      PROVE  IF ctl'[k].prev = Dead THEN \A j \in Catchers' : j >= k ELSE Nearest(ctl[k].prev, k - 1)'
  <2>1. ctl'[k] = ctl[k] /\ k \in DOMAIN ctl /\ k < n /\ k \in Nat /\ k >= 1 BY <1>1, <1>3, FrameTypes
  <2>2. ctl[k].prev \in {Dead} \cup Nat BY <1>1, <2>1, FrameTypes DEF Catchers
  <2>3. CASE ctl[k].prev = Dead
    <3>1. \A j \in Catchers : j >= k BY <1>1, <2>3 DEF Nesting
    <3> QED BY <1>2, <2>1, <2>3, <3>1
  <2>4. CASE ctl[k].prev # Dead
    <3>1. Nearest(ctl[k].prev, k - 1) BY <1>1, <2>4 DEF Nesting
    <3>2. k - 1 \in Nat /\ k - 1 < n /\ ctl[k].prev \in Nat BY <1>2, <2>1, <2>2, <2>4
    <3> QED BY <1>4, <2>1, <2>4, <3>1, <3>2
  <2> QED BY <2>3, <2>4
<1>6. CASE g.kind = "catch"
  <2>1. n \in Catchers' /\ Catchers' = Catchers \cup {n} /\ catchbuf' = n /\ n # Dead /\ n # 0
    BY <1>2, <1>6 DEF Dead
  <2>2. Nearest(n, n)' BY <1>2, <1>3, <2>1 DEF Nearest
  <2>3. IF ctl'[n].prev = Dead THEN \A j \in Catchers' : j >= n ELSE Nearest(ctl[n].prev, n - 1)'
    <3>1. ctl'[n].prev = catchbuf BY <1>2, <1>6
    <3>2. CASE catchbuf = Dead
      <4>1. Catchers = {} BY <1>1, <3>2 DEF Nesting
      <4> QED BY <1>2, <2>1, <3>1, <3>2, <4>1
    <3>3. CASE catchbuf # Dead
      <4>1. Nearest(catchbuf, n - 1) /\ catchbuf \in Nat /\ n - 1 \in Nat /\ n - 1 < n
        BY <1>1, <1>2, <3>3 DEF Nesting
      <4>3. \A c \in Nat : Nearest(c, n - 1) => Nearest(c, n - 1)' BY <1>4, <4>1
      <4>4. PICK c \in Nat : c = catchbuf BY <4>1
      <4>5. Nearest(c, n - 1)' BY <4>1, <4>3, <4>4
      <4> QED BY <3>1, <3>3, <4>4, <4>5
    <3> QED BY <3>2, <3>3
  <2> QED BY <1>2, <1>5, <2>1, <2>2, <2>3 DEF Nesting
<1>7. CASE g.kind # "catch"
  <2>1. Catchers' = Catchers /\ catchbuf' = catchbuf BY <1>2, <1>7
  <2>2. CASE catchbuf = Dead BY <1>1, <1>5, <2>1, <2>2 DEF Nesting
  <2>3. CASE catchbuf # Dead
    <3>1. Nearest(catchbuf, n - 1) BY <1>1, <1>2, <2>3 DEF Nesting
    <3>2. Nearest(catchbuf, n)' BY <1>2, <1>3, <2>1, <3>1 DEF Nearest
    <3> QED BY <1>2, <1>5, <2>1, <2>3, <3>2 DEF Nesting
  <2> QED BY <2>2, <2>3
<1> QED BY <1>6, <1>7

LEMMA PushedLexical ==
  ASSUME IInv, Running, fn # none, FnBound',
         NEW g \in AllFrames, NEW n, n = Len(ctl) + 1, ctl' = Append(ctl, g),
         \A i \in 1 .. Len(stk) - 1 : stk'[i] = stk[i],
         Live(g.lex, n)', env' = <<>> => Low(n)',
         g.kind = "op" => /\ DOMAIN g.lex = Range(Env(g.op))
                          /\ g.senv = <<>> => Low(n - 1)
                          /\ g.op \in Trs => Bound(stk[g.base][3], n)',
         g.kind = "closure" => g.syms # <<>> /\ (g.svenv = <<>> => Low(n - 1)),
         g.kind = "catch" => g.lex = LexAt(n - 1) /\ (n > 1 => ctl[n - 1].kind = "op")
  PROVE  Lexical'
<1>1. Types /\ Parts /\ Laid /\ Lexical /\ Waiting BY DEF IInv, Waiting
<1>2. /\ n \in Nat /\ n >= 1 /\ n - 1 = Len(ctl) /\ n - 1 \in Nat /\ n \notin DOMAIN ctl
      /\ Len(ctl') = n /\ ctl'[n] = g
      /\ DOMAIN ctl = 1 .. n - 1 /\ DOMAIN ctl' = DOMAIN ctl \cup {n}
      /\ \A k \in DOMAIN ctl : k < n /\ k \in Nat /\ ctl'[k] = ctl[k]
      /\ \A k \in DOMAIN ctl' : k = n \/ (k \in DOMAIN ctl /\ k < n)
      /\ Bodies' = Bodies \cup (IF g.kind = "op" THEN {n} ELSE {})
      /\ Catchers' = Catchers \cup (IF g.kind = "catch" THEN {n} ELSE {})
  BY <1>1, Grown
<1>3. /\ \A k \in 0 .. n - 1 : LexAt(k)' = LexAt(k) /\ Low(k)' = Low(k)
      /\ \A k \in 0 .. n - 1 : \A lex : Live(lex, k)' = Live(lex, k)
      /\ \A k \in 0 .. n - 1 : \A w : Bound(w, k)' = Bound(w, k)
  BY <1>2, SameFrames
<1>4. \A k \in DOMAIN ctl : k \in 0 .. n - 1 /\ k - 1 \in 0 .. n - 1 BY <1>2
<1>5. TextsLive'
  <2>1. \A k \in DOMAIN ctl : Live(ctl[k].lex, k)' BY <1>1, <1>3, <1>4 DEF Lexical, TextsLive
  <2>2. \A k \in DOMAIN ctl' : Live(ctl[k].lex, k)' BY <1>2, <2>1
  <2> QED BY <2>2 DEF TextsLive
<1>6. TextsOfBodies'
  <2>1. \A k \in Bodies : k \in DOMAIN ctl BY DEF Bodies
  <2> QED BY <1>1, <1>2, <2>1 DEF Lexical, TextsOfBodies
<1>7. TextsOfCatchers'
  <2> SUFFICES ASSUME NEW k \in Catchers'
               PROVE  ctl'[k].lex = LexAt(k - 1)' /\ (k > 1 => ctl'[k - 1].kind = "op")
    BY DEF TextsOfCatchers
  <2>1. CASE k \in Catchers
    <3>1. k \in DOMAIN ctl /\ ctl'[k] = ctl[k] BY <1>2, <2>1 DEF Catchers
    <3>2. LexAt(k - 1)' = LexAt(k - 1) BY <1>3, <1>4, <3>1
    <3>3. k > 1 => k - 1 \in DOMAIN ctl BY <1>2, <3>1
    <3> QED BY <1>1, <1>2, <2>1, <3>1, <3>2, <3>3 DEF Lexical, TextsOfCatchers
  <2>2. CASE k = n /\ g.kind = "catch"
    <3>1. n > 1 => n - 1 \in DOMAIN ctl BY <1>2
    <3>2. LexAt(n - 1)' = LexAt(n - 1) BY <1>2, <1>3
    <3> QED BY <1>2, <2>2, <3>1, <3>2
  <2> QED BY <1>2, <2>1, <2>2
<1>8. ParamsBound'
  <2> SUFFICES ASSUME NEW k \in Bodies', ctl'[k].op \in Trs PROVE Bound(stk[ctl[k].base][3], k)'
    BY DEF ParamsBound
  <2>1. CASE k \in Bodies
    <3>1. k \in DOMAIN ctl /\ ctl'[k] = ctl[k] /\ ctl[k].kind = "op" BY <1>2, <2>1 DEF Bodies
    <3>2. Len(stk) \in Nat /\ Ceil(k) < Len(stk) /\ 0 <= Floor(k) /\ Ceil(k) = ctl[k].base
          /\ Floor(k) = ctl[k].base - 4 /\ ctl[k].base \in Nat
      BY <1>1, <3>1, FrameTypes DEF Parts, PartsWait, PartsSized
    <3>2a. ctl[k].base \in 1 .. Len(stk) - 1 BY <3>2
    <3>3. stk'[ctl[k].base] = stk[ctl[k].base] BY <3>2a
    <3>4. Bound(stk[ctl[k].base][3], k) BY <1>1, <2>1, <3>1 DEF Lexical, ParamsBound
    <3>5. \A w : Bound(w, k)' = Bound(w, k) BY <1>3, <1>4, <3>1
    <3> QED BY <3>1, <3>3, <3>4, <3>5
  <2>2. CASE k = n /\ g.kind = "op" BY <1>2, <2>2
  <2> QED BY <1>2, <2>1, <2>2
<1>9. NullsAreLow'
  <2>1. ASSUME NEW k \in DOMAIN ctl', ctl'[k].kind = "op", ctl'[k].senv = <<>> PROVE Low(k - 1)'
    <3>1. CASE k \in DOMAIN ctl
      <4>1. Low(k - 1) BY <1>1, <1>2, <2>1, <3>1 DEF Lexical, NullsAreLow
      <4> QED BY <1>3, <1>4, <3>1, <4>1
    <3>2. CASE k = n BY <1>2, <1>3, <2>1, <3>2
    <3> QED BY <1>2, <3>1, <3>2
  <2>2. ASSUME NEW k \in DOMAIN ctl', ctl'[k].kind = "closure"
        PROVE  ctl'[k].syms # <<>> /\ (ctl'[k].svenv = <<>> => Low(k - 1)')
    <3>1. CASE k \in DOMAIN ctl
      <4>1. ctl[k].syms # <<>> /\ (ctl[k].svenv = <<>> => Low(k - 1)) /\ ctl'[k] = ctl[k]
        BY <1>1, <1>2, <2>2, <3>1 DEF Lexical, NullsAreLow
      <4> QED BY <1>3, <1>4, <3>1, <4>1
    <3>2. CASE k = n BY <1>2, <1>3, <2>2, <3>2
    <3> QED BY <1>2, <3>1, <3>2
  <2>3. env' = <<>> => Low(Len(ctl))' BY <1>2
  <2> QED BY <2>1, <2>2, <2>3 DEF NullsAreLow
<1> QED BY <1>5, <1>6, <1>7, <1>8, <1>9 DEF Lexical

LEMMA PushedScopes ==
  ASSUME IInv, Running, fn # none, ~thrown,
         NEW g \in AllFrames, NEW n, n = Len(ctl) + 1, ctl' = Append(ctl, g),
         \A i \in 1 .. Len(stk) - 1 : stk'[i] = stk[i],
         env' = EnvAt(n)', DOMAIN g.lex = Range(EnvAt(n)'),
         g.kind = "op" => g.senv = env, g.kind = "closure" => g.svenv = env,
         \A s \in Ops : ~Saves(n, s)' => sp'[s] = sp[s],
         \A s \in DOMAIN g.lex : sp'[s] = g.lex[s],
         \A s \in Ops : Saves(n, s)' => SavedFor(n, s)' = sp[s],
         g.kind = "op" /\ g.op \in Trs => Agrees(stk'[g.base][3]),
         fn' # none => Agrees(fn')
  PROVE  Scopes'
<1>1. Types /\ Parts /\ Laid /\ Lexical /\ Scopes /\ Waiting BY DEF IInv, Waiting
<1>2. /\ n \in Nat /\ n >= 1 /\ n - 1 = Len(ctl) /\ n - 1 \in Nat /\ n \notin DOMAIN ctl
      /\ Len(ctl') = n /\ ctl'[n] = g
      /\ DOMAIN ctl = 1 .. n - 1 /\ DOMAIN ctl' = DOMAIN ctl \cup {n}
      /\ \A k \in DOMAIN ctl : k < n /\ k \in Nat /\ ctl'[k] = ctl[k]
      /\ \A k \in DOMAIN ctl' : k = n \/ (k \in DOMAIN ctl /\ k < n)
      /\ Bodies' = Bodies \cup (IF g.kind = "op" THEN {n} ELSE {})
  BY <1>1, Grown
<1>3. /\ \A k \in 0 .. n - 1 : EnvAt(k)' = EnvAt(k)
      /\ \A k \in DOMAIN ctl : \A s : Saves(k, s)' = Saves(k, s)
  BY <1>2, SameFrames
<1>4. \A k \in DOMAIN ctl : k \in 0 .. n - 1 /\ k - 1 \in 0 .. n - 1 BY <1>2
<1>5. Len(stk) \in Nat /\ \A k \in DOMAIN ctl : Ceil(k) <= Len(stk) - 1 /\ 0 <= Floor(k)
                                               /\ Floor(k) \in Int /\ Ceil(k) \in Int
  <2>1. \A k \in DOMAIN ctl : Ceil(k) < Len(stk) /\ Floor(k) >= 0 BY <1>1 DEF Parts, PartsWait, PartsSized
  <2> QED BY <1>1, <2>1, FrameTypes
<1>6. EnvsRight'
  <2>1. ASSUME NEW k \in DOMAIN ctl
        PROVE  /\ ctl'[k].kind = "op" => ctl'[k].senv = EnvAt(k - 1)'
               /\ ctl'[k].kind = "closure" => ctl'[k].svenv = EnvAt(k - 1)'
               /\ DOMAIN ctl'[k].lex = Range(EnvAt(k)')
    BY <1>1, <1>2, <1>3, <1>4 DEF Scopes, EnvsRight
  <2>2. env = EnvAt(n - 1) BY <1>1, <1>2 DEF Scopes, EnvsRight
  <2>3. EnvAt(n - 1)' = EnvAt(n - 1) BY <1>2, <1>3
  <2>4. ASSUME NEW k \in DOMAIN ctl'
        PROVE  /\ ctl'[k].kind = "op" => ctl'[k].senv = EnvAt(k - 1)'
               /\ ctl'[k].kind = "closure" => ctl'[k].svenv = EnvAt(k - 1)'
               /\ DOMAIN ctl'[k].lex = Range(EnvAt(k)')
    BY <1>2, <2>1, <2>2, <2>3
  <2> QED BY <1>2, <2>4 DEF EnvsRight
<1>7. \A k \in DOMAIN ctl : DOMAIN ctl[k].lex \subseteq Ops BY <1>1, FrameTypes DEF Lexes
<1>8. Current'
  <2> SUFFICES ASSUME NEW k \in DOMAIN ctl', NEW s \in DOMAIN ctl'[k].lex,
                      \A j \in DOMAIN ctl' : j > k => ~Saves(j, s)'
               PROVE  sp'[s] = ctl'[k].lex[s]
    BY DEF Current
  <2>1. CASE k \in DOMAIN ctl
    <3>1. ~Saves(n, s)' /\ s \in Ops /\ s \in DOMAIN ctl[k].lex /\ ctl'[k] = ctl[k]
      BY <1>2, <1>7, <2>1
    <3>2. \A j \in DOMAIN ctl : j > k => ~Saves(j, s) BY <1>2, <1>3
    <3>3. sp[s] = ctl[k].lex[s] BY <1>1, <2>1, <3>1, <3>2 DEF Scopes, Current
    <3> QED BY <3>1, <3>3
  <2>2. CASE k = n BY <1>2, <2>2
  <2> QED BY <1>2, <2>1, <2>2
<1>9. SavedRight'
  <2> SUFFICES ASSUME NEW j \in DOMAIN ctl', NEW k \in DOMAIN ctl', NEW s \in DOMAIN ctl'[k].lex,
                      FirstSaves(j, k, s)'
               PROVE  SavedFor(j, s)' = ctl'[k].lex[s]
    BY DEF SavedRight
  <2>0. k < j /\ Saves(j, s)' /\ \A i \in DOMAIN ctl' : k < i /\ i < j => ~Saves(i, s)'
    BY DEF FirstSaves
  <2>1. k \in DOMAIN ctl /\ ctl'[k] = ctl[k] /\ s \in DOMAIN ctl[k].lex /\ s \in Ops BY <1>2, <1>7, <2>0
  <2>2. CASE j \in DOMAIN ctl
    <3>1. FirstSaves(j, k, s) BY <1>2, <1>3, <2>0, <2>2 DEF FirstSaves
    <3>2. SavedFor(j, s) = ctl[k].lex[s] BY <1>1, <2>1, <2>2, <3>1 DEF Scopes, SavedRight
    <3>3. PICK i \in Nat : /\ Floor(j) < i /\ i <= Ceil(j)
                           /\ SavedFor(j, s) = stk[i][2] /\ SavedFor(j, s)' = stk'[i][2]
      BY <1>1, <1>2, <2>2, <3>1, SavedPlace DEF FirstSaves
    <3>4. i \in 1 .. Len(stk) - 1 BY <1>5, <2>2, <3>3
    <3> QED BY <2>1, <3>2, <3>3, <3>4
  <2>3. CASE j = n
    <3>1. \A i \in DOMAIN ctl : i > k => ~Saves(i, s) BY <1>2, <1>3, <2>0, <2>3
    <3>2. sp[s] = ctl[k].lex[s] BY <1>1, <2>1, <3>1 DEF Scopes, Current
    <3> QED BY <2>0, <2>1, <2>3, <3>2
  <2> QED BY <1>2, <2>2, <2>3
<1>10. ClosuresAgree'
  <2> SUFFICES ASSUME NEW k \in Bodies', ctl'[k].op \in Trs PROVE Agrees(stk'[ctl'[k].base][3])
    BY DEF ClosuresAgree, Agrees
  <2>1. CASE k \in Bodies
    <3>1. k \in DOMAIN ctl /\ ctl'[k] = ctl[k] /\ ctl[k].kind = "op" BY <1>2, <2>1 DEF Bodies
    <3>2. Ceil(k) = ctl[k].base /\ Floor(k) = ctl[k].base - 4 /\ ctl[k].base \in Nat
      BY <1>1, <3>1, FrameTypes
    <3>3. ctl[k].base \in 1 .. Len(stk) - 1 BY <1>5, <3>1, <3>2
    <3>4. stk'[ctl[k].base] = stk[ctl[k].base] BY <3>3
    <3> QED BY <1>1, <2>1, <3>1, <3>4 DEF Scopes, ClosuresAgree
  <2>2. CASE k = n /\ g.kind = "op" BY <1>2, <2>2
  <2> QED BY <1>2, <2>1, <2>2
<1> QED BY <1>6, <1>8, <1>9, <1>10 DEF Scopes
-----------------------------------------------------------------------------
(* Calls.                                                                    *)
(* What a call finds on the stack.                                           *)
LEMMA ArgumentOnTop ==
  ASSUME IInv, Running, Waiting
  PROVE  /\ Len(stk) \in Nat /\ Len(stk) > 0 /\ stk # <<>> /\ Last(stk) \in Value /\ Last(stk) \in Words
         /\ Last(stk) = stk[Len(stk)]
         /\ Front(stk) \in Seq(Words) /\ Len(Front(stk)) = Len(stk) - 1
         /\ \A i \in 1 .. Len(stk) - 1 : Front(stk)[i] = stk[i]
<1>1. stk \in Seq(Words) /\ stk # <<>> /\ Last(stk) \in Value
  BY DEF IInv, Types, Parts, PartsWait, Laid, TopLaid
<1> QED BY <1>1, SeqFront, ValueTypes

(* The operands a CATCH or a transformer is given are closed, as b_closure   *)
(* does, for a text that is live.                                            *)
LEMMA ClosedOperand ==
  ASSUME IInv, Running, NEW o \in Flat, Within(o, DOMAIN Lex), Closable(o),
         ctl = <<>> \/ Frame.kind = "op"
  PROVE  Closed(o) \in Given /\ Bound(Closed(o), Len(ctl)) /\ (~thrown => Agrees(Closed(o)))
<1>1. /\ Types /\ Parts /\ Laid /\ Lexical /\ (~thrown => Scopes)
  BY DEF IInv
<1>2. /\ DOMAIN ctl = 1 .. Len(ctl) /\ Len(ctl) \in Nat /\ (ctl = <<>> <=> Len(ctl) = 0)
      /\ ctl # <<>> => Len(ctl) \in DOMAIN ctl /\ Frame = ctl[Len(ctl)]
  BY <1>1, FrameTypes
<1>3. /\ o \in Given /\ o[1] \in {"name", "param"}
      /\ o[1] = "name" => o[2] \in Ops \ Trs
      /\ o[1] = "param" => o[2] \in Trs
  BY FlatTypes
<1>4. CASE IsGlobal(o) BY <1>3, <1>4 DEF IsGlobal, Closed, Bound, Agrees
<1>5. CASE env = <<>> /\ ~IsGlobal(o)
  <2>1. Low(Len(ctl)) BY <1>1, <1>5 DEF Lexical, NullsAreLow
  <2>2. ctl = <<>> BY <1>2, <2>1 DEF Low
  <2>3. DOMAIN Lex = {} BY <1>1, <2>2, LexTypes
  <2>4. o[1] = "name" /\ Range(Outer[o[2]]) = {} BY <1>3, <2>3 DEF Within
  <2>5. Outer[o[2]] = <<>>
    <3>1. o[2] \in Ops BY <1>3, <2>4
    <3> QED BY <2>4, <3>1, EnvOfText
  <2> QED BY <1>5, <2>4, <2>5 DEF IsGlobal
<1>6. CASE o[1] = "param" /\ IsGlobal(Cell(o[2]))
  <2>1. Closed(o) \in {o, Cell(o[2])} /\ Finds(o[2]) BY <1>6 DEF Closed, Closable, IsGlobal
  <2>2. Cell(o[2]) \in Given BY <1>1, <1>3, <1>6, <2>1, ParamOfRecord
  <2>3. env # <<>> => Closed(o) = Cell(o[2]) BY <1>6 DEF Closed, IsGlobal
  <2>4. CASE env # <<>> BY <1>6, <2>2, <2>3, <2>4 DEF IsGlobal, Bound, Agrees
  <2>5. CASE env = <<>> BY <1>5, <1>6, <2>5 DEF IsGlobal
  <2> QED BY <2>4, <2>5
<1>7. CASE env # <<>> /\ ~IsGlobal(o) /\ ~ (o[1] = "param" /\ IsGlobal(Cell(o[2])))
  <2> DEFINE q == [i \in DOMAIN env |-> sp[env[i]]]
  <2>1. Closed(o) = <<"closure", o, env, q, Lex>> BY <1>7 DEF Closed
  <2>2. env \in Seq(Ops) /\ sp \in [Ops -> Int] BY <1>1 DEF Types
  <2>3. q \in Seq(Int) BY <2>2
  <2>4. Lex \in Lexes BY <1>1, LexTypes
  <2> HIDE DEF q
  <2> DEFINE c == Closed(o)
  <2>5. /\ c \in Given /\ c[1] = "closure" /\ c[2] = o /\ c[3] = env /\ c[4] = q /\ c[5] = Lex
    BY <2>1, <2>2, <2>3, <2>4, MadeWords
  <2> HIDE DEF c
  <2>6. Live(Lex, Len(ctl))
    <3>1. CASE ctl = <<>> BY <1>1, <3>1, LexTypes DEF Live
    <3>2. CASE ctl # <<>> BY <1>1, <1>2, <3>2 DEF Lex, Lexical, TextsLive
    <3> QED BY <3>1, <3>2
  <2>7. Bound(c, Len(ctl))
    <3>1. DOMAIN q = DOMAIN env BY DEF q
    <3> QED BY <1>7, <2>5, <2>6, <3>1 DEF Bound
  <2>8. ASSUME ~thrown PROVE Agrees(c)
    <3>1. env = EnvAt(Len(ctl)) BY <1>1, <2>8 DEF Scopes, EnvsRight
    <3>2. ctl # <<>> BY <1>2, <1>7, <3>1 DEF EnvAt
    <3>3. DOMAIN Lex = Range(env) BY <1>1, <1>2, <2>8, <3>1, <3>2 DEF Scopes, EnvsRight, Lex
    <3>4. \A i \in DOMAIN env : env[i] \in DOMAIN Lex /\ q[i] = sp[env[i]]
      BY <2>2, <3>3 DEF Range, q
    <3>5. \A s \in DOMAIN Lex : sp[s] = Lex[s] BY <2>8, Found
    <3> QED BY <2>5, <3>3, <3>4, <3>5 DEF Agrees
  <2> QED BY <2>5, <2>7, <2>8 DEF c
<1> QED BY <1>4, <1>5, <1>6, <1>7

(* A name of the text under way is found, unless a throw was caught.         *)
LEMMA ClosableOrThrown ==
  ASSUME IInv, Running, NEW o \in Flat, Within(o, DOMAIN Lex), ~Closable(o)
  PROVE  thrown
<1>1. o[1] = "param" /\ ~Finds(o[2]) BY DEF Closable
<1>2. o[2] \in DOMAIN Lex BY <1>1 DEF Within
<1> QED BY <1>1, <1>2, Found
(* A call of f, whose parameter gets x, with args on the stack above.        *)
LEMMA EnterStep ==
  ASSUME IInv, Running, fn # none, NEW f \in Ops, NEW x, NEW args \in Seq(Value), Enter(f, x, args),
         Range(Outer[f]) \subseteq DOMAIN Lex,
         f \notin Trs => x \in Value,
         f \in Trs => x \in Given /\ Bound(x, Len(ctl)) /\ (~thrown => Agrees(x))
  PROVE  IInv'
<1>1. Types /\ Parts /\ Laid /\ Lexical /\ Waiting /\ (~thrown => Scopes) /\ NeverAstray
  BY DEF IInv, Waiting
<1>b. PICK b : b = Len(stk) + 3 OBVIOUS
<1>n. PICK n : n = Len(ctl) + 1 OBVIOUS
<1>l. PICK l : l = LexOf(f, b) OBVIOUS
<1>g. PICK g : g = [kind |-> "op", op |-> f, senv |-> env, base |-> b, lex |-> l] OBVIOUS
<1>2. /\ Len(stk) \in Nat /\ Len(stk) > 0 /\ stk # <<>>
      /\ Front(stk) \in Seq(Words) /\ Len(Front(stk)) = Len(stk) - 1
      /\ \A i \in 1 .. Len(stk) - 1 : Front(stk)[i] = stk[i]
  BY <1>1, ArgumentOnTop
<1>3. /\ stk' = Front(stk) \o Record(f, x) \o args
      /\ sp' = [sp EXCEPT ![f] = b]
      /\ env' = Env(f)
      /\ ctl' = Append(ctl, g)
      /\ fn' = none
      /\ UNCHANGED <<catchbuf, pc, thrown, cuts>>
  BY <1>b, <1>l, <1>g DEF Enter
<1>4. b \in Nat /\ b - 4 = Len(stk) - 1 /\ b = Len(stk) + 3 BY <1>2, <1>b
<1>5. /\ sp \in [Ops -> Int] /\ env \in Seq(Ops) /\ Lex \in Lexes /\ DOMAIN Lex \subseteq Ops
      /\ ctl \in Seq(AllFrames)
  BY <1>1, LexTypes DEF Types, AllFrames
<1>6. /\ Env(f) \in Seq(Ops) /\ Env(f) # <<>> /\ Range(Env(f)) = {f} \cup Range(Outer[f])
      /\ f \notin Range(Outer[f])
  BY EnvOfText
<1>7. /\ DOMAIN l = Range(Env(f)) /\ l[f] = b
      /\ \A s \in Range(Outer[f]) : s # f /\ s \in DOMAIN Lex /\ l[s] = Lex[s]
  BY <1>6, <1>l DEF LexOf
<1>8. l \in Lexes
  <2>1. l \in [Range(Env(f)) -> Nat]
    <3>1. \A s \in DOMAIN Lex : Lex[s] \in Nat BY <1>5 DEF Lexes
    <3>2. \A s \in Range(Env(f)) : l[s] \in Nat BY <1>4, <1>6, <1>7, <3>1
    <3>3. l = [s \in Range(Env(f)) |-> l[s]] BY <1>l DEF LexOf
    <3> QED BY <3>2, <3>3
  <2>2. Range(Env(f)) \in SUBSET Ops BY <1>6, SeqRange
  <2> QED BY <2>1, <2>2 DEF Lexes
<1>9. g \in OpFrames BY <1>4, <1>5, <1>8, <1>g DEF OpFrames
<1>10. g \in AllFrames BY <1>9 DEF AllFrames
<1>11. g.kind = "op" /\ g.op = f /\ g.senv = env /\ g.base = b /\ g.lex = l BY <1>g
(* The words of the record. *)
<1>12. <<"op", f>> \in Words /\ Fault \in Words /\ <<"sp", sp[f]>> \in Words /\ <<"cell", f, x>> \in Words
  BY <1>5, MadeWords, ValueTypes
<1>13. args \in Seq(Words) BY ValueTypes
<1>14. /\ stk' \in Seq(Words) /\ Len(stk') = b + Len(args) /\ Len(args) \in Nat
       /\ \A i \in 1 .. Len(stk) - 1 : stk'[i] = stk[i]
       /\ stk'[b - 3] = <<"op", f>> /\ stk'[b - 2] = Fault /\ stk'[b - 1] = <<"sp", sp[f]>>
       /\ stk'[b] = <<"cell", f, x>>
       /\ \A i \in 1 .. Len(args) : stk'[b + i] = args[i]
  <2>0. PICK s : s = Front(stk) OBVIOUS
  <2>1. PICK r : r = Record(f, x) OBVIOUS
  <2>2. s \in Seq(Words) /\ Len(s) = b - 4 /\ \A i \in 1 .. Len(stk) - 1 : s[i] = stk[i]
    BY <1>2, <1>4, <2>0
  <2>3. r \in Seq(Words) /\ Len(r) = 4 /\ r[1] = <<"op", f>> /\ r[2] = Fault /\ r[3] = <<"sp", sp[f]>>
        /\ r[4] = <<"cell", f, x>>
    <3>1. PICK w1, w2, w3, w4 : w1 = <<"op", f>> /\ w2 = Fault /\ w3 = <<"sp", sp[f]>>
                                /\ w4 = <<"cell", f, x>>
      OBVIOUS
    <3>2. w1 \in Words /\ w2 \in Words /\ w3 \in Words /\ w4 \in Words BY <1>12, <3>1
    <3>3. r = <<w1, w2, w3, w4>> BY <2>1, <3>1 DEF Record
    <3>4. r \in Seq(Words) /\ Len(r) = 4 /\ r[1] = w1 /\ r[2] = w2 /\ r[3] = w3 /\ r[4] = w4
      BY <3>2, <3>3
    <3> QED BY <3>1, <3>4
  <2>4. PICK q : q = s \o r \o args OBVIOUS
  <2>5. /\ q \in Seq(Words) /\ Len(q) = Len(s) + Len(r) + Len(args)
        /\ \A i \in 1 .. Len(s) : q[i] = s[i]
        /\ \A i \in 1 .. Len(r) : q[Len(s) + i] = r[i]
        /\ \A i \in 1 .. Len(args) : q[Len(s) + Len(r) + i] = args[i]
    <3>1. \A u \in Seq(Words), v \in Seq(Words) :
            /\ u \o v \in Seq(Words) /\ Len(u \o v) = Len(u) + Len(v)
            /\ \A i \in 1 .. Len(u) : (u \o v)[i] = u[i]
            /\ \A i \in 1 .. Len(v) : (u \o v)[Len(u) + i] = v[i]
      BY SeqJoin
    <3>2. PICK p : p = s \o r OBVIOUS
    <3>3. /\ p \in Seq(Words) /\ Len(p) = Len(s) + Len(r)
          /\ \A i \in 1 .. Len(s) : p[i] = s[i]
          /\ \A i \in 1 .. Len(r) : p[Len(s) + i] = r[i]
      BY <2>2, <2>3, <3>1, <3>2
    <3>4. q = p \o args BY <2>4, <3>2
    <3>5. /\ q \in Seq(Words) /\ Len(q) = Len(p) + Len(args)
          /\ \A i \in 1 .. Len(p) : q[i] = p[i]
          /\ \A i \in 1 .. Len(args) : q[Len(p) + i] = args[i]
      BY <1>13, <3>1, <3>3, <3>4
    <3>6. Len(s) \in Nat /\ Len(r) \in Nat BY <2>2, <2>3
    <3>7. \A i \in 1 .. Len(s) : q[i] = s[i] BY <3>3, <3>5, <3>6
    <3>8. \A i \in 1 .. Len(r) : q[Len(s) + i] = r[i]
      <4> TAKE i \in 1 .. Len(r)
      <4>1. Len(s) + i \in 1 .. Len(p) BY <3>3, <3>6
      <4> QED BY <3>3, <3>5, <4>1
    <3> QED BY <3>3, <3>5, <3>7, <3>8
  <2>6. stk' = q BY <1>3, <2>0, <2>1, <2>4
  <2>7. \A i \in 1 .. Len(stk) - 1 : q[i] = stk[i] BY <1>4, <2>2, <2>5
  <2>8. q[b - 3] = <<"op", f>> /\ q[b - 2] = Fault /\ q[b - 1] = <<"sp", sp[f]>> /\ q[b] = <<"cell", f, x>>
    <3>1. \A i \in 1 .. 4 : q[b - 4 + i] = r[i] BY <2>2, <2>3, <2>5
    <3>2. b - 3 = b - 4 + 1 /\ b - 2 = b - 4 + 2 /\ b - 1 = b - 4 + 3 /\ b = b - 4 + 4 BY <1>4
    <3> QED BY <2>3, <3>1, <3>2
  <2>9. Len(args) \in Nat /\ Len(q) = b + Len(args) BY <1>4, <2>2, <2>3, <2>5
  <2>10. \A i \in 1 .. Len(args) : q[b + i] = args[i]
    <3>1. Len(s) + Len(r) = b BY <1>4, <2>2, <2>3
    <3> QED BY <2>5, <3>1
  <2> QED BY <2>5, <2>6, <2>7, <2>8, <2>9, <2>10
<1>15. /\ n \in Nat /\ n >= 1 /\ n - 1 = Len(ctl) /\ n - 1 \in Nat /\ n \notin DOMAIN ctl
       /\ Len(ctl') = n /\ ctl'[n] = g
       /\ DOMAIN ctl = 1 .. n - 1
       /\ \A k \in DOMAIN ctl : k < n /\ k \in Nat /\ ctl'[k] = ctl[k]
  BY <1>1, <1>3, <1>10, <1>n, Grown
<1>16. n = Len(ctl) + 1 BY <1>n
<1>17. Floor(n)' = b - 4 /\ Ceil(n)' = b BY <1>11, <1>15 DEF Floor, Ceil
<1>18. Types'
  <2>1. sp' \in [Ops -> Int] BY <1>3, <1>4, <1>5
  <2>2. env' \in Seq(Ops) BY <1>3, <1>6
  <2>3. ctl' \in Seq(AllFrames) BY <1>3, <1>5, <1>10, SeqAppend
  <2>4. catchbuf' \in {Dead} \cup Nat /\ pc' \in {"run", "astray"} /\ thrown' \in BOOLEAN
    BY <1>1, <1>3 DEF Types
  <2>5. fn' \in {none} BY <1>3
  <2> QED BY <1>14, <2>1, <2>2, <2>3, <2>4, <2>5 DEF Types, AllFrames, OpFrames, ClosureFrames,
        CatchFrames, Words, Value, Given, Flat, Closure, Lexes
<1>19. \A i \in Ceil(n)' + 1 .. Len(stk') : stk'[i] \in Value
  <2> TAKE i \in Ceil(n)' + 1 .. Len(stk')
  <2>1. i - b \in 1 .. Len(args) /\ b + (i - b) = i BY <1>4, <1>14, <1>17
  <2>2. stk'[i] = args[i - b] BY <1>14, <2>1
  <2> QED BY <2>1, <2>2
<1>20. Parts'
  BY SMTT(30), <1>3, <1>4, <1>10, <1>11, <1>14, <1>16, <1>17, PushedParts
<1>21. Laid'
  <2>1. \A i \in Len(stk) .. Ceil(n)' : stk'[i][1] = "cell" => g.kind = "op" /\ g.base = i
    <3> TAKE i \in Len(stk) .. Ceil(n)'
    <3>1. i \in Len(stk) .. b BY <1>17
    <3>2. i = b - 3 \/ i = b - 2 \/ i = b - 1 \/ i = b BY <1>2, <1>4, <3>1
    <3> QED BY <1>11, <1>14, <3>2, MadeWords, ValueTypes
  <2>2. /\ stk'[g.base][1] = "cell" /\ stk'[g.base][2] = g.op
        /\ stk'[g.base - 1][1] = "sp" /\ stk'[g.base - 3] = <<"op", g.op>>
    BY <1>11, <1>14
  <2>3. /\ Floor(n)' = Len(stk) - 1 /\ Ceil(n)' \in Nat /\ Floor(n)' <= Ceil(n)'
        /\ Ceil(n)' <= Len(stk')
    BY <1>4, <1>14, <1>17
  <2>4. \A i \in 1 .. Len(stk) - 1 : stk'[i] = stk[i] BY <1>14
  <2> QED
    BY <1>3, <1>10, <1>11, <1>14, <1>16, <1>18, <1>19, <1>20, <2>1, <2>2, <2>3, <2>4, PushedLaid
<1>22. Nesting' BY <1>3, <1>10, <1>11, <1>16, PushedNesting
<1>23. stk'[g.base][3] = x BY <1>11, <1>14
<1>24. Live(l, n)'
  <2> SUFFICES ASSUME NEW s \in DOMAIN l
               PROVE  \E j \in 1 .. n : ctl'[j].kind = "op" /\ ctl'[j].op = s /\ ctl'[j].base = l[s]
    BY DEF Live
  <2>1. CASE s = f BY <1>7, <1>11, <1>15, <2>1
  <2>2. CASE s # f
    <3>1. s \in Range(Outer[f]) /\ s \in DOMAIN Lex /\ l[s] = Lex[s] BY <1>6, <1>7, <2>2
    <3>2. ctl # <<>> BY <1>1, <3>1, LexTypes
    <3>3. Lex = ctl[n - 1].lex /\ n - 1 \in DOMAIN ctl BY <1>1, <1>15, <3>2, FrameTypes DEF Lex
    <3>4. PICK j \in 1 .. n - 1 : ctl[j].kind = "op" /\ ctl[j].op = s /\ ctl[j].base = Lex[s]
      BY <1>1, <3>1, <3>3 DEF Lexical, TextsLive, Live
    <3>5. j \in 1 .. n /\ ctl'[j] = ctl[j] BY <1>15, <3>4
    <3> QED BY <3>1, <3>4, <3>5
  <2> QED BY <2>1, <2>2
<1>25. Lexical'
  <2>1. FnBound' BY <1>3 DEF FnBound
  <2>2. f \in Trs => Bound(stk[g.base][3], n)'
    <3>1. \A w : Bound(w, n - 1) => Bound(w, n)'
      <4>1. \A j \in 1 .. n - 1 : j \in 1 .. n /\ ctl'[j] = ctl[j] BY <1>15
      <4> QED BY <4>1 DEF Bound, Live
    <3> QED BY <1>15, <1>23, <3>1
  <2>3. env' = <<>> => Low(n)' BY <1>3, <1>6
  <2>4. env = <<>> => Low(n - 1) BY <1>1, <1>15 DEF Lexical, NullsAreLow
  <2> QED BY <1>3, <1>7, <1>10, <1>11, <1>14, <1>16, <1>24, <2>1, <2>2, <2>3, <2>4, PushedLexical
<1>26. ~thrown => Scopes'
  <2> SUFFICES ASSUME ~thrown PROVE Scopes' OBVIOUS
  <2>1. EnvAt(n)' = Env(f) BY <1>11, <1>15 DEF EnvAt
  <2>2. \A s \in Ops : Saves(n, s)' <=> s = f BY <1>11, <1>15 DEF Saves
  <2>3. \A s \in Ops : ~Saves(n, s)' => sp'[s] = sp[s] BY <1>3, <1>5, <2>2
  <2>4. \A s \in DOMAIN l : sp'[s] = l[s]
    <3>1. sp'[f] = b BY <1>3, <1>5
    <3>2. \A s \in DOMAIN Lex : sp[s] = Lex[s] /\ s \in Ops BY Found
    <3>3. \A s \in Ops : s # f => sp'[s] = sp[s] BY <1>3, <1>5
    <3> QED BY <1>6, <1>7, <3>1, <3>2, <3>3
  <2>5. \A s \in Ops : Saves(n, s)' => SavedFor(n, s)' = sp[s]
    <3>1. \A s : SavedFor(n, s)' = sp[f] BY <1>11, <1>14, <1>15 DEF SavedFor
    <3> QED BY <2>2, <3>1
  <2>6. f \in Trs => Agrees(stk'[g.base][3]) BY <1>23
  <2>7. env' = EnvAt(n)' /\ DOMAIN g.lex = Range(EnvAt(n)') BY <1>3, <1>7, <1>11, <2>1
  <2>8. \A s \in DOMAIN g.lex : sp'[s] = g.lex[s] BY <1>11, <2>4
  <2>9. g.kind = "op" /\ g.op \in Trs => Agrees(stk'[g.base][3]) BY <1>11, <2>6
  <2>10. fn' # none => Agrees(fn') BY <1>3
  <2>11. (g.kind = "op" => g.senv = env) /\ (g.kind = "closure" => g.svenv = env) BY <1>11
  <2>12. ctl' = Append(ctl, g) BY <1>3
  <2>13. \A i \in 1 .. Len(stk) - 1 : stk'[i] = stk[i] BY <1>14
  <2> QED
    BY <1>10, <1>16, <2>3, <2>5, <2>7, <2>8, <2>9, <2>10, <2>11, <2>12, <2>13, PushedScopes
<1>27. NeverAstray' BY <1>1, <1>3 DEF NeverAstray
<1> QED BY <1>3, <1>18, <1>20, <1>21, <1>22, <1>25, <1>26, <1>27 DEF IInv

LEMMA ApplyNameStep ==
  ASSUME IInv, ApplyName
  PROVE  IInv'
<1>1. Running /\ fn # none /\ fn[1] = "name" /\ Types /\ Lexical /\ Waiting
  BY DEF IInv, ApplyName, Applying, Waiting
<1>2. fn \in Flat /\ fn[2] \in Ops \ Trs
  <2>1. fn \in Given \cup ({"transform"} \X Trs \X Flat) \cup ({"catch"} \X Flat)
    BY <1>1 DEF Types
  <2> QED BY <1>1, <2>1, FlatTypes, ClosureTypes DEF Given
<1>3. PICK f \in Ops : f = fn[2] /\ f \notin Trs BY <1>2
<1>4. Range(Outer[f]) \subseteq DOMAIN Lex BY <1>1, <1>3 DEF Lexical, FnBound, Within
<1>5. CASE HasCode(f)
  <2>1. Enter(f, Last(stk), <<>>) BY <1>3, <1>5 DEF ApplyName
  <2>2. Last(stk) \in Value BY <1>1, ArgumentOnTop
  <2>3. <<>> \in Seq(Value) OBVIOUS
  <2> QED BY <1>1, <1>3, <1>4, <2>1, <2>2, <2>3, EnterStep
<1>6. CASE ~HasCode(f)
  <2>1. Astray BY <1>3, <1>6 DEF ApplyName
  <2>2. Outer[f][1] \in DOMAIN Lex /\ ~Finds(Outer[f][1]) BY <1>4, <1>6, EnvOfText DEF HasCode
  <2>3. thrown BY <1>1, <2>2, Found
  <2> QED BY <2>1, <2>3, AstrayStep
<1> QED BY <1>5, <1>6

LEMMA ApplyTransformStep ==
  ASSUME IInv, ApplyTransform
  PROVE  IInv'
<1>1. Running /\ fn # none /\ fn[1] = "transform" /\ Types /\ Lexical /\ Waiting
  BY DEF IInv, ApplyTransform, Applying, Waiting
<1>2. fn \in {"transform"} \X Trs \X Flat
  <2>1. fn \in Given \cup ({"transform"} \X Trs \X Flat) \cup ({"catch"} \X Flat)
    BY <1>1 DEF Types
  <2> QED BY <1>1, <2>1, FlatTypes, ClosureTypes DEF Given
<1>3. PICK t \in Trs, o \in Flat : fn = <<"transform", t, o>> BY <1>2
<1>4. /\ t \in Ops /\ fn[2] = t /\ fn[3] = o
      /\ Range(Outer[t]) \subseteq DOMAIN Lex /\ Within(o, DOMAIN Lex)
      /\ ctl = <<>> \/ Frame.kind = "op"
  BY <1>1, <1>3, CallsConstants DEF Lexical, FnBound
<1>5. CASE Closable(o)
  <2>1. Enter(t, Closed(o), <<Last(stk)>>) BY <1>4, <1>5 DEF ApplyTransform
  <2>2. <<Last(stk)>> \in Seq(Value)
    <3>1. Last(stk) \in Value BY <1>1, ArgumentOnTop
    <3> QED BY <3>1, SeqOne
  <2>3. Closed(o) \in Given /\ Bound(Closed(o), Len(ctl)) /\ (~thrown => Agrees(Closed(o)))
    BY <1>1, <1>4, <1>5, ClosedOperand
  <2> QED BY <1>1, <1>4, <2>1, <2>2, <2>3, EnterStep
<1>6. CASE ~Closable(o)
  <2>1. Astray BY <1>4, <1>6 DEF ApplyTransform
  <2>2. thrown BY <1>1, <1>4, <1>6, ClosableOrThrown
  <2> QED BY <2>1, <2>2, AstrayStep
<1> QED BY <1>5, <1>6

LEMMA ApplyCatchStep ==
  ASSUME IInv, ApplyCatch
  PROVE  IInv'
<1>1. /\ Running /\ fn # none /\ fn[1] = "catch" /\ Types /\ Lexical /\ Waiting /\ Parts /\ Laid
      /\ NeverAstray /\ (~thrown => Scopes)
  BY DEF IInv, ApplyCatch, Applying, Waiting
<1>2. fn \in {"catch"} \X Flat
  <2>1. fn \in Given \cup ({"transform"} \X Trs \X Flat) \cup ({"catch"} \X Flat)
    BY <1>1 DEF Types
  <2> QED BY <1>1, <2>1, FlatTypes, ClosureTypes DEF Given
<1>3. PICK o \in Flat : fn = <<"catch", o>> BY <1>2
<1>4. fn[2] = o /\ Within(o, DOMAIN Lex) /\ (ctl = <<>> \/ Frame.kind = "op")
  BY <1>1, <1>3 DEF Lexical, FnBound
<1>5. CASE ~Closable(o)
  <2>1. Astray BY <1>4, <1>5 DEF ApplyCatch
  <2>2. thrown BY <1>1, <1>4, <1>5, ClosableOrThrown
  <2> QED BY <2>1, <2>2, AstrayStep
<1>6. CASE Closable(o)
  <2>n. PICK n : n = Len(ctl) + 1 OBVIOUS
  <2>l. PICK l : l = Lex OBVIOUS
  <2>g. PICK g : g = [kind |-> "catch", prev |-> catchbuf, arg_stack |-> Len(stk) - 1, lex |-> l]
    OBVIOUS
  <2>1. /\ ctl' = Append(ctl, g) /\ catchbuf' = n /\ fn' = Closed(o)
        /\ UNCHANGED <<stk, sp, env, pc, thrown, cuts>>
    BY <1>4, <1>6, <2>n, <2>l, <2>g DEF ApplyCatch
  <2>2. /\ Len(stk) \in Nat /\ Len(stk) > 0 /\ stk \in Seq(Words) /\ Last(stk) = stk[Len(stk)]
        /\ Last(stk) \in Value /\ catchbuf \in {Dead} \cup Nat /\ Len(stk) - 1 \in Nat
    BY <1>1, ArgumentOnTop DEF Types
  <2>3. l \in Lexes BY <1>1, <2>l, LexTypes
  <2>4. g \in CatchFrames BY <2>2, <2>3, <2>g DEF CatchFrames
  <2>5. g \in AllFrames BY <2>4 DEF AllFrames
  <2>6. g.kind = "catch" /\ g.prev = catchbuf /\ g.arg_stack = Len(stk) - 1 /\ g.lex = l BY <2>g
  <2>7. /\ n \in Nat /\ n >= 1 /\ n - 1 = Len(ctl) /\ n - 1 \in Nat
        /\ Len(ctl') = n /\ ctl'[n] = g /\ Frame' = g /\ ctl' # <<>>
        /\ DOMAIN ctl = 1 .. n - 1
        /\ \A k \in DOMAIN ctl : k < n /\ k \in Nat /\ ctl'[k] = ctl[k]
    BY <1>1, <2>1, <2>5, <2>n, Grown
  <2>8. Floor(n)' = Len(stk) - 1 /\ Ceil(n)' = Len(stk) - 1 BY <2>6, <2>7 DEF Floor, Ceil
  <2>9. Closed(o) \in Given /\ Bound(Closed(o), Len(ctl)) /\ (~thrown => Agrees(Closed(o)))
    BY <1>1, <1>4, <1>6, ClosedOperand
  <2>10. Types'
    <3>1. ctl \in Seq(AllFrames) /\ ctl' \in Seq(AllFrames)
      BY <1>1, <2>1, <2>5, SeqAppend DEF Types, AllFrames
    <3>2. catchbuf' \in {Dead} \cup Nat BY <2>1, <2>7
    <3>3. fn' \in Given BY <2>1, <2>9
    <3> QED BY <1>1, <2>1, <3>1, <3>2, <3>3 DEF Types, AllFrames, OpFrames, ClosureFrames,
          CatchFrames, Words, Value, Given, Flat, Closure, Lexes
  <2>11. stk' \in Seq(Words) /\ Len(stk') = Len(stk) /\ \A i \in 1 .. Len(stk) - 1 : stk'[i] = stk[i]
    BY <2>1, <2>2
  <2>12. \A i \in Ceil(n)' + 1 .. Len(stk') : stk'[i] \in Value
    <3>1. \A i \in Ceil(n)' + 1 .. Len(stk') : i = Len(stk) BY <2>2, <2>8, <2>11
    <3> QED BY <2>1, <2>2, <3>1
  <2>13. Parts' BY <1>1, <2>1, <2>2, <2>5, <2>6, <2>8, <2>11, <2>n, PushedParts
  <2>14. Laid'
    <3>1. \A i \in Len(stk) .. Ceil(n)' : FALSE BY <2>2, <2>8
    <3> QED
      BY <1>1, <2>1, <2>2, <2>5, <2>6, <2>8, <2>10, <2>11, <2>12, <2>13, <2>n, <3>1, PushedLaid
  <2>15. Nesting' BY <1>1, <2>1, <2>5, <2>6, <2>n, PushedNesting
  <2>16. Lex' = l BY <2>6, <2>7 DEF Lex
  <2>17. \A w : Bound(w, n - 1) => Bound(w, n)'
    <3>1. \A j \in 1 .. n - 1 : j \in 1 .. n /\ ctl'[j] = ctl[j] BY <2>7
    <3> QED BY <3>1 DEF Bound, Live
  <2>18. Lexical'
    <3>1. FnBound'
      <4>1. Bound(fn, n)' /\ Len(ctl') = n BY <2>1, <2>7, <2>9, <2>17
      <4>2. fn'[1] \in {"name", "closure"} /\ (fn'[1] = "name" => Outer[fn'[2]] = <<>>)
        BY <4>1 DEF Bound
      <4>3. fn'[1] = "name" => Within(fn, DOMAIN Lex)' BY <4>2, SeqEmpty DEF Within
      <4> QED BY <4>1, <4>2, <4>3 DEF FnBound
    <3>2. Live(l, n)'
      <4>1. CASE ctl = <<>>
        <5>1. DOMAIN l = {} BY <1>1, <2>l, <4>1, LexTypes
        <5> QED BY <5>1 DEF Live
      <4>2. CASE ctl # <<>>
        <5>1. l = ctl[n - 1].lex /\ n - 1 \in DOMAIN ctl BY <1>1, <2>7, <2>l, <4>2, FrameTypes DEF Lex
        <5>2. Live(l, n - 1) BY <1>1, <5>1 DEF Lexical, TextsLive
        <5>3. \A j \in 1 .. n - 1 : j \in 1 .. n /\ ctl'[j] = ctl[j] BY <2>7
        <5> QED BY <5>2, <5>3 DEF Live
      <4> QED BY <4>1, <4>2
    <3>3. l = LexAt(n - 1) /\ (n > 1 => ctl[n - 1].kind = "op")
      <4>1. ctl # <<>> <=> n > 1 BY <1>1, <2>7, FrameTypes
      <4>2. CASE n = 1 BY <2>7, <2>l, <4>1, <4>2 DEF LexAt, Lex
      <4>3. CASE n > 1
        <5>1. Frame = ctl[n - 1] /\ n - 1 # 0 BY <1>1, <2>7, <4>1, <4>3, FrameTypes
        <5> QED BY <1>4, <2>l, <4>1, <4>3, <5>1 DEF LexAt, Lex
      <4> QED BY <2>7, <4>2, <4>3
    <3>4. env' = <<>> => Low(n)'
      <4>1. env = <<>> => Low(n - 1) BY <1>1, <2>7 DEF Lexical, NullsAreLow
      <4>2. Low(n - 1) => n = 1 BY <2>7, <3>3 DEF Low
      <4>3. n = 1 => Low(n)' BY <2>6, <2>7 DEF Low
      <4> QED BY <2>1, <4>1, <4>2, <4>3
    <3>5. Live(g.lex, n)' BY <2>6, <3>2
    <3>6. g.kind = "catch" => g.lex = LexAt(n - 1) /\ (n > 1 => ctl[n - 1].kind = "op")
      BY <2>6, <3>3
    <3> QED BY <1>1, <2>1, <2>5, <2>6, <2>11, <2>n, <3>1, <3>4, <3>5, <3>6, PushedLexical
  <2>19. ~thrown => Scopes'
    <3> SUFFICES ASSUME ~thrown PROVE Scopes' OBVIOUS
    <3>1. env = EnvAt(n - 1) BY <1>1, <2>7 DEF Scopes, EnvsRight
    <3>2. EnvAt(n)' = EnvAt(n - 1)
      <4>1. CASE n = 1 BY <2>6, <2>7, <4>1 DEF EnvAt
      <4>2. CASE n > 1
        <5>1. n - 1 \in DOMAIN ctl /\ n # 1 /\ n - 1 # 0 /\ n # 0 BY <2>7, <4>2
        <5>2. Frame = ctl[n - 1] /\ ctl # <<>> BY <1>1, <2>7, <4>2, FrameTypes
        <5>3. ctl[n - 1].kind = "op" /\ ctl'[n - 1] = ctl[n - 1] BY <1>4, <2>7, <5>1, <5>2
        <5> QED BY <2>6, <2>7, <5>1, <5>3 DEF EnvAt
      <4> QED BY <2>7, <4>1, <4>2
    <3>3. DOMAIN l = Range(EnvAt(n - 1))
      <4>1. CASE ctl = <<>>
        <5>1. DOMAIN l = {} /\ n - 1 = 0 BY <1>1, <2>7, <2>l, <4>1, LexTypes, FrameTypes
        <5> QED BY <5>1, SeqEmpty DEF EnvAt
      <4>2. CASE ctl # <<>>
        <5>1. l = ctl[n - 1].lex /\ n - 1 \in DOMAIN ctl BY <1>1, <2>7, <2>l, <4>2, FrameTypes DEF Lex
        <5> QED BY <1>1, <5>1 DEF Scopes, EnvsRight
      <4> QED BY <4>1, <4>2
    <3>4. env' = EnvAt(n)' /\ DOMAIN g.lex = Range(EnvAt(n)') BY <2>1, <2>6, <3>1, <3>2, <3>3
    <3>5. \A s \in DOMAIN g.lex : sp'[s] = g.lex[s]
      <4>1. \A s \in DOMAIN Lex : sp[s] = Lex[s] BY <1>1, Found
      <4> QED BY <2>1, <2>6, <2>l, <4>1
    <3>6. \A s \in Ops : ~Saves(n, s)' BY <2>6, <2>7 DEF Saves
    <3>7. fn' # none => Agrees(fn') BY <2>1, <2>9
    <3>8. sp' = sp BY <2>1
    <3> QED
      BY <1>1, <2>1, <2>5, <2>6, <2>11, <2>n, <3>4, <3>5, <3>6, <3>7, <3>8, PushedScopes
  <2>20. NeverAstray' BY <1>1, <2>1 DEF NeverAstray, Running
  <2> QED BY <2>1, <2>10, <2>13, <2>14, <2>15, <2>18, <2>19, <2>20 DEF IInv
<1> QED BY <1>5, <1>6

(* Install gives each table of the list the pointer of its place.            *)
LEMMA Installed ==
  ASSUME sp \in [Ops -> Int], NEW syms \in Seq(Ops), NEW q, \A i \in DOMAIN syms : q[i] \in Int
  PROVE  /\ Install(syms, q) \in [Ops -> Int]
         /\ \A s \in Ops \ Range(syms) : Install(syms, q)[s] = sp[s]
         /\ \A s \in Range(syms) : LET i == CHOOSE i \in DOMAIN syms : syms[i] = s
                                   IN i \in 1 .. Len(syms) /\ syms[i] = s /\ Install(syms, q)[s] = q[i]
<1>1. DOMAIN syms = 1 .. Len(syms) /\ Range(syms) \subseteq Ops BY SeqRange
<1>2. ASSUME NEW s \in Range(syms)
      PROVE  LET i == CHOOSE i \in DOMAIN syms : syms[i] = s
             IN i \in 1 .. Len(syms) /\ syms[i] = s /\ Install(syms, q)[s] = q[i]
  <2>1. \E i \in DOMAIN syms : syms[i] = s BY DEF Range
  <2>2. s \in Ops BY <1>1
  <2> QED BY <1>1, <2>1, <2>2 DEF Install
<1>3. \A s \in Ops \ Range(syms) : Install(syms, q)[s] = sp[s] BY DEF Install
<1>4. Install(syms, q) \in [Ops -> Int]
  <2>1. \A s \in Ops : Install(syms, q)[s] \in Int
    <3> TAKE s \in Ops
    <3>1. CASE s \in Range(syms) BY <1>1, <1>2, <3>1
    <3>2. CASE s \notin Range(syms) BY <1>3, <3>2
    <3> QED BY <3>1, <3>2
  <2>2. PICK F : F = Install(syms, q) OBVIOUS
  <2>3. F = [s \in Ops |-> F[s]] BY <2>2 DEF Install
  <2> QED BY <2>1, <2>2, <2>3
<1> QED BY <1>2, <1>3, <1>4

LEMMA ApplyClosureStep ==
  ASSUME IInv, ApplyClosure
  PROVE  IInv'
<1>1. /\ Running /\ fn # none /\ fn[1] = "closure" /\ Types /\ Lexical /\ Waiting /\ Parts /\ Laid
      /\ NeverAstray /\ (~thrown => Scopes)
  BY DEF IInv, ApplyClosure, Applying, Waiting
<1>2. fn \in Closure
  <2>1. fn \in Given \cup ({"transform"} \X Trs \X Flat) \cup ({"catch"} \X Flat)
    BY <1>1 DEF Types
  <2> QED BY <1>1, <2>1, FlatTypes, ClosureTypes DEF Given
<1>n. PICK n : n = Len(ctl) + 1 OBVIOUS
<1>c. PICK o, y, q, l : o = fn[2] /\ y = fn[3] /\ q = fn[4] /\ l = fn[5] OBVIOUS
<1>3. o \in Flat /\ y \in Seq(Ops) /\ q \in Seq(Int) /\ l \in Lexes BY <1>2, <1>c, ClosureTypes
<1>4. y # <<>> /\ DOMAIN q = DOMAIN y /\ Within(o, DOMAIN l) /\ Live(l, Len(ctl))
  BY <1>1, <1>c DEF Lexical, FnBound, Bound
<1>5. ~thrown => DOMAIN l = Range(y) /\ \A i \in DOMAIN y : q[i] = l[y[i]]
  BY <1>1, <1>c DEF Scopes, ClosuresAgree, Agrees
<1>fl. PICK fl : fl = Len(stk) - 1 OBVIOUS
<1>g. PICK g : g = [kind |-> "closure", syms |-> y, svenv |-> env, floor |-> fl, lex |-> l] OBVIOUS
<1>6. /\ stk' = Front(stk) \o Saved(y) \o <<Last(stk)>>
      /\ sp' = Install(y, q) /\ env' = y /\ ctl' = Append(ctl, g) /\ fn' = o
      /\ UNCHANGED <<catchbuf, pc, thrown, cuts>>
  BY <1>c, <1>fl, <1>g DEF ApplyClosure
<1>7. /\ Len(stk) \in Nat /\ Len(stk) > 0 /\ fl \in Nat
      /\ Last(stk) \in Value /\ Last(stk) \in Words
      /\ Front(stk) \in Seq(Words) /\ Len(Front(stk)) = fl
      /\ \A i \in 1 .. Len(stk) - 1 : Front(stk)[i] = stk[i]
      /\ sp \in [Ops -> Int] /\ env \in Seq(Ops)
  BY <1>1, <1>fl, ArgumentOnTop DEF Types
<1>8. g \in ClosureFrames BY <1>3, <1>7, <1>g DEF ClosureFrames
<1>9. g \in AllFrames BY <1>8 DEF AllFrames
<1>10. g.kind = "closure" /\ g.syms = y /\ g.svenv = env /\ g.floor = fl /\ g.lex = l BY <1>g
<1>11. /\ n \in Nat /\ n >= 1 /\ n - 1 = Len(ctl) /\ n - 1 \in Nat
       /\ Len(ctl') = n /\ ctl'[n] = g /\ Frame' = g /\ ctl' # <<>>
       /\ DOMAIN ctl = 1 .. n - 1
       /\ \A k \in DOMAIN ctl : k < n /\ k \in Nat /\ ctl'[k] = ctl[k]
  BY <1>1, <1>6, <1>9, <1>n, Grown
<1>12. Len(y) \in Nat /\ DOMAIN y = 1 .. Len(y) /\ Range(y) \subseteq Ops BY <1>3, SeqRange
(* The words of the part. *)
<1>13. /\ stk' \in Seq(Words) /\ Len(stk') = fl + Len(y) + 1
       /\ \A i \in 1 .. Len(stk) - 1 : stk'[i] = stk[i]
       /\ \A i \in 1 .. Len(y) : stk'[fl + i] = <<"sp", sp[y[i]]>>
       /\ stk'[fl + Len(y) + 1] = Last(stk)
  <2>1. PICK s : s = Front(stk) OBVIOUS
  <2>2. PICK v : v = Saved(y) OBVIOUS
  <2>3. PICK a : a = <<Last(stk)>> OBVIOUS
  <2>4. /\ s \in Seq(Words) /\ Len(s) = fl /\ \A i \in 1 .. Len(stk) - 1 : s[i] = stk[i]
    BY <1>7, <2>1
  <2>5. v \in Seq(Words) /\ Len(v) = Len(y) /\ \A i \in 1 .. Len(y) : v[i] = <<"sp", sp[y[i]]>>
    <3>1. \A i \in 1 .. Len(y) : <<"sp", sp[y[i]]>> \in Words BY <1>3, <1>7, MadeWords
    <3>2. v = [i \in 1 .. Len(y) |-> <<"sp", sp[y[i]]>>] BY <1>12, <2>2 DEF Saved
    <3> QED BY <1>12, <3>1, <3>2
  <2>6. a \in Seq(Words) /\ Len(a) = 1 /\ a[1] = Last(stk) BY <1>7, <2>3
  <2>7. \A u \in Seq(Words), w \in Seq(Words) :
          /\ u \o w \in Seq(Words) /\ Len(u \o w) = Len(u) + Len(w)
          /\ \A i \in 1 .. Len(u) : (u \o w)[i] = u[i]
          /\ \A i \in 1 .. Len(w) : (u \o w)[Len(u) + i] = w[i]
    BY SeqJoin
  <2>8. PICK p : p = s \o v OBVIOUS
  <2>9. /\ p \in Seq(Words) /\ Len(p) = fl + Len(y)
        /\ \A i \in 1 .. fl : p[i] = s[i]
        /\ \A i \in 1 .. Len(y) : p[fl + i] = v[i]
    BY SMTT(30), <2>4, <2>5, <2>7, <2>8
  <2>10. PICK r : r = p \o a OBVIOUS
  <2>11. /\ r \in Seq(Words) /\ Len(r) = Len(p) + 1
         /\ \A i \in 1 .. Len(p) : r[i] = p[i]
         /\ r[Len(p) + 1] = a[1]
    <3>1. /\ r \in Seq(Words) /\ Len(r) = Len(p) + Len(a)
          /\ \A i \in 1 .. Len(p) : r[i] = p[i]
          /\ \A i \in 1 .. Len(a) : r[Len(p) + i] = a[i]
      <4>1. a \in Seq(Words) BY <2>6
      <4> QED BY <2>7, <2>9, <2>10, <4>1
    <3> QED BY <2>6, <3>1
  <2>12. stk' = r BY <1>6, <2>1, <2>2, <2>3, <2>8, <2>10
  <2>13. \A i \in 1 .. Len(stk) - 1 : r[i] = stk[i]
    <3> TAKE i \in 1 .. Len(stk) - 1
    <3>1. i \in 1 .. fl /\ i \in 1 .. Len(p) BY <1>7, <1>12, <1>fl, <2>9
    <3> QED BY <2>4, <2>9, <2>11, <3>1
  <2>14. \A i \in 1 .. Len(y) : r[fl + i] = <<"sp", sp[y[i]]>>
    <3> TAKE i \in 1 .. Len(y)
    <3>1. fl + i \in 1 .. Len(p) BY <1>7, <1>12, <2>9
    <3> QED BY <2>5, <2>9, <2>11, <3>1
  <2>15. r[fl + Len(y) + 1] = Last(stk)
    <3> QED BY <2>6, <2>9, <2>11
  <2> QED BY <2>9, <2>11, <2>12, <2>13, <2>14, <2>15
<1>14. Floor(n)' = fl /\ Ceil(n)' = fl + Len(y) BY <1>10, <1>11 DEF Floor, Ceil
<1>15. /\ sp' \in [Ops -> Int]
       /\ \A s \in Ops \ Range(y) : sp'[s] = sp[s]
       /\ \A s \in Range(y) : LET i == CHOOSE i \in DOMAIN y : y[i] = s
                              IN i \in 1 .. Len(y) /\ y[i] = s /\ sp'[s] = q[i]
  <2>1. \A i \in DOMAIN y : q[i] \in Int BY <1>3, <1>4
  <2>2. /\ Install(y, q) \in [Ops -> Int]
        /\ \A s \in Ops \ Range(y) : Install(y, q)[s] = sp[s]
        /\ \A s \in Range(y) : LET i == CHOOSE i \in DOMAIN y : y[i] = s
                               IN i \in 1 .. Len(y) /\ y[i] = s /\ Install(y, q)[s] = q[i]
    BY ZenonT(40), <1>3, <1>7, <2>1, Installed
  <2> QED BY <1>6, <2>2
<1>16. Types'
  <2>1. ctl' \in Seq(AllFrames)
    <3>1. ctl \in Seq(AllFrames) BY <1>1 DEF Types, AllFrames
    <3> QED BY <1>6, <1>9, <3>1, SeqAppend
  <2>2. catchbuf' \in {Dead} \cup Nat /\ pc' \in {"run", "astray"} /\ thrown' \in BOOLEAN
    BY <1>1, <1>6 DEF Types
  <2>3. fn' \in Given /\ env' \in Seq(Ops) BY <1>3, <1>6 DEF Given
  <2> QED BY <1>13, <1>15, <2>1, <2>2, <2>3 DEF Types, AllFrames, OpFrames, ClosureFrames,
        CatchFrames, Words, Value, Given, Flat, Closure, Lexes
<1>17. /\ Floor(n)' = Len(stk) - 1 /\ Ceil(n)' \in Nat /\ Floor(n)' <= Ceil(n)' /\ Ceil(n)' <= Len(stk')
       /\ Ceil(n)' = Len(stk') - 1
  BY <1>7, <1>12, <1>13, <1>14, <1>fl
<1>18. Parts' BY <1>1, <1>6, <1>9, <1>10, <1>13, <1>17, <1>n, PushedParts
<1>19. Laid'
  <2>1. \A i \in Ceil(n)' + 1 .. Len(stk') : stk'[i] \in Value
    <3>1. \A i \in Ceil(n)' + 1 .. Len(stk') : i = fl + Len(y) + 1 BY <1>7, <1>12, <1>13, <1>14
    <3> QED BY <1>7, <1>13, <3>1
  <2>2. \A i \in Len(stk) .. Ceil(n)' : stk'[i][1] = "cell" => g.kind = "op" /\ g.base = i
    <3> TAKE i \in Len(stk) .. Ceil(n)'
    <3>1. i - fl \in 1 .. Len(y) /\ fl + (i - fl) = i BY <1>7, <1>12, <1>14, <1>fl
    <3>2. stk'[i] = <<"sp", sp[y[i - fl]]>> BY <1>13, <3>1
    <3> QED BY <3>2
  <2>3. \A i \in 1 .. Len(g.syms) : stk'[g.floor + i][1] = "sp" BY <1>10, <1>13
  <2> QED BY <1>1, <1>6, <1>9, <1>10, <1>13, <1>16, <1>17, <1>18, <1>n, <2>1, <2>2, <2>3, PushedLaid
<1>20. Nesting' BY <1>1, <1>6, <1>9, <1>10, <1>n, PushedNesting
<1>21. Lexical'
  <2>1. FnBound'
    <3>1. Lex' = l BY <1>10, <1>11 DEF Lex
    <3>2. fn'[1] \in {"name", "param"} BY <1>3, <1>6, FlatTypes
    <3>3. Within(fn, DOMAIN Lex)' BY <1>4, <1>6, <3>1 DEF Within
    <3> QED BY <3>2, <3>3 DEF FnBound
  <2>2. Live(g.lex, n)'
    <3>1. \A j \in 1 .. n - 1 : j \in 1 .. n /\ ctl'[j] = ctl[j] BY <1>11
    <3> QED BY <1>4, <1>10, <1>11, <3>1 DEF Live
  <2>3. env' = <<>> => Low(n)' BY <1>4, <1>6
  <2>4. g.kind = "closure" => g.syms # <<>> /\ (g.svenv = <<>> => Low(n - 1))
    BY <1>1, <1>4, <1>10, <1>11 DEF Lexical, NullsAreLow
  <2> QED BY <1>1, <1>6, <1>9, <1>10, <1>13, <1>n, <2>1, <2>2, <2>3, <2>4, PushedLexical
<1>22. ~thrown => Scopes'
  <2> SUFFICES ASSUME ~thrown PROVE Scopes' OBVIOUS
  <2>1. EnvAt(n)' = y BY <1>10, <1>11 DEF EnvAt
  <2>2. env' = EnvAt(n)' /\ DOMAIN g.lex = Range(EnvAt(n)') BY <1>5, <1>6, <1>10, <2>1
  <2>3. \A s \in Ops : Saves(n, s)' <=> s \in Range(y) BY <1>10, <1>11 DEF Saves
  <2>4. \A s \in Ops : ~Saves(n, s)' => sp'[s] = sp[s] BY <1>15, <2>3
  <2>5. \A s \in DOMAIN g.lex : sp'[s] = g.lex[s]
    <3> SUFFICES ASSUME NEW s \in Range(y) PROVE sp'[s] = l[s] BY <1>5, <1>10
    <3>1. PICK i \in 1 .. Len(y) : y[i] = s /\ sp'[s] = q[i] BY <1>15
    <3> QED BY <1>5, <1>12, <3>1
  <2>6. \A s \in Ops : Saves(n, s)' => SavedFor(n, s)' = sp[s]
    <3> SUFFICES ASSUME NEW s \in Range(y) PROVE SavedFor(n, s)' = sp[s] BY <2>3
    <3>1. PICK i : i = CHOOSE k \in DOMAIN y : y[k] = s OBVIOUS
    <3>2. i \in 1 .. Len(y) /\ y[i] = s BY <1>15, <3>1
    <3>3. SavedFor(n, s)' = stk'[fl + i][2] BY <1>10, <1>11, <3>1 DEF SavedFor
    <3> QED BY <1>13, <3>2, <3>3
  <2>7. fn' # none => Agrees(fn')
    <3>1. fn'[1] # "closure" BY <1>3, <1>6, FlatTypes
    <3> QED BY <3>1 DEF Agrees
  <2> QED
    BY <1>1, <1>6, <1>9, <1>10, <1>13, <1>n, <2>2, <2>4, <2>5, <2>6, <2>7, PushedScopes
<1>23. NeverAstray' BY <1>1, <1>6 DEF NeverAstray
<1> QED BY <1>6, <1>16, <1>18, <1>19, <1>20, <1>21, <1>22, <1>23 DEF IInv

-----------------------------------------------------------------------------
(* Returns and throws: the frames above the first m are left.                *)
LEMMA Shrunk ==
  ASSUME Types, NEW m \in Nat, m < Len(ctl), ctl' = SubSeq(ctl, 1, m)
  PROVE  /\ Len(ctl) \in Nat /\ m + 1 \in DOMAIN ctl /\ DOMAIN ctl = 1 .. Len(ctl)
         /\ ctl' \in Seq(AllFrames) /\ Len(ctl') = m /\ DOMAIN ctl' = 1 .. m
         /\ \A k \in 1 .. m : k \in DOMAIN ctl /\ ctl'[k] = ctl[k]
         /\ m > 0 => ctl' # <<>> /\ Frame' = ctl[m]
         /\ m = 0 => ctl' = <<>>
         /\ Bodies' = {k \in Bodies : k <= m} /\ Catchers' = {k \in Catchers : k <= m}
         /\ \A k \in Bodies \cup Catchers : k \in DOMAIN ctl
<1>1. ctl \in Seq(AllFrames) /\ Len(ctl) \in Nat /\ DOMAIN ctl = 1 .. Len(ctl) /\ m \in 0 .. Len(ctl)
  BY DEF Types, AllFrames
<1>2. /\ ctl' \in Seq(AllFrames) /\ Len(ctl') = m
      /\ \A k \in 1 .. m : ctl'[k] = ctl[k]
  BY <1>1, SeqFirst
<1>3. DOMAIN ctl' = 1 .. m BY <1>2
<1>4. m > 0 => ctl' # <<>> /\ Frame' = ctl[m] BY <1>2 DEF Frame, Last
<1>5. m = 0 => ctl' = <<>> BY <1>2
<1>6. \A k \in 1 .. m : k \in DOMAIN ctl BY <1>1
<1>7. Bodies' = {k \in Bodies : k <= m} BY <1>1, <1>2, <1>3 DEF Bodies
<1>8. Catchers' = {k \in Catchers : k <= m} BY <1>1, <1>2, <1>3 DEF Catchers
<1> QED BY <1>1, <1>2, <1>3, <1>4, <1>5, <1>6, <1>7, <1>8 DEF Bodies, Catchers

LEMMA PoppedNesting ==
  ASSUME Types, Nesting, NEW m \in Nat, m < Len(ctl), ctl' = SubSeq(ctl, 1, m),
         \/ catchbuf' = catchbuf /\ \A k \in Catchers : k <= m
         \/ m + 1 \in Catchers /\ catchbuf' = ctl[m + 1].prev
  PROVE  Nesting'
<1>1. /\ Len(ctl) \in Nat /\ m + 1 \in DOMAIN ctl /\ DOMAIN ctl = 1 .. Len(ctl)
      /\ Len(ctl') = m /\ Catchers' = {k \in Catchers : k <= m}
      /\ \A k \in 1 .. m : k \in DOMAIN ctl /\ ctl'[k] = ctl[k]
      /\ \A k \in Catchers : k \in DOMAIN ctl
  BY Shrunk
<1>2. \A k \in Catchers : k \in Nat /\ k >= 1 BY <1>1
<1>3. ASSUME NEW c \in Nat, NEW k \in Nat, k <= m, Nearest(c, k) PROVE Nearest(c, k)'
  BY <1>1, <1>2, <1>3 DEF Nearest
<1>4. ASSUME NEW k \in Catchers'
      PROVE  IF ctl'[k].prev = Dead THEN \A j \in Catchers' : j >= k ELSE Nearest(ctl[k].prev, k - 1)'
  <2>1. k \in Catchers /\ k <= m /\ k \in 1 .. m /\ ctl'[k] = ctl[k] /\ k - 1 \in Nat /\ k - 1 <= m
    BY <1>1, <1>2
  <2>2. CASE ctl[k].prev = Dead BY <1>1, <2>1, <2>2 DEF Nesting
  <2>3. CASE ctl[k].prev # Dead
    <3>1. ctl[k].prev \in Nat BY <1>1, <2>1, <2>3, FrameTypes DEF Catchers
    <3>2. Nearest(ctl[k].prev, k - 1) BY <2>1, <2>3 DEF Nesting
    <3>3. PICK c \in Nat : c = ctl[k].prev BY <3>1
    <3>4. Nearest(c, k - 1)' BY <1>3, <2>1, <3>2, <3>3
    <3> QED BY <2>1, <2>3, <3>3, <3>4
  <2> QED BY <2>2, <2>3
<1>5. IF catchbuf' = Dead THEN Catchers' = {} ELSE Nearest(catchbuf, Len(ctl))'
  <2>1. CASE catchbuf' = catchbuf /\ \A k \in Catchers : k <= m
    <3>1. CASE catchbuf = Dead BY <1>1, <2>1, <3>1 DEF Nesting
    <3>2. CASE catchbuf # Dead
      <4>1. Nearest(catchbuf, Len(ctl)) BY <3>2 DEF Nesting
      <4>2. Catchers' = Catchers BY <1>1, <2>1
      <4>3. Nearest(catchbuf, m)' BY <1>1, <1>2, <2>1, <4>1, <4>2 DEF Nearest
      <4> QED BY <1>1, <2>1, <3>2, <4>3
    <3> QED BY <3>1, <3>2
  <2>2. CASE m + 1 \in Catchers /\ catchbuf' = ctl[m + 1].prev
    <3>1. CASE ctl[m + 1].prev = Dead
      <4>1. \A j \in Catchers : j >= m + 1 BY <2>2, <3>1 DEF Nesting
      <4> QED BY <1>1, <1>2, <2>2, <3>1, <4>1
    <3>2. CASE ctl[m + 1].prev # Dead
      <4>1. ctl[m + 1].prev \in Nat BY <1>1, <2>2, <3>2, FrameTypes DEF Catchers
      <4>2. Nearest(ctl[m + 1].prev, (m + 1) - 1) BY <2>2, <3>2 DEF Nesting
      <4>3. PICK c \in Nat : c = ctl[m + 1].prev BY <4>1
      <4>4. (m + 1) - 1 = m OBVIOUS
      <4>5. Nearest(c, m)' BY <1>3, <4>2, <4>3, <4>4
      <4> QED BY <1>1, <2>2, <3>2, <4>3, <4>5
    <3> QED BY <3>1, <3>2
  <2> QED BY <2>1, <2>2
<1> QED BY <1>4, <1>5 DEF Nesting

LEMMA PoppedStep ==
  ASSUME IInv, Running, NEW m \in Nat, m < Len(ctl), ctl' = SubSeq(ctl, 1, m), fn' = none, pc' = pc,
         stk' \in Seq(Words), Len(stk') = Floor(m + 1) + 1,
         \A i \in 1 .. Floor(m + 1) : stk'[i] = stk[i], stk'[Len(stk')] \in Value,
         sp' \in [Ops -> Int], env' \in Seq(Ops), catchbuf' \in {Dead} \cup Nat, thrown' \in BOOLEAN,
         env' = <<>> => Low(m), Nesting', ~thrown' => Scopes'
  PROVE  IInv'
<1>1. Types /\ Parts /\ Laid /\ Lexical BY DEF IInv
<1>2. /\ Len(ctl) \in Nat /\ m + 1 \in DOMAIN ctl /\ DOMAIN ctl = 1 .. Len(ctl)
      /\ ctl' \in Seq(AllFrames) /\ Len(ctl') = m /\ DOMAIN ctl' = 1 .. m
      /\ \A k \in 1 .. m : k \in DOMAIN ctl /\ ctl'[k] = ctl[k]
      /\ m > 0 => ctl' # <<>> /\ Frame' = ctl[m]
      /\ m = 0 => ctl' = <<>>
      /\ Bodies' = {k \in Bodies : k <= m} /\ Catchers' = {k \in Catchers : k <= m}
      /\ \A k \in Bodies \cup Catchers : k \in DOMAIN ctl
  BY <1>1, Shrunk
<1>t. PICK t : t = Floor(m + 1) OBVIOUS
<1>u. Floor(m + 1) \in Int /\ Ceil(m + 1) \in Int /\ Len(stk) \in Nat BY <1>1, <1>2, FrameTypes
<1>3. t \in Nat /\ t <= Len(stk) /\ t <= Ceil(m + 1)
  <2>1. 0 <= Floor(m + 1) /\ Floor(m + 1) <= Ceil(m + 1) /\ Ceil(m + 1) <= Len(stk)
    BY <1>1, <1>2 DEF Parts, PartsSized
  <2> QED BY <1>t, <1>u, <2>1
<1>4. \A k \in 1 .. m : Ceil(k) <= t
  <2> TAKE k \in 1 .. m
  <2>1. k \in DOMAIN ctl /\ k < m + 1 BY <1>2
  <2>2. Ceil(k) <= Floor(m + 1) BY <1>1, <1>2, <2>1 DEF Parts, PartsInOrder
  <2> QED BY <1>t, <2>2
<1>5. \A k \in DOMAIN ctl : k > m => t <= Floor(k)
  <2> SUFFICES ASSUME NEW k \in DOMAIN ctl, k > m PROVE t <= Floor(k) OBVIOUS
  <2>1. k = m + 1 \/ m + 1 < k BY <1>2
  <2>2. m + 1 < k => Ceil(m + 1) <= Floor(k) BY <1>1, <1>2 DEF Parts, PartsInOrder
  <2>3. Floor(k) \in Int BY <1>1, FrameTypes
  <2> QED BY <1>t, <1>u, <1>3, <2>1, <2>2, <2>3
<1>6. \A k \in 1 .. m : /\ Floor(k)' = Floor(k) /\ Ceil(k)' = Ceil(k)
                        /\ Floor(k) \in Int /\ Ceil(k) \in Int /\ 0 <= Floor(k) /\ Floor(k) <= Ceil(k)
  BY <1>1, <1>2, SameFrames, FrameTypes DEF Parts, PartsSized
<1>7. /\ t \in Nat /\ t <= Len(stk) /\ Len(stk) \in Nat /\ Len(stk') = t + 1 /\ stk'[t + 1] \in Value
      /\ DOMAIN stk' = 1 .. t + 1 /\ DOMAIN stk = 1 .. Len(stk)
      /\ \A i \in 1 .. t : i \in DOMAIN stk /\ stk'[i] = stk[i]
  <2>1. DOMAIN stk' = 1 .. Len(stk') BY SeqTyped
  <2>2. DOMAIN stk = 1 .. Len(stk) BY <1>1, FrameTypes
  <2> QED BY <1>t, <1>u, <1>3, <2>1, <2>2
<1>11. Types'
  BY <1>1, <1>2 DEF Types, AllFrames, OpFrames, ClosureFrames, CatchFrames, Words, Value, Given, Flat,
     Closure, Lexes
<1>12. Parts'
  <2>1. PartsSized'
    <3>1. \A k \in 1 .. m : Ceil(k)' <= Len(stk') BY SMTT(30), <1>6, <1>7, <1>4
    <3> QED BY <1>2, <1>6, <3>1 DEF PartsSized
  <2>2. PartsInOrder' BY <1>1, <1>2, <1>6 DEF Parts, PartsInOrder
  <2>3. PartsMeet'
    <3> SUFFICES ASSUME NEW k \in 1 .. m, ctl'[k].kind # "op", k < m PROVE Floor(k + 1)' = Ceil(k)'
      BY <1>2 DEF PartsMeet
    <3>1. k + 1 \in 1 .. m /\ k < Len(ctl) BY <1>2
    <3>2. Floor(k + 1) = Ceil(k) BY <1>1, <1>2, <3>1 DEF Parts, PartsMeet
    <3> QED BY <1>6, <3>1, <3>2
  <2>4. PartsWait'
    <3>1. stk' # <<>> BY <1>7, SeqEmpty
    <3>2. \A k \in DOMAIN ctl' : Ceil(k)' < Len(stk') BY <1>2, <1>6, <1>7, <1>4
    <3>3. ctl' # <<>> /\ Frame'.kind # "op" => Ceil(Len(ctl))' = Len(stk') - 1
      <4> SUFFICES ASSUME ctl' # <<>>, Frame'.kind # "op" PROVE Ceil(Len(ctl))' = Len(stk') - 1
        OBVIOUS
      <4>1. m \in 1 .. m /\ m > 0 BY <1>2
      <4>2. ctl[m].kind # "op" /\ m < Len(ctl) /\ m \in DOMAIN ctl BY <1>2, <4>1
      <4>3. t = Ceil(m) BY <1>1, <1>t, <4>2 DEF Parts, PartsMeet
      <4> QED BY <1>2, <1>6, <1>7, <4>1, <4>3
    <3> QED BY <3>1, <3>2, <3>3 DEF PartsWait
  <2> QED BY <2>1, <2>2, <2>3, <2>4 DEF Parts
<1>13. \A k \in Bodies' : /\ k \in Bodies /\ k \in 1 .. m /\ ctl'[k] = ctl[k] /\ ctl[k].kind = "op"
                          /\ ctl[k].base \in 4 .. t
  <2> TAKE k \in Bodies'
  <2>1. k \in Bodies /\ k \in 1 .. m /\ ctl'[k] = ctl[k] /\ ctl[k].kind = "op" /\ k \in DOMAIN ctl
    BY <1>2 DEF Bodies
  <2>2. 0 <= Floor(k) /\ Ceil(k) <= t BY <1>4, <1>6, <2>1
  <2>3. ctl[k].base \in Nat /\ Floor(k) = ctl[k].base - 4 /\ Ceil(k) = ctl[k].base
    BY <1>1, <2>1, FrameTypes
  <2> QED BY <1>3, <2>1, <2>2, <2>3
<1>14. Laid'
  <2>1. RecordsLaid'
    <3> SUFFICES ASSUME NEW k \in Bodies'
                 PROVE  /\ stk'[ctl'[k].base][1] = "cell" /\ stk'[ctl'[k].base][2] = ctl'[k].op
                        /\ stk'[ctl'[k].base - 1][1] = "sp"
                        /\ stk'[ctl'[k].base - 3] = <<"op", ctl'[k].op>>
      BY DEF RecordsLaid
    <3>1. PICK b : b = ctl[k].base OBVIOUS
    <3>2. b \in 1 .. t /\ b - 1 \in 1 .. t /\ b - 3 \in 1 .. t BY SMTT(30), <1>7, <1>13, <3>1
    <3>3. stk'[b] = stk[b] /\ stk'[b - 1] = stk[b - 1] /\ stk'[b - 3] = stk[b - 3] BY <1>7, <3>2
    <3>4. k \in Bodies /\ ctl'[k] = ctl[k] BY <1>13
    <3>5. /\ stk[b][1] = "cell" /\ stk[b][2] = ctl[k].op
          /\ stk[b - 1][1] = "sp" /\ stk[b - 3] = <<"op", ctl[k].op>>
      BY <1>1, <3>1, <3>4 DEF Laid, RecordsLaid
    <3> QED BY <3>1, <3>3, <3>4, <3>5
  <2>2. SavedLaid'
    <3> SUFFICES ASSUME NEW k \in 1 .. m, ctl'[k].kind = "closure",
                        NEW i \in 1 .. Len(ctl'[k].syms)
                 PROVE  stk'[ctl'[k].floor + i][1] = "sp"
      BY <1>2 DEF SavedLaid
    <3>1. ctl'[k] = ctl[k] /\ k \in DOMAIN ctl BY <1>2
    <3>2. Floor(k) >= 0 /\ Ceil(k) <= t BY <1>4, <1>6
    <3>a. /\ ctl[k].floor \in Nat /\ Len(ctl[k].syms) \in Nat /\ Floor(k) = ctl[k].floor
          /\ Ceil(k) = ctl[k].floor + Len(ctl[k].syms) /\ i \in 1 .. Len(ctl[k].syms)
      BY <1>1, <3>1, FrameTypes
    <3>3. ctl[k].floor + i \in 1 .. t
      <4>1. PICK fl, le : fl = ctl[k].floor /\ le = Len(ctl[k].syms) OBVIOUS
      <4>2. fl \in Nat /\ le \in Nat /\ fl + le <= t /\ i \in 1 .. le BY <3>2, <3>a, <4>1
      <4>5. i \in Int /\ 1 <= i /\ i <= le BY <4>2
      <4>6. fl + i \in Int /\ 1 <= fl + i /\ fl + i <= fl + le BY <4>2, <4>5
      <4>3. fl + i \in 1 .. t BY <1>3, <4>2, <4>6
      <4> QED BY <4>1, <4>3
    <3>4. stk'[ctl[k].floor + i] = stk[ctl[k].floor + i] BY <1>7, <3>3
    <3> QED BY SMTT(30), <1>1, <3>1, <3>4 DEF Laid, SavedLaid
  <2>3. TempsLaid'
    <3> SUFFICES ASSUME NEW k \in Bodies', NEW i \in DOMAIN stk', ctl'[k].base < i,
                        \A j \in DOMAIN ctl' : j > k => i <= Floor(j)'
                 PROVE  stk'[i] \in Value
      BY DEF TempsLaid
    <3>1. CASE i = t + 1 BY <1>7, <3>1
    <3>2. CASE i \in 1 .. t
      <4>1. ASSUME NEW j \in DOMAIN ctl, j > k PROVE i <= Floor(j)
        <5>1. CASE j <= m
          <6>1. j \in 1 .. m BY <1>2, <4>1, <5>1
          <6> QED BY <1>2, <1>6, <4>1, <6>1
        <5>2. CASE j > m
          <6>1. t <= Floor(j) /\ Floor(j) \in Int BY <1>1, <1>5, <5>2, FrameTypes
          <6> QED BY <1>7, <3>2, <6>1
        <5> QED BY <1>2, <5>1, <5>2
      <4>2. k \in Bodies /\ ctl[k].base < i BY <1>13
      <4>3. i \in DOMAIN stk /\ stk'[i] = stk[i] BY <1>7, <3>2
      <4> QED BY <1>1, <4>1, <4>2, <4>3 DEF Laid, TempsLaid
    <3> QED BY <1>7, <3>1, <3>2
  <2>4. LineLaid'
    <3> SUFFICES ASSUME NEW i \in DOMAIN stk', \A j \in DOMAIN ctl' : i <= Floor(j)'
                 PROVE  stk'[i] \in Value
      BY DEF LineLaid
    <3>1. CASE i = t + 1 BY <1>7, <3>1
    <3>2. CASE i \in 1 .. t
      <4>1. ASSUME NEW j \in DOMAIN ctl PROVE i <= Floor(j)
        <5>1. CASE j <= m
          <6>1. j \in 1 .. m BY <1>2, <5>1
          <6> QED BY <1>2, <1>6, <6>1
        <5>2. CASE j > m
          <6>1. t <= Floor(j) /\ Floor(j) \in Int BY <1>1, <1>5, <5>2, FrameTypes
          <6> QED BY <1>7, <3>2, <6>1
        <5> QED BY <1>2, <5>1, <5>2
      <4>2. i \in DOMAIN stk /\ stk'[i] = stk[i] BY <1>7, <3>2
      <4> QED BY <1>1, <4>1, <4>2 DEF Laid, LineLaid
    <3> QED BY <1>7, <3>1, <3>2
  <2>5. TopLaid'
    <3>1. Last(stk') = stk'[Len(stk')] BY DEF Last
    <3> QED BY <1>7, <3>1 DEF TopLaid
  <2>6. CellsLaid'
    <3> SUFFICES ASSUME NEW i \in DOMAIN stk', stk'[i][1] = "cell"
                 PROVE  \E k \in Bodies' : ctl'[k].base = i
      BY DEF CellsLaid
    <3>1. i \in 1 .. t BY SMTT(30), <1>7, ValueTypes
    <3>2. i \in DOMAIN stk /\ stk[i][1] = "cell" BY <1>7, <3>1
    <3>3. PICK k \in Bodies : ctl[k].base = i BY <1>1, <3>2 DEF Laid, CellsLaid
    <3>4. k \in DOMAIN ctl /\ ctl[k].kind = "op" BY DEF Bodies
    <3>5. Floor(k) = i - 4 BY <1>1, <3>3, <3>4, FrameTypes
    <3>6. ~ (k > m) BY <1>7, <1>5, <3>1, <3>4, <3>5
    <3>7. k \in Bodies' /\ k \in 1 .. m BY <1>2, <3>4, <3>6
    <3> QED BY <1>2, <3>3, <3>7
  <2> QED BY <2>1, <2>2, <2>3, <2>4, <2>5, <2>6 DEF Laid
<1>15. /\ \A k \in 0 .. m : LexAt(k)' = LexAt(k) /\ Low(k)' = Low(k)
       /\ \A k \in 0 .. m : \A lex : Live(lex, k)' = Live(lex, k)
       /\ \A k \in 0 .. m : \A w : Bound(w, k)' = Bound(w, k)
  BY <1>2, SameFrames
<1>16. \A k \in 1 .. m : k \in 0 .. m /\ k - 1 \in 0 .. m OBVIOUS
<1>17. Lexical'
  <2>1. TextsLive'
    <3>1. \A k \in 1 .. m : Live(ctl[k].lex, k) BY <1>1, <1>2 DEF Lexical, TextsLive
    <3>2. \A k \in 1 .. m : \A lex : Live(lex, k)' = Live(lex, k) BY <1>15, <1>16
    <3>3. \A k \in 1 .. m : Live(ctl[k].lex, k)' BY <1>2, <3>1, <3>2
    <3> QED BY <1>2, <3>3 DEF TextsLive
  <2>2. TextsOfBodies' BY <1>1, <1>13 DEF Lexical, TextsOfBodies
  <2>3. TextsOfCatchers'
    <3> SUFFICES ASSUME NEW k \in Catchers'
                 PROVE  ctl'[k].lex = LexAt(k - 1)' /\ (k > 1 => ctl'[k - 1].kind = "op")
      BY DEF TextsOfCatchers
    <3>1. k \in Catchers /\ k \in 1 .. m /\ ctl'[k] = ctl[k] BY <1>2
    <3>2. LexAt(k - 1)' = LexAt(k - 1) BY <1>15, <1>16, <3>1
    <3>3. k > 1 => k - 1 \in 1 .. m BY <3>1
    <3> QED BY <1>1, <1>2, <3>1, <3>2, <3>3 DEF Lexical, TextsOfCatchers
  <2>4. ParamsBound'
    <3> SUFFICES ASSUME NEW k \in Bodies', ctl'[k].op \in Trs PROVE Bound(stk[ctl[k].base][3], k)'
      BY DEF ParamsBound
    <3>1. k \in Bodies /\ k \in 1 .. m /\ ctl'[k] = ctl[k] /\ ctl[k].base \in 1 .. t BY <1>13
    <3>2. stk'[ctl[k].base] = stk[ctl[k].base] BY <1>7, <3>1
    <3>3. Bound(stk[ctl[k].base][3], k) BY <1>1, <3>1 DEF Lexical, ParamsBound
    <3>4. \A w : Bound(w, k)' = Bound(w, k) BY <1>15, <1>16, <3>1
    <3> QED BY <3>1, <3>2, <3>3, <3>4
  <2>5. FnBound' BY DEF FnBound
  <2>6. NullsAreLow'
    <3>1. \A k \in 1 .. m : ctl'[k].kind = "op" /\ ctl'[k].senv = <<>> => Low(k - 1)'
      BY <1>1, <1>2, <1>15, <1>16 DEF Lexical, NullsAreLow
    <3>2. \A k \in 1 .. m : ctl'[k].kind = "closure" =>
            ctl'[k].syms # <<>> /\ (ctl'[k].svenv = <<>> => Low(k - 1)')
      BY <1>1, <1>2, <1>15, <1>16 DEF Lexical, NullsAreLow
    <3>3. env' = <<>> => Low(Len(ctl))' BY <1>2, <1>15
    <3> QED BY <1>2, <3>1, <3>2, <3>3 DEF NullsAreLow
  <2> QED BY <2>1, <2>2, <2>3, <2>4, <2>5, <2>6 DEF Lexical
<1>18. NeverAstray' BY DEF NeverAstray, Running
<1> QED BY <1>11, <1>12, <1>14, <1>17, <1>18 DEF IInv

LEMMA PoppedScopes ==
  ASSUME IInv, Running, ~thrown, NEW m \in Nat, Len(ctl) = m + 1, ctl' = SubSeq(ctl, 1, m), fn' = none,
         \A i \in 1 .. Floor(m + 1) : stk'[i] = stk[i],
         env' = EnvAt(m),
         \A s \in Ops : sp'[s] = IF Saves(m + 1, s) THEN SavedFor(m + 1, s) ELSE sp[s]
  PROVE  Scopes'
<1>1. Types /\ Parts /\ Laid /\ Scopes BY DEF IInv
<1>2. /\ m + 1 \in DOMAIN ctl /\ DOMAIN ctl = 1 .. m + 1 /\ m < Len(ctl)
      /\ Len(ctl') = m /\ DOMAIN ctl' = 1 .. m
      /\ \A k \in 1 .. m : k \in DOMAIN ctl /\ ctl'[k] = ctl[k]
      /\ Bodies' = {k \in Bodies : k <= m}
      /\ \A k \in Bodies \cup Catchers : k \in DOMAIN ctl
  <2>1. m < Len(ctl) OBVIOUS
  <2> QED BY <1>1, <2>1, Shrunk
<1>3. /\ \A k \in 0 .. m : EnvAt(k)' = EnvAt(k)
      /\ \A k \in 1 .. m : \A s : Saves(k, s)' = Saves(k, s)
  BY <1>2, SameFrames
<1>4. \A k \in 1 .. m : k \in 0 .. m /\ k - 1 \in 0 .. m OBVIOUS
<1>5. \A k \in 1 .. m : /\ Ceil(k) <= Floor(m + 1) /\ 0 <= Floor(k)
                        /\ Floor(k) \in Int /\ Ceil(k) \in Int /\ Floor(m + 1) \in Int
  <2> TAKE k \in 1 .. m
  <2>1. k < m + 1 /\ k \in DOMAIN ctl BY <1>2
  <2> QED BY <1>1, <1>2, <2>1, FrameTypes DEF Parts, PartsSized, PartsInOrder
<1>6. \A k \in DOMAIN ctl : DOMAIN ctl[k].lex \subseteq Ops BY <1>1, FrameTypes DEF Lexes
<1>7. EnvsRight'
  <2>1. ASSUME NEW k \in 1 .. m
        PROVE  /\ ctl'[k].kind = "op" => ctl'[k].senv = EnvAt(k - 1)'
               /\ ctl'[k].kind = "closure" => ctl'[k].svenv = EnvAt(k - 1)'
               /\ DOMAIN ctl'[k].lex = Range(EnvAt(k)')
    BY <1>1, <1>2, <1>3, <1>4 DEF Scopes, EnvsRight
  <2>2. env' = EnvAt(Len(ctl))' BY <1>2, <1>3
  <2> QED BY <1>2, <2>1, <2>2 DEF EnvsRight
<1>8. Current'
  <2> SUFFICES ASSUME NEW k \in 1 .. m, NEW s \in DOMAIN ctl'[k].lex,
                      \A j \in 1 .. m : j > k => ~Saves(j, s)'
               PROVE  sp'[s] = ctl'[k].lex[s]
    BY <1>2 DEF Current
  <2>1. k \in DOMAIN ctl /\ ctl'[k] = ctl[k] /\ s \in DOMAIN ctl[k].lex /\ s \in Ops BY <1>2, <1>6
  <2>2. \A j \in 1 .. m : j > k => ~Saves(j, s) BY <1>3
  <2>3. CASE Saves(m + 1, s)
    <3>1. FirstSaves(m + 1, k, s)
      <4>1. \A i \in DOMAIN ctl : i < m + 1 => i \in 1 .. m BY <1>2
      <4> QED BY <1>2, <2>2, <2>3, <4>1 DEF FirstSaves
    <3>2. SavedFor(m + 1, s) = ctl[k].lex[s] BY <1>1, <1>2, <2>1, <3>1 DEF Scopes, SavedRight
    <3> QED BY <2>1, <2>3, <3>2
  <2>4. CASE ~Saves(m + 1, s)
    <3>1. \A j \in DOMAIN ctl : j > k => ~Saves(j, s)
      <4>1. \A j \in DOMAIN ctl : j = m + 1 \/ j \in 1 .. m BY <1>2
      <4> QED BY <2>2, <2>4, <4>1
    <3>2. sp[s] = ctl[k].lex[s] BY <1>1, <2>1, <3>1 DEF Scopes, Current
    <3> QED BY <2>1, <2>4, <3>2
  <2> QED BY <2>3, <2>4
<1>9. SavedRight'
  <2> SUFFICES ASSUME NEW j \in 1 .. m, NEW k \in 1 .. m, NEW s \in DOMAIN ctl'[k].lex,
                      FirstSaves(j, k, s)'
               PROVE  SavedFor(j, s)' = ctl'[k].lex[s]
    BY <1>2 DEF SavedRight
  <2>1. /\ k \in DOMAIN ctl /\ j \in DOMAIN ctl /\ ctl'[k] = ctl[k] /\ ctl'[j] = ctl[j]
        /\ s \in DOMAIN ctl[k].lex
    BY <1>2
  <2>2. FirstSaves(j, k, s)
    <3>1. k < j /\ Saves(j, s)' /\ \A i \in 1 .. m : k < i /\ i < j => ~Saves(i, s)'
      BY <1>2 DEF FirstSaves
    <3>2. \A i \in DOMAIN ctl : i < j => i \in 1 .. m BY <1>2
    <3> QED BY <1>3, <3>1, <3>2 DEF FirstSaves
  <2>3. SavedFor(j, s) = ctl[k].lex[s] BY <1>1, <2>1, <2>2 DEF Scopes, SavedRight
  <2>4. PICK i \in Nat : /\ Floor(j) < i /\ i <= Ceil(j)
                         /\ SavedFor(j, s) = stk[i][2] /\ SavedFor(j, s)' = stk'[i][2]
    BY <1>1, <2>1, <2>2, SavedPlace DEF FirstSaves
  <2>5. i \in 1 .. Floor(m + 1) BY <1>5, <2>4
  <2> QED BY <2>1, <2>3, <2>4, <2>5
<1>10. ClosuresAgree'
  <2> SUFFICES ASSUME NEW k \in Bodies', ctl'[k].op \in Trs PROVE Agrees(stk'[ctl'[k].base][3])
    BY DEF ClosuresAgree, Agrees
  <2>1. k \in Bodies /\ k \in 1 .. m /\ ctl'[k] = ctl[k] /\ ctl[k].kind = "op" /\ k \in DOMAIN ctl
    BY <1>2 DEF Bodies
  <2>2. ctl[k].base \in 1 .. Floor(m + 1) BY <1>1, <1>5, <2>1, FrameTypes
  <2>3. stk'[ctl[k].base] = stk[ctl[k].base] BY <2>2
  <2> QED BY <1>1, <2>1, <2>3 DEF Scopes, ClosuresAgree
<1> QED BY <1>7, <1>8, <1>9, <1>10 DEF Scopes

LEMMA ReturnStep ==
  ASSUME IInv, Return
  PROVE  IInv'
<1>1. /\ Types /\ Parts /\ Laid /\ Nesting /\ Lexical /\ (~thrown => Scopes)
      /\ Running /\ fn = none /\ ctl # <<>> /\ Frame.kind = "op" /\ Temps = 1
  BY DEF IInv, Return, Evaluating
<1>m. PICK m : m = Len(ctl) - 1 OBVIOUS
<1>b. PICK b : b = Frame.base OBVIOUS
<1>2. /\ m \in Nat /\ m + 1 = Len(ctl) /\ m < Len(ctl) /\ m + 1 \in DOMAIN ctl
      /\ Frame = ctl[m + 1] /\ DOMAIN ctl = 1 .. m + 1
      /\ ctl[m + 1].op \in Ops /\ ctl[m + 1].senv \in Seq(Ops)
      /\ b \in Nat /\ Floor(m + 1) = b - 4 /\ Floor(m + 1) \in Int
  BY <1>1, <1>m, <1>b, FrameTypes
<1>3. /\ b - 4 \in Nat /\ Len(stk) = b + 1 /\ Last(stk) \in Value /\ Last(stk) \in Words
      /\ stk \in Seq(Words)
  <2>1. /\ Temps = Len(stk) - b /\ Len(stk) \in Nat /\ \A i \in b + 1 .. Len(stk) : stk[i] \in Value
    <3>1. Evaluating BY DEF Return
    <3> QED BY <1>1, <1>b, <1>2, <3>1, FrameTypes, Temporaries
  <2>2. Len(stk) = b + 1 BY <1>1, <1>2, <2>1
  <2>3. stk[Len(stk)] \in Value BY <1>2, <2>1, <2>2
  <2>4. 0 <= Floor(m + 1) BY <1>1, <1>2 DEF Parts, PartsSized
  <2>5. Last(stk) = stk[Len(stk)] BY DEF Last
  <2> QED BY <1>1, <1>2, <2>2, <2>3, <2>4, <2>5, ValueTypes DEF Types
<1>4. /\ stk' = Append(SubSeq(stk, 1, b - 4), Last(stk))
      /\ sp' = [sp EXCEPT ![Head(env)] = stk[b - 1][2]]
      /\ env' = ctl[m + 1].senv /\ ctl' = SubSeq(ctl, 1, m) /\ pc' = pc /\ fn' = none
      /\ UNCHANGED <<catchbuf, thrown, cuts>>
  BY <1>2, <1>b, <1>m DEF Return, Leave
<1>5. /\ stk' \in Seq(Words) /\ Len(stk') = Floor(m + 1) + 1
      /\ \A i \in 1 .. Floor(m + 1) : stk'[i] = stk[i]
      /\ stk'[Len(stk')] \in Value
  <2>1. b - 4 \in 0 .. Len(stk) BY <1>2, <1>3
  <2>2. /\ stk' \in Seq(Words) /\ Len(stk') = (b - 4) + 1 /\ stk'[(b - 4) + 1] = Last(stk)
        /\ \A i \in 1 .. b - 4 : stk'[i] = stk[i]
    BY <1>3, <1>4, <2>1, SeqCut
  <2> QED BY <1>2, <1>3, <2>2
<1>6. stk[b - 1][2] \in Int
  <2>1. m + 1 \in Bodies BY <1>1, <1>2 DEF Bodies
  <2>2. stk[b - 1][1] = "sp" BY <1>1, <1>2, <1>b, <2>1 DEF Laid, RecordsLaid
  <2>3. b - 1 \in DOMAIN stk BY <1>1, <1>2, <1>3, FrameTypes
  <2>4. stk[b - 1] \in Words BY <1>1, <2>3, FrameTypes
  <2> QED BY <2>2, <2>4, SpTypes
<1>7. sp \in [Ops -> Int] BY <1>1 DEF Types
<1>8. sp' \in [Ops -> Int] BY <1>4, <1>6, <1>7
<1>9. env' \in Seq(Ops) /\ catchbuf' \in {Dead} \cup Nat /\ thrown' \in BOOLEAN
  BY <1>1, <1>2, <1>4 DEF Types
<1>10. env' = <<>> => Low(m)
  <2>1. env' = <<>> => Low((m + 1) - 1) BY <1>1, <1>2, <1>4 DEF Lexical, NullsAreLow
  <2>2. (m + 1) - 1 = m BY <1>2
  <2> QED BY <2>1, <2>2
<1>11. Nesting'
  <2>1. \A k \in Catchers : k <= m
    <3> TAKE k \in Catchers
    <3>1. k \in 1 .. m + 1 /\ k # m + 1 BY <1>1, <1>2 DEF Catchers
    <3> QED BY <1>2, <3>1
  <2> QED BY <1>1, <1>2, <1>4, <2>1, PoppedNesting
<1>12. ~thrown' => Scopes'
  <2> SUFFICES ASSUME ~thrown PROVE Scopes' BY <1>4
  <2>1. env = EnvAt(m + 1) /\ ctl[m + 1].senv = EnvAt((m + 1) - 1)
    BY <1>1, <1>2 DEF Scopes, EnvsRight
  <2>2. (m + 1) - 1 = m /\ m + 1 # 0 BY <1>2
  <2>3. env' = EnvAt(m) BY <1>4, <2>1, <2>2
  <2>4. env = Env(ctl[m + 1].op) BY <1>1, <1>2, <2>1, <2>2 DEF EnvAt
  <2>5. Head(env) = ctl[m + 1].op BY <1>2, <2>4, EnvOfText
  <2>6. \A s \in Ops : Saves(m + 1, s) <=> s = ctl[m + 1].op BY <1>1, <1>2 DEF Saves
  <2>7. \A s \in Ops : SavedFor(m + 1, s) = stk[b - 1][2] BY <1>1, <1>2, <1>b DEF SavedFor
  <2>8. \A s \in Ops : sp'[s] = IF Saves(m + 1, s) THEN SavedFor(m + 1, s) ELSE sp[s]
    BY <1>2, <1>4, <1>7, <2>5, <2>6, <2>7
  <2>9. Len(ctl) = m + 1 BY <1>2
  <2> QED BY <1>1, <1>2, <1>4, <1>5, <2>3, <2>8, <2>9, PoppedScopes
<1> QED BY <1>1, <1>2, <1>4, <1>5, <1>8, <1>9, <1>10, <1>11, <1>12, PoppedStep

LEMMA ReturnCatchStep ==
  ASSUME IInv, ReturnCatch
  PROVE  IInv'
<1>1. /\ Types /\ Parts /\ Laid /\ Nesting /\ Lexical /\ (~thrown => Scopes)
      /\ Running /\ fn = none /\ ctl # <<>> /\ Frame.kind = "catch" /\ Waiting
  BY DEF IInv, ReturnCatch, Returning, Waiting
<1>m. PICK m : m = Len(ctl) - 1 OBVIOUS
<1>2. /\ m \in Nat /\ m + 1 = Len(ctl) /\ m < Len(ctl) /\ m + 1 \in DOMAIN ctl
      /\ Frame = ctl[m + 1] /\ DOMAIN ctl = 1 .. m + 1
      /\ ctl[m + 1].kind = "catch" /\ ctl[m + 1].prev \in {Dead} \cup Nat
      /\ Floor(m + 1) = Ceil(m + 1) /\ Floor(m + 1) \in Int
  BY <1>1, <1>m, FrameTypes
<1>3. /\ ctl' = SubSeq(ctl, 1, m) /\ pc' = pc /\ fn' = none /\ catchbuf' = ctl[m + 1].prev
      /\ UNCHANGED <<stk, sp, env, thrown, cuts>>
  BY <1>2, <1>m DEF ReturnCatch, Leave
<1>4. /\ stk' \in Seq(Words) /\ Len(stk') = Floor(m + 1) + 1
      /\ \A i \in 1 .. Floor(m + 1) : stk'[i] = stk[i]
      /\ stk'[Len(stk')] \in Value
  <2>1. Ceil(m + 1) = Len(stk) - 1 BY <1>1, <1>2 DEF Parts, PartsWait
  <2>2. Len(stk) \in Nat /\ stk[Len(stk)] \in Value BY <1>1, ArgumentOnTop
  <2> QED BY <1>1, <1>2, <1>3, <2>1, <2>2 DEF Types
<1>5. /\ sp' \in [Ops -> Int] /\ env' \in Seq(Ops) /\ catchbuf' \in {Dead} \cup Nat
      /\ thrown' \in BOOLEAN
  BY <1>1, <1>2, <1>3 DEF Types
<1>6. env' = <<>> => Low(m)
  <2>1. env' = <<>> => Low(m + 1) BY <1>1, <1>2, <1>3 DEF Lexical, NullsAreLow
  <2>2. Low(m + 1) => m = 0 BY <1>2 DEF Low
  <2> QED BY <2>1, <2>2 DEF Low
<1>7. Nesting'
  <2>1. m + 1 \in Catchers BY <1>2 DEF Catchers
  <2> QED BY <1>1, <1>2, <1>3, <2>1, PoppedNesting
<1>8. ~thrown' => Scopes'
  <2> SUFFICES ASSUME ~thrown PROVE Scopes' BY <1>3
  <2>1. env = EnvAt(m + 1) BY <1>1, <1>2 DEF Scopes, EnvsRight
  <2>2. EnvAt(m + 1) = EnvAt(m)
    <3>1. CASE m = 0 BY <1>2, <3>1 DEF EnvAt
    <3>2. CASE m # 0
      <4>1. m + 1 > 1 /\ (m + 1) - 1 = m /\ m + 1 # 1 /\ m + 1 # 0 BY <1>2, <3>2
      <4>2. m + 1 \in Catchers BY <1>2 DEF Catchers
      <4>3. ctl[m].kind = "op" BY <1>1, <4>1, <4>2 DEF Lexical, TextsOfCatchers
      <4> QED BY <1>2, <3>2, <4>1, <4>3 DEF EnvAt
    <3> QED BY <3>1, <3>2
  <2>3. env' = EnvAt(m) BY <1>3, <2>1, <2>2
  <2>4. \A s \in Ops : ~Saves(m + 1, s) BY <1>2 DEF Saves
  <2>5. \A s \in Ops : sp'[s] = IF Saves(m + 1, s) THEN SavedFor(m + 1, s) ELSE sp[s]
    BY <1>3, <2>4
  <2>6. Len(ctl) = m + 1 BY <1>2
  <2> QED BY <1>1, <1>2, <1>3, <1>4, <2>3, <2>5, <2>6, PoppedScopes
<1> QED BY <1>1, <1>2, <1>3, <1>4, <1>5, <1>6, <1>7, <1>8, PoppedStep

LEMMA ReturnClosureStep ==
  ASSUME IInv, ReturnClosure
  PROVE  IInv'
<1>1. /\ Types /\ Parts /\ Laid /\ Nesting /\ Lexical /\ (~thrown => Scopes)
      /\ Running /\ fn = none /\ ctl # <<>> /\ Frame.kind = "closure" /\ Waiting
  BY DEF IInv, ReturnClosure, Returning, Waiting
<1>m. PICK m : m = Len(ctl) - 1 OBVIOUS
<1>y. PICK y, fl : y = Frame.syms /\ fl = Frame.floor OBVIOUS
<1>2. /\ m \in Nat /\ m + 1 = Len(ctl) /\ m < Len(ctl) /\ m + 1 \in DOMAIN ctl
      /\ Frame = ctl[m + 1] /\ DOMAIN ctl = 1 .. m + 1
      /\ ctl[m + 1].kind = "closure" /\ ctl[m + 1].svenv \in Seq(Ops)
      /\ y \in Seq(Ops) /\ Len(y) \in Nat /\ fl \in Nat
      /\ Floor(m + 1) = fl /\ Ceil(m + 1) = fl + Len(y)
  BY <1>1, <1>m, <1>y, FrameTypes
<1>3. /\ Len(stk) \in Nat /\ Len(stk) = fl + Len(y) + 1 /\ stk \in Seq(Words)
      /\ Last(stk) \in Value /\ Last(stk) \in Words
  <2>1. Ceil(m + 1) = Len(stk) - 1 BY <1>1, <1>2 DEF Parts, PartsWait
  <2>2. Len(stk) \in Nat /\ Last(stk) \in Value /\ Last(stk) \in Words BY <1>1, ArgumentOnTop
  <2> QED BY <1>1, <1>2, <2>1, <2>2 DEF Types
<1>q. PICK q : q = [i \in DOMAIN y |-> stk[fl + i][2]] OBVIOUS
<1>4. /\ stk' = Append(SubSeq(stk, 1, fl), Last(stk)) /\ sp' = Install(y, q)
      /\ env' = ctl[m + 1].svenv /\ ctl' = SubSeq(ctl, 1, m) /\ pc' = pc /\ fn' = none
      /\ UNCHANGED <<catchbuf, thrown, cuts>>
  <2>1. Len(stk) - Len(y) - 1 = fl BY <1>2, <1>3
  <2>2. ReturnClosure OBVIOUS
  <2>3. /\ stk' = Append(SubSeq(stk, 1, Len(stk) - Len(y) - 1), Last(stk))
        /\ sp' = Install(y, [i \in DOMAIN y |-> stk[Len(stk) - Len(y) - 1 + i][2]])
        /\ env' = Frame.svenv /\ Leave(Len(ctl) - 1) /\ UNCHANGED <<catchbuf, thrown, cuts>>
    BY <1>y, <2>2 DEF ReturnClosure
  <2> QED BY <1>2, <1>m, <1>q, <2>1, <2>3 DEF Leave
<1>5. /\ stk' \in Seq(Words) /\ Len(stk') = Floor(m + 1) + 1
      /\ \A i \in 1 .. Floor(m + 1) : stk'[i] = stk[i]
      /\ stk'[Len(stk')] \in Value
  <2>1. fl \in 0 .. Len(stk) BY <1>2, <1>3
  <2>2. /\ stk' \in Seq(Words) /\ Len(stk') = fl + 1 /\ stk'[fl + 1] = Last(stk)
        /\ \A i \in 1 .. fl : stk'[i] = stk[i]
    BY <1>3, <1>4, <2>1, SeqCut
  <2> QED BY <1>2, <1>3, <2>2
<1>6. \A i \in DOMAIN y : q[i] \in Int
  <2> TAKE i \in DOMAIN y
  <2>1. i \in 1 .. Len(y) BY <1>2, SeqTyped
  <2>2. stk[fl + i][1] = "sp" BY <1>1, <1>2, <1>y, <2>1 DEF Laid, SavedLaid
  <2>3. fl + i \in 1 .. Len(stk) BY <1>2, <1>3, <2>1
  <2>4. stk[fl + i] \in Words BY <1>3, <2>3, SeqTyped
  <2> QED BY <1>q, <2>2, <2>4, SpTypes
<1>7. sp \in [Ops -> Int] BY <1>1 DEF Types
<1>8. /\ sp' \in [Ops -> Int]
      /\ \A s \in Ops \ Range(y) : sp'[s] = sp[s]
      /\ \A s \in Range(y) : LET i == CHOOSE i \in DOMAIN y : y[i] = s
                             IN i \in 1 .. Len(y) /\ y[i] = s /\ sp'[s] = q[i]
  <2>1. y \in Seq(Ops) BY <1>2
  <2>2. /\ Install(y, q) \in [Ops -> Int]
        /\ \A s \in Ops \ Range(y) : Install(y, q)[s] = sp[s]
        /\ \A s \in Range(y) : LET i == CHOOSE i \in DOMAIN y : y[i] = s
                               IN i \in 1 .. Len(y) /\ y[i] = s /\ Install(y, q)[s] = q[i]
    BY ZenonT(40), <1>6, <1>7, <2>1, Installed
  <2> QED BY <1>4, <2>2
<1>9. env' \in Seq(Ops) /\ catchbuf' \in {Dead} \cup Nat /\ thrown' \in BOOLEAN
  BY <1>1, <1>2, <1>4 DEF Types
<1>10. env' = <<>> => Low(m)
  <2>1. env' = <<>> => Low((m + 1) - 1) BY <1>1, <1>2, <1>4 DEF Lexical, NullsAreLow
  <2>2. (m + 1) - 1 = m BY <1>2
  <2> QED BY <2>1, <2>2
<1>11. Nesting'
  <2>1. \A k \in Catchers : k <= m
    <3> TAKE k \in Catchers
    <3>1. k \in 1 .. m + 1 /\ k # m + 1 BY <1>1, <1>2 DEF Catchers
    <3> QED BY <1>2, <3>1
  <2> QED BY <1>1, <1>2, <1>4, <2>1, PoppedNesting
<1>12. ~thrown' => Scopes'
  <2> SUFFICES ASSUME ~thrown PROVE Scopes' BY <1>4
  <2>1. ctl[m + 1].svenv = EnvAt((m + 1) - 1) BY <1>1, <1>2 DEF Scopes, EnvsRight
  <2>2. (m + 1) - 1 = m BY <1>2
  <2>3. env' = EnvAt(m) BY <1>4, <2>1, <2>2
  <2>4. \A s : Saves(m + 1, s) <=> s \in Range(y) BY <1>2, <1>y DEF Saves
  <2>5. \A s \in Ops : sp'[s] = IF Saves(m + 1, s) THEN SavedFor(m + 1, s) ELSE sp[s]
    <3> TAKE s \in Ops
    <3>1. CASE s \notin Range(y) BY <1>8, <2>4, <3>1
    <3>2. CASE s \in Range(y)
      <4>1. PICK i : i = CHOOSE j \in DOMAIN y : y[j] = s OBVIOUS
      <4>2. i \in 1 .. Len(y) /\ sp'[s] = q[i] BY <1>8, <3>2, <4>1
      <4>3. SavedFor(m + 1, s) = stk[fl + i][2] BY <1>2, <1>y, <4>1 DEF SavedFor
      <4>4. i \in DOMAIN y BY <1>2, <4>2, SeqTyped
      <4> QED BY <1>q, <2>4, <3>2, <4>2, <4>3, <4>4
    <3> QED BY <3>1, <3>2
  <2>6. Len(ctl) = m + 1 BY <1>2
  <2> QED BY <1>1, <1>2, <1>4, <1>5, <2>3, <2>5, <2>6, PoppedScopes
<1> QED BY <1>1, <1>2, <1>4, <1>5, <1>8, <1>9, <1>10, <1>11, <1>12, PoppedStep

LEMMA ThrowStep ==
  ASSUME IInv, Throw
  PROVE  IInv'
<1>1. /\ Types /\ Parts /\ Laid /\ Nesting /\ Lexical
      /\ Evaluating /\ Running /\ Temps > 0
  BY DEF IInv, Throw, Evaluating
<1>2. CASE catchbuf = 0 /\ stk' = Append(Front(stk), Fault) /\ Quiet
  BY <1>1, <1>2, MadeWords, ReplaceTop
<1>3. CASE catchbuf = Dead /\ Astray BY <1>3, AstrayStep
<1>4. CASE catchbuf > 0 /\ ThrowTo(catchbuf)
  <2>1. PICK c \in Nat : c = catchbuf /\ c > 0 BY <1>1, <1>4 DEF Types, Dead
  <2>m. PICK m : m = c - 1 OBVIOUS
  <2>2. c \in Catchers /\ c <= Len(ctl) /\ ctl[c].kind = "catch" /\ c \in DOMAIN ctl
    BY <1>1, <2>1 DEF Nesting, Nearest, Catchers, Dead
  <2>3. /\ m \in Nat /\ m + 1 = c /\ m < Len(ctl) /\ Len(ctl) \in Nat
        /\ ctl[c].prev \in {Dead} \cup Nat /\ ctl[c].arg_stack \in Nat
        /\ Floor(c) = ctl[c].arg_stack /\ Ceil(c) = ctl[c].arg_stack
    BY <1>1, <2>1, <2>2, <2>m, FrameTypes
  <2>4. PICK a : a = ctl[c].arg_stack OBVIOUS
  <2>5. /\ stk' = Append(SubSeq(stk, 1, a), Last(stk)) /\ catchbuf' = ctl[m + 1].prev
        /\ ctl' = SubSeq(ctl, 1, m) /\ pc' = pc /\ fn' = none /\ thrown' = TRUE
        /\ UNCHANGED <<sp, env>>
    BY <1>4, <2>1, <2>3, <2>4, <2>m DEF ThrowTo, Leave
  <2>6. Len(stk) \in Nat /\ Len(stk) > 0 /\ a <= Len(stk) /\ stk \in Seq(Words)
    BY SMTT(30), <1>1, <2>2, <2>3, <2>4, Temporaries, FrameTypes DEF Parts, PartsSized, Types
  <2>7. Last(stk) \in Value /\ Last(stk) \in Words
    <3>1. PICK b : b = IF ctl = <<>> THEN 0 ELSE Frame.base OBVIOUS
    <3>2. b \in Nat /\ Temps = Len(stk) - b /\ \A i \in b + 1 .. Len(stk) : stk[i] \in Value
      BY <1>1, <3>1, Temporaries
    <3>3. Len(stk) \in b + 1 .. Len(stk) BY <1>1, <2>6, <3>2
    <3> QED BY <3>2, <3>3, ValueTypes DEF Last
  <2>8. /\ stk' \in Seq(Words) /\ Len(stk') = Floor(m + 1) + 1
        /\ \A i \in 1 .. Floor(m + 1) : stk'[i] = stk[i]
        /\ stk'[Len(stk')] \in Value
    <3>1. a \in 0 .. Len(stk) BY <2>3, <2>4, <2>6
    <3>2. /\ stk' \in Seq(Words) /\ Len(stk') = a + 1 /\ stk'[a + 1] = Last(stk)
          /\ \A i \in 1 .. a : stk'[i] = stk[i]
      BY <2>5, <2>6, <2>7, <3>1, SeqCut
    <3> QED BY <2>3, <2>4, <2>7, <3>2
  <2>9. /\ sp' \in [Ops -> Int] /\ env' \in Seq(Ops) /\ catchbuf' \in {Dead} \cup Nat
        /\ thrown' \in BOOLEAN
    BY <1>1, <2>3, <2>5 DEF Types
  <2>10. env' = <<>> => Low(m)
    <3>1. env' = <<>> => Low(Len(ctl)) BY <1>1, <2>5 DEF Lexical, NullsAreLow
    <3>2. Low(Len(ctl)) => m = 0 BY <2>3 DEF Low
    <3> QED BY <3>1, <3>2 DEF Low
  <2>11. Nesting' BY <1>1, <2>2, <2>3, <2>5, PoppedNesting
  <2> QED BY <1>1, <2>3, <2>5, <2>8, <2>9, <2>10, <2>11, PoppedStep
<1> QED BY <1>2, <1>3, <1>4 DEF Throw

LEMMA Preserved == IInv /\ [Next]_vars => IInv'
<1> SUFFICES ASSUME IInv, [Next]_vars PROVE IInv' OBVIOUS
<1>1. CASE UNCHANGED vars
  <2>1. /\ stk' = stk /\ sp' = sp /\ env' = env /\ ctl' = ctl /\ fn' = fn /\ catchbuf' = catchbuf
        /\ pc' = pc /\ thrown' = thrown /\ cuts' = cuts
    BY <1>1 DEF vars
  <2>2. Types'
    BY <2>1 DEF IInv, Types, OpFrames, ClosureFrames, CatchFrames, Words, Value, Given, Flat, Closure,
       Lexes
  <2>3. Parts' = Parts /\ Laid' = Laid
    BY <2>1 DEF Parts, PartsSized, PartsInOrder, PartsMeet, PartsWait, Laid, RecordsLaid, SavedLaid,
       TempsLaid, LineLaid, TopLaid, CellsLaid, Floor, Ceil, Waiting, Frame, Last, Bodies, Value
  <2>4. Nesting' = Nesting BY <2>1 DEF Nesting, Nearest, Catchers
  <2>5. Lexical' = Lexical
    BY <2>1 DEF Lexical, TextsLive, TextsOfBodies, TextsOfCatchers, ParamsBound, FnBound, NullsAreLow,
       Live, Bound, LexAt, Low, Lex, Frame, Last, Bodies, Catchers
  <2>6. Scopes' = Scopes
    BY <2>1 DEF Scopes, EnvsRight, Current, SavedRight, ClosuresAgree, EnvAt, Saves, SavedFor, FirstSaves,
       Bodies
  <2>7. NeverAstray' = NeverAstray BY <2>1 DEF NeverAstray
  <2> QED BY <2>1, <2>2, <2>3, <2>4, <2>5, <2>6, <2>7 DEF IInv, Running
<1>2. ASSUME NEW v \in Vals, PushConst(v) PROVE IInv' BY <1>2, PushConstStep
<1>3. ASSUME NEW s \in Ops, ReadVar(s) PROVE IInv' BY <1>3, ReadVarStep
<1>4. ASSUME NEW s \in Ops, SetVar(s) PROVE IInv' BY <1>4, SetVarStep
<1>5. ASSUME Evaluating, NEW o \in Applied, Apply(o) PROVE IInv' BY <1>5, ApplyStep
<1>6. CASE Discard BY <1>6, DiscardStep
<1>7. CASE ApplyName BY <1>7, ApplyNameStep
<1>8. CASE ApplyParam BY <1>8, ApplyParamStep
<1>9. CASE ApplyTransform BY <1>9, ApplyTransformStep
<1>10. CASE ApplyClosure BY <1>10, ApplyClosureStep
<1>11. CASE ApplyCatch BY <1>11, ApplyCatchStep
<1>12. CASE Return BY <1>12, ReturnStep
<1>13. CASE ReturnClosure BY <1>13, ReturnClosureStep
<1>14. CASE ReturnCatch BY <1>14, ReturnCatchStep
<1>15. CASE Throw BY <1>15, ThrowStep
<1>16. CASE NextLine BY <1>16, NextLineStep
<1>17. CASE Jump BY <1>17, JumpStep
<1> QED
  BY <1>1, <1>2, <1>3, <1>4, <1>5, <1>6, <1>7, <1>8, <1>9, <1>10, <1>11, <1>12, <1>13, <1>14, <1>15,
     <1>16, <1>17 DEF Next

(* The inductive invariant holds in every state that can be reached.         *)
THEOREM Invariance == Spec => []IInv
BY InitIInv, Preserved, PTL DEF Spec

-----------------------------------------------------------------------------
(* While no throw was caught, the environment and the stack pointers are     *)
(* those the text means, and no word that is no variable is used as one      *)
(* unless a throw was caught or a jump left ct_current_jmp_buf: setup_env,   *)
(* prologue and epilogue for every program.                                  *)
THEOREM ScopesAreRight == Spec => []ScopesAgree
<1>1. ASSUME IInv, Running, ~thrown PROVE Scoped
  <2>1. Types /\ Scopes BY <1>1 DEF IInv
  <2>2. \A s \in DOMAIN Lex : sp[s] = Lex[s] BY <1>1, Found
  <2>3. Range(env) = DOMAIN Lex
    <3>1. CASE ctl = <<>>
      <4>1. env = <<>> BY <2>1, <3>1, SeqEmpty DEF Scopes, EnvsRight, EnvAt
      <4> QED BY <2>1, <3>1, <4>1, SeqEmpty, LexTypes
    <3>2. CASE ctl # <<>>
      <4>1. Len(ctl) \in DOMAIN ctl /\ Frame = ctl[Len(ctl)] BY <2>1, <3>2, FrameTypes
      <4>2. Lex = ctl[Len(ctl)].lex BY <3>2, <4>1 DEF Lex
      <4> QED BY <2>1, <4>1, <4>2 DEF Scopes, EnvsRight
    <3> QED BY <3>1, <3>2
  <2> QED BY <2>2, <2>3 DEF Scoped
<1>2. IInv => ScopesAgree BY <1>1 DEF IInv, ScopesAgree
<1> QED BY <1>2, Invariance, PTL

LEMMA NearestIsInnermost ==
  ASSUME Types, NEW c \in Nat, NEW n \in Nat, Nearest(c, n)
  PROVE  c = Innermost(n)
<1> DEFINE S == {0} \cup {k \in Catchers : k <= n}
<1>1. \A k \in Catchers : k \in Nat /\ k >= 1 BY FrameTypes DEF Catchers
<1>2. c \in S BY DEF Nearest
<1>3. \A x \in S : c >= x /\ x \in Nat BY <1>1 DEF Nearest
<1>4. c = Max(S)
  <2> HIDE DEF S
  <2>1. PICK d : d = Max(S) OBVIOUS
  <2>2. d \in S /\ \A y \in S : d >= y BY <1>2, <1>3, <2>1 DEF Max
  <2> QED BY <1>2, <1>3, <2>1, <2>2
<1> QED BY <1>4 DEF Innermost

(* The records of the calls under way are whole and in their order, and the  *)
(* catch buffers nest, also after any number of throws: what epilogue,       *)
(* icatch and throw rely on when they cut the stack.                         *)
THEOREM ControlIsWhole == Spec => []ControlWhole
<1>1. ASSUME IInv, Running PROVE RecordsLie
  <2>1. Types /\ Parts /\ Laid BY <1>1 DEF IInv
  <2> SUFFICES ASSUME NEW k \in Bodies
               PROVE  LET base == ctl[k].base IN
                      /\ base <= Len(stk)
                      /\ stk[base][1] = "cell" /\ stk[base][2] = ctl[k].op
                      /\ stk[base - 1][1] = "sp" /\ stk[base - 3] = <<"op", ctl[k].op>>
                      /\ \A j \in Bodies : j < k => ctl[j].base < base - 3
                      /\ \A j \in Catchers : IF j < k THEN ctl[j].arg_stack <= base - 4
                                              ELSE base <= ctl[j].arg_stack
    BY DEF RecordsLie
  <2>2. /\ k \in DOMAIN ctl /\ ctl[k].kind = "op" /\ k \in Nat /\ ctl[k].base \in Nat
        /\ Floor(k) = ctl[k].base - 4 /\ Ceil(k) = ctl[k].base
    BY <2>1, FrameTypes DEF Bodies
  <2>3. ctl[k].base <= Len(stk) BY <2>1, <2>2 DEF Parts, PartsSized
  <2>4. ASSUME NEW j \in Bodies, j < k PROVE ctl[j].base < ctl[k].base - 3
    <3>1. j \in DOMAIN ctl /\ Ceil(j) = ctl[j].base /\ ctl[j].base \in Nat
      BY <2>1, FrameTypes DEF Bodies
    <3>2. Ceil(j) <= Floor(k) BY <2>1, <2>2, <2>4, <3>1 DEF Parts, PartsInOrder
    <3> QED BY <2>2, <3>1, <3>2
  <2>5. ASSUME NEW j \in Catchers
        PROVE  IF j < k THEN ctl[j].arg_stack <= ctl[k].base - 4 ELSE ctl[k].base <= ctl[j].arg_stack
    <3>1. /\ j \in DOMAIN ctl /\ ctl[j].kind = "catch" /\ j \in Nat
          /\ Ceil(j) = ctl[j].arg_stack /\ Floor(j) = ctl[j].arg_stack
      BY <2>1, FrameTypes DEF Catchers
    <3>2. j < k \/ k < j BY <2>2, <3>1
    <3>3. j < k => Ceil(j) <= Floor(k) BY <2>1, <2>2, <3>1 DEF Parts, PartsInOrder
    <3>4. k < j => Ceil(k) <= Floor(j) BY <2>1, <2>2, <3>1 DEF Parts, PartsInOrder
    <3>5. j < k => ctl[j].arg_stack <= ctl[k].base - 4 BY <2>2, <3>1, <3>3
    <3>6. ~(j < k) => ctl[k].base <= ctl[j].arg_stack BY <2>2, <3>1, <3>2, <3>4
    <3> QED BY <3>5, <3>6
  <2>6. /\ stk[ctl[k].base][1] = "cell" /\ stk[ctl[k].base][2] = ctl[k].op
        /\ stk[ctl[k].base - 1][1] = "sp" /\ stk[ctl[k].base - 3] = <<"op", ctl[k].op>>
    BY <2>1 DEF Laid, RecordsLaid
  <2> QED BY <2>3, <2>4, <2>5, <2>6
<1>2. ASSUME IInv, Running PROVE CatchersNest
  <2>1. Types /\ Nesting BY <1>2 DEF IInv
  <2> SUFFICES ASSUME catchbuf # Dead
               PROVE  /\ catchbuf = Innermost(Len(ctl))
                      /\ \A k \in Catchers : ctl[k].prev \in {Dead, Innermost(k - 1)}
    BY DEF CatchersNest
  <2>2. catchbuf = Innermost(Len(ctl))
    <3>1. catchbuf \in Nat /\ Len(ctl) \in Nat BY <2>1, FrameTypes DEF Types
    <3>2. Nearest(catchbuf, Len(ctl)) BY <2>1 DEF Nesting
    <3> QED BY <2>1, <3>1, <3>2, NearestIsInnermost
  <2>3. ASSUME NEW k \in Catchers, ctl[k].prev # Dead PROVE ctl[k].prev = Innermost(k - 1)
    <3>1. k \in DOMAIN ctl /\ ctl[k].kind = "catch" BY DEF Catchers
    <3>2. ctl[k].prev \in Nat /\ k - 1 \in Nat BY <2>1, <2>3, <3>1, FrameTypes
    <3>3. Nearest(ctl[k].prev, k - 1) BY <2>1, <2>3 DEF Nesting
    <3> QED BY <2>1, <3>2, <3>3, NearestIsInnermost
  <2> QED BY <2>2, <2>3
<1>3. IInv => ControlWhole BY <1>1, <1>2 DEF ControlWhole
<1> QED BY <1>3, Invariance, PTL

-----------------------------------------------------------------------------
(* Which words a step keeps.                                                 *)
LEMMA FirstKept ==
  ASSUME NEW A, NEW f \in Seq(A), NEW u \in Seq(A), NEW v \in Seq(A), NEW i \in 1 .. Len(f)
  PROVE  (f \o u \o v)[i] = f[i]
<1>1. \A a \in Seq(A), b \in Seq(A) :
        /\ a \o b \in Seq(A) /\ Len(a \o b) = Len(a) + Len(b)
        /\ \A j \in 1 .. Len(a) : (a \o b)[j] = a[j]
  BY SeqJoin
<1>2. PICK p : p = f \o u OBVIOUS
<1>3. p \in Seq(A) /\ Len(p) = Len(f) + Len(u) /\ p[i] = f[i] BY <1>1, <1>2
<1>4. Len(u) \in Nat /\ Len(f) \in Nat OBVIOUS
<1>5. i \in 1 .. Len(p) BY <1>3, <1>4
<1>6. (p \o v)[i] = p[i] BY <1>1, <1>3, <1>5
<1> QED BY <1>2, <1>3, <1>6

(* An activation record below the part of the frame that is left stays.      *)
LEMMA CutKept ==
  ASSUME Types, Parts, NEW k \in DOMAIN ctl, ctl[k].kind = "op", stk # <<>>,
         NEW m \in Nat, m < Len(ctl), k <= m,
         stk' = Append(SubSeq(stk, 1, Floor(m + 1)), Last(stk))
  PROVE  stk'[ctl[k].base] = stk[ctl[k].base]
<1>1. /\ m + 1 \in DOMAIN ctl /\ k < m + 1 /\ ctl[k].base \in Nat /\ Ceil(k) = ctl[k].base
      /\ Floor(k) = ctl[k].base - 4 /\ Floor(m + 1) \in Int /\ Len(stk) \in Nat /\ stk \in Seq(Words)
  <2>1. DOMAIN ctl = 1 .. Len(ctl) /\ Len(ctl) \in Nat /\ Len(stk) \in Nat BY FrameTypes
  <2>2. m + 1 \in DOMAIN ctl /\ k < m + 1 BY <2>1
  <2>3. Floor(m + 1) \in Int BY <2>2, FrameTypes
  <2>4. ctl[k].base \in Nat /\ Ceil(k) = ctl[k].base /\ Floor(k) = ctl[k].base - 4 BY FrameTypes
  <2> QED BY <2>1, <2>2, <2>3, <2>4 DEF Types
<1>2. /\ Ceil(k) <= Floor(m + 1) /\ Floor(m + 1) <= Ceil(m + 1) /\ Ceil(m + 1) <= Len(stk)
      /\ 0 <= Floor(k) /\ Ceil(m + 1) \in Int
  BY <1>1, FrameTypes DEF Parts, PartsSized, PartsInOrder
<1>3. PICK a : a = Floor(m + 1) OBVIOUS
<1>4. a \in 0 .. Len(stk) /\ ctl[k].base \in 1 .. a BY SMTT(30), <1>1, <1>2, <1>3
<1>5. Last(stk) \in Words BY <1>1, SeqFront
<1>6. \A i \in 1 .. a : stk'[i] = stk[i] BY <1>1, <1>3, <1>4, <1>5, SeqCut
<1> QED BY <1>4, <1>6

(* The words under the value on top stay where they are.                     *)
LEMMA BelowTop ==
  ASSUME Types, Parts, Laid, NEW k \in DOMAIN ctl, ctl[k].kind = "op",
         Waiting \/ (Evaluating /\ Temps > 0)
  PROVE  /\ stk \in Seq(Words) /\ stk # <<>> /\ Len(stk) \in Nat
         /\ ctl[k].base \in 1 .. Len(stk) - 1
<1>1. /\ ctl[k].base \in Nat /\ Floor(k) = ctl[k].base - 4 /\ Ceil(k) = ctl[k].base
      /\ stk \in Seq(Words) /\ Len(stk) \in Nat
  BY FrameTypes DEF Types
<1>2. 0 <= Floor(k) BY DEF Parts, PartsSized
<1>3. CASE Waiting
  <2>1. Ceil(k) < Len(stk) /\ stk # <<>> BY <1>3 DEF Parts, PartsWait
  <2> QED BY <1>1, <1>2, <2>1
<1>4. CASE Evaluating /\ Temps > 0
  <2>1. PICK b : b = IF ctl = <<>> THEN 0 ELSE Frame.base OBVIOUS
  <2>2. b \in Nat /\ Temps = Len(stk) - b /\ Ceil(k) <= b BY <1>4, <2>1, Temporaries
  <2>3. ctl[k].base < Len(stk) BY <1>1, <1>4, <2>2
  <2>4. stk # <<>> BY <1>1, <2>3, SeqEmpty
  <2> QED BY <1>1, <1>2, <2>3, <2>4
<1> QED BY <1>3, <1>4

LEMMA EnterKept ==
  ASSUME Types, Parts, Laid, NEW k \in DOMAIN ctl, ctl[k].kind = "op", Waiting,
         NEW f, NEW x, NEW T, NEW args \in Seq(T), Enter(f, x, args)
  PROVE  stk'[ctl[k].base] = stk[ctl[k].base]
<1>1. stk \in Seq(Words) /\ stk # <<>> /\ ctl[k].base \in 1 .. Len(stk) - 1 BY BelowTop
<1>2. PICK r : r = Record(f, x) OBVIOUS
<1>3. r \in Seq({<<"op", f>>, Fault, <<"sp", sp[f]>>, <<"cell", f, x>>})
  <2>1. PICK w1, w2, w3, w4 : w1 = <<"op", f>> /\ w2 = Fault /\ w3 = <<"sp", sp[f]>>
                              /\ w4 = <<"cell", f, x>>
    OBVIOUS
  <2>2. r = <<w1, w2, w3, w4>> BY <1>2, <2>1 DEF Record
  <2>3. r \in Seq({w1, w2, w3, w4}) BY <2>2
  <2> QED BY <2>1, <2>3
<1>4. stk' = Front(stk) \o r \o args BY <1>2 DEF Enter
<1>5. PICK b : b = ctl[k].base OBVIOUS
<1>6. b \in 1 .. Len(stk) - 1 BY <1>1, <1>5
<1>7. PICK A : A = Words \cup {<<"op", f>>, Fault, <<"sp", sp[f]>>, <<"cell", f, x>>} \cup T OBVIOUS
<1>9. stk \in Seq(A) /\ r \in Seq(A) /\ args \in Seq(A) BY <1>1, <1>3, <1>7
<1>8. PICK s : s = Front(stk) OBVIOUS
<1>10. s \in Seq(A) /\ Len(s) = Len(stk) - 1 /\ s[b] = stk[b] BY <1>1, <1>6, <1>8, <1>9, SeqFront
<1>11. b \in 1 .. Len(s) BY <1>6, <1>10
<1>12. (s \o r \o args)[b] = s[b] BY <1>9, <1>10, <1>11, FirstKept
<1> QED BY <1>4, <1>5, <1>8, <1>10, <1>12

LEMMA StepKeeps ==
  ASSUME IInv, Next, ~thrown, NEW k \in DOMAIN ctl, Kept(k), stk'[ctl[k].base] # stk[ctl[k].base]
  PROVE  Evaluating /\ \E s \in Range(Here) : Lex[s] = ctl[k].base
<1>r. Running
  BY DEF Next, PushConst, ReadVar, SetVar, Discard, ApplyName, ApplyParam, ApplyTransform, ApplyClosure,
     ApplyCatch, Applying, Return, ReturnClosure, ReturnCatch, Returning, Throw, NextLine, Jump, Evaluating
<1>1. Types /\ Parts /\ Laid /\ Nesting BY <1>r DEF IInv
<1>2. /\ ctl[k].kind = "op" /\ k \in DOMAIN ctl' /\ k \in 1 .. Len(ctl) /\ Len(ctl) \in Nat /\ ctl # <<>>
      /\ ctl[k].base \in Nat /\ ctl[k].base \in 1 .. Len(stk) /\ stk \in Seq(Words) /\ Len(stk) \in Nat
  <2>1. ctl[k].kind = "op" /\ k \in DOMAIN ctl' BY DEF Kept
  <2>2. /\ ctl[k].base \in Nat /\ Floor(k) = ctl[k].base - 4 /\ Ceil(k) = ctl[k].base
        /\ k \in 1 .. Len(ctl) /\ Len(ctl) \in Nat /\ ctl # <<>> /\ Len(stk) \in Nat
    BY <1>1, <2>1, FrameTypes
  <2>3. 0 <= Floor(k) /\ Ceil(k) <= Len(stk) BY <1>1 DEF Parts, PartsSized
  <2> QED BY <1>1, <2>1, <2>2, <2>3 DEF Types
<1>3. ASSUME stk' = stk PROVE FALSE BY <1>3
<1>4. ASSUME NEW w, stk' = Append(stk, w) PROVE FALSE
  <2>1. \A S : stk \in Seq(S) /\ w \in S => \A i \in 1 .. Len(stk) : Append(stk, w)[i] = stk[i]
    BY SeqAppend
  <2>2. stk \in Seq(Words \cup {w}) BY <1>2
  <2> QED BY <1>2, <1>4, <2>1, <2>2
<1>5. ASSUME Evaluating, Temps > 0, NEW w, stk' = Append(Front(stk), w) PROVE FALSE
  <2>1. stk # <<>> /\ ctl[k].base \in 1 .. Len(stk) - 1 BY <1>1, <1>2, <1>5, BelowTop
  <2>2. stk \in Seq(Words \cup {w}) BY <1>2
  <2>3. PICK f : f = Front(stk) OBVIOUS
  <2>4. /\ f \in Seq(Words \cup {w}) /\ Len(f) = Len(stk) - 1
        /\ \A i \in 1 .. Len(stk) - 1 : f[i] = stk[i]
    BY <2>1, <2>2, <2>3, SeqFront
  <2>5. \A i \in 1 .. Len(f) : Append(f, w)[i] = f[i] BY <2>4, SeqAppend
  <2> QED BY <1>5, <2>1, <2>3, <2>4, <2>5
<1>6. ASSUME NEW m \in Nat, m < Len(ctl), ctl' = SubSeq(ctl, 1, m), stk # <<>>,
             stk' = Append(SubSeq(stk, 1, Floor(m + 1)), Last(stk))
      PROVE  FALSE
  <2>1. k <= m BY <1>1, <1>2, <1>6, Shrunk
  <2> QED BY <1>1, <1>2, <1>6, <2>1, CutKept
<1>7. ASSUME NEW v \in Vals, PushConst(v) PROVE FALSE BY <1>4, <1>7 DEF PushConst
<1>8. ASSUME NEW s \in Ops, ReadVar(s) PROVE FALSE BY <1>3, <1>4, <1>8 DEF ReadVar, Astray
<1>9. ASSUME NEW s \in Ops, SetVar(s) PROVE Evaluating /\ \E t \in Range(Here) : Lex[t] = ctl[k].base
  <2>1. Evaluating /\ Temps > 0 /\ s \in Range(Here) BY <1>9 DEF SetVar
  <2>2. CASE stk' = Append(Front(stk), Fault) BY <1>5, <2>1, <2>2
  <2>3. CASE stk' = [stk EXCEPT ![sp[s]] = <<"cell", s, Last(stk)>>]
    <3>1. sp[s] = ctl[k].base BY <1>2, <2>3
    <3>2. Range(Here) = DOMAIN Lex BY <1>r, <2>1, HereIsLex DEF IInv
    <3>3. sp[s] = Lex[s] BY <1>r, <2>1, <3>2, Found
    <3> QED BY <2>1, <3>1, <3>3
  <2>4. CASE stk' = stk BY <1>3, <2>4
  <2> QED BY <1>9, <2>2, <2>3, <2>4 DEF SetVar, Astray
<1>10. ASSUME NEW o \in Applied, Apply(o) PROVE FALSE BY <1>3, <1>10 DEF Apply
<1>11. CASE Discard
  <2>1. Evaluating /\ Temps > 0 /\ stk' = Front(stk) BY <1>11 DEF Discard
  <2>2. stk # <<>> /\ ctl[k].base \in 1 .. Len(stk) - 1 BY <1>1, <1>2, <2>1, BelowTop
  <2> QED BY <1>2, <2>1, <2>2, SeqFront
<1>12. ASSUME NEW f, NEW x, NEW T, NEW args \in Seq(T), Enter(f, x, args), fn # none PROVE FALSE
  BY <1>1, <1>2, <1>12, EnterKept DEF Waiting
<1>13. CASE ApplyName
  <2>1. <<>> \in Seq(Words) OBVIOUS
  <2>2. fn # none /\ (Enter(fn[2], Last(stk), <<>>) \/ Astray) BY <1>13 DEF ApplyName, Applying
  <2> QED BY <1>3, <1>12, <2>1, <2>2 DEF Astray
<1>14. CASE ApplyParam BY <1>3, <1>14 DEF ApplyParam, Astray
<1>15. CASE ApplyTransform
  <2>1. <<Last(stk)>> \in Seq({Last(stk)}) BY SeqOne
  <2>2. fn # none /\ (Enter(fn[2], Closed(fn[3]), <<Last(stk)>>) \/ Astray)
    BY <1>15 DEF ApplyTransform, Applying
  <2> QED BY <1>3, <1>12, <2>1, <2>2 DEF Astray
<1>16. CASE ApplyClosure
  <2>1. Waiting BY <1>16 DEF ApplyClosure, Applying, Waiting
  <2>2. stk # <<>> /\ ctl[k].base \in 1 .. Len(stk) - 1 BY <1>1, <1>2, <2>1, BelowTop
  <2>3. fn \in Closure
    <3>1. fn[1] = "closure" /\ fn # none BY <1>16 DEF ApplyClosure, Applying
    <3>2. fn \in Given \cup ({"transform"} \X Trs \X Flat) \cup ({"catch"} \X Flat)
      BY <1>1, <3>1 DEF Types
    <3> QED BY <3>1, <3>2, FlatTypes, ClosureTypes DEF Given
  <2>4. PICK y : y = fn[3] /\ y \in Seq(Ops) BY <2>3, ClosureTypes
  <2>5. PICK v : v = Saved(y) OBVIOUS
  <2>6. v \in Seq({<<"sp", sp[y[i]]>> : i \in DOMAIN y})
    <3>1. DOMAIN y = 1 .. Len(y) /\ Len(y) \in Nat BY <2>4, SeqTyped
    <3>2. v = [i \in 1 .. Len(y) |-> <<"sp", sp[y[i]]>>] BY <2>5, <3>1 DEF Saved
    <3> QED BY <3>1, <3>2
  <2>7. <<Last(stk)>> \in Seq({Last(stk)}) BY SeqOne
  <2>8. stk' = Front(stk) \o v \o <<Last(stk)>> BY <1>16, <2>4, <2>5 DEF ApplyClosure
  <2>9. PICK b : b = ctl[k].base OBVIOUS
  <2>12. PICK A, a : A = Words \cup {<<"sp", sp[y[i]]>> : i \in DOMAIN y} \cup {Last(stk)}
                     /\ a = <<Last(stk)>>
    OBVIOUS
  <2>10. stk \in Seq(A) /\ v \in Seq(A) /\ a \in Seq(A)
    <3>1. a \in Seq({Last(stk)}) BY <2>7, <2>12
    <3> QED BY <1>2, <2>6, <2>12, <3>1
  <2>13. b \in 1 .. Len(stk) - 1 BY <2>2, <2>9
  <2>14. PICK s : s = Front(stk) OBVIOUS
  <2>15. s \in Seq(A) /\ Len(s) = Len(stk) - 1 /\ s[b] = stk[b] BY <2>2, <2>10, <2>13, <2>14, SeqFront
  <2>16. b \in 1 .. Len(s) BY <2>13, <2>15
  <2>17. (s \o v \o a)[b] = s[b] BY <2>10, <2>15, <2>16, FirstKept
  <2> QED BY <2>8, <2>9, <2>12, <2>14, <2>15, <2>17
<1>17. CASE ApplyCatch BY <1>3, <1>17 DEF ApplyCatch, Astray
<1>18. Len(ctl) - 1 \in Nat /\ Len(ctl) - 1 < Len(ctl) /\ (Len(ctl) - 1) + 1 = Len(ctl)
       /\ Len(ctl) \in DOMAIN ctl /\ Frame = ctl[Len(ctl)]
  BY <1>1, <1>2, FrameTypes
<1>19. CASE Return
  <2>1. /\ Evaluating /\ Temps = 1 /\ Frame.kind = "op" /\ ctl' = SubSeq(ctl, 1, Len(ctl) - 1)
        /\ stk' = Append(SubSeq(stk, 1, Frame.base - 4), Last(stk))
    BY <1>2, <1>19 DEF Return, Evaluating, Leave
  <2>2. Floor(Len(ctl)) = Frame.base - 4 BY <1>1, <1>18, <2>1, FrameTypes
  <2>3. stk # <<>> BY <1>1, <1>2, <2>1, BelowTop
  <2> QED BY <1>6, <1>18, <2>1, <2>2, <2>3
<1>20. CASE ReturnClosure
  <2>1. /\ Waiting /\ Frame.kind = "closure" /\ ctl' = SubSeq(ctl, 1, Len(ctl) - 1)
        /\ stk' = Append(SubSeq(stk, 1, Len(stk) - Len(Frame.syms) - 1), Last(stk))
    BY <1>2, <1>20 DEF ReturnClosure, Returning, Leave, Waiting
  <2>2. Floor(Len(ctl)) = Len(stk) - Len(Frame.syms) - 1
    <3>1. /\ Floor(Len(ctl)) \in Nat /\ Ceil(Len(ctl)) = Floor(Len(ctl)) + Len(Frame.syms)
          /\ Len(Frame.syms) \in Nat
      BY <1>1, <1>18, <2>1, FrameTypes
    <3>2. Ceil(Len(ctl)) = Len(stk) - 1 BY <1>1, <1>2, <2>1 DEF Parts, PartsWait
    <3> QED BY <1>2, <3>1, <3>2
  <2>3. stk # <<>> BY <1>1, <1>2, <2>1, BelowTop
  <2> QED BY <1>6, <1>18, <2>1, <2>2, <2>3
<1>21. CASE ReturnCatch BY <1>3, <1>21 DEF ReturnCatch
<1>22. CASE Throw
  <2>1. Evaluating /\ Temps > 0 BY <1>22 DEF Throw
  <2>2. CASE stk' = Append(Front(stk), Fault) BY <1>5, <2>1, <2>2
  <2>3. CASE stk' = stk BY <1>3, <2>3
  <2>4. CASE catchbuf > 0 /\ ThrowTo(catchbuf)
    <3>1. PICK c \in Nat : c = catchbuf /\ c > 0 BY <1>1, <2>4 DEF Types, Dead
    <3>2. c \in Catchers /\ c <= Len(ctl) /\ ctl[c].kind = "catch" /\ c \in DOMAIN ctl
      BY <1>1, <3>1 DEF Nesting, Nearest, Catchers, Dead
    <3>3. Floor(c) = ctl[c].arg_stack BY <1>1, <3>2, FrameTypes
    <3>4. PICK m : m = c - 1 OBVIOUS
    <3>5. m \in Nat /\ m + 1 = c /\ m < Len(ctl) BY <1>2, <3>1, <3>2, <3>4
    <3>6. ctl' = SubSeq(ctl, 1, m) /\ stk' = Append(SubSeq(stk, 1, Floor(m + 1)), Last(stk))
      BY <2>4, <3>1, <3>3, <3>4, <3>5 DEF ThrowTo, Leave
    <3>7. stk # <<>> BY <1>1, <1>2, <2>1, BelowTop
    <3> QED BY <1>6, <3>5, <3>6, <3>7
  <2> QED BY <1>22, <2>2, <2>3, <2>4 DEF Throw, Astray
<1>23. CASE NextLine BY <1>2, <1>23 DEF NextLine
<1>24. CASE Jump
  <2>1. ctl' = SubSeq(ctl, 1, 0) BY <1>24 DEF Jump, Leave
  <2>2. 0 \in Nat /\ 0 < Len(ctl) BY <1>2, <1>18
  <2>3. DOMAIN ctl' = 1 .. 0 BY <1>1, <2>1, <2>2, Shrunk
  <2>4. DOMAIN ctl' = {} BY <2>3
  <2> QED BY <1>2, <2>4
<1> QED
  BY <1>7, <1>8, <1>9, <1>10, <1>11, <1>13, <1>14, <1>15, <1>16, <1>17, <1>19, <1>20, <1>21, <1>22, <1>23,
     <1>24 DEF Next

(* While no throw was caught, a step changes the variable of a record in use *)
(* only as an assignment of a text that means this record: store_var through *)
(* the stack pointers, whatever calls and closures came before.              *)
THEOREM VariablesAreKept == Spec => VariablesKept
<1>1. ASSUME IInv, Next, ~thrown, NEW k \in DOMAIN ctl, Kept(k), stk'[ctl[k].base] # stk[ctl[k].base]
      PROVE  Evaluating /\ \E s \in Range(Here) : Lex[s] = ctl[k].base
  BY <1>1, StepKeeps
<1>2. IInv /\ [Next]_vars =>
        [~thrown => \A k \in DOMAIN ctl : Kept(k) /\ stk'[ctl[k].base] # stk[ctl[k].base] =>
           Evaluating /\ \E s \in Range(Here) : Lex[s] = ctl[k].base]_vars
  BY <1>1
<1> QED BY <1>2, Invariance, PTL DEF Spec, VariablesKept

=============================================================================
