-------------------------- MODULE DirectFileProofs --------------------------
(* Proofs about DirectFile for any number of records, any contents and any   *)
(* number of kills.                                                          *)
(*                                                                           *)
(* The idea: an index is looked at as a header and a length and a start for  *)
(* each number.  It is whole when its records are apart and within the total *)
(* length and its lengths and free space add up to no more than that.  The   *)
(* index a call works on is whole with the header the call has at hand, and  *)
(* what is on the disk, or would be after one more write, is whole with the  *)
(* header it has itself, unless a record moves or the files are replaced.    *)
(* That a direct file implements RecordFile rests on this and on what the    *)
(* indexes and the bytes say of each number, at the end of the module.       *)
EXTENDS DirectFile, SetLemmas, TLAPS

ByteSet == {hole} \cup UNION {{d[k] : k \in DOMAIN d} : d \in Contents}
Headers == [recordcnt : Nat, totallen : Nat, space_free : Nat, status : {0, array_type, record_type}]
Pairs == [recstart : Nat, reclength : Nat]
Indexes == {x \in Seq(Headers \cup Pairs) :
              \A k \in DOMAIN x : IF k = 1 THEN x[k] \in Headers ELSE x[k] \in Pairs}

(* What a write to an index is.                                              *)
HeaderWrite(h) == [pos |-> 0, cells |-> <<h>>]
PairWrite(i, p) == [pos |-> i + 1, cells |-> <<p>>]
IndexWrites ==
  {NoWrite} \cup {HeaderWrite(h) : h \in Headers} \cup {PairWrite(i, p) : i \in Nat, p \in Pairs}
ByteWrites == {NoWrite} \cup {w \in [pos : Nat, cells : Seq(ByteSet)] : w.cells # <<>>}

Phases == {"idle", "index", "goback", "header", "compressfile"}
Opening == {"open tdx", "open trc"}
Early == Opening \cup {"copy header"}
Copying == {"copy"}
Replacing == {"close ndx", "unlink ndx", "rename ndx", "close rec", "unlink rec", "rename rec"}
Late == {"close rec", "unlink rec", "rename rec"}

FilesOK ==
  /\ file = [n \in Names |-> file[n]]
  /\ file["ndx"] \in Indexes /\ file["tdx"] \in Indexes
  /\ file["rec"] \in Seq(ByteSet) /\ file["trc"] \in Seq(ByteSet)
BufsOK ==
  /\ buf = [n \in Names |-> buf[n]]
  /\ buf["ndx"] \in IndexWrites /\ buf["tdx"] \in IndexWrites
  /\ buf["rec"] \in ByteWrites /\ buf["trc"] \in ByteWrites
CallOK == call \in [i : Indices, d : Contents \cup {missing}, start : Nat, next : Nat, last : Indices,
                    moves : BOOLEAN, freed : Nat, erases : BOOLEAN]
TypeOK ==
  /\ FilesOK /\ BufsOK /\ CallOK
  /\ exists \subseteq Names /\ open \in BOOLEAN /\ head \in Headers
  /\ kills \in Nat /\ refused \in Nat
  /\ pc \in Phases \cup Early \cup Copying \cup Replacing

(* The lengths and starts of an index.                                       *)
Lens(x) == [i \in Nat |-> PairIn(x, i).reclength]
Total(x, n) == SumTo(Lens(x), n)
End(x, i) == PairIn(x, i).recstart + PairIn(x, i).reclength
Before(x, i, j) == PairIn(x, i).reclength = 0 \/ PairIn(x, j).reclength = 0
                   \/ End(x, i) <= PairIn(x, j).recstart \/ End(x, j) <= PairIn(x, i).recstart
Apart(x, n, total) ==
  /\ \A i \in 0 .. n - 1 : End(x, i) <= total
  /\ \A i \in 0 .. n - 1 : \A j \in 0 .. n - 1 : i # j => Before(x, i, j)
Whole(h, x) == Apart(x, h.recordcnt, h.totallen) /\ Total(x, h.recordcnt) + h.space_free <= h.totallen
Exact(h, x) == Total(x, h.recordcnt) + h.space_free = h.totallen

Ndx == Logical("ndx")
Tdx == Logical("tdx")
Fits2(h, c) == kills = 0 => Len(c) <= h.totallen

CopiesGone == "trc" \notin exists /\ file["tdx"] = <<>> /\ file["trc"] = <<>>
              /\ buf["tdx"] = NoWrite /\ buf["trc"] = NoWrite
NewIsEmpty == "ndx" \notin exists =>
                 file["ndx"] = <<>> /\ buf["ndx"] = NoWrite /\ file["rec"] = <<>> /\ buf["rec"] = NoWrite

Disk == ~Moving => Whole(Head1(Ndx), Ndx) /\ Whole(Head1(file["ndx"]), file["ndx"])

AtIdle ==
  /\ Whole(Head1(Ndx), Ndx)
  /\ kills = 0 => Exact(Head1(Ndx), Ndx)
  /\ Fits2(Head1(Ndx), Logical("rec"))
AtIndex ==
  /\ \E st \in {array_type, record_type} : head = [Head1(Ndx) EXCEPT !.status = st]
  /\ Whole(head, Ndx)
  /\ kills = 0 => Exact(head, Ndx)
  /\ head.recordcnt <= call.next /\ (head.recordcnt < call.next => call.next <= call.i)
  /\ \A j \in head.recordcnt .. call.next - 1 :
       PairIn(Ndx, j).reclength = 0 /\ PairIn(Ndx, j).recstart <= head.totallen
  /\ \/ /\ head.recordcnt <= call.i /\ call.start = head.totallen /\ call.freed = 0 /\ ~call.moves
     \/ /\ call.i < head.recordcnt /\ Len(call.d) <= PairIn(Ndx, call.i).reclength /\ ~call.moves
        /\ call.start = PairIn(Ndx, call.i).recstart
        /\ call.freed = PairIn(Ndx, call.i).reclength - Len(call.d)
     \/ /\ call.i < head.recordcnt /\ call.moves
        /\ call.start = head.totallen /\ call.freed = PairIn(Ndx, call.i).reclength
  /\ kills = 0 => Len(Logical("rec")) <= head.totallen \/ Len(Logical("rec")) <= call.start + Len(call.d)
AtHeader ==
  /\ Whole(head, Ndx)
  /\ kills = 0 => Exact(head, Ndx)
  /\ Fits2(head, Logical("rec"))
  /\ pc = "goback" => head.recordcnt = call.i + 1 /\ PairIn(Ndx, call.i).reclength = 0
AtEarly ==
  /\ buf["ndx"] = NoWrite /\ head = Head1(Ndx) /\ AtIdle
AtCopy ==
  /\ buf["ndx"] = NoWrite /\ Whole(Head1(Ndx), Ndx)
  /\ head.recordcnt = Head1(Ndx).recordcnt /\ call.next <= head.recordcnt
  /\ Apart(Tdx, call.next, head.totallen)
  /\ head.totallen = Total(Tdx, call.next)
  /\ Len(Logical("trc")) = head.totallen
AtReplace ==
  LET x == IF pc \in Late THEN Ndx ELSE Tdx
  IN /\ Whole(Head1(x), x) /\ Exact(Head1(x), x)
     /\ Head1(x).space_free = 0
     /\ Len(Logical("trc")) = Head1(x).totallen
     /\ buf["ndx"] = NoWrite
     /\ pc # "close ndx" => buf["tdx"] = NoWrite
     /\ pc \in Late => file["tdx"] = <<>>
     /\ pc \in {"unlink rec", "rename rec"} => buf["rec"] = NoWrite /\ buf["trc"] = NoWrite

J == /\ TypeOK
     /\ ~open => pc = "idle"
     /\ open => "ndx" \in exists \/ pc = "rename ndx"
     /\ pc \in Phases \cup Opening => CopiesGone
     /\ pc = "copy header" => file["tdx"] = <<>> /\ file["trc"] = <<>>
                              /\ buf["tdx"] = NoWrite /\ buf["trc"] = NoWrite
     /\ pc \in Phases => NewIsEmpty /\ Disk
     /\ pc \in {"idle", "compressfile"} => AtIdle
     /\ pc = "idle" => (kills = 0 /\ refused = 0 => ~Wasteful(Head1(Ndx)))
     /\ pc = "idle" => buf["ndx"] = NoWrite \/ (file["ndx"] = <<>> /\ buf["ndx"] = HeaderWrite(ZeroHeader))
     /\ pc = "index" => AtIndex
     /\ pc \in {"goback", "header"} => AtHeader
     /\ pc \in Early => AtEarly
     /\ pc \in Copying => AtCopy
     /\ pc \in Replacing => AtReplace

Sound == kills = 0 \/ ("kill while moving" \notin Uses /\ "kill while compressing" \notin Uses)
IInv == kills \in Nat /\ (Sound => J)

-----------------------------------------------------------------------------
(* What a write does to an index and to the bytes.                           *)
LEMMA ZeroIsHeader == ZeroHeader \in Headers /\ Pair(0, 0) \in Pairs
BY DEF ZeroHeader, Header, Headers, Pair, Pairs

LEMMA HeadType ==
  ASSUME NEW x \in Indexes
  PROVE  Head1(x) \in Headers
<1>1. x = <<>> \/ 1 \in DOMAIN x BY DEF Indexes
<1> QED BY <1>1, ZeroIsHeader DEF Head1, Indexes

LEMMA PairType ==
  ASSUME NEW x \in Indexes, NEW i \in Nat
  PROVE  PairIn(x, i) \in Pairs
<1>1. i + 2 # 1 OBVIOUS
<1> QED BY <1>1, ZeroIsHeader DEF PairIn, Indexes

LEMMA NothingIn ==
  /\ <<>> \in Indexes /\ <<>> \in Seq(ByteSet) /\ Head1(<<>>) = ZeroHeader
  /\ \A i \in Nat : PairIn(<<>>, i) = Pair(0, 0)
<1>1. <<>> \in Seq(Headers \cup Pairs) /\ DOMAIN <<>> = {} OBVIOUS
<1> QED BY <1>1 DEF Indexes, Head1, PairIn

(* A write of one cell leaves the others.                                    *)
IsOver(name, x, pos, c, y) ==
  /\ y \in Indexes /\ Len(y) >= pos + 1 /\ Len(y) >= Len(x) /\ y[pos + 1] = c
  /\ \A k \in DOMAIN y : k # pos + 1 => y[k] = IF k <= Len(x) THEN x[k] ELSE ZeroCell(name, k)

LEMMA PutCell ==
  ASSUME NEW name \in {"ndx", "tdx"}, NEW x \in Indexes, NEW pos \in Nat, NEW c,
         pos = 0 => c \in Headers, pos # 0 => c \in Pairs,
         NEW w, w = [pos |-> pos, cells |-> <<c>>]
  PROVE  IsOver(name, x, pos, c, Put(name, x, w))
<1> DEFINE C == Headers \cup Pairs
<1>y. PICK y : y = Put(name, x, w) OBVIOUS
<1>1. x \in Seq(C) /\ Len(x) \in Nat BY DEF Indexes
<1>a. PICK a \in Nat, b \in Nat : a = Len(x) /\ b = pos + 1 BY <1>1
<1>b. Max({a, b}) = IF a >= b THEN a ELSE b BY MaxOfTwo
<1>2. PICK l \in Nat : l = Max({Len(x), pos + 1}) /\ l >= Len(x) /\ l >= pos + 1 BY <1>a, <1>b
<1>3. DOMAIN <<c>> = {1} /\ <<c>>[1] = c /\ Len(<<c>>) = 1 OBVIOUS
<1>4. \A k \in Int : k - pos \in DOMAIN <<c>> <=> k = pos + 1 BY <1>3
<1>5. y = [k \in 1 .. l |-> IF k - pos \in DOMAIN <<c>> THEN <<c>>[k - pos]
                            ELSE IF k <= Len(x) THEN x[k] ELSE ZeroCell(name, k)]
  BY <1>2, <1>3, <1>y DEF Put
<1>6. \A k \in 1 .. l : k # pos + 1 => y[k] = IF k <= Len(x) THEN x[k] ELSE ZeroCell(name, k)
  BY <1>4, <1>5
<1>7. y[pos + 1] = c
  <2>1. pos + 1 \in 1 .. l /\ (pos + 1) - pos = 1 BY <1>2
  <2> QED BY <1>3, <1>5, <2>1
<1>8. \A k \in 1 .. l : IF k = 1 THEN y[k] \in Headers ELSE y[k] \in Pairs
  <2> TAKE k \in 1 .. l
  <2>1. CASE k = pos + 1 BY <1>7, <2>1
  <2>2. CASE k # pos + 1 /\ k <= Len(x)
    <3>1. k \in DOMAIN x BY <1>1, <2>2
    <3>2. y[k] = x[k] BY <1>6, <2>2
    <3> QED BY <3>1, <3>2 DEF Indexes
  <2>3. CASE k # pos + 1 /\ ~ (k <= Len(x))
    <3>1. y[k] = ZeroCell(name, k) BY <1>6, <2>3
    <3> QED BY <3>1, ZeroIsHeader DEF ZeroCell
  <2> QED BY <2>1, <2>2, <2>3
<1>9. y \in Seq(C) /\ Len(y) = l /\ DOMAIN y = 1 .. l
  <2>1. \A k \in 1 .. l : y[k] \in C BY <1>8
  <2>2. y = [k \in 1 .. l |-> y[k]] BY <1>5
  <2> HIDE DEF C
  <2>3. y \in [1 .. l -> C] BY <2>1, <2>2
  <2> QED BY <2>3
<1>10. IsOver(name, x, pos, c, y) BY <1>1, <1>2, <1>6, <1>7, <1>8, <1>9 DEF Indexes, IsOver
<1> QED BY <1>10, <1>y

LEMMA PutHeader ==
  ASSUME NEW name \in {"ndx", "tdx"}, NEW x \in Indexes, NEW h \in Headers,
         NEW y, y = Put(name, x, HeaderWrite(h))
  PROVE  y \in Indexes /\ Head1(y) = h /\ \A i \in Nat : PairIn(y, i) = PairIn(x, i)
<1>a. PICK z \in Nat : z = 0 OBVIOUS
<1>b. PICK w : w = [pos |-> z, cells |-> <<h>>] /\ y = Put(name, x, w) BY <1>a DEF HeaderWrite
<1>c. (z = 0 => h \in Headers) /\ (z # 0 => h \in Pairs) BY <1>a
<1>d. IsOver(name, x, z, h, y) BY <1>b, <1>c, PutCell
<1>1. /\ y \in Indexes /\ Len(y) >= 0 + 1 /\ Len(y) >= Len(x) /\ y[0 + 1] = h
      /\ \A k \in DOMAIN y : k # 0 + 1 => y[k] = IF k <= Len(x) THEN x[k] ELSE ZeroCell(name, k)
  BY <1>a, <1>d DEF IsOver
<1>2. Head1(y) = h
  <2>1. y # <<>> BY <1>1 DEF Indexes
  <2> QED BY <1>1, <2>1 DEF Head1
<1>3. ASSUME NEW i \in Nat PROVE PairIn(y, i) = PairIn(x, i)
  <2>1. DOMAIN y = 1 .. Len(y) /\ DOMAIN x = 1 .. Len(x) /\ Len(y) \in Nat /\ Len(x) \in Nat
    BY <1>1 DEF Indexes
  <2>2. CASE i + 2 \in DOMAIN x
    <3>1. i + 2 \in DOMAIN y /\ y[i + 2] = x[i + 2] BY <1>1, <2>1, <2>2
    <3> QED BY <2>2, <3>1 DEF PairIn
  <2>3. CASE i + 2 \notin DOMAIN x /\ i + 2 \in DOMAIN y
    <3>1. y[i + 2] = ZeroCell(name, i + 2) BY <1>1, <2>1, <2>3
    <3>2. y[i + 2] = Pair(0, 0) BY <3>1 DEF ZeroCell
    <3> QED BY <2>3, <3>2 DEF PairIn
  <2>4. CASE i + 2 \notin DOMAIN x /\ i + 2 \notin DOMAIN y BY <2>4 DEF PairIn
  <2> QED BY <2>2, <2>3, <2>4
<1> QED BY <1>1, <1>2, <1>3

LEMMA PutPair ==
  ASSUME NEW name \in {"ndx", "tdx"}, NEW x \in Indexes, NEW j \in Nat, NEW p \in Pairs,
         NEW y, y = Put(name, x, PairWrite(j, p))
  PROVE  /\ y \in Indexes /\ Head1(y) = Head1(x) /\ PairIn(y, j) = p
         /\ \A i \in Nat : i # j => PairIn(y, i) = PairIn(x, i)
<1>a. PICK z \in Nat : z = j + 1 OBVIOUS
<1>b. PICK w : w = [pos |-> z, cells |-> <<p>>] /\ y = Put(name, x, w) BY <1>a DEF PairWrite
<1>c. (z = 0 => p \in Headers) /\ (z # 0 => p \in Pairs) BY <1>a
<1>d. IsOver(name, x, z, p, y) BY <1>b, <1>c, PutCell
<1>0. z + 1 = j + 2 BY <1>a
<1>1. /\ y \in Indexes /\ Len(y) >= j + 2 /\ Len(y) >= Len(x) /\ y[j + 2] = p
      /\ \A k \in DOMAIN y : k # j + 2 => y[k] = IF k <= Len(x) THEN x[k] ELSE ZeroCell(name, k)
  BY <1>0, <1>d DEF IsOver
<1>2. DOMAIN y = 1 .. Len(y) /\ DOMAIN x = 1 .. Len(x) /\ Len(y) \in Nat /\ Len(x) \in Nat
  BY <1>1 DEF Indexes
<1>3. Head1(y) = Head1(x)
  <2>1. y # <<>> /\ 1 \in DOMAIN y BY <1>1, <1>2
  <2>2. y[1] = IF 1 <= Len(x) THEN x[1] ELSE ZeroCell(name, 1) BY <1>1, <2>1
  <2>3. CASE x = <<>> BY <2>1, <2>2, <2>3 DEF Head1, ZeroCell
  <2>4. CASE x # <<>>
    <3>1. 1 <= Len(x) BY <1>2, <2>4 DEF Indexes
    <3> QED BY <2>1, <2>2, <2>4, <3>1 DEF Head1
  <2> QED BY <2>3, <2>4
<1>4. PairIn(y, j) = p BY <1>1, <1>2 DEF PairIn
<1>5. ASSUME NEW i \in Nat, i # j PROVE PairIn(y, i) = PairIn(x, i)
  <2>2. CASE i + 2 \in DOMAIN x
    <3>1. i + 2 \in DOMAIN y /\ y[i + 2] = x[i + 2] BY <1>1, <1>2, <1>5, <2>2
    <3> QED BY <2>2, <3>1 DEF PairIn
  <2>3. CASE i + 2 \notin DOMAIN x /\ i + 2 \in DOMAIN y
    <3>1. y[i + 2] = ZeroCell(name, i + 2) BY <1>1, <1>2, <1>5, <2>3
    <3>2. y[i + 2] = Pair(0, 0) BY <3>1 DEF ZeroCell
    <3> QED BY <2>3, <3>2 DEF PairIn
  <2>4. CASE i + 2 \notin DOMAIN x /\ i + 2 \notin DOMAIN y BY <2>4 DEF PairIn
  <2> QED BY <2>2, <2>3, <2>4
<1> QED BY <1>1, <1>3, <1>4, <1>5

IsLonger(c, w, y) ==
  y \in Seq(ByteSet) /\ Len(y) = IF Len(c) >= w.pos + Len(w.cells) THEN Len(c) ELSE w.pos + Len(w.cells)

LEMMA PutBytes ==
  ASSUME NEW name \in {"rec", "trc"}, NEW c \in Seq(ByteSet), NEW w \in ByteWrites, w # NoWrite
  PROVE  IsLonger(c, w, Put(name, c, w))
<1>y. PICK y : y = Put(name, c, w) OBVIOUS
<1>1. Len(c) \in Nat /\ w.pos \in Nat /\ w.cells \in Seq(ByteSet) /\ Len(w.cells) \in Nat
  BY DEF ByteWrites
<1>a. PICK a \in Nat, b \in Nat : a = Len(c) /\ b = w.pos + Len(w.cells) BY <1>1
<1>b. Max({a, b}) = IF a >= b THEN a ELSE b BY MaxOfTwo
<1>2. PICK l \in Nat : /\ l = Max({Len(c), w.pos + Len(w.cells)})
                       /\ l = IF Len(c) >= w.pos + Len(w.cells) THEN Len(c) ELSE w.pos + Len(w.cells)
  BY <1>a, <1>b
<1>3. y = [k \in 1 .. l |-> IF k - w.pos \in DOMAIN w.cells THEN w.cells[k - w.pos]
                            ELSE IF k <= Len(c) THEN c[k] ELSE ZeroCell(name, k)]
  BY <1>2, <1>y DEF Put
<1>4. \A k \in 1 .. l : y[k] \in ByteSet
  <2> TAKE k \in 1 .. l
  <2>1. k - w.pos \in DOMAIN w.cells => w.cells[k - w.pos] \in ByteSet BY <1>1
  <2>2. k <= Len(c) => c[k] \in ByteSet BY <1>1
  <2>3. ZeroCell(name, k) \in ByteSet BY DEF ZeroCell, ByteSet
  <2> QED BY <1>3, <2>1, <2>2, <2>3
<1>5. y \in [1 .. l -> ByteSet] BY <1>3, <1>4
<1>6. y \in Seq(ByteSet) /\ Len(y) = l BY <1>5
<1>7. IsLonger(c, w, y) BY <1>2, <1>6 DEF IsLonger
<1> QED BY <1>7, <1>y

-----------------------------------------------------------------------------
(* What a file is with the write that is held back.                          *)
After(name, c, w) == IF w = NoWrite THEN c ELSE Put(name, c, w)

LEMMA LogicalIs ==
  ASSUME NEW name
  PROVE  /\ Logical(name) = After(name, file[name], buf[name])
         /\ Logical(name)' = After(name, file'[name], buf'[name])
BY DEF Logical, After

LEMMA WritesDiffer ==
  /\ \A h : HeaderWrite(h) # NoWrite
  /\ \A i \in Nat : \A p : PairWrite(i, p) # NoWrite
<1>1. ASSUME NEW c PROVE <<c>> # <<>> OBVIOUS
<1> QED BY <1>1 DEF HeaderWrite, PairWrite, NoWrite

LEMMA BlockIs ==
  /\ \A h : Block(0, <<h>>) = HeaderWrite(h)
  /\ \A i \in Nat : \A p : Block(i + 1, <<p>>) = PairWrite(i, p)
<1>1. ASSUME NEW c PROVE <<c>> # <<>> OBVIOUS
<1> QED BY <1>1 DEF HeaderWrite, PairWrite, Block

LEMMA AfterHeader ==
  ASSUME NEW name \in {"ndx", "tdx"}, NEW x \in Indexes, NEW h \in Headers,
         NEW y, y = After(name, x, HeaderWrite(h))
  PROVE  y \in Indexes /\ Head1(y) = h /\ \A i \in Nat : PairIn(y, i) = PairIn(x, i)
<1>1. y = Put(name, x, HeaderWrite(h)) BY WritesDiffer DEF After
<1> QED BY <1>1, PutHeader

LEMMA AfterPair ==
  ASSUME NEW name \in {"ndx", "tdx"}, NEW x \in Indexes, NEW j \in Nat, NEW p \in Pairs,
         NEW y, y = After(name, x, PairWrite(j, p))
  PROVE  /\ y \in Indexes /\ Head1(y) = Head1(x) /\ PairIn(y, j) = p
         /\ \A i \in Nat : i # j => PairIn(y, i) = PairIn(x, i)
<1>1. y = Put(name, x, PairWrite(j, p)) BY WritesDiffer DEF After
<1> QED BY <1>1, PutPair

LEMMA AfterIndex ==
  ASSUME NEW name \in {"ndx", "tdx"}, NEW x \in Indexes, NEW w \in IndexWrites
  PROVE  After(name, x, w) \in Indexes
<1>1. CASE w = NoWrite BY <1>1 DEF After
<1>2. CASE \E h \in Headers : w = HeaderWrite(h) BY <1>2, AfterHeader
<1>3. CASE \E i \in Nat : \E p \in Pairs : w = PairWrite(i, p) BY <1>3, AfterPair
<1> QED BY <1>1, <1>2, <1>3 DEF IndexWrites

LEMMA AfterBytes ==
  ASSUME NEW name \in {"rec", "trc"}, NEW c \in Seq(ByteSet), NEW w \in ByteWrites
  PROVE  After(name, c, w) \in Seq(ByteSet)
BY PutBytes DEF After, IsLonger

LEMMA BlockOfBytes ==
  ASSUME NEW pos \in Nat, NEW d \in Seq(ByteSet)
  PROVE  Block(pos, d) \in ByteWrites
<1>1. d # <<>> => [pos |-> pos, cells |-> d] \in ByteWrites BY DEF ByteWrites
<1> QED BY <1>1 DEF Block, ByteWrites

LEMMA AfterBlock ==
  ASSUME NEW name \in {"rec", "trc"}, NEW c \in Seq(ByteSet), NEW pos \in Nat, NEW d \in Seq(ByteSet),
         NEW y, y = After(name, c, Block(pos, d))
  PROVE  /\ y \in Seq(ByteSet)
         /\ Len(y) = Len(c) \/ Len(y) <= pos + Len(d)
         /\ pos = Len(c) => Len(y) = Len(c) + Len(d)
<1>0. Len(c) \in Nat /\ Len(d) \in Nat OBVIOUS
<1>1. CASE d = <<>>
  <2>1. y = c BY <1>1 DEF After, Block
  <2>2. Len(d) = 0 BY <1>1
  <2> QED BY <1>0, <2>1, <2>2
<1>2. CASE d # <<>>
  <2>1. PICK w \in ByteWrites : w = Block(pos, d) BY BlockOfBytes
  <2>2. w.pos = pos /\ w.cells = d /\ w # NoWrite BY <1>2, <2>1 DEF Block, NoWrite
  <2>4. y = Put(name, c, w) BY <2>1, <2>2 DEF After
  <2>5. IsLonger(c, w, y)
    BY <2>2, <2>4, PutBytes
  <2> QED BY SMTT(30), <1>0, <2>2, <2>5 DEF IsLonger
<1> QED BY <1>1, <1>2

LEMMA LogicalTypes ==
  ASSUME FilesOK, BufsOK
  PROVE  /\ Logical("ndx") \in Indexes /\ Logical("tdx") \in Indexes
         /\ Logical("rec") \in Seq(ByteSet) /\ Logical("trc") \in Seq(ByteSet)
BY LogicalIs, AfterIndex, AfterBytes DEF FilesOK, BufsOK

(* What a step that reads or writes blocks leaves of each file.              *)
LEMMA Steps ==
  ASSUME NEW S, NEW ws, ThenWrites(S, ws)
  PROVE  /\ file' = [n \in Names |-> file'[n]] /\ buf' = [n \in Names |-> buf'[n]] /\ exists' = exists
         /\ \A n \in Names : file'[n] = IF n \in S THEN Logical(n) ELSE file[n]
         /\ \A n \in Names : buf'[n] = IF n \in DOMAIN ws THEN ws[n] ELSE IF n \in S THEN NoWrite ELSE buf[n]
BY DEF ThenWrites, FilesAfter, HeldAfter

LEMMA Reads ==
  ASSUME NEW S, readblock(S)
  PROVE  /\ file' = [n \in Names |-> file'[n]] /\ buf' = [n \in Names |-> buf'[n]] /\ exists' = exists
         /\ \A n \in Names : file'[n] = IF n \in S THEN Logical(n) ELSE file[n]
         /\ \A n \in Names : buf'[n] = IF n \in S THEN NoWrite ELSE buf[n]
         /\ \A n \in Names : Logical(n)' = Logical(n)
<1>1. /\ file' = [n \in Names |-> file'[n]] /\ buf' = [n \in Names |-> buf'[n]] /\ exists' = exists
      /\ \A n \in Names : file'[n] = IF n \in S THEN Logical(n) ELSE file[n]
      /\ \A n \in Names : buf'[n] = IF n \in S THEN NoWrite ELSE buf[n]
  BY DEF readblock, FilesAfter, HeldAfter
<1>2. ASSUME NEW n \in Names PROVE Logical(n)' = Logical(n)
  <2>1. CASE n \in S BY <1>1, <2>1, LogicalIs DEF After
  <2>2. CASE n \notin S BY <1>1, <2>2, LogicalIs DEF After
  <2> QED BY <2>1, <2>2
<1> QED BY <1>1, <1>2

-----------------------------------------------------------------------------
(* Sums of lengths, and records that are apart.                              *)
LEMMA LensType ==
  ASSUME NEW x \in Indexes
  PROVE  Lens(x) \in [Nat -> Nat] /\ \A i \in Nat : Lens(x)[i] = PairIn(x, i).reclength
<1>1. \A i \in Nat : PairIn(x, i).reclength \in Nat BY PairType DEF Pairs
<1> QED BY <1>1 DEF Lens

LEMMA TotalType ==
  ASSUME NEW x \in Indexes, NEW n \in Nat
  PROVE  Total(x, n) \in Nat
BY LensType, SumToSteps DEF Total

LEMMA SameIndex ==
  ASSUME NEW x \in Indexes, NEW y \in Indexes, NEW n \in Nat,
         \A i \in 0 .. n - 1 : PairIn(y, i) = PairIn(x, i)
  PROVE  Total(y, n) = Total(x, n) /\ \A t : Apart(x, n, t) => Apart(y, n, t)
<1>1. \A k \in 0 .. n - 1 : Lens(y)[k] = Lens(x)[k] BY LensType
<1>2. Total(y, n) = Total(x, n) BY <1>1, LensType, SumToSame DEF Total
<1>3. ASSUME NEW t, Apart(x, n, t) PROVE Apart(y, n, t) BY <1>3 DEF Apart, Before, End
<1> QED BY <1>2, <1>3

(* A record gets shorter where it is.                                        *)
LEMMA ShorterPair ==
  ASSUME NEW x \in Indexes, NEW y \in Indexes, NEW n \in Nat, NEW i \in Nat, i < n,
         \A j \in Nat : j # i => PairIn(y, j) = PairIn(x, j),
         PairIn(y, i).recstart = PairIn(x, i).recstart, PairIn(y, i).reclength <= PairIn(x, i).reclength
  PROVE  /\ Total(y, n) + PairIn(x, i).reclength = Total(x, n) + PairIn(y, i).reclength
         /\ \A t \in Nat : Apart(x, n, t) => Apart(y, n, t)
<1>1. \A k \in 0 .. n - 1 : k # i => Lens(y)[k] = Lens(x)[k] BY LensType
<1>2. Total(y, n) + Lens(x)[i] = Total(x, n) + Lens(y)[i] BY <1>1, LensType, SumToOne DEF Total
<1>3. ASSUME NEW t \in Nat, Apart(x, n, t) PROVE Apart(y, n, t)
  <2>1. \A k \in Nat : /\ PairIn(x, k).recstart \in Nat /\ PairIn(x, k).reclength \in Nat
                       /\ PairIn(y, k).recstart \in Nat /\ PairIn(y, k).reclength \in Nat
    BY PairType DEF Pairs
  <2>2. \A k \in Nat : /\ PairIn(y, k).recstart = PairIn(x, k).recstart
                       /\ PairIn(y, k).reclength <= PairIn(x, k).reclength
    BY <2>1
  <2>3. \A k \in Nat : End(y, k) <= End(x, k) /\ End(y, k) \in Nat /\ End(x, k) \in Nat BY <2>1, <2>2 DEF End
  <2>4. ASSUME NEW k \in 0 .. n - 1 PROVE End(y, k) <= t
    <3>1. End(x, k) <= t /\ k \in Nat BY <1>3 DEF Apart
    <3> QED BY <2>3, <3>1
  <2>5. ASSUME NEW k \in 0 .. n - 1, NEW j \in 0 .. n - 1, k # j PROVE Before(y, k, j)
    <3>1. Before(x, k, j) BY <1>3, <2>5 DEF Apart
    <3>2. k \in Nat /\ j \in Nat OBVIOUS
    <3>3. CASE PairIn(x, k).reclength = 0 \/ PairIn(x, j).reclength = 0
      BY <2>1, <2>2, <3>2, <3>3 DEF Before
    <3>4. CASE End(x, k) <= PairIn(x, j).recstart
      <4>1. End(y, k) <= PairIn(y, j).recstart BY SMTT(30), <2>1, <2>2, <2>3, <3>2, <3>4
      <4> QED BY <4>1 DEF Before
    <3>5. CASE End(x, j) <= PairIn(x, k).recstart
      <4>1. End(y, j) <= PairIn(y, k).recstart BY SMTT(30), <2>1, <2>2, <2>3, <3>2, <3>5
      <4> QED BY <4>1 DEF Before
    <3> QED BY <3>1, <3>3, <3>4, <3>5 DEF Before
  <2> QED BY <2>4, <2>5 DEF Apart
<1> QED BY <1>2, <1>3, LensType

(* A record is put at the end, and those skipped are empty.                  *)
EmptyBetween(x, n, i, t) == \A j \in n .. i - 1 : PairIn(x, j).reclength = 0 /\ PairIn(x, j).recstart <= t
IsAtEnd(x, y, n, i, m, t, l) ==
  /\ Apart(y, m, t + l)
  /\ i < n => Total(y, n) + PairIn(x, i).reclength = Total(x, n) + l
  /\ n <= i => Total(y, m) = Total(x, n) + l

LEMMA PairAtEnd ==
  ASSUME NEW x \in Indexes, NEW y \in Indexes, NEW n \in Nat, NEW i \in Nat, NEW m \in Nat,
         NEW t \in Nat, NEW l \in Nat,
         m = IF i < n THEN n ELSE i + 1,
         \A j \in Nat : j # i => PairIn(y, j) = PairIn(x, j),
         PairIn(y, i) = Pair(t, l), Apart(x, n, t), EmptyBetween(x, n, i, t)
  PROVE  IsAtEnd(x, y, n, i, m, t, l)
<1>0. \A j \in n .. i - 1 : PairIn(x, j).reclength = 0 /\ PairIn(x, j).recstart <= t BY DEF EmptyBetween
<1>1. \A k \in Nat : /\ PairIn(x, k).recstart \in Nat /\ PairIn(x, k).reclength \in Nat
                     /\ PairIn(y, k).recstart \in Nat /\ PairIn(y, k).reclength \in Nat
                     /\ End(y, k) = PairIn(y, k).recstart + PairIn(y, k).reclength
  BY PairType DEF Pairs, End
<1>2. PairIn(y, i).recstart = t /\ PairIn(y, i).reclength = l /\ End(y, i) = t + l BY <1>1 DEF Pair
<1>3. ASSUME NEW j \in 0 .. m - 1, j # i PROVE End(y, j) <= t
  <2>0. j \in Nat /\ PairIn(y, j) = PairIn(x, j) BY <1>3
  <2>1. CASE j < n
    <3>1. j \in 0 .. n - 1 BY <2>1
    <3>2. End(x, j) <= t BY <3>1 DEF Apart
    <3> QED BY <2>0, <3>2 DEF End
  <2>2. CASE ~ (j < n)
    <3>1. j \in n .. i - 1 BY <1>3, <2>2
    <3> QED BY <1>0, <1>1, <2>0, <3>1
  <2> QED BY <2>1, <2>2
<1>4. \A j \in 0 .. m - 1 : End(y, j) <= t + l
  <2> TAKE j \in 0 .. m - 1
  <2>1. CASE j = i BY <1>2, <2>1
  <2>2. CASE j # i
    <3>1. End(y, j) <= t /\ j \in Nat BY <1>3, <2>2
    <3>2. End(y, j) \in Nat BY <1>1, <3>1
    <3> QED BY <3>1, <3>2
  <2> QED BY <2>1, <2>2
<1>5. ASSUME NEW k \in 0 .. m - 1, NEW j \in 0 .. m - 1, k # j PROVE Before(y, k, j)
  <2>1. CASE k = i
    <3>1. End(y, j) <= PairIn(y, k).recstart BY <1>2, <1>3, <1>5, <2>1
    <3> QED BY <3>1 DEF Before
  <2>2. CASE j = i
    <3>1. End(y, k) <= PairIn(y, j).recstart BY <1>2, <1>3, <1>5, <2>2
    <3> QED BY <3>1 DEF Before
  <2>3. CASE k # i /\ j # i
    <3>1. PairIn(y, j) = PairIn(x, j) /\ PairIn(y, k) = PairIn(x, k) BY <2>3
    <3>2. CASE k \in 0 .. n - 1 /\ j \in 0 .. n - 1
      <4>1. Before(x, k, j) BY <1>5, <3>2 DEF Apart
      <4> QED BY <3>1, <4>1 DEF Before, End
    <3>3. CASE k \in n .. i - 1 BY <1>0, <3>1, <3>3 DEF Before
    <3>4. CASE j \in n .. i - 1 BY <1>0, <3>1, <3>4 DEF Before
    <3>5. k \in 0 .. n - 1 \/ k \in n .. i - 1 BY <2>3
    <3>6. j \in 0 .. n - 1 \/ j \in n .. i - 1 BY <2>3
    <3> QED BY <3>2, <3>3, <3>4, <3>5, <3>6
  <2> QED BY <2>1, <2>2, <2>3
<1>6. ASSUME i < n PROVE Total(y, n) + PairIn(x, i).reclength = Total(x, n) + l
  <2>1. \A k \in 0 .. n - 1 : k # i => Lens(y)[k] = Lens(x)[k]
    <3> TAKE k \in 0 .. n - 1
    <3>1. k \in Nat OBVIOUS
    <3> QED BY <3>1, LensType
  <2>2. Total(y, n) + Lens(x)[i] = Total(x, n) + Lens(y)[i] BY ZenonT(40), <1>6, <2>1, LensType, SumToOne DEF Total
  <2> QED BY <1>2, <2>2, LensType
<1>7. ASSUME n <= i PROVE Total(y, m) = Total(x, n) + l
  <2>1. m = i + 1 BY <1>7
  <2>2. Total(y, m) = Total(y, i) + Lens(y)[i] BY <2>1, LensType, SumToSteps DEF Total
  <2>3. \A k \in n .. i - 1 : Lens(y)[k] = 0
    <3> TAKE k \in n .. i - 1
    <3>1. k \in Nat /\ k # i OBVIOUS
    <3> QED BY <1>0, <3>1, LensType
  <2>4. Total(y, i) = Total(y, n) BY <1>7, <2>3, LensType, SumToZeros DEF Total
  <2>5. \A k \in 0 .. n - 1 : Lens(y)[k] = Lens(x)[k]
    <3> TAKE k \in 0 .. n - 1
    <3>1. k \in Nat /\ k # i BY <1>7
    <3> QED BY <3>1, LensType
  <2>6. Total(y, n) = Total(x, n) BY <2>5, LensType, SumToSame DEF Total
  <2> QED BY <1>2, <2>2, <2>4, <2>6, LensType
<1>8. Apart(y, m, t + l) BY <1>4, <1>5 DEF Apart
<1> QED BY <1>6, <1>7, <1>8 DEF IsAtEnd

(* The last records, when they are empty, may go.                            *)
LEMMA FewerPairs ==
  ASSUME NEW x \in Indexes, NEW n \in Nat, NEW m \in Nat, m <= n,
         \A j \in m .. n - 1 : PairIn(x, j).reclength = 0
  PROVE  Total(x, m) = Total(x, n) /\ \A t : Apart(x, n, t) => Apart(x, m, t)
<1>1. \A j \in m .. n - 1 : Lens(x)[j] = 0
  <2> TAKE j \in m .. n - 1
  <2>1. j \in Nat OBVIOUS
  <2> QED BY <2>1, LensType
<1>2. Total(x, m) = Total(x, n) BY <1>1, LensType, SumToZeros DEF Total
<1>3. 0 .. m - 1 \subseteq 0 .. n - 1 OBVIOUS
<1>4. \A t : Apart(x, n, t) => Apart(x, m, t) BY <1>3 DEF Apart
<1> QED BY <1>2, <1>4

-----------------------------------------------------------------------------
(* What a step leaves of the types, and of what it does not touch.           *)
LEMMA ContentsAreBytes ==
  ASSUME NEW d \in Contents \cup {missing}
  PROVE  d \in Seq(ByteSet) /\ Len(d) \in Nat
<1>1. CASE d \in Contents
  <2>1. d \in Seq({d[k] : k \in DOMAIN d}) BY <1>1, DirectFileAssumption
  <2>2. {d[k] : k \in DOMAIN d} \subseteq ByteSet BY <1>1 DEF ByteSet
  <2>3. d \in Seq(ByteSet) BY <2>1, <2>2
  <2> QED BY <2>3
<1>2. CASE d = missing BY <1>2 DEF missing
<1> QED BY <1>1, <1>2

LEMMA FilesStay ==
  ASSUME FilesOK, BufsOK, file' = [n \in Names |-> file'[n]],
         \A n \in Names : file'[n] = file[n] \/ file'[n] = Logical(n)
  PROVE  FilesOK'
<1>1. "ndx" \in Names /\ "tdx" \in Names /\ "rec" \in Names /\ "trc" \in Names BY DEF Names
<1> QED BY <1>1, LogicalTypes DEF FilesOK

LEMMA ReadsStay ==
  ASSUME FilesOK, BufsOK, NEW S, readblock(S)
  PROVE  /\ FilesOK' /\ BufsOK' /\ exists' = exists
         /\ Ndx' = Ndx /\ Tdx' = Tdx /\ Logical("rec")' = Logical("rec") /\ Logical("trc")' = Logical("trc")
         /\ CopiesGone => CopiesGone'
         /\ NewIsEmpty => NewIsEmpty'
         /\ "ndx" \in S => file'["ndx"] = Ndx /\ buf'["ndx"] = NoWrite
<1>0. "ndx" \in Names /\ "tdx" \in Names /\ "rec" \in Names /\ "trc" \in Names BY DEF Names
<1>1. /\ file' = [n \in Names |-> file'[n]] /\ buf' = [n \in Names |-> buf'[n]] /\ exists' = exists
      /\ \A n \in Names : file'[n] = IF n \in S THEN Logical(n) ELSE file[n]
      /\ \A n \in Names : buf'[n] = IF n \in S THEN NoWrite ELSE buf[n]
      /\ \A n \in Names : Logical(n)' = Logical(n)
  BY Reads
<1>2. FilesOK' BY <1>1, FilesStay
<1>3. BufsOK' BY <1>0, <1>1 DEF BufsOK, IndexWrites, ByteWrites
<1>4. \A n \in Names : buf[n] = NoWrite => file'[n] = file[n] /\ buf'[n] = NoWrite
  BY <1>1, LogicalIs DEF After
<1>5. CopiesGone => CopiesGone' BY <1>0, <1>1, <1>4 DEF CopiesGone
<1>6. NewIsEmpty => NewIsEmpty' BY <1>0, <1>1, <1>4 DEF NewIsEmpty
<1> QED BY <1>0, <1>1, <1>2, <1>3, <1>5, <1>6 DEF Ndx, Tdx

LEMMA NdxWrites ==
  ASSUME FilesOK, BufsOK, NEW w \in IndexWrites, ThenWrites({"ndx"}, [n \in {"ndx"} |-> w])
  PROVE  /\ FilesOK' /\ BufsOK' /\ exists' = exists
         /\ file'["ndx"] = Ndx /\ buf'["ndx"] = w /\ Ndx' = After("ndx", Ndx, w)
         /\ Logical("rec")' = Logical("rec")
         /\ CopiesGone => CopiesGone'
<1>0. "ndx" \in Names /\ "tdx" \in Names /\ "rec" \in Names /\ "trc" \in Names BY DEF Names
<1>1. /\ file' = [n \in Names |-> file'[n]] /\ buf' = [n \in Names |-> buf'[n]] /\ exists' = exists
      /\ \A n \in Names : file'[n] = IF n \in {"ndx"} THEN Logical(n) ELSE file[n]
      /\ \A n \in Names : buf'[n] = IF n \in DOMAIN [m \in {"ndx"} |-> w] THEN [m \in {"ndx"} |-> w][n]
                                    ELSE IF n \in {"ndx"} THEN NoWrite ELSE buf[n]
  BY Steps
<1>2. FilesOK' BY <1>1, FilesStay
<1>3. buf'["ndx"] = w /\ \A n \in Names : n # "ndx" => buf'[n] = buf[n] /\ file'[n] = file[n] BY <1>0, <1>1
<1>4. BufsOK' BY <1>0, <1>1, <1>3 DEF BufsOK
<1>5. file'["ndx"] = Ndx BY <1>0, <1>1 DEF Ndx
<1>6. Ndx' = After("ndx", Ndx, w) BY <1>3, <1>5, LogicalIs DEF Ndx
<1>7. Logical("rec")' = Logical("rec") BY <1>0, <1>3, LogicalIs
<1>8. CopiesGone => CopiesGone' BY <1>0, <1>1, <1>3 DEF CopiesGone
<1> QED BY <1>1, <1>2, <1>3, <1>4, <1>5, <1>6, <1>7, <1>8

LEMMA NdxHeader ==
  ASSUME FilesOK, BufsOK, NEW h \in Headers, writeblock("ndx", 0, <<h>>)
  PROVE  /\ FilesOK' /\ BufsOK' /\ exists' = exists
         /\ file'["ndx"] = Ndx /\ Ndx \in Indexes /\ Ndx' \in Indexes
         /\ Head1(Ndx') = h /\ \A i \in Nat : PairIn(Ndx', i) = PairIn(Ndx, i)
         /\ Logical("rec")' = Logical("rec")
         /\ CopiesGone => CopiesGone'
<1>1. HeaderWrite(h) \in IndexWrites BY DEF IndexWrites
<1>2. ThenWrites({"ndx"}, [n \in {"ndx"} |-> HeaderWrite(h)]) BY BlockIs DEF writeblock
<1>3. Ndx \in Indexes BY LogicalTypes DEF Ndx
<1>4. Ndx' = After("ndx", Ndx, HeaderWrite(h)) BY <1>1, <1>2, NdxWrites
<1>5. Ndx' \in Indexes /\ Head1(Ndx') = h /\ \A i \in Nat : PairIn(Ndx', i) = PairIn(Ndx, i)
  BY <1>3, <1>4, AfterHeader
<1> QED BY <1>1, <1>2, <1>3, <1>5, NdxWrites

LEMMA NdxPair ==
  ASSUME FilesOK, BufsOK, NEW j \in Nat, NEW p \in Pairs, writeblock("ndx", j + 1, <<p>>)
  PROVE  /\ FilesOK' /\ BufsOK' /\ exists' = exists
         /\ file'["ndx"] = Ndx /\ Ndx \in Indexes /\ Ndx' \in Indexes
         /\ Head1(Ndx') = Head1(Ndx) /\ PairIn(Ndx', j) = p
         /\ \A i \in Nat : i # j => PairIn(Ndx', i) = PairIn(Ndx, i)
         /\ Logical("rec")' = Logical("rec")
         /\ CopiesGone => CopiesGone'
<1>1. PairWrite(j, p) \in IndexWrites BY DEF IndexWrites
<1>2. ThenWrites({"ndx"}, [n \in {"ndx"} |-> PairWrite(j, p)])
  <2>1. Block(j + 1, <<p>>) = PairWrite(j, p) BY BlockIs
  <2> QED BY <2>1 DEF writeblock
<1>3. Ndx \in Indexes BY LogicalTypes DEF Ndx
<1>4. Ndx' = After("ndx", Ndx, PairWrite(j, p)) BY <1>1, <1>2, NdxWrites
<1>5. /\ Ndx' \in Indexes /\ Head1(Ndx') = Head1(Ndx) /\ PairIn(Ndx', j) = p
      /\ \A i \in Nat : i # j => PairIn(Ndx', i) = PairIn(Ndx, i)
  BY <1>3, <1>4, AfterPair
<1> QED BY <1>1, <1>2, <1>3, <1>5, NdxWrites

-----------------------------------------------------------------------------
LEMMA Beginning == Init => J
<1> SUFFICES ASSUME Init PROVE J OBVIOUS
<1>1. /\ file = [n \in Names |-> <<>>] /\ exists = {} /\ buf = [n \in Names |-> NoWrite]
      /\ open = FALSE /\ pc = "idle" /\ call = Idle /\ head = ZeroHeader /\ kills = 0 /\ refused = 0
  BY DEF Init
<1>2. \A n \in Names : file[n] = <<>> /\ buf[n] = NoWrite BY <1>1
<1>3. "ndx" \in Names /\ "tdx" \in Names /\ "rec" \in Names /\ "trc" \in Names BY DEF Names
<1>4. FilesOK BY <1>1, <1>2, <1>3, NothingIn DEF FilesOK
<1>5. BufsOK BY <1>1, <1>2, <1>3 DEF BufsOK, IndexWrites, ByteWrites
<1>6. CallOK
  <2>1. 0 \in Indices BY DirectFileAssumption DEF Indices
  <2> QED BY <1>1, <2>1 DEF CallOK, Idle, missing
<1>7. TypeOK BY <1>1, <1>4, <1>5, <1>6, ZeroIsHeader DEF TypeOK, Phases
<1>8. Ndx = <<>> /\ Logical("rec") = <<>> /\ file["ndx"] = <<>>
  BY <1>2, <1>3, LogicalIs DEF After, Ndx
<1>9. Head1(Ndx) = ZeroHeader BY <1>8, NothingIn
<1>10. Whole(ZeroHeader, <<>>) /\ Exact(ZeroHeader, <<>>)
  <2>1. Total(<<>>, 0) = 0 BY LensType, NothingIn, SumToSteps DEF Total
  <2>2. \A t : Apart(<<>>, 0, t) BY DEF Apart
  <2> QED BY <2>1, <2>2 DEF Whole, Exact, ZeroHeader, Header
<1>11. Fits2(ZeroHeader, <<>>) BY DEF Fits2, ZeroHeader, Header
<1>12. AtIdle BY <1>8, <1>9, <1>10, <1>11 DEF AtIdle
<1>13. Disk BY <1>8, <1>9, <1>10 DEF Disk
<1>14. ~ Wasteful(ZeroHeader) BY DEF Wasteful, ZeroHeader, Header
<1>15. CopiesGone /\ NewIsEmpty BY <1>1, <1>2, <1>3 DEF CopiesGone, NewIsEmpty
<1> QED BY <1>1, <1>2, <1>3, <1>7, <1>9, <1>12, <1>13, <1>14, <1>15 DEF J, Early, Opening, Copying, Replacing

-----------------------------------------------------------------------------
(* Calls that only read, and the opening of the file.                        *)
LEMMA ReadIdle ==
  ASSUME J, pc = "idle", open, NEW S, "ndx" \in S, readblock(S), open' \in BOOLEAN,
         UNCHANGED <<pc, call, head, kills, refused>>
  PROVE  J'
<1>1. /\ TypeOK /\ FilesOK /\ BufsOK /\ CopiesGone /\ NewIsEmpty /\ Disk /\ AtIdle /\ "ndx" \in exists
      /\ kills = 0 /\ refused = 0 => ~Wasteful(Head1(Ndx))
  BY DEF J, TypeOK, Phases
<1>2. /\ FilesOK' /\ BufsOK' /\ exists' = exists /\ CopiesGone' /\ NewIsEmpty'
      /\ Ndx' = Ndx /\ Logical("rec")' = Logical("rec") /\ file'["ndx"] = Ndx /\ buf'["ndx"] = NoWrite
  BY <1>1, ReadsStay
<1>3. TypeOK' BY <1>1, <1>2 DEF TypeOK, CallOK
<1>4. AtIdle' BY <1>1, <1>2 DEF AtIdle, Fits2
<1>5. Disk' BY <1>1, <1>2 DEF Disk, AtIdle
<1>6. pc' = "idle" /\ (kills' = 0 /\ refused' = 0 => ~Wasteful(Head1(Ndx'))) BY <1>1, <1>2
<1> QED BY <1>1, <1>2, <1>3, <1>4, <1>5, <1>6 DEF J, Early, Opening, Copying, Replacing

LEMMA OpenPreserves == ASSUME J, iopen PROVE J'
<1>1. /\ ~open /\ open' = TRUE /\ pc = "idle" /\ exists' = exists \cup {"ndx", "rec"}
      /\ UNCHANGED <<file, pc, call, kills, refused>>
  BY DEF J, iopen
<1>2. /\ TypeOK /\ FilesOK /\ BufsOK /\ CopiesGone /\ NewIsEmpty /\ Disk /\ AtIdle
      /\ kills = 0 /\ refused = 0 => ~Wasteful(Head1(Ndx))
      /\ buf["ndx"] = NoWrite \/ (file["ndx"] = <<>> /\ buf["ndx"] = HeaderWrite(ZeroHeader))
  BY <1>1 DEF J, TypeOK, Phases
<1>3. exists' \subseteq Names /\ "ndx" \in exists' /\ ("trc" \notin exists => "trc" \notin exists')
  BY <1>1, <1>2 DEF TypeOK, Names
<1>4. CASE "ndx" \in exists
  <2>1. UNCHANGED <<buf, head>> BY <1>4 DEF iopen
  <2>2. Ndx' = Ndx /\ Logical("rec")' = Logical("rec") BY <1>1, <2>1 DEF Ndx, Logical
  <2>3. TypeOK' BY <1>1, <1>2, <1>3, <2>1 DEF TypeOK, CallOK, FilesOK, BufsOK
  <2>4. CopiesGone' BY <1>1, <1>2, <1>3, <2>1 DEF CopiesGone
  <2>5. AtIdle' BY <1>1, <1>2, <2>2 DEF AtIdle, Fits2
  <2>6. Disk' BY <1>1, <1>2, <2>2 DEF Disk, Moving
  <2>7. NewIsEmpty' BY <1>3 DEF NewIsEmpty
  <2>8. kills' = 0 /\ refused' = 0 => ~Wasteful(Head1(Ndx')) BY <1>1, <1>2, <2>2
  <2>9. buf'["ndx"] = NoWrite \/ (file'["ndx"] = <<>> /\ buf'["ndx"] = HeaderWrite(ZeroHeader))
    BY <1>1, <1>2, <2>1
  <2> QED BY <1>1, <1>3, <2>3, <2>4, <2>5, <2>6, <2>7, <2>8, <2>9 DEF J, Early, Opening, Copying, Replacing
<1>5. CASE "ndx" \notin exists
  <2>1. /\ file["ndx"] = <<>> /\ buf["ndx"] = NoWrite /\ file["rec"] = <<>> /\ buf["rec"] = NoWrite
    BY <1>2, <1>5 DEF NewIsEmpty
  <2>2. buf' = [buf EXCEPT !["ndx"] = HeaderWrite(ZeroHeader)] /\ head' = ZeroHeader
    BY <1>5, BlockIs DEF iopen
  <2>3. "ndx" \in Names /\ "tdx" \in Names /\ "rec" \in Names /\ "trc" \in Names /\ buf = [n \in Names |-> buf[n]]
    BY <1>2 DEF Names, BufsOK
  <2>4. buf'["ndx"] = HeaderWrite(ZeroHeader) /\ \A n \in Names : n # "ndx" => buf'[n] = buf[n]
    BY <2>2, <2>3
  <2>5. BufsOK' /\ FilesOK'
    <3>1. HeaderWrite(ZeroHeader) \in IndexWrites BY ZeroIsHeader DEF IndexWrites
    <3>2. buf' = [n \in Names |-> buf'[n]] BY <2>2, <2>3
    <3> QED BY <1>1, <1>2, <2>3, <2>4, <3>1, <3>2 DEF BufsOK, FilesOK
  <2>6. TypeOK' BY <1>1, <1>2, <1>3, <2>2, <2>5, ZeroIsHeader DEF TypeOK, CallOK
  <2>7. Ndx' = After("ndx", <<>>, HeaderWrite(ZeroHeader)) BY <1>1, <2>1, <2>4, LogicalIs DEF Ndx
  <2>8. Ndx' \in Indexes /\ Head1(Ndx') = ZeroHeader BY <2>7, NothingIn, ZeroIsHeader, AfterHeader
  <2>9. Logical("rec")' = <<>> BY <1>1, <2>1, <2>3, <2>4, LogicalIs DEF After
  <2>10. \A x \in Indexes : Whole(ZeroHeader, x) /\ Exact(ZeroHeader, x)
    <3> TAKE x \in Indexes
    <3>1. Total(x, 0) = 0 BY LensType, SumToSteps DEF Total
    <3>2. \A t : Apart(x, 0, t) BY DEF Apart
    <3> QED BY <3>1, <3>2 DEF Whole, Exact, ZeroHeader, Header
  <2>11. AtIdle' BY <2>8, <2>9, <2>10 DEF AtIdle, Fits2, ZeroHeader, Header
  <2>12. Disk' BY <1>1, <2>1, <2>8, <2>10, NothingIn DEF Disk
  <2>13. CopiesGone' BY <1>1, <1>2, <1>3, <2>3, <2>4 DEF CopiesGone
  <2>14. NewIsEmpty' BY <1>3 DEF NewIsEmpty
  <2>15. ~Wasteful(Head1(Ndx')) BY <2>8 DEF Wasteful, ZeroHeader, Header
  <2> QED BY <1>1, <1>3, <2>1, <2>4, <2>6, <2>11, <2>12, <2>13, <2>14, <2>15
       DEF J, Early, Opening, Copying, Replacing
<1> QED BY <1>4, <1>5

-----------------------------------------------------------------------------
(* A record is written.                                                      *)
LEMMA WritePreserves ==
  ASSUME J, NEW i \in Indices, NEW isarray \in BOOLEAN, NEW d \in Contents, writerec(i, isarray, d)
  PROVE  J'
<1> DEFINE h == Head1(Ndx)
           p == PairIn(Ndx, i)
           fits == Fits(h, Ndx, i, isarray, d)
           start == IF fits THEN p.recstart ELSE h.totallen
           freed == Freed(h, p, i, fits, d)
<1>1. /\ open /\ pc = "idle"
      /\ ThenWrites({"ndx", "rec"}, [n \in {"rec"} |-> Block(start, d)])
      /\ head' = [h EXCEPT !.status = StatusOf(isarray)]
      /\ call' = [i |-> i, d |-> d, start |-> start, next |-> h.recordcnt, last |-> i,
                  moves |-> i < h.recordcnt /\ ~fits, freed |-> freed, erases |-> FALSE]
      /\ pc' = "index" /\ UNCHANGED <<open, kills, refused>>
  BY DEF writerec, Ndx
<1>2. /\ TypeOK /\ FilesOK /\ BufsOK /\ CopiesGone /\ Disk /\ AtIdle /\ "ndx" \in exists
  BY <1>1 DEF J, TypeOK, Phases
<1>3. Ndx \in Indexes /\ Logical("rec") \in Seq(ByteSet) BY <1>2, LogicalTypes DEF Ndx
<1>4. i \in Nat BY DirectFileAssumption DEF Indices
<1>5. h \in Headers /\ p \in Pairs BY <1>3, <1>4, HeadType, PairType
<1>6. d \in Seq(ByteSet) /\ Len(d) \in Nat BY ContentsAreBytes
<1>7. /\ h.recordcnt \in Nat /\ h.totallen \in Nat /\ h.space_free \in Nat
      /\ p.recstart \in Nat /\ p.reclength \in Nat
  BY <1>5 DEF Headers, Pairs
<1>8. start \in Nat BY <1>7
<1>9. fits => i < h.recordcnt /\ Len(d) <= p.reclength BY DEF Fits
<1>10. /\ i >= h.recordcnt => freed = 0
       /\ i < h.recordcnt => freed = IF fits THEN p.reclength - Len(d) ELSE p.reclength
  BY <1>4, <1>7 DEF Freed
<1>11. freed \in Nat BY <1>4, <1>6, <1>7, <1>9, <1>10
<1> HIDE DEF h, p, fits, start, freed
<1>12. "ndx" \in Names /\ "tdx" \in Names /\ "rec" \in Names /\ "trc" \in Names BY DEF Names
<1>13. /\ file' = [n \in Names |-> file'[n]] /\ buf' = [n \in Names |-> buf'[n]] /\ exists' = exists
       /\ \A n \in Names : file'[n] = IF n \in {"ndx", "rec"} THEN Logical(n) ELSE file[n]
       /\ \A n \in Names : buf'[n] = IF n \in DOMAIN [m \in {"rec"} |-> Block(start, d)]
                                     THEN [m \in {"rec"} |-> Block(start, d)][n]
                                     ELSE IF n \in {"ndx", "rec"} THEN NoWrite ELSE buf[n]
  BY <1>1, Steps
<1>14. /\ file'["ndx"] = Ndx /\ buf'["ndx"] = NoWrite /\ file'["rec"] = Logical("rec")
       /\ buf'["rec"] = Block(start, d)
       /\ file'["tdx"] = file["tdx"] /\ file'["trc"] = file["trc"]
       /\ buf'["tdx"] = buf["tdx"] /\ buf'["trc"] = buf["trc"]
  BY <1>12, <1>13 DEF Ndx
<1>15. FilesOK' BY <1>2, <1>13, FilesStay
<1>16. BufsOK' BY <1>2, <1>6, <1>8, <1>13, <1>14, BlockOfBytes DEF BufsOK, IndexWrites
<1>17. CallOK'
  <2>1. (i < h.recordcnt /\ ~fits) \in BOOLEAN OBVIOUS
  <2> QED BY <1>1, <1>7, <1>8, <1>11, <2>1 DEF CallOK
<1>18. head' \in Headers BY <1>1, <1>5 DEF Headers, StatusOf
<1>19. TypeOK' BY <1>1, <1>2, <1>13, <1>15, <1>16, <1>17, <1>18 DEF TypeOK, Phases
<1>20. Ndx' = Ndx BY <1>14, LogicalIs DEF After, Ndx
<1>21. Logical("rec")' = After("rec", Logical("rec"), Block(start, d)) BY <1>14, LogicalIs
<1>22. Len(Logical("rec")') = Len(Logical("rec")) \/ Len(Logical("rec")') <= start + Len(d)
  BY <1>3, <1>6, <1>8, <1>21, AfterBlock
<1>23. Whole(h, Ndx) /\ (kills = 0 => Exact(h, Ndx)) /\ (kills = 0 => Len(Logical("rec")) <= h.totallen)
  BY <1>2 DEF AtIdle, Fits2, h
<1>24. head'.recordcnt = h.recordcnt /\ head'.totallen = h.totallen /\ head'.space_free = h.space_free
  BY <1>1, <1>5 DEF Headers
<1>25. AtIndex'
  <2>1. \E st \in {array_type, record_type} : head' = [Head1(Ndx') EXCEPT !.status = st]
    BY <1>1, <1>20 DEF StatusOf, h
  <2>2. Whole(head', Ndx') /\ (kills' = 0 => Exact(head', Ndx'))
    BY <1>1, <1>20, <1>23, <1>24 DEF Whole, Exact
  <2>3. call'.next = head'.recordcnt BY <1>1, <1>24
  <2>4. head'.recordcnt \in Nat BY <1>7, <1>24
  <2>5. /\ head'.recordcnt <= call'.next /\ ~ (head'.recordcnt < call'.next)
        /\ head'.recordcnt .. call'.next - 1 = {}
    BY <2>3, <2>4
  <2>6. \/ /\ head'.recordcnt <= call'.i /\ call'.start = head'.totallen /\ call'.freed = 0 /\ ~call'.moves
        \/ /\ call'.i < head'.recordcnt /\ Len(call'.d) <= PairIn(Ndx', call'.i).reclength /\ ~call'.moves
           /\ call'.start = PairIn(Ndx', call'.i).recstart
           /\ call'.freed = PairIn(Ndx', call'.i).reclength - Len(call'.d)
        \/ /\ call'.i < head'.recordcnt /\ call'.moves
           /\ call'.start = head'.totallen /\ call'.freed = PairIn(Ndx', call'.i).reclength
    <3>1. call'.i = i /\ call'.d = d /\ call'.start = start /\ call'.freed = freed
          /\ call'.moves = (i < h.recordcnt /\ ~fits)
      BY <1>1
    <3>2. PairIn(Ndx', i) = p BY <1>20 DEF p
    <3>3. CASE i >= h.recordcnt
      <4>1. ~fits /\ freed = 0 /\ h.recordcnt <= i /\ ~ (i < h.recordcnt)
        BY <1>4, <1>7, <1>9, <1>10, <3>3
      <4>2. start = h.totallen BY <4>1 DEF start
      <4> QED BY <1>24, <3>1, <4>1, <4>2
    <3>4. CASE i < h.recordcnt /\ fits
      <4>1. start = p.recstart BY <3>4 DEF start
      <4> QED BY <1>9, <1>10, <1>24, <3>1, <3>2, <3>4, <4>1
    <3>5. CASE i < h.recordcnt /\ ~fits
      <4>1. start = h.totallen BY <3>5 DEF start
      <4> QED BY <1>10, <1>24, <3>1, <3>2, <3>5, <4>1
    <3> QED BY <1>4, <1>7, <3>3, <3>4, <3>5
  <2>7. kills' = 0 => Len(Logical("rec")') <= head'.totallen \/ Len(Logical("rec")') <= call'.start + Len(call'.d)
    BY <1>1, <1>22, <1>23, <1>24
  <2> QED BY <2>1, <2>2, <2>5, <2>6, <2>7 DEF AtIndex
<1>26. Disk' BY <1>2, <1>14, <1>20 DEF Disk, AtIdle
<1>27. CopiesGone' BY <1>2, <1>13, <1>14 DEF CopiesGone
<1>28. NewIsEmpty' BY <1>2, <1>13 DEF NewIsEmpty
<1> QED BY <1>1, <1>2, <1>13, <1>19, <1>25, <1>26, <1>27, <1>28 DEF J, Early, Opening, Copying, Replacing

(* What the phase of the index says, in short.                               *)
LEMMA IndexFacts ==
  ASSUME J, pc = "index"
  PROVE  /\ FilesOK /\ BufsOK /\ CopiesGone /\ open /\ "ndx" \in exists
         /\ Ndx \in Indexes /\ Head1(Ndx) \in Headers /\ head \in Headers
         /\ Whole(Head1(Ndx), Ndx) /\ Whole(Head1(file["ndx"]), file["ndx"])
         /\ head.recordcnt = Head1(Ndx).recordcnt /\ head.totallen = Head1(Ndx).totallen
         /\ head.space_free = Head1(Ndx).space_free
         /\ call.i \in Nat /\ call.next \in Nat /\ call.start \in Nat /\ call.freed \in Nat
         /\ call.d \in Seq(ByteSet) /\ Len(call.d) \in Nat /\ call.moves \in BOOLEAN
<1>1. /\ TypeOK /\ FilesOK /\ BufsOK /\ CallOK /\ CopiesGone /\ open /\ "ndx" \in exists /\ Disk /\ AtIndex
  BY DEF J, TypeOK, Phases
<1>2. Ndx \in Indexes BY <1>1, LogicalTypes DEF Ndx
<1>3. Head1(Ndx) \in Headers BY <1>2, HeadType
<1>4. ~Moving BY DEF Moving
<1>5. /\ head.recordcnt = Head1(Ndx).recordcnt /\ head.totallen = Head1(Ndx).totallen
      /\ head.space_free = Head1(Ndx).space_free
  BY <1>1, <1>3 DEF AtIndex, Headers
<1>6. call.i \in Nat BY <1>1, DirectFileAssumption DEF CallOK, Indices
<1>7. call.d \in Seq(ByteSet) /\ Len(call.d) \in Nat
  <2>1. call.d \in Contents \cup {missing} BY <1>1 DEF CallOK
  <2> QED BY <2>1, ContentsAreBytes
<1> QED BY <1>1, <1>2, <1>3, <1>4, <1>5, <1>6, <1>7 DEF Disk, TypeOK, CallOK

LEMMA GapPreserves == ASSUME J, FillGap PROVE J'
<1>1. /\ pc = "index" /\ call.next < call.i
      /\ writeblock("ndx", call.next + 1, <<Pair(head.totallen, 0)>>)
      /\ call' = [call EXCEPT !.next = @ + 1]
      /\ UNCHANGED <<open, pc, head, kills, refused>>
  BY DEF FillGap
<1>2. PICK n \in Nat, t \in Nat : n = head.recordcnt /\ t = head.totallen BY <1>1, IndexFacts DEF Headers
<1>3. Pair(t, 0) \in Pairs BY DEF Pair, Pairs
<1>4. /\ FilesOK' /\ BufsOK' /\ exists' = exists /\ file'["ndx"] = Ndx /\ Ndx \in Indexes /\ Ndx' \in Indexes
      /\ Head1(Ndx') = Head1(Ndx) /\ PairIn(Ndx', call.next) = Pair(t, 0)
      /\ \A j \in Nat : j # call.next => PairIn(Ndx', j) = PairIn(Ndx, j)
      /\ Logical("rec")' = Logical("rec") /\ (CopiesGone => CopiesGone')
  BY <1>1, <1>2, <1>3, IndexFacts, NdxPair
<1>5. TypeOK /\ AtIndex BY <1>1 DEF J
<1>6. n <= call.next BY <1>2, <1>5 DEF AtIndex
<1>7. TypeOK'
  <2>1. call' \in [i : Indices, d : Contents \cup {missing}, start : Nat, next : Nat, last : Indices,
                   moves : BOOLEAN, freed : Nat, erases : BOOLEAN]
    BY <1>1, <1>5 DEF TypeOK, CallOK
  <2> QED BY <1>1, <1>4, <1>5, <2>1 DEF TypeOK, CallOK
<1>8. Total(Ndx', n) = Total(Ndx, n) /\ \A u : Apart(Ndx, n, u) => Apart(Ndx', n, u)
  <2>1. \A j \in 0 .. n - 1 : PairIn(Ndx', j) = PairIn(Ndx, j)
    <3> TAKE j \in 0 .. n - 1
    <3>1. j \in Nat /\ j # call.next BY <1>1, <1>6, IndexFacts
    <3> QED BY <1>4, <3>1
  <2> QED BY <1>4, <2>1, SameIndex
<1>9. /\ Whole(head, Ndx) => Whole(head, Ndx')
      /\ Exact(head, Ndx) => Exact(head, Ndx')
      /\ Whole(Head1(Ndx), Ndx) => Whole(Head1(Ndx), Ndx')
  BY <1>1, <1>2, <1>8, IndexFacts DEF Whole, Exact
<1>10. AtIndex'
  <2>1. call'.next = call.next + 1 /\ call'.i = call.i /\ call'.start = call.start /\ call'.d = call.d
        /\ call'.moves = call.moves /\ call'.freed = call.freed
    BY <1>1, <1>5 DEF TypeOK, CallOK
  <2>2. head'.recordcnt <= call'.next /\ (head'.recordcnt < call'.next => call'.next <= call'.i)
    BY <1>1, <1>2, <1>6, <2>1, IndexFacts
  <2>3. \A j \in head'.recordcnt .. call'.next - 1 :
          PairIn(Ndx', j).reclength = 0 /\ PairIn(Ndx', j).recstart <= head'.totallen
    <3> SUFFICES ASSUME NEW j \in n .. call.next
                 PROVE  PairIn(Ndx', j).reclength = 0 /\ PairIn(Ndx', j).recstart <= t
      BY <1>1, <1>2, <2>1, IndexFacts
    <3>1. CASE j = call.next BY <1>4, <3>1 DEF Pair
    <3>2. CASE j # call.next
      <4>1. j \in Nat /\ j \in head.recordcnt .. call.next - 1 BY <1>1, <1>2, <3>2, IndexFacts
      <4>2. PairIn(Ndx, j).reclength = 0 /\ PairIn(Ndx, j).recstart <= head.totallen
        BY <1>5, <4>1 DEF AtIndex
      <4> QED BY <1>2, <1>4, <3>2, <4>1, <4>2
    <3> QED BY <3>1, <3>2
  <2>4. n <= call.i /\ ~ (call.i < n) BY <1>1, <1>6, IndexFacts
  <2>5. call.start = head.totallen /\ call.freed = 0 /\ ~call.moves BY <1>2, <1>5, <2>4 DEF AtIndex
  <2> QED BY <1>1, <1>2, <1>4, <1>5, <1>9, <2>1, <2>2, <2>3, <2>4, <2>5 DEF AtIndex
<1>11. Disk' BY <1>1, <1>4, <1>9, IndexFacts DEF Disk
<1>12. NewIsEmpty' BY <1>1, <1>4, IndexFacts DEF NewIsEmpty
<1>13. CopiesGone' /\ open' /\ "ndx" \in exists' BY <1>1, <1>4, IndexFacts
<1> QED BY <1>1, <1>7, <1>10, <1>11, <1>12, <1>13 DEF J, Early, Opening, Copying, Replacing

LEMMA PairPreserves == ASSUME J, WritePair PROVE J'
<1>1. /\ pc = "index" /\ call.next >= call.i
      /\ writeblock("ndx", call.i + 1, <<Pair(call.start, Len(call.d))>>)
      /\ head' = [head EXCEPT !.recordcnt = Max({@, call.i + 1}),
                              !.totallen = IF @ = call.start THEN @ + Len(call.d) ELSE @,
                              !.space_free = @ + call.freed]
      /\ pc' = "header" /\ UNCHANGED <<open, call, kills, refused>>
  BY DEF WritePair
<1>2. PICK n \in Nat, t \in Nat, f \in Nat : n = head.recordcnt /\ t = head.totallen /\ f = head.space_free
  BY <1>1, IndexFacts DEF Headers
<1>3. PICK i \in Nat, start \in Nat, l \in Nat, freed \in Nat :
        i = call.i /\ start = call.start /\ l = Len(call.d) /\ freed = call.freed
  BY <1>1, IndexFacts
<1>4. Pair(start, l) \in Pairs BY DEF Pair, Pairs
<1>5. /\ FilesOK' /\ BufsOK' /\ exists' = exists /\ file'["ndx"] = Ndx /\ Ndx \in Indexes /\ Ndx' \in Indexes
      /\ Head1(Ndx') = Head1(Ndx) /\ PairIn(Ndx', i) = Pair(start, l)
      /\ \A j \in Nat : j # i => PairIn(Ndx', j) = PairIn(Ndx, j)
      /\ Logical("rec")' = Logical("rec") /\ (CopiesGone => CopiesGone')
  BY <1>1, <1>3, <1>4, IndexFacts, NdxPair
<1>6. TypeOK /\ AtIndex BY <1>1 DEF J
<1>7. PICK m \in Nat : m = head'.recordcnt /\ m = IF i < n THEN n ELSE i + 1
  <2>1. PICK k \in Nat : k = i + 1 OBVIOUS
  <2>2. Max({n, k}) = IF n >= k THEN n ELSE k BY MaxOfTwo
  <2>3. head'.recordcnt = Max({n, k}) BY <1>1, <1>2, <1>3, <2>1, IndexFacts DEF Headers
  <2> QED BY <2>1, <2>2, <2>3
<1>8. /\ head'.totallen = (IF t = start THEN t + l ELSE t) /\ head'.space_free = f + freed
      /\ head'.status = head.status
  BY <1>1, <1>2, <1>3, IndexFacts DEF Headers
<1>9. head' \in Headers
  <2>1. head' = [recordcnt |-> head'.recordcnt, totallen |-> head'.totallen, space_free |-> head'.space_free,
                 status |-> head'.status]
    BY <1>1, IndexFacts DEF Headers
  <2>2. head'.recordcnt \in Nat /\ head'.totallen \in Nat /\ head'.space_free \in Nat
    BY <1>7, <1>8
  <2>3. head'.status \in {0, array_type, record_type} BY <1>1, <1>8, IndexFacts DEF Headers
  <2> QED BY <2>1, <2>2, <2>3 DEF Headers
<1>10. TypeOK' BY <1>1, <1>5, <1>6, <1>9 DEF TypeOK, CallOK, Phases
<1>11. \A j \in Nat : PairIn(Ndx, j).recstart \in Nat /\ PairIn(Ndx, j).reclength \in Nat
  BY <1>5, PairType DEF Pairs
<1>12. Total(Ndx, n) \in Nat /\ Total(Ndx', m) \in Nat /\ Total(Ndx', n) \in Nat BY <1>5, TotalType
<1>13. /\ Apart(Ndx, n, t) /\ Total(Ndx, n) + f <= t /\ (kills = 0 => Total(Ndx, n) + f = t)
  BY <1>2, <1>6 DEF AtIndex, Whole, Exact
<1>14. kills = 0 => Len(Logical("rec")) <= t \/ Len(Logical("rec")) <= start + l
  BY <1>2, <1>3, <1>6 DEF AtIndex
<1>a. Len(Logical("rec")) \in Nat
  <2>1. Logical("rec") \in Seq(ByteSet) BY <1>1, IndexFacts, LogicalTypes
  <2> QED BY <2>1
<1>b. Disk /\ "ndx" \in exists /\ open /\ CopiesGone BY <1>1, IndexFacts DEF J, Phases
<1>15. SUFFICES /\ Apart(Ndx', m, head'.totallen)
                /\ Total(Ndx', m) + head'.space_free <= head'.totallen
                /\ kills = 0 => Total(Ndx', m) + head'.space_free = head'.totallen
                /\ kills = 0 => Len(Logical("rec")) <= head'.totallen
                /\ ~call.moves => Apart(Ndx', n, t) /\ Total(Ndx', n) + f <= t
  <2>1. AtHeader' BY <1>1, <1>5, <1>7, <1>15 DEF AtHeader, Whole, Exact, Fits2
  <2>2. Disk'
    <3>1. SUFFICES ASSUME ~call.moves PROVE Whole(Head1(Ndx'), Ndx') /\ Whole(Head1(file'["ndx"]), file'["ndx"])
      BY <1>1 DEF Disk, Moving
    <3>2. Whole(Head1(Ndx'), Ndx') BY <1>1, <1>2, <1>5, <1>15, <3>1, IndexFacts DEF Whole
    <3> QED BY <1>1, <1>5, <3>2, IndexFacts
  <2>3. NewIsEmpty' BY <1>5, <1>b DEF NewIsEmpty
  <2> QED BY <1>1, <1>5, <1>10, <1>b, <2>1, <2>2, <2>3 DEF J, Early, Opening, Copying, Replacing, Phases
<1>16. CASE n <= i /\ start = t /\ freed = 0
  <2>1. \A j \in n .. i - 1 : PairIn(Ndx, j).reclength = 0 /\ PairIn(Ndx, j).recstart <= t
    <3> TAKE j \in n .. i - 1
    <3>1. j \in head.recordcnt .. call.next - 1 BY <1>1, <1>2, <1>3, IndexFacts
    <3> QED BY <1>2, <1>6, <3>1 DEF AtIndex
  <2>a. PairIn(Ndx', i) = Pair(t, l) BY <1>5, <1>16
  <2>b. IsAtEnd(Ndx, Ndx', n, i, m, t, l)
    <3>1. EmptyBetween(Ndx, n, i, t) BY <2>1 DEF EmptyBetween
    <3> QED BY <1>5, <1>7, <1>13, <2>a, <3>1, PairAtEnd
  <2>2. Apart(Ndx', m, t + l) /\ Total(Ndx', m) = Total(Ndx, n) + l BY <1>16, <2>b DEF IsAtEnd
  <2>3. head'.totallen = t + l /\ head'.space_free = f BY <1>8, <1>16
  <2>4. Total(Ndx', n) = Total(Ndx, n) /\ Apart(Ndx', n, t)
    <3>1. \A j \in 0 .. n - 1 : PairIn(Ndx', j) = PairIn(Ndx, j)
      <4> TAKE j \in 0 .. n - 1
      <4>1. j \in Nat /\ j # i BY <1>16
      <4> QED BY <1>5, <4>1
    <3> QED BY <1>5, <1>13, <3>1, SameIndex
  <2>5. Apart(Ndx', m, head'.totallen) BY <2>2, <2>3
  <2>6. PICK a \in Nat : a = Total(Ndx, n) BY <1>12
  <2>7. /\ Total(Ndx', m) + head'.space_free <= head'.totallen
        /\ kills = 0 => Total(Ndx', m) + head'.space_free = head'.totallen
        /\ Total(Ndx', n) + f <= t
    BY <1>13, <2>2, <2>3, <2>4, <2>6
  <2>8. kills = 0 => Len(Logical("rec")) <= head'.totallen BY <1>14, <1>16, <1>a, <2>3
  <2> QED BY <2>4, <2>5, <2>7, <2>8
<1>17. CASE /\ i < n /\ l <= PairIn(Ndx, i).reclength
            /\ start = PairIn(Ndx, i).recstart /\ freed = PairIn(Ndx, i).reclength - l
  <2>1. PICK a \in Nat : a = PairIn(Ndx, i).reclength BY <1>11
  <2>2. PairIn(Ndx', i).recstart = PairIn(Ndx, i).recstart /\ PairIn(Ndx', i).reclength = l
    BY <1>5, <1>17 DEF Pair
  <2>3. /\ Total(Ndx', n) + PairIn(Ndx, i).reclength = Total(Ndx, n) + PairIn(Ndx', i).reclength
        /\ Apart(Ndx', n, t)
    BY <1>5, <1>13, <1>17, <2>2, ShorterPair
  <2>4. m = n /\ head'.space_free = f + (a - l) BY <1>7, <1>8, <1>17, <2>1
  <2>5. start + a <= t
    <3>1. i \in 0 .. n - 1 BY <1>17
    <3>2. End(Ndx, i) <= t BY <1>13, <3>1 DEF Apart
    <3> QED BY <1>17, <2>1, <3>2 DEF End
  <2>6. head'.totallen = t
    <3>1. t = start => l = 0 BY <1>17, <2>1, <2>5
    <3> QED BY <1>8, <3>1
  <2>7. PICK b \in Nat, c \in Nat : b = Total(Ndx, n) /\ c = Total(Ndx', n) BY <1>12
  <2>8. c + a = b + l BY <2>1, <2>2, <2>3, <2>7
  <2>9. l <= a BY <1>17, <2>1
  <2>10. /\ Total(Ndx', m) + head'.space_free <= head'.totallen
         /\ kills = 0 => Total(Ndx', m) + head'.space_free = head'.totallen
         /\ Total(Ndx', n) + f <= t
    <3>1. b + f <= t /\ (kills = 0 => b + f = t) BY <1>13, <2>7
    <3>2. Total(Ndx', m) = c /\ Total(Ndx', n) = c BY <2>4, <2>7
    <3> QED BY <2>4, <2>6, <2>8, <2>9, <3>1, <3>2
  <2>11. kills = 0 => Len(Logical("rec")) <= head'.totallen BY <1>14, <1>a, <2>5, <2>6, <2>9
  <2> QED BY <2>3, <2>4, <2>6, <2>10, <2>11
<1>18. CASE i < n /\ call.moves /\ start = t /\ freed = PairIn(Ndx, i).reclength
  <2>1. \A j \in n .. i - 1 : PairIn(Ndx, j).reclength = 0 /\ PairIn(Ndx, j).recstart <= t BY <1>18
  <2>a. PairIn(Ndx', i) = Pair(t, l) BY <1>5, <1>18
  <2>b. IsAtEnd(Ndx, Ndx', n, i, m, t, l)
    <3>1. EmptyBetween(Ndx, n, i, t) BY <2>1 DEF EmptyBetween
    <3> QED BY <1>5, <1>7, <1>13, <2>a, <3>1, PairAtEnd
  <2>2. /\ Apart(Ndx', m, t + l)
        /\ Total(Ndx', n) + PairIn(Ndx, i).reclength = Total(Ndx, n) + l
    BY <1>18, <2>b DEF IsAtEnd
  <2>3. m = n /\ head'.totallen = t + l /\ head'.space_free = f + freed BY <1>7, <1>8, <1>18
  <2>4. PICK b \in Nat, c \in Nat : b = Total(Ndx, n) /\ c = Total(Ndx', n) BY <1>12
  <2>5. c + freed = b + l BY <1>18, <2>2, <2>4
  <2>6. /\ Total(Ndx', m) + head'.space_free <= head'.totallen
        /\ kills = 0 => Total(Ndx', m) + head'.space_free = head'.totallen
    <3>1. b + f <= t /\ (kills = 0 => b + f = t) BY <1>13, <2>4
    <3>2. Total(Ndx', m) = c BY <2>3, <2>4
    <3> QED BY <2>3, <2>5, <3>1, <3>2
  <2>7. kills = 0 => Len(Logical("rec")) <= head'.totallen BY <1>14, <1>18, <1>a, <2>3
  <2> QED BY <1>18, <2>2, <2>3, <2>6, <2>7
<1> QED BY <1>2, <1>3, <1>6, <1>16, <1>17, <1>18 DEF AtIndex

LEMMA HeaderPreserves == ASSUME J, WriteHeader PROVE J'
<1>1. /\ pc = "header" /\ writeblock("ndx", 0, <<head>>)
      /\ pc' = "compressfile" /\ UNCHANGED <<open, call, head, kills, refused>>
  BY DEF WriteHeader
<1>2. TypeOK /\ FilesOK /\ BufsOK /\ CopiesGone /\ Disk /\ AtHeader /\ open /\ "ndx" \in exists /\ head \in Headers
  BY <1>1 DEF J, TypeOK, Phases
<1>3. /\ FilesOK' /\ BufsOK' /\ exists' = exists
      /\ file'["ndx"] = Ndx /\ Ndx \in Indexes /\ Ndx' \in Indexes
      /\ Head1(Ndx') = head /\ \A i \in Nat : PairIn(Ndx', i) = PairIn(Ndx, i)
      /\ Logical("rec")' = Logical("rec") /\ CopiesGone'
  BY <1>1, <1>2, NdxHeader
<1>4. TypeOK' BY <1>1, <1>2, <1>3 DEF TypeOK, CallOK, Phases
<1>5. PICK n \in Nat : n = head.recordcnt BY <1>2 DEF Headers
<1>6. Total(Ndx', n) = Total(Ndx, n) /\ \A u : Apart(Ndx, n, u) => Apart(Ndx', n, u)
  <2>1. \A j \in 0 .. n - 1 : PairIn(Ndx', j) = PairIn(Ndx, j) BY <1>3
  <2> QED BY <1>3, <2>1, SameIndex
<1>7. AtIdle' BY <1>1, <1>2, <1>3, <1>5, <1>6 DEF AtIdle, AtHeader, Whole, Exact, Fits2
<1>8. Disk'
  <2>1. ~Moving' => ~Moving BY <1>1 DEF Moving
  <2> QED BY <1>2, <1>3, <1>7, <2>1 DEF Disk, AtIdle
<1>9. NewIsEmpty' BY <1>2, <1>3 DEF NewIsEmpty
<1> QED BY <1>1, <1>2, <1>3, <1>4, <1>7, <1>8, <1>9 DEF J, Early, Opening, Copying, Replacing, Phases

-----------------------------------------------------------------------------
(* A record is erased.                                                       *)
LEMMA ErasePreserves == ASSUME J, NEW i \in Indices, eraserecord(i) PROVE J'
<1> DEFINE h == Head1(Ndx)
           p == PairIn(Ndx, i)
<1>1. /\ open /\ pc = "idle" /\ i < h.recordcnt
      /\ writeblock("ndx", i + 1, <<[p EXCEPT !.reclength = 0]>>)
      /\ head' = [h EXCEPT !.space_free = @ + p.reclength]
      /\ call' = [Left EXCEPT !.i = i, !.erases = TRUE]
      /\ pc' = (IF i = h.recordcnt - 1 THEN "goback" ELSE "header") /\ UNCHANGED <<open, kills, refused>>
  BY DEF eraserecord, Ndx
<1>2. /\ TypeOK /\ FilesOK /\ BufsOK /\ CopiesGone /\ Disk /\ AtIdle /\ "ndx" \in exists /\ ~Moving
  BY <1>1 DEF J, TypeOK, Phases, Moving
<1>3. Ndx \in Indexes /\ i \in Nat BY <1>2, LogicalTypes, DirectFileAssumption DEF Ndx, Indices
<1>4. h \in Headers /\ p \in Pairs BY <1>3, HeadType, PairType
<1>5. PICK n \in Nat, t \in Nat, f \in Nat, s \in Nat, l \in Nat :
        n = h.recordcnt /\ t = h.totallen /\ f = h.space_free /\ s = p.recstart /\ l = p.reclength
  BY <1>4 DEF Headers, Pairs
<1>6. [p EXCEPT !.reclength = 0] = Pair(s, 0) /\ Pair(s, 0) \in Pairs BY <1>4, <1>5 DEF Pair, Pairs
<1>7. /\ FilesOK' /\ BufsOK' /\ exists' = exists /\ file'["ndx"] = Ndx /\ Ndx' \in Indexes
      /\ Head1(Ndx') = h /\ PairIn(Ndx', i) = Pair(s, 0)
      /\ \A j \in Nat : j # i => PairIn(Ndx', j) = PairIn(Ndx, j)
      /\ Logical("rec")' = Logical("rec") /\ CopiesGone'
  <2> HIDE DEF h, p
  <2>1. writeblock("ndx", i + 1, <<Pair(s, 0)>>) BY <1>1, <1>6
  <2>2. Head1(Ndx') = Head1(Ndx) BY <1>2, <1>3, <1>6, <2>1, NdxPair
  <2> QED BY <1>2, <1>3, <1>6, <2>1, <2>2, NdxPair DEF h
<1>8. /\ Apart(Ndx, n, t) /\ Total(Ndx, n) + f <= t /\ (kills = 0 => Total(Ndx, n) + f = t)
      /\ kills = 0 => Len(Logical("rec")) <= t
      /\ Whole(h, Ndx)
  BY <1>2, <1>5 DEF AtIdle, Whole, Exact, Fits2
<1>9. PairIn(Ndx', i).recstart = s /\ PairIn(Ndx', i).reclength = 0 BY <1>7 DEF Pair
<1>10. /\ Total(Ndx', n) + PairIn(Ndx, i).reclength = Total(Ndx, n) + PairIn(Ndx', i).reclength
       /\ Apart(Ndx', n, t)
  <2>1. PairIn(Ndx', i).recstart = PairIn(Ndx, i).recstart BY <1>5, <1>9
  <2>2. PairIn(Ndx', i).reclength <= PairIn(Ndx, i).reclength BY <1>5, <1>9
  <2>3. i < n BY <1>1, <1>5
  <2> HIDE DEF h, p
  <2> QED BY <1>3, <1>7, <1>8, <2>1, <2>2, <2>3, ShorterPair
<1>11. PICK a \in Nat, b \in Nat : a = Total(Ndx, n) /\ b = Total(Ndx', n) BY <1>3, <1>7, TotalType
<1>12. b + l = a /\ a + f <= t /\ (kills = 0 => a + f = t) BY <1>5, <1>8, <1>9, <1>10, <1>11
<1>13. /\ head'.recordcnt = n /\ head'.totallen = t /\ head'.space_free = f + l /\ head' \in Headers
  BY <1>1, <1>4, <1>5 DEF Headers
<1>14. Whole(head', Ndx') /\ (kills = 0 => Exact(head', Ndx')) /\ Whole(h, Ndx')
  <2>1. Total(Ndx', n) + (f + l) <= t /\ (kills = 0 => Total(Ndx', n) + (f + l) = t) /\ Total(Ndx', n) + f <= t
    BY <1>11, <1>12
  <2> QED BY <1>5, <1>10, <1>13, <2>1 DEF Whole, Exact
<1>15. call' \in [i : Indices, d : Contents \cup {missing}, start : Nat, next : Nat, last : Indices,
                  moves : BOOLEAN, freed : Nat, erases : BOOLEAN] /\ call'.i = i
  BY <1>1, <1>2 DEF TypeOK, CallOK, Left, Idle
<1>16. TypeOK' BY <1>1, <1>2, <1>7, <1>13, <1>15 DEF TypeOK, CallOK, Phases
<1>17. AtHeader'
  <2>1. pc' = "goback" => head'.recordcnt = call'.i + 1 /\ PairIn(Ndx', call'.i).reclength = 0
    BY <1>1, <1>3, <1>5, <1>9, <1>13, <1>15
  <2>2. kills = 0 => Len(Logical("rec")') <= head'.totallen BY <1>7, <1>8, <1>13
  <2> QED BY <1>1, <1>14, <2>1, <2>2 DEF AtHeader, Fits2
<1>18. Disk' BY <1>7, <1>8, <1>14 DEF Disk
<1>19. NewIsEmpty' BY <1>2, <1>7 DEF NewIsEmpty
<1>20. open' /\ "ndx" \in exists' /\ pc' \in {"goback", "header"} BY <1>1, <1>2, <1>7
<1> QED BY <1>7, <1>16, <1>17, <1>18, <1>19, <1>20 DEF J, Early, Opening, Copying, Replacing, Phases

LEMMA CountIs ==
  ASSUME Ndx \in Indexes, NEW i \in Nat
  PROVE  /\ CountBefore(i) \in 0 .. i /\ \A j \in CountBefore(i) .. i - 1 : PairIn(Ndx, j).reclength = 0
         /\ CountBefore(i) = 0 \/ PairIn(Ndx, CountBefore(i) - 1).reclength # 0
<1> DEFINE M == {-1} \cup {j \in 0 .. i - 1 : PairIn(Ndx, j).reclength # 0}
           D == {i - k : k \in M}
<1>1. \A k \in M : k \in Int /\ -1 <= k /\ k < i OBVIOUS
<1>2. D \in SUBSET Nat /\ D # {} BY <1>1
<1>3. PICK m \in D : \A k \in D : m <= k
  <2> HIDE DEF D
  <2> QED BY <1>2, LeastNatural
<1>4. PICK x \in M : m = i - x OBVIOUS
<1>5. \A k \in M : x >= k
  <2> TAKE k \in M
  <2>1. i - k \in D OBVIOUS
  <2>2. m <= i - k BY <1>3, <2>1
  <2>3. k \in Int /\ x \in Int BY <1>1
  <2> QED BY <1>4, <2>2, <2>3
<1>6. PICK c : c = Max(M) OBVIOUS
<1>7. c \in M /\ \A k \in M : c >= k
  <2> HIDE DEF M, D
  <2> QED BY <1>5, <1>6 DEF Max
<1>8. CountBefore(i) = c + 1 BY <1>6 DEF CountBefore, LastBefore, Ndx
<1>9. c \in Int /\ -1 <= c /\ c < i BY <1>1, <1>7
<1>10. ASSUME NEW j \in c + 1 .. i - 1, PairIn(Ndx, j).reclength # 0 PROVE FALSE
  <2>1. j \in 0 .. i - 1 BY <1>9
  <2>2. j \in M BY <1>10, <2>1
  <2>3. c >= j BY <1>7, <2>2
  <2> QED BY <1>9, <2>3
<1>11. CountBefore(i) \in 0 .. i BY <1>8, <1>9
<1>12. \A j \in CountBefore(i) .. i - 1 : PairIn(Ndx, j).reclength = 0 BY <1>8, <1>10
<1>13. c = -1 \/ PairIn(Ndx, c).reclength # 0 BY <1>7
<1>14. CountBefore(i) = 0 \/ PairIn(Ndx, CountBefore(i) - 1).reclength # 0
  <2>1. (c + 1) - 1 = c /\ (c = -1 => c + 1 = 0) BY <1>9
  <2> QED BY <1>8, <1>13, <2>1
<1> QED BY <1>11, <1>12, <1>14

LEMMA GoBackPreserves == ASSUME J, GoBack PROVE J'
<1>1. /\ pc = "goback" /\ readblock({"ndx"})
      /\ head' = [head EXCEPT !.recordcnt = CountBefore(call.i)]
      /\ pc' = "header" /\ UNCHANGED <<open, call, kills, refused>>
  BY DEF GoBack
<1>2. /\ TypeOK /\ FilesOK /\ BufsOK /\ CopiesGone /\ Disk /\ AtHeader /\ "ndx" \in exists /\ open /\ ~Moving
      /\ head \in Headers
  BY <1>1 DEF J, TypeOK, Phases, Moving
<1>3. Ndx \in Indexes /\ call.i \in Nat
  BY <1>2, LogicalTypes, DirectFileAssumption DEF Ndx, Indices, TypeOK, CallOK
<1>4. /\ FilesOK' /\ BufsOK' /\ exists' = exists /\ CopiesGone' /\ Ndx' = Ndx
      /\ Logical("rec")' = Logical("rec") /\ file'["ndx"] = Ndx
  BY <1>1, <1>2, ReadsStay
<1>5. PICK n \in Nat, m \in Nat : n = head.recordcnt /\ m = CountBefore(call.i)
  BY <1>2, <1>3, CountIs DEF Headers
<1>6. m <= n /\ \A j \in m .. n - 1 : PairIn(Ndx, j).reclength = 0
  <2>1. m <= call.i /\ \A j \in m .. call.i - 1 : PairIn(Ndx, j).reclength = 0 BY <1>3, <1>5, CountIs
  <2>2. n = call.i + 1 /\ PairIn(Ndx, call.i).reclength = 0 BY <1>1, <1>2, <1>5 DEF AtHeader
  <2> QED BY <1>3, <2>1, <2>2
<1>7. Total(Ndx, m) = Total(Ndx, n) /\ \A t : Apart(Ndx, n, t) => Apart(Ndx, m, t) BY <1>3, <1>6, FewerPairs
<1>8. /\ head'.recordcnt = m /\ head'.totallen = head.totallen /\ head'.space_free = head.space_free
      /\ head' \in Headers
  BY <1>1, <1>2, <1>5 DEF Headers
<1>9. AtHeader'
  <2>1. Whole(head', Ndx') BY <1>2, <1>4, <1>5, <1>7, <1>8 DEF AtHeader, Whole
  <2>2. kills' = 0 => Exact(head', Ndx') BY <1>1, <1>2, <1>4, <1>5, <1>7, <1>8 DEF AtHeader, Exact
  <2>3. kills' = 0 => Len(Logical("rec")') <= head'.totallen BY <1>1, <1>2, <1>4, <1>8 DEF AtHeader, Fits2
  <2> QED BY <1>1, <2>1, <2>2, <2>3 DEF AtHeader, Fits2
<1>10. Disk' BY <1>2, <1>4 DEF Disk
<1>11. TypeOK' BY <1>1, <1>2, <1>4, <1>8 DEF TypeOK, CallOK, Phases
<1>12. NewIsEmpty' BY <1>2, <1>4 DEF NewIsEmpty
<1> QED BY <1>1, <1>2, <1>4, <1>9, <1>10, <1>11, <1>12 DEF J, Early, Opening, Copying, Replacing, Phases

-----------------------------------------------------------------------------
(* Compression: the decision, and the opening of the copies.                 *)
LEMMA LeftIs ==
  ASSUME CallOK, call' = Left
  PROVE  CallOK'
<1>1. call' \in [i : Indices, d : Contents \cup {missing}, start : Nat, next : Nat, last : Indices,
                 moves : BOOLEAN, freed : Nat, erases : BOOLEAN]
  BY DEF CallOK, Left, Idle
<1> QED BY <1>1 DEF CallOK

LEMMA CompressPreserves == ASSUME J, compressfile PROVE J'
<1>1. pc = "compressfile" /\ readblock({"ndx"}) /\ UNCHANGED <<open, kills, refused>> BY DEF compressfile
<1>2. /\ TypeOK /\ FilesOK /\ BufsOK /\ CallOK /\ CopiesGone /\ AtIdle /\ "ndx" \in exists /\ open
  BY <1>1 DEF J, TypeOK, Phases
<1>3. /\ FilesOK' /\ BufsOK' /\ exists' = exists /\ CopiesGone' /\ Ndx' = Ndx
      /\ Logical("rec")' = Logical("rec") /\ file'["ndx"] = Ndx /\ buf'["ndx"] = NoWrite
  BY <1>1, <1>2, ReadsStay
<1>4. AtIdle' BY <1>1, <1>2, <1>3 DEF AtIdle, Fits2
<1>5. CASE Wasteful(Head1(Ndx))
  <2>1. pc' = "open tdx" /\ head' = Head1(Ndx) /\ UNCHANGED call BY <1>5 DEF compressfile, Ndx
  <2>2. Head1(Ndx) \in Headers BY <1>2, LogicalTypes, HeadType DEF Ndx
  <2>3. TypeOK' BY <1>1, <1>2, <1>3, <2>1, <2>2 DEF TypeOK, CallOK, Early, Opening
  <2>4. AtEarly' BY <1>3, <1>4, <2>1 DEF AtEarly
  <2> QED BY <1>1, <1>2, <1>3, <2>1, <2>3, <2>4 DEF J, Early, Opening, Copying, Replacing, Phases
<1>6. CASE ~Wasteful(Head1(Ndx))
  <2>1. pc' = "idle" /\ call' = Left /\ head' = ZeroHeader BY <1>6 DEF compressfile, Ndx, Returns
  <2>2. CallOK' BY <1>2, <2>1, LeftIs
  <2>3. TypeOK' BY <1>1, <1>2, <1>3, <2>1, <2>2, ZeroIsHeader DEF TypeOK, Phases
  <2>4. Disk' BY <1>3, <1>4 DEF Disk, AtIdle
  <2>5. NewIsEmpty' BY <1>2, <1>3 DEF NewIsEmpty
  <2> QED BY <1>1, <1>2, <1>3, <1>4, <1>6, <2>1, <2>3, <2>4, <2>5 DEF J, Early, Opening, Copying, Replacing, Phases
<1> QED BY <1>5, <1>6

LEMMA OneMore == ASSUME NEW r \in Nat PROVE r + 1 \in Nat /\ r + 1 # 0
OBVIOUS

LEMMA NotBelowItself == ASSUME NEW t \in Nat PROVE t <= t
OBVIOUS

LEMMA NoneWasted == ASSUME NEW h \in Headers, h.space_free = 0 PROVE ~Wasteful(h)
<1>1. h.totallen \in Nat BY DEF Headers
<1>2. ~ (2 * 0 > h.totallen) BY <1>1
<1> QED BY <1>2 DEF Wasteful

LEMMA OpensPreserve ==
  ASSUME J, NEW name \in {"tdx", "trc"}, NEW at, NEW then, OpenCopy(name, at, then),
         name = "tdx" => at = "open tdx" /\ then = "open trc",
         name = "trc" => at = "open trc" /\ then = "copy header"
  PROVE  J'
<1>1. pc = at /\ UNCHANGED <<file, buf, open, kills>> /\ pc \in Opening BY DEF OpenCopy, Opening
<1>2. /\ TypeOK /\ FilesOK /\ BufsOK /\ CallOK /\ CopiesGone /\ AtEarly /\ "ndx" \in exists /\ open
  BY <1>1 DEF J, TypeOK, Phases, Opening, Early
<1>3. Ndx' = Ndx /\ Logical("rec")' = Logical("rec") BY <1>1 DEF Logical, Ndx
<1>4. FilesOK' /\ BufsOK' BY <1>1, <1>2 DEF FilesOK, BufsOK
<1>5. AtIdle' BY <1>1, <1>2, <1>3 DEF AtEarly, AtIdle, Fits2
<1>6. CASE exists' = exists \cup {name} /\ pc' = then /\ UNCHANGED refused /\ UNCHANGED <<head, call>>
  <2>1. TypeOK' BY <1>1, <1>2, <1>4, <1>6 DEF TypeOK, CallOK, Early, Opening, Names
  <2>2. AtEarly' BY <1>1, <1>2, <1>3, <1>5, <1>6 DEF AtEarly
  <2>3. pc' = "open trc" => CopiesGone' BY <1>1, <1>2, <1>6 DEF CopiesGone
  <2>4. file'["tdx"] = <<>> /\ file'["trc"] = <<>> /\ buf'["tdx"] = NoWrite /\ buf'["trc"] = NoWrite
    BY <1>1, <1>2 DEF CopiesGone
  <2>5. pc' \in {"open trc", "copy header"} BY <1>6
  <2> QED BY <1>1, <1>2, <1>6, <2>1, <2>2, <2>3, <2>4, <2>5 DEF J, Early, Opening, Copying, Replacing, Phases
<1>7. CASE refused' = refused + 1 /\ Returns /\ UNCHANGED exists
  <2>1. pc' = "idle" /\ call' = Left /\ head' = ZeroHeader BY <1>7 DEF Returns
  <2>2. CallOK' BY <1>2, <2>1, LeftIs
  <2>3. refused' \in Nat /\ refused' # 0
    <3>1. PICK r \in Nat : r = refused BY <1>2 DEF TypeOK
    <3>2. r + 1 \in Nat /\ r + 1 # 0 BY OneMore
    <3> QED BY <1>7, <3>1, <3>2
  <2>4. TypeOK' BY <1>1, <1>2, <1>4, <1>7, <2>1, <2>2, <2>3, ZeroIsHeader DEF TypeOK, Phases
  <2>5. buf'["ndx"] = NoWrite /\ file'["ndx"] = Ndx BY <1>1, <1>2, LogicalIs DEF AtEarly, After, Ndx
  <2>6. Disk' BY <1>3, <1>5, <2>5 DEF Disk, AtIdle
  <2>7. NewIsEmpty' BY <1>2, <1>7 DEF NewIsEmpty
  <2>8. CopiesGone' BY <1>1, <1>2, <1>7 DEF CopiesGone
  <2> QED BY <1>1, <1>2, <1>5, <1>7, <2>1, <2>3, <2>4, <2>5, <2>6, <2>7, <2>8
       DEF J, Early, Opening, Copying, Replacing, Phases
<1> QED BY <1>6, <1>7 DEF OpenCopy

-----------------------------------------------------------------------------
(* Compression: the copying.                                                 *)
LEMMA TdxWrites ==
  ASSUME FilesOK, BufsOK, NEW w \in IndexWrites, ThenWrites({"tdx"}, [n \in {"tdx"} |-> w])
  PROVE  /\ FilesOK' /\ BufsOK' /\ exists' = exists
         /\ Tdx' = After("tdx", Tdx, w) /\ buf'["ndx"] = buf["ndx"]
         /\ Ndx' = Ndx /\ Logical("rec")' = Logical("rec") /\ Logical("trc")' = Logical("trc")
<1>0. "ndx" \in Names /\ "tdx" \in Names /\ "rec" \in Names /\ "trc" \in Names BY DEF Names
<1>1. /\ file' = [n \in Names |-> file'[n]] /\ buf' = [n \in Names |-> buf'[n]] /\ exists' = exists
      /\ \A n \in Names : file'[n] = IF n \in {"tdx"} THEN Logical(n) ELSE file[n]
      /\ \A n \in Names : buf'[n] = IF n \in DOMAIN [m \in {"tdx"} |-> w] THEN [m \in {"tdx"} |-> w][n]
                                    ELSE IF n \in {"tdx"} THEN NoWrite ELSE buf[n]
  BY Steps
<1>2. FilesOK' BY <1>1, FilesStay
<1>3. buf'["tdx"] = w /\ \A n \in Names : n # "tdx" => buf'[n] = buf[n] /\ file'[n] = file[n] BY <1>0, <1>1
<1>4. BufsOK' BY <1>0, <1>1, <1>3 DEF BufsOK
<1>5. file'["tdx"] = Tdx BY <1>0, <1>1 DEF Tdx
<1>6. Tdx' = After("tdx", Tdx, w) BY <1>3, <1>5, LogicalIs DEF Tdx
<1>7. Ndx' = Ndx /\ Logical("rec")' = Logical("rec") /\ Logical("trc")' = Logical("trc")
  BY <1>0, <1>3, LogicalIs DEF Ndx
<1> QED BY <1>0, <1>1, <1>2, <1>3, <1>4, <1>6, <1>7

LEMMA CopyHeaderPreserves == ASSUME J, CopyHeader PROVE J'
<1>1. /\ pc = "copy header" /\ writeblock("tdx", 0, <<head>>)
      /\ head' = [head EXCEPT !.totallen = 0] /\ call' = [call EXCEPT !.next = 0]
      /\ pc' = "copy" /\ UNCHANGED <<open, kills, refused>>
  BY DEF CopyHeader
<1>2. /\ TypeOK /\ FilesOK /\ BufsOK /\ CallOK /\ AtEarly /\ "ndx" \in exists /\ open /\ head \in Headers
      /\ file["tdx"] = <<>> /\ file["trc"] = <<>> /\ buf["tdx"] = NoWrite /\ buf["trc"] = NoWrite
  BY <1>1 DEF J, TypeOK, Phases, Opening, Early
<1>3. HeaderWrite(head) \in IndexWrites BY <1>2 DEF IndexWrites
<1>4. ThenWrites({"tdx"}, [n \in {"tdx"} |-> HeaderWrite(head)]) BY <1>1, BlockIs DEF writeblock
<1>5. /\ FilesOK' /\ BufsOK' /\ exists' = exists
      /\ Tdx' = After("tdx", Tdx, HeaderWrite(head)) /\ buf'["ndx"] = buf["ndx"]
      /\ Ndx' = Ndx /\ Logical("trc")' = Logical("trc")
  BY <1>2, <1>3, <1>4, TdxWrites
<1>6. Tdx' \in Indexes
  <2>1. Tdx \in Indexes BY <1>2, LogicalTypes DEF Tdx
  <2> QED BY <1>3, <1>5, <2>1, AfterIndex
<1>7. Logical("trc") = <<>> BY <1>2, LogicalIs DEF After
<1>8. /\ head'.recordcnt = head.recordcnt /\ head'.totallen = 0 /\ head' \in Headers BY <1>1, <1>2 DEF Headers
<1>9. call' \in [i : Indices, d : Contents \cup {missing}, start : Nat, next : Nat, last : Indices,
                 moves : BOOLEAN, freed : Nat, erases : BOOLEAN] /\ call'.next = 0
  BY <1>1, <1>2 DEF CallOK
<1>10. TypeOK' BY <1>1, <1>2, <1>5, <1>8, <1>9 DEF TypeOK, CallOK, Copying
<1>11. Total(Tdx', 0) = 0 BY <1>6, LensType, SumToSteps DEF Total
<1>12. \A t : Apart(Tdx', 0, t) BY DEF Apart
<1>13. AtCopy'
  <2>1. head'.recordcnt = Head1(Ndx').recordcnt /\ 0 <= head'.recordcnt
    BY <1>2, <1>5, <1>8 DEF AtEarly, Headers
  <2>2. Len(Logical("trc")') = 0 BY <1>5, <1>7
  <2>3. buf'["ndx"] = NoWrite /\ Whole(Head1(Ndx'), Ndx') BY <1>2, <1>5 DEF AtEarly, AtIdle
  <2> QED BY <1>8, <1>9, <1>11, <1>12, <2>1, <2>2, <2>3 DEF AtCopy
<1> QED BY <1>1, <1>2, <1>5, <1>10, <1>13 DEF J, Early, Opening, Copying, Replacing, Phases

LEMMA BytesAre ==
  ASSUME NEW c \in Seq(ByteSet), NEW start \in Nat, NEW len \in Nat
  PROVE  Bytes(c, start, len) \in Seq(ByteSet) /\ Len(Bytes(c, start, len)) = len
<1>1. \A k \in 1 .. len : (IF start + k \in DOMAIN c THEN c[start + k] ELSE hole) \in ByteSet BY DEF ByteSet
<1>2. Bytes(c, start, len) \in [1 .. len -> ByteSet] BY <1>1 DEF Bytes
<1> QED BY <1>2

LEMMA CopyRecordPreserves == ASSUME J, CopyRecord PROVE J'
<1> DEFINE p == PairIn(file["ndx"], call.next)
           d == Bytes(Logical("rec"), p.recstart, p.reclength)
           trc == Logical("trc")
           S == {"tdx"} \cup (IF d = <<>> THEN {} ELSE {"rec", "trc"})
           W == {"tdx"} \cup (IF d = <<>> THEN {} ELSE {"trc"})
           ws == [n \in W |-> IF n = "trc" THEN Block(Len(trc), d)
                              ELSE Block(call.next + 1, <<Pair(head.totallen, Len(d))>>)]
<1>1. /\ pc = "copy" /\ call.next < head.recordcnt /\ ThenWrites(S, ws)
      /\ head' = [head EXCEPT !.totallen = @ + Len(d)] /\ call' = [call EXCEPT !.next = @ + 1]
      /\ UNCHANGED <<open, pc, kills, refused>>
  BY DEF CopyRecord
<1>2. /\ TypeOK /\ FilesOK /\ BufsOK /\ CallOK /\ AtCopy /\ "ndx" \in exists /\ open /\ head \in Headers
  BY <1>1 DEF J, TypeOK, Copying
<1>3. PICK m \in Nat, t \in Nat : m = call.next /\ t = head.totallen BY <1>2 DEF CallOK, Headers
<1>4. /\ file["ndx"] \in Indexes /\ Tdx \in Indexes /\ trc \in Seq(ByteSet) /\ Logical("rec") \in Seq(ByteSet)
  BY <1>2, LogicalTypes DEF FilesOK, Tdx
<1>5. p \in Pairs BY <1>2, <1>4, PairType DEF CallOK
<1>6. PICK l \in Nat : l = p.reclength /\ l = Len(d) /\ d \in Seq(ByteSet) BY <1>4, <1>5, BytesAre DEF Pairs
<1> HIDE DEF p, d, trc
<1>7. Pair(t, l) \in Pairs BY DEF Pair, Pairs
<1>8. PICK w \in IndexWrites : w = PairWrite(m, Pair(t, l)) BY <1>7 DEF IndexWrites
<1>9. Block(call.next + 1, <<Pair(head.totallen, Len(d))>>) = w
  <2>1. Block(m + 1, <<Pair(t, l)>>) = PairWrite(m, Pair(t, l)) BY BlockIs
  <2> QED BY <1>3, <1>6, <1>8, <2>1
<1>10. PICK v \in ByteWrites : v = Block(Len(trc), d) BY <1>4, <1>6, BlockOfBytes
<1>11. "ndx" \in Names /\ "tdx" \in Names /\ "rec" \in Names /\ "trc" \in Names BY DEF Names
<1>12. /\ file' = [n \in Names |-> file'[n]] /\ buf' = [n \in Names |-> buf'[n]] /\ exists' = exists
       /\ \A n \in Names : file'[n] = IF n \in S THEN Logical(n) ELSE file[n]
       /\ \A n \in Names : buf'[n] = IF n \in DOMAIN ws THEN ws[n] ELSE IF n \in S THEN NoWrite ELSE buf[n]
  BY <1>1, Steps
<1>13. DOMAIN ws = W /\ ws["tdx"] = w /\ (d # <<>> => ws["trc"] = v) BY <1>9, <1>10
<1>14. /\ file'["tdx"] = Tdx /\ buf'["tdx"] = w /\ file'["ndx"] = file["ndx"] /\ buf'["ndx"] = buf["ndx"]
       /\ buf'["rec"] \in {NoWrite, buf["rec"]}
  BY <1>11, <1>12, <1>13 DEF Tdx
<1>15. /\ d = <<>> => file'["trc"] = file["trc"] /\ buf'["trc"] = buf["trc"]
       /\ d # <<>> => file'["trc"] = trc /\ buf'["trc"] = v
  BY <1>11, <1>12, <1>13 DEF trc
<1> HIDE DEF S, W, ws
<1>16. FilesOK' BY <1>2, <1>12, FilesStay
<1>17. BufsOK' BY <1>2, <1>12, <1>14, <1>15 DEF BufsOK, ByteWrites
<1>18. Ndx' = Ndx BY <1>14, LogicalIs DEF Ndx
<1>19. Tdx' = After("tdx", Tdx, PairWrite(m, Pair(t, l))) BY <1>8, <1>14, LogicalIs DEF Tdx
<1>20. /\ Tdx' \in Indexes /\ Head1(Tdx') = Head1(Tdx) /\ PairIn(Tdx', m) = Pair(t, l)
       /\ \A i \in Nat : i # m => PairIn(Tdx', i) = PairIn(Tdx, i)
  BY <1>4, <1>7, <1>19, AfterPair
<1>21. Logical("trc")' = After("trc", trc, Block(Len(trc), d))
  <2>1. CASE d = <<>>
    <3>1. Block(Len(trc), d) = NoWrite BY <2>1 DEF Block
    <3>2. Logical("trc")' = trc BY <1>15, <2>1, LogicalIs DEF trc
    <3> QED BY <3>1, <3>2 DEF After
  <2>2. CASE d # <<>> BY <1>10, <1>15, <2>2, LogicalIs
  <2> QED BY <2>1, <2>2
<1>22. Len(Logical("trc")') = t + l
  <2>1. Len(trc) = t /\ Len(trc) \in Nat BY <1>2, <1>3 DEF AtCopy, trc
  <2>2. Logical("trc")' = After("trc", trc, Block(t, d)) BY <1>21, <2>1
  <2>3. t = Len(trc) => Len(Logical("trc")') = Len(trc) + Len(d) BY <1>4, <1>6, <2>2, AfterBlock
  <2> QED BY <1>6, <2>1, <2>3
<1>23. head'.recordcnt = head.recordcnt /\ head'.totallen = t + l /\ head' \in Headers
  BY <1>1, <1>2, <1>3, <1>6 DEF Headers
<1>24. call' \in [i : Indices, d : Contents \cup {missing}, start : Nat, next : Nat, last : Indices,
                  moves : BOOLEAN, freed : Nat, erases : BOOLEAN] /\ call'.next = m + 1
  BY <1>1, <1>2, <1>3 DEF CallOK
<1>25. Apart(Tdx', m + 1, t + l) /\ Total(Tdx', m + 1) = t + l
  <2>1. Apart(Tdx, m, t) /\ t = Total(Tdx, m) BY <1>2, <1>3 DEF AtCopy
  <2>2. EmptyBetween(Tdx, m, m, t) BY DEF EmptyBetween
  <2>3. PICK k \in Nat : k = m + 1 OBVIOUS
  <2>4. k = IF m < m THEN m ELSE m + 1 BY <2>3
  <2>5. IsAtEnd(Tdx, Tdx', m, m, k, t, l) BY <1>4, <1>20, <2>1, <2>2, <2>4, PairAtEnd
  <2> QED BY <2>1, <2>3, <2>5 DEF IsAtEnd
<1>26. TypeOK' BY <1>1, <1>2, <1>12, <1>16, <1>17, <1>23, <1>24 DEF TypeOK, CallOK
<1>27. AtCopy'
  <2>1. head.recordcnt \in Nat /\ m + 1 <= head.recordcnt BY <1>1, <1>2, <1>3 DEF Headers
  <2> QED BY <1>2, <1>14, <1>18, <1>22, <1>23, <1>24, <1>25, <2>1 DEF AtCopy
<1> QED BY <1>1, <1>2, <1>12, <1>26, <1>27 DEF J, Early, Opening, Copying, Replacing, Phases

LEMMA CopyEndsPreserves == ASSUME J, CopyEnds PROVE J'
<1>1. /\ pc = "copy" /\ call.next = head.recordcnt
      /\ head' = [head EXCEPT !.space_free = 0] /\ writeblock("tdx", 0, <<head'>>)
      /\ pc' = "close ndx" /\ UNCHANGED <<open, call, kills, refused>>
  BY DEF CopyEnds
<1>2. /\ TypeOK /\ FilesOK /\ BufsOK /\ CallOK /\ AtCopy /\ "ndx" \in exists /\ open /\ head \in Headers
  BY <1>1 DEF J, TypeOK, Copying
<1>3. PICK h \in Headers : h = head' BY <1>1, <1>2 DEF Headers
<1>4. h.recordcnt = head.recordcnt /\ h.totallen = head.totallen /\ h.space_free = 0
  BY <1>1, <1>2, <1>3 DEF Headers
<1>5. HeaderWrite(h) \in IndexWrites BY DEF IndexWrites
<1>6. ThenWrites({"tdx"}, [n \in {"tdx"} |-> HeaderWrite(h)]) BY <1>1, <1>3, BlockIs DEF writeblock
<1>7. /\ FilesOK' /\ BufsOK' /\ exists' = exists
      /\ Tdx' = After("tdx", Tdx, HeaderWrite(h)) /\ buf'["ndx"] = buf["ndx"]
      /\ Ndx' = Ndx /\ Logical("trc")' = Logical("trc")
  BY <1>2, <1>5, <1>6, TdxWrites
<1>8. Tdx \in Indexes BY <1>2, LogicalTypes DEF Tdx
<1>9. Tdx' \in Indexes /\ Head1(Tdx') = h /\ \A i \in Nat : PairIn(Tdx', i) = PairIn(Tdx, i)
  BY <1>7, <1>8, AfterHeader
<1>10. PICK n \in Nat : n = h.recordcnt BY DEF Headers
<1>11. Total(Tdx', n) = Total(Tdx, n) /\ \A u : Apart(Tdx, n, u) => Apart(Tdx', n, u)
  <2>1. \A j \in 0 .. n - 1 : PairIn(Tdx', j) = PairIn(Tdx, j) BY <1>9
  <2> QED BY <1>8, <1>9, <2>1, SameIndex
<1>12. /\ Apart(Tdx', n, h.totallen) /\ Total(Tdx', n) = h.totallen /\ h.totallen \in Nat
  BY <1>1, <1>2, <1>4, <1>10, <1>11 DEF AtCopy, Headers
<1>13. Whole(h, Tdx') /\ Exact(h, Tdx') BY <1>4, <1>10, <1>12 DEF Whole, Exact
<1>14. Len(Logical("trc")') = h.totallen BY <1>2, <1>4, <1>7 DEF AtCopy
<1>15. TypeOK' BY <1>1, <1>2, <1>3, <1>7 DEF TypeOK, CallOK, Replacing
<1>16. AtReplace' BY <1>1, <1>2, <1>4, <1>7, <1>9, <1>13, <1>14 DEF AtReplace, Late, AtCopy
<1> QED BY <1>1, <1>2, <1>7, <1>15, <1>16 DEF J, Early, Opening, Copying, Replacing, Phases

-----------------------------------------------------------------------------
(* Compression: the copies replace the files.                                *)
LEMMA CloseNdxPreserves == ASSUME J, CloseBoth("ndx", "tdx", "close ndx", "unlink ndx") PROVE J'
<1>1. /\ pc = "close ndx" /\ readblock({"ndx", "tdx"}) /\ pc' = "unlink ndx"
      /\ UNCHANGED <<open, call, head, kills, refused>>
  BY DEF CloseBoth
<1>2. TypeOK /\ FilesOK /\ BufsOK /\ AtReplace /\ "ndx" \in exists /\ open
  BY <1>1 DEF J, TypeOK, Replacing
<1>3. /\ FilesOK' /\ BufsOK' /\ exists' = exists /\ Ndx' = Ndx /\ Tdx' = Tdx
      /\ Logical("trc")' = Logical("trc") /\ buf'["ndx"] = NoWrite
  BY <1>1, <1>2, ReadsStay
<1>4. buf'["tdx"] = NoWrite BY <1>1, Reads DEF Names
<1>5. TypeOK' BY <1>1, <1>2, <1>3 DEF TypeOK, CallOK, Replacing
<1>6. AtReplace' BY <1>1, <1>2, <1>3, <1>4 DEF AtReplace, Late
<1> QED BY <1>1, <1>2, <1>3, <1>5, <1>6 DEF J, Early, Opening, Copying, Replacing, Phases

LEMMA UnlinkNdxPreserves == ASSUME J, Unlink("ndx", "unlink ndx", "rename ndx") PROVE J'
<1>1. /\ pc = "unlink ndx" /\ exists' = exists \ {"ndx"} /\ file' = [file EXCEPT !["ndx"] = <<>>]
      /\ pc' = "rename ndx" /\ UNCHANGED <<buf, open, call, head, kills, refused>>
  BY DEF Unlink
<1>2. TypeOK /\ FilesOK /\ BufsOK /\ AtReplace BY <1>1 DEF J, TypeOK, Replacing
<1>3. "ndx" \in Names /\ "tdx" \in Names /\ "rec" \in Names /\ "trc" \in Names BY DEF Names
<1>4. \A n \in Names : file'[n] = IF n = "ndx" THEN <<>> ELSE file[n] BY <1>1, <1>2 DEF FilesOK
<1>5. FilesOK' /\ BufsOK'
  <2>1. file' = [n \in Names |-> file'[n]] BY <1>1, <1>2 DEF FilesOK
  <2> QED BY <1>1, <1>2, <1>3, <1>4, <2>1, NothingIn DEF FilesOK, BufsOK
<1>6. TypeOK' BY <1>1, <1>2, <1>5 DEF TypeOK, CallOK, Replacing
<1>7. Tdx' = Tdx /\ Logical("trc")' = Logical("trc") BY <1>1, <1>3, <1>4, LogicalIs DEF Tdx
<1>8. AtReplace' BY <1>1, <1>2, <1>7 DEF AtReplace, Late
<1> QED BY <1>1, <1>6, <1>8, <1>2 DEF J, Early, Opening, Copying, Replacing, Phases

LEMMA RenameNdxPreserves == ASSUME J, Rename("ndx", "tdx", "rename ndx", "close rec") PROVE J'
<1>1. /\ pc = "rename ndx" /\ exists' = (exists \ {"tdx"}) \cup {"ndx"}
      /\ file' = [file EXCEPT !["ndx"] = file["tdx"], !["tdx"] = <<>>]
      /\ pc' = "close rec" /\ UNCHANGED <<call, head>>
      /\ UNCHANGED <<buf, open, kills, refused>>
  BY DEF Rename
<1>2. TypeOK /\ FilesOK /\ BufsOK /\ AtReplace BY <1>1 DEF J, TypeOK, Replacing
<1>3. "ndx" \in Names /\ "tdx" \in Names /\ "rec" \in Names /\ "trc" \in Names BY DEF Names
<1>4. \A n \in Names : file'[n] = IF n = "ndx" THEN file["tdx"] ELSE IF n = "tdx" THEN <<>> ELSE file[n]
  BY <1>1, <1>2, <1>3 DEF FilesOK
<1>5. FilesOK' /\ BufsOK'
  <2>1. file' = [n \in Names |-> file'[n]] BY <1>1, <1>2 DEF FilesOK
  <2> QED BY <1>1, <1>2, <1>3, <1>4, <2>1, NothingIn DEF FilesOK, BufsOK
<1>6. TypeOK' BY <1>1, <1>2, <1>5 DEF TypeOK, CallOK, Replacing, Names
<1>7. buf["tdx"] = NoWrite /\ buf["ndx"] = NoWrite BY <1>1, <1>2 DEF AtReplace, Late
<1>8. Ndx' = Tdx BY <1>1, <1>3, <1>4, <1>7, LogicalIs DEF Tdx, Ndx, After
<1>9. Logical("trc")' = Logical("trc") BY <1>1, <1>3, <1>4, LogicalIs
<1>10. file'["tdx"] = <<>> BY <1>3, <1>4
<1>11. AtReplace' BY <1>1, <1>2, <1>7, <1>8, <1>9, <1>10 DEF AtReplace, Late
<1> QED BY <1>1, <1>6, <1>11 DEF J, Early, Opening, Copying, Replacing, Phases

LEMMA CloseRecPreserves == ASSUME J, CloseBoth("rec", "trc", "close rec", "unlink rec") PROVE J'
<1>1. /\ pc = "close rec" /\ readblock({"rec", "trc"}) /\ pc' = "unlink rec"
      /\ UNCHANGED <<open, call, head, kills, refused>>
  BY DEF CloseBoth
<1>2. TypeOK /\ FilesOK /\ BufsOK /\ AtReplace /\ "ndx" \in exists /\ open
  BY <1>1 DEF J, TypeOK, Replacing
<1>3. /\ FilesOK' /\ BufsOK' /\ exists' = exists /\ Ndx' = Ndx /\ Logical("trc")' = Logical("trc")
  BY <1>1, <1>2, ReadsStay
<1>4. /\ buf'["tdx"] = buf["tdx"] /\ buf'["ndx"] = buf["ndx"] /\ buf'["rec"] = NoWrite /\ buf'["trc"] = NoWrite
      /\ file'["tdx"] = file["tdx"]
  BY ZenonT(40), <1>1, Reads DEF Names
<1>5. TypeOK' BY <1>1, <1>2, <1>3 DEF TypeOK, CallOK, Replacing
<1>6. AtReplace' BY <1>1, <1>2, <1>3, <1>4 DEF AtReplace, Late
<1> QED BY <1>1, <1>2, <1>3, <1>5, <1>6 DEF J, Early, Opening, Copying, Replacing, Phases

LEMMA UnlinkRecPreserves == ASSUME J, Unlink("rec", "unlink rec", "rename rec") PROVE J'
<1>1. /\ pc = "unlink rec" /\ exists' = exists \ {"rec"} /\ file' = [file EXCEPT !["rec"] = <<>>]
      /\ pc' = "rename rec" /\ UNCHANGED <<buf, open, call, head, kills, refused>>
  BY DEF Unlink
<1>2. TypeOK /\ FilesOK /\ BufsOK /\ AtReplace /\ "ndx" \in exists /\ open BY <1>1 DEF J, TypeOK, Replacing
<1>3. "ndx" \in Names /\ "tdx" \in Names /\ "rec" \in Names /\ "trc" \in Names BY DEF Names
<1>4. \A n \in Names : file'[n] = IF n = "rec" THEN <<>> ELSE file[n] BY <1>1, <1>2 DEF FilesOK
<1>5. FilesOK' /\ BufsOK'
  <2>1. file' = [n \in Names |-> file'[n]] BY <1>1, <1>2 DEF FilesOK
  <2> QED BY <1>1, <1>2, <1>3, <1>4, <2>1, NothingIn DEF FilesOK, BufsOK
<1>6. TypeOK' BY <1>1, <1>2, <1>5 DEF TypeOK, CallOK, Replacing
<1>7. Ndx' = Ndx /\ Logical("trc")' = Logical("trc") BY <1>1, <1>3, <1>4, LogicalIs DEF Ndx
<1>8. file'["tdx"] = file["tdx"] BY <1>3, <1>4
<1>9. AtReplace' BY <1>1, <1>2, <1>7, <1>8 DEF AtReplace, Late
<1> QED BY <1>1, <1>6, <1>9, <1>2 DEF J, Early, Opening, Copying, Replacing, Phases

LEMMA RenameRecPreserves == ASSUME J, Rename("rec", "trc", "rename rec", "idle") PROVE J'
<1>1. /\ pc = "rename rec" /\ exists' = (exists \ {"trc"}) \cup {"rec"}
      /\ file' = [file EXCEPT !["rec"] = file["trc"], !["trc"] = <<>>]
      /\ pc' = "idle" /\ call' = Left /\ head' = ZeroHeader
      /\ UNCHANGED <<buf, open, kills, refused>>
  BY DEF Rename, Returns
<1>2. TypeOK /\ FilesOK /\ BufsOK /\ CallOK /\ AtReplace /\ "ndx" \in exists /\ open
  BY <1>1 DEF J, TypeOK, Replacing
<1>3. "ndx" \in Names /\ "tdx" \in Names /\ "rec" \in Names /\ "trc" \in Names BY DEF Names
<1>4. \A n \in Names : file'[n] = IF n = "rec" THEN file["trc"] ELSE IF n = "trc" THEN <<>> ELSE file[n]
  BY <1>1, <1>2, <1>3 DEF FilesOK
<1>5. FilesOK' /\ BufsOK'
  <2>1. file' = [n \in Names |-> file'[n]] BY <1>1, <1>2 DEF FilesOK
  <2> QED BY <1>1, <1>2, <1>3, <1>4, <2>1, NothingIn DEF FilesOK, BufsOK
<1>6. CallOK' BY <1>1, <1>2, LeftIs
<1>7. TypeOK' BY <1>1, <1>2, <1>5, <1>6, ZeroIsHeader DEF TypeOK, Phases, Names
<1>8. /\ buf["tdx"] = NoWrite /\ buf["ndx"] = NoWrite /\ buf["rec"] = NoWrite /\ buf["trc"] = NoWrite
      /\ file["tdx"] = <<>> /\ Whole(Head1(Ndx), Ndx) /\ Exact(Head1(Ndx), Ndx)
      /\ Head1(Ndx).space_free = 0 /\ Len(Logical("trc")) = Head1(Ndx).totallen
  BY <1>1, <1>2 DEF AtReplace, Late
<1>9. Ndx' = Ndx /\ file'["ndx"] = Ndx BY <1>1, <1>3, <1>4, <1>8, LogicalIs DEF Ndx, After
<1>10. Logical("rec")' = Logical("trc") BY <1>1, <1>3, <1>4, <1>8, LogicalIs DEF After
<1>11. Head1(Ndx) \in Headers BY <1>2, LogicalTypes, HeadType DEF Ndx
<1>12. AtIdle'
  <2>1. PICK t \in Nat : t = Head1(Ndx).totallen BY <1>11 DEF Headers
  <2>2. Len(Logical("rec")') = t /\ Head1(Ndx').totallen = t BY <1>8, <1>9, <1>10, <2>1
  <2>3. t <= t BY NotBelowItself
  <2>4. Len(Logical("rec")') <= Head1(Ndx').totallen BY <2>2, <2>3
  <2> QED BY <1>8, <1>9, <2>4 DEF AtIdle, Fits2
<1>13. ~Wasteful(Head1(Ndx'))
  <2>1. ~Wasteful(Head1(Ndx)) BY <1>8, <1>11, NoneWasted
  <2> QED BY <1>9, <2>1 DEF Wasteful
<1>14. CopiesGone' BY <1>1, <1>3, <1>4, <1>8 DEF CopiesGone
<1>15. Disk' BY <1>8, <1>9 DEF Disk
<1>16. NewIsEmpty' /\ "ndx" \in exists' BY <1>1, <1>2 DEF NewIsEmpty
<1> QED BY <1>1, <1>2, <1>7, <1>8, <1>12, <1>13, <1>14, <1>15, <1>16
     DEF J, Early, Opening, Copying, Replacing, Phases

-----------------------------------------------------------------------------
(* The program is killed, where a file survives it.                          *)
LEMMA KillPreserves == ASSUME J, Kill, Sound' PROVE J'
<1>1. /\ kills' = kills + 1 /\ buf' = [n \in Names |-> NoWrite] /\ open' = FALSE
      /\ pc' = "idle" /\ call' = Left /\ head' = ZeroHeader /\ UNCHANGED <<exists, refused>>
      /\ Moving => "kill while moving" \in Uses
      /\ Compressing => "kill while compressing" \in Uses
  BY DEF Kill, Returns
<1>2. TypeOK /\ FilesOK /\ BufsOK /\ CallOK /\ kills \in Nat BY DEF J, TypeOK
<1>3. kills' \in Nat /\ kills' # 0
  <2>1. PICK k \in Nat : k = kills BY <1>2
  <2>2. k + 1 \in Nat /\ k + 1 # 0 OBVIOUS
  <2> QED BY <1>1, <2>1, <2>2
<1>4. ~Moving /\ ~Compressing BY <1>1, <1>3 DEF Sound
<1>5. pc \in Phases BY <1>4 DEF Compressing, Phases
<1>6. CopiesGone /\ NewIsEmpty /\ Disk BY <1>5 DEF J
<1>7. PICK S \in SUBSET Names : file' = FilesAfter(S) BY DEF Kill
<1>8. /\ file' = [n \in Names |-> file'[n]] /\ \A n \in Names : buf'[n] = NoWrite
      /\ \A n \in Names : file'[n] = file[n] \/ file'[n] = Logical(n)
      /\ \A n \in Names : buf[n] = NoWrite => file'[n] = file[n]
  BY <1>1, <1>7, LogicalIs DEF FilesAfter, After
<1>9. "ndx" \in Names /\ "tdx" \in Names /\ "rec" \in Names /\ "trc" \in Names BY DEF Names
<1>10. FilesOK' BY <1>2, <1>8, FilesStay
<1>11. BufsOK'
  <2>1. NoWrite \in IndexWrites /\ NoWrite \in ByteWrites BY DEF IndexWrites, ByteWrites
  <2>2. buf' = [n \in Names |-> buf'[n]] BY <1>1
  <2> QED BY <1>8, <1>9, <2>1, <2>2 DEF BufsOK
<1>12. CallOK' BY <1>1, <1>2, LeftIs
<1>13. TypeOK' BY <1>1, <1>2, <1>3, <1>10, <1>11, <1>12, ZeroIsHeader DEF TypeOK, Phases
<1>14. Ndx' = file'["ndx"] BY <1>8, <1>9, LogicalIs DEF Ndx, After
<1>15. Whole(Head1(Ndx'), Ndx') BY <1>4, <1>6, <1>8, <1>9, <1>14 DEF Disk, Ndx
<1>16. AtIdle' BY <1>3, <1>15 DEF AtIdle, Fits2
<1>17. Disk' BY <1>14, <1>15 DEF Disk
<1>18. CopiesGone' BY <1>1, <1>6, <1>8, <1>9 DEF CopiesGone
<1>19. NewIsEmpty' BY <1>1, <1>6, <1>8, <1>9 DEF NewIsEmpty
<1> QED BY <1>1, <1>3, <1>8, <1>9, <1>13, <1>16, <1>17, <1>18, <1>19
     DEF J, Early, Opening, Copying, Replacing, Phases

LEMMA IdleStep == ASSUME J, UNCHANGED vars PROVE J'
<1>1. /\ UNCHANGED <<file, exists, buf, open, pc, call, head, kills, refused>> BY DEF vars
<1>2. Ndx' = Ndx /\ Tdx' = Tdx /\ \A n : Logical(n)' = Logical(n) BY <1>1 DEF Logical, Ndx, Tdx
<1>3. FilesOK' = FilesOK /\ BufsOK' = BufsOK /\ CallOK' = CallOK BY <1>1 DEF FilesOK, BufsOK, CallOK
<1>4. TypeOK' = TypeOK BY <1>1, <1>3 DEF TypeOK
<1>5. CopiesGone' = CopiesGone /\ NewIsEmpty' = NewIsEmpty BY <1>1 DEF CopiesGone, NewIsEmpty
<1>6. Disk' = Disk BY <1>1, <1>2 DEF Disk, Moving
<1>7. AtIdle' = AtIdle BY <1>1, <1>2 DEF AtIdle, Fits2
<1>8. AtIndex' = AtIndex BY <1>1, <1>2 DEF AtIndex
<1>9. AtHeader' = AtHeader BY <1>1, <1>2 DEF AtHeader, Fits2
<1>10. AtEarly' = AtEarly BY <1>1, <1>2, <1>7 DEF AtEarly
<1>11. AtCopy' = AtCopy BY <1>1, <1>2 DEF AtCopy
<1>12. AtReplace' = AtReplace BY <1>1, <1>2 DEF AtReplace
<1> QED BY ZenonT(40), <1>1, <1>2, <1>4, <1>5, <1>6, <1>7, <1>8, <1>9, <1>10, <1>11, <1>12 DEF J

-----------------------------------------------------------------------------
LEMMA StepPreserves == ASSUME J, [Next]_vars, Sound' PROVE J'
<1>1. CASE UNCHANGED vars BY <1>1, IdleStep
<1>2. CASE iopen BY <1>2, OpenPreserves
<1>3. CASE iclose
  <2>1. /\ open /\ pc = "idle" /\ open' = FALSE /\ readblock({"ndx", "rec"})
        /\ UNCHANGED <<pc, call, head, kills, refused>>
    BY <1>3 DEF iclose
  <2> QED BY <2>1, ReadIdle
<1>4. CASE readrec
  <2>1. /\ open /\ pc = "idle" /\ UNCHANGED <<open, pc, call, head, kills, refused>>
        /\ readblock({"ndx"}) \/ readblock({"ndx", "rec"})
    BY <1>4 DEF readrec
  <2>2. open' \in BOOLEAN BY <2>1 DEF J, TypeOK
  <2> QED BY <2>1, <2>2, ReadIdle
<1>5. CASE Kill BY <1>5, KillPreserves
<1>6. CASE \E i \in Indices, isarray \in BOOLEAN, d \in Contents : writerec(i, isarray, d)
  BY <1>6, WritePreserves
<1>7. CASE \E i \in Indices : eraserecord(i) BY <1>7, ErasePreserves
<1>8. CASE FillGap \/ WritePair \/ WriteHeader \/ GoBack \/ compressfile
  BY <1>8, GapPreserves, PairPreserves, HeaderPreserves, GoBackPreserves, CompressPreserves
<1>9. CASE OpenCopies BY <1>9, OpensPreserve DEF OpenCopies
<1>10. CASE CopyHeader \/ CopyRecord \/ CopyEnds
  BY <1>10, CopyHeaderPreserves, CopyRecordPreserves, CopyEndsPreserves
<1>11. CASE Replace
  BY <1>11, CloseNdxPreserves, UnlinkNdxPreserves, RenameNdxPreserves, CloseRecPreserves, UnlinkRecPreserves,
     RenameRecPreserves DEF Replace
<1> QED BY <1>1, <1>2, <1>3, <1>4, <1>5, <1>6, <1>7, <1>8, <1>9, <1>10, <1>11 DEF Next, Calls

-----------------------------------------------------------------------------
(* Whatever happens, a kill is the only thing that counts one.               *)
LEMMA KillsCounted == ASSUME [Next]_vars PROVE kills' = kills \/ kills' = kills + 1
<1>1. CASE UNCHANGED vars BY <1>1 DEF vars
<1>2. CASE iopen \/ iclose \/ readrec BY <1>2 DEF iopen, iclose, readrec
<1>3. CASE Kill BY <1>3 DEF Kill
<1>4. CASE \E i \in Indices, isarray \in BOOLEAN, d \in Contents : writerec(i, isarray, d)
  BY <1>4 DEF writerec
<1>5. CASE \E i \in Indices : eraserecord(i) BY <1>5 DEF eraserecord
<1>6. CASE FillGap \/ WritePair \/ WriteHeader \/ GoBack \/ compressfile
  BY <1>6 DEF FillGap, WritePair, WriteHeader, GoBack, compressfile
<1>7. CASE OpenCopies BY <1>7 DEF OpenCopies, OpenCopy
<1>8. CASE CopyHeader \/ CopyRecord \/ CopyEnds BY <1>8 DEF CopyHeader, CopyRecord, CopyEnds
<1>9. CASE Replace BY <1>9 DEF Replace, CloseBoth, Unlink, Rename
<1> QED BY <1>1, <1>2, <1>3, <1>4, <1>5, <1>6, <1>7, <1>8, <1>9 DEF Next, Calls

LEMMA NoneBefore == ASSUME NEW k \in Nat, NEW l, l = k \/ l = k + 1, l = 0 PROVE k = 0
OBVIOUS

LEMMA Counted == ASSUME NEW k \in Nat, NEW l, l = k \/ l = k + 1 PROVE l \in Nat
OBVIOUS

(* While no kill has come at a moment that a file does not survive, the      *)
(* index and the bytes on the disk and in the calls under way agree.         *)
THEOREM Invariance == Spec => []IInv
<1>1. Init => IInv
  <2> SUFFICES ASSUME Init PROVE IInv OBVIOUS
  <2>1. kills = 0 BY DEF Init
  <2> QED BY <2>1, Beginning DEF IInv
<1>2. IInv /\ [Next]_vars => IInv'
  <2> SUFFICES ASSUME IInv, [Next]_vars PROVE IInv' OBVIOUS
  <2>1. kills \in Nat BY DEF IInv
  <2>2. kills' = kills \/ kills' = kills + 1 BY KillsCounted
  <2>3. kills' \in Nat BY <2>1, <2>2, Counted
  <2>4. kills' = 0 => kills = 0 BY <2>1, <2>2, NoneBefore
  <2>5. Sound' => Sound BY <2>4 DEF Sound
  <2>6. Sound' => J' BY <2>5, StepPreserves DEF IInv
  <2> QED BY <2>3, <2>6 DEF IInv
<1> QED BY <1>1, <1>2, PTL DEF Spec

-----------------------------------------------------------------------------
(* What the invariant says between two calls.                                *)
LEMMA Between ==
  ASSUME J, pc = "idle"
  PROVE  /\ IndexNow = Ndx /\ BytesNow = Logical("rec") /\ HeadNow = Head1(Ndx)
         /\ \A i : PairNow(i) = PairIn(Ndx, i)
         /\ Ndx \in Indexes /\ Logical("rec") \in Seq(ByteSet) /\ HeadNow \in Headers
         /\ AtIdle /\ CopiesGone
         /\ kills = 0 /\ refused = 0 => ~Wasteful(HeadNow)
<1>1. TypeOK /\ AtIdle /\ CopiesGone BY DEF J, Phases
<1>2. Ndx \in Indexes /\ Logical("rec") \in Seq(ByteSet) BY <1>1, LogicalTypes DEF TypeOK, Ndx
<1>3. IndexNow = Ndx /\ BytesNow = Logical("rec") BY DEF IndexNow, BytesNow, Ndx
<1>4. HeadNow = Head1(Ndx) BY <1>3 DEF HeadNow
<1>5. Head1(Ndx) \in Headers BY <1>2, HeadType
<1>6. \A i : PairNow(i) = PairIn(Ndx, i) BY <1>3 DEF PairNow
<1>7. kills = 0 /\ refused = 0 => ~Wasteful(HeadNow) BY <1>4 DEF J
<1> QED BY <1>1, <1>2, <1>3, <1>4, <1>5, <1>6, <1>7

LEMMA ApartAre ==
  ASSUME NEW a \in Nat, NEW b \in Nat, NEW c \in Nat, NEW d \in Nat,
         b = 0 \/ d = 0 \/ a + b <= c \/ c + d <= a
  PROVE  (a + 1 .. a + b) \cap (c + 1 .. c + d) = {}
<1> SUFFICES ASSUME NEW k \in Int, k \in a + 1 .. a + b, k \in c + 1 .. c + d PROVE FALSE OBVIOUS
<1> QED OBVIOUS

LEMMA WithinIs ==
  ASSUME NEW a \in Nat, NEW b \in Nat, NEW t \in Nat, a + b <= t
  PROVE  a + 1 .. a + b \subseteq 1 .. t
OBVIOUS

LEMMA ApartHolds == ASSUME J PROVE RecordsApart
<1> SUFFICES ASSUME pc = "idle"
             PROVE  \A i \in Records :
                      /\ Extent(i) \subseteq 1 .. HeadNow.totallen
                      /\ \A j \in Records \ {i} : Extent(i) \cap Extent(j) = {}
  BY DEF RecordsApart
<1>1. /\ HeadNow = Head1(Ndx) /\ \A i : PairNow(i) = PairIn(Ndx, i)
      /\ Ndx \in Indexes /\ HeadNow \in Headers /\ AtIdle
  BY Between
<1>2. PICK n \in Nat, t \in Nat : n = HeadNow.recordcnt /\ t = HeadNow.totallen BY <1>1 DEF Headers
<1>3. Apart(Ndx, n, t) BY <1>1, <1>2 DEF AtIdle, Whole
<1>4. Records = 0 .. n - 1 /\ \A i \in Records : i \in Nat BY <1>2 DEF Records
<1>5. ASSUME NEW i \in Records, NEW p, p = PairIn(Ndx, i)
      PROVE  /\ p.recstart \in Nat /\ p.reclength \in Nat /\ p.recstart + p.reclength <= t
             /\ Extent(i) = p.recstart + 1 .. p.recstart + p.reclength
  <2>1. p \in Pairs BY <1>1, <1>4, <1>5, PairType
  <2>2. p.recstart + p.reclength <= t BY <1>3, <1>4, <1>5 DEF Apart, End
  <2> QED BY <1>1, <1>5, <2>1, <2>2 DEF Pairs, Extent
<1>6. ASSUME NEW i \in Records PROVE Extent(i) \subseteq 1 .. t
  <2>1. PICK p : p = PairIn(Ndx, i) OBVIOUS
  <2>2. PICK a \in Nat, b \in Nat : a = p.recstart /\ b = p.reclength BY <1>5, <2>1
  <2>3. a + b <= t /\ Extent(i) = a + 1 .. a + b BY <1>5, <2>1, <2>2
  <2> QED BY <2>3, WithinIs
<1>7. ASSUME NEW i \in Records, NEW j \in Records \ {i} PROVE Extent(i) \cap Extent(j) = {}
  <2>1. PICK p, q : p = PairIn(Ndx, i) /\ q = PairIn(Ndx, j) OBVIOUS
  <2>2. PICK a \in Nat, b \in Nat : a = p.recstart /\ b = p.reclength BY <1>5, <2>1
  <2>3. PICK c \in Nat, d \in Nat : c = q.recstart /\ d = q.reclength BY <1>5, <2>1
  <2>4. Before(Ndx, i, j) BY <1>3, <1>4 DEF Apart
  <2>5. b = 0 \/ d = 0 \/ a + b <= c \/ c + d <= a BY <2>1, <2>2, <2>3, <2>4 DEF Before, End
  <2>6. Extent(i) = a + 1 .. a + b /\ Extent(j) = c + 1 .. c + d BY <1>5, <2>1, <2>2, <2>3
  <2> QED BY <2>5, <2>6, ApartAre
<1> QED BY <1>2, <1>6, <1>7

(* No record of a direct file reaches into another or beyond the end, as     *)
(* long as the program is not killed while a record moves to the end or      *)
(* while the files are compressed: a write in place spoils no other record   *)
(* (writerec, eraserecord and compressfile of fileio.c).                     *)
THEOREM RecordsStayApart ==
  ASSUME "kill while moving" \notin Uses, "kill while compressing" \notin Uses
  PROVE  Spec => []RecordsApart
<1>1. Sound BY DEF Sound
<1>2. IInv => RecordsApart BY <1>1, ApartHolds DEF IInv
<1> QED BY <1>2, Invariance, PTL

-----------------------------------------------------------------------------
(* The bytes in use, folded over the numbers of the records, are the sum of  *)
(* the lengths.                                                              *)
LEMMA SumOfPairs ==
  ASSUME NEW x \in Indexes, NEW n \in Nat
  PROVE  MapThenSumSet(LAMBDA i : PairIn(x, i).reclength, 0 .. n - 1) = Total(x, n)
<1> DEFINE S == 0 .. n - 1
<1>1. PICK r \in [Nat -> Nat] : r = Lens(x) BY LensType
<1>2. PICK it : it = CHOOSE f : f = [s \in SUBSET S |-> IF s = {} THEN 0
                       ELSE PairIn(x, CHOOSE k \in s : TRUE).reclength + f[s \ {CHOOSE k \in s : TRUE}]]
  OBVIOUS
<1>3. ASSUME NEW s \in SUBSET S, s # {}
      PROVE  PairIn(x, CHOOSE k \in s : TRUE).reclength = r[CHOOSE k \in s : TRUE]
  <2>1. PICK c : c = CHOOSE k \in s : TRUE OBVIOUS
  <2>a. c \in s BY <1>3, <2>1
  <2>2. c \in Nat BY <2>a
  <2>3. r[c] = PairIn(x, c).reclength BY <1>1, <2>2 DEF Lens
  <2> QED BY <2>1, <2>3
<1>4. ASSUME NEW f
      PROVE  [s \in SUBSET S |-> IF s = {} THEN 0
                       ELSE PairIn(x, CHOOSE k \in s : TRUE).reclength + f[s \ {CHOOSE k \in s : TRUE}]]
             = [s \in SUBSET S |-> IF s = {} THEN 0
                       ELSE r[CHOOSE k \in s : TRUE] + f[s \ {CHOOSE k \in s : TRUE}]]
  <2> HIDE DEF S
  <2>1. ASSUME NEW s \in SUBSET S
        PROVE  (IF s = {} THEN 0
                ELSE PairIn(x, CHOOSE k \in s : TRUE).reclength + f[s \ {CHOOSE k \in s : TRUE}])
               = (IF s = {} THEN 0 ELSE r[CHOOSE k \in s : TRUE] + f[s \ {CHOOSE k \in s : TRUE}])
    <3>1. CASE s = {} BY <3>1
    <3>2. CASE s # {} BY <1>3, <3>2
    <3> QED BY <3>1, <3>2
  <2> QED BY <2>1
<1>5. \E f : Folds(r, f, S) BY FoldExists
<1>6. it = [s \in SUBSET S |-> IF s = {} THEN 0
                       ELSE PairIn(x, CHOOSE k \in s : TRUE).reclength + it[s \ {CHOOSE k \in s : TRUE}]]
  <2>1. PICK f : Folds(r, f, S) BY <1>5
  <2>2. f = [s \in SUBSET S |-> IF s = {} THEN 0
                       ELSE PairIn(x, CHOOSE k \in s : TRUE).reclength + f[s \ {CHOOSE k \in s : TRUE}]]
    BY ZenonT(40), <1>4, <2>1 DEF Folds
  <2>3. \E g : g = [s \in SUBSET S |-> IF s = {} THEN 0
                       ELSE PairIn(x, CHOOSE k \in s : TRUE).reclength + g[s \ {CHOOSE k \in s : TRUE}]]
    BY <2>2
  <2> HIDE DEF S
  <2> QED BY <1>2, <2>3
<1>7. Folds(r, it, S) BY <1>4, <1>6 DEF Folds
<1>8. PICK G : Sums(r, G, S) BY SumsExist
<1>9. it[S] = SumTo(r, n)
  <2>1. it[S] = G[S] BY <1>7, <1>8, FoldIsSum
  <2>2. SumTo(r, n) = G[S] BY <1>8, SumToIs
  <2> QED BY <2>1, <2>2
<1>10. MapThenSumSet(LAMBDA i : PairIn(x, i).reclength, S) = it[S]
  BY <1>2 DEF MapThenSumSet, MapThenFoldSet
<1> QED BY <1>1, <1>9, <1>10 DEF Total

LEMMA UsedIs ==
  ASSUME J, pc = "idle"
  PROVE  Used = Total(Ndx, HeadNow.recordcnt)
<1>1. IndexNow = Ndx /\ Ndx \in Indexes /\ HeadNow \in Headers BY Between
<1>2. PICK n \in Nat : n = HeadNow.recordcnt BY <1>1 DEF Headers
<1>3. Records = 0 .. n - 1 BY <1>2 DEF Records
<1>4. Used = MapThenSumSet(LAMBDA i : PairIn(Ndx, i).reclength, 0 .. n - 1)
  BY <1>1, <1>3 DEF Used, PairNow
<1> QED BY <1>1, <1>2, <1>4, SumOfPairs

LEMMA SpaceHolds == ASSUME J PROVE SpaceAccounted
<1> SUFFICES ASSUME pc = "idle"
             PROVE  /\ Used + HeadNow.space_free <= HeadNow.totallen
                    /\ kills = 0 => /\ Used + HeadNow.space_free = HeadNow.totallen
                                    /\ refused = 0 => ~Wasteful(HeadNow)
                    /\ "trc" \notin exists /\ file["tdx"] = <<>>
  BY DEF SpaceAccounted
<1>1. HeadNow = Head1(Ndx) /\ AtIdle /\ CopiesGone BY Between
<1>2. kills = 0 /\ refused = 0 => ~Wasteful(HeadNow) BY Between
<1>3. Used = Total(Ndx, HeadNow.recordcnt) BY UsedIs
<1>4. /\ Used + HeadNow.space_free <= HeadNow.totallen
      /\ kills = 0 => Used + HeadNow.space_free = HeadNow.totallen
  BY <1>1, <1>3 DEF AtIdle, Whole, Exact
<1> QED BY <1>1, <1>2, <1>4 DEF CopiesGone

(* Every byte of a direct file is in one record or counted as free, so that  *)
(* a long file more than half of which is waste does not outlast the call    *)
(* that made it so, and the copies are gone with the call; a kill, again not *)
(* while a record moves or the files are compressed, may leave bytes that    *)
(* nobody counts and never a count of bytes in use.                          *)
THEOREM SpaceIsAccounted ==
  ASSUME "kill while moving" \notin Uses, "kill while compressing" \notin Uses
  PROVE  Spec => []SpaceAccounted
<1>1. Sound BY DEF Sound
<1>2. IInv => SpaceAccounted BY <1>1, SpaceHolds DEF IInv
<1> QED BY <1>2, Invariance, PTL

-----------------------------------------------------------------------------
(* Reading beyond the last record: what would be repeated begins beyond the  *)
(* end of the bytes.                                                         *)
LEMMA TimesAround ==
  ASSUME NEW q \in Nat, q >= 1, NEW t \in Nat
  PROVE  q * t \in Nat /\ q * t >= t
<1>1. PICK k \in Nat : q = k + 1
  <2>1. q - 1 \in Nat /\ q = (q - 1) + 1 OBVIOUS
  <2> QED BY <2>1
<1>2. PICK m \in Nat : m = k * t OBVIOUS
<1>3. (k + 1) * t = m + t BY <1>2
<1> QED BY <1>1, <1>3

LEMMA RoundsFrom ==
  ASSUME NEW i \in Nat, NEW n \in Nat, n # 0, i >= n
  PROVE  i \div n \in Nat /\ i \div n >= 1 /\ i % n \in Nat
OBVIOUS

LEMMA BeyondTheEnd ==
  ASSUME NEW m \in Nat, NEW t \in Nat, m >= t, NEW l \in Nat, l <= t, NEW a \in Nat, NEW b \in Nat
  PROVE  b > 0 => m + a + b > l
OBVIOUS

LEMMA NoBytes == ASSUME NEW c, NEW start PROVE Bytes(c, start, 0) = missing
<1>1. 1 .. 0 = {} OBVIOUS
<1> QED BY <1>1 DEF Bytes, missing

LEMMA EndHolds == ASSUME J PROVE EndIsKnown
<1> SUFFICES ASSUME pc = "idle", kills = 0, NEW i \in HeadNow.recordcnt .. 2 * MaxIndex + 1
             PROVE  ReadIn(IndexNow, BytesNow, i) \in
                      IF HeadNow.recordcnt > 0 /\ PairNow(i % HeadNow.recordcnt).reclength = 0
                      THEN {missing, eof} ELSE {eof}
  BY DEF EndIsKnown
<1>1. /\ IndexNow = Ndx /\ BytesNow = Logical("rec") /\ HeadNow = Head1(Ndx)
      /\ \A k : PairNow(k) = PairIn(Ndx, k)
      /\ Ndx \in Indexes /\ Logical("rec") \in Seq(ByteSet) /\ HeadNow \in Headers /\ AtIdle
  BY Between
<1>2. PICK n \in Nat, t \in Nat : n = HeadNow.recordcnt /\ t = HeadNow.totallen BY <1>1 DEF Headers
<1>3. PICK l \in Nat : l = Len(Logical("rec")) BY <1>1
<1>4. l <= t BY <1>1, <1>2, <1>3 DEF AtIdle, Fits2
<1>5. i \in Nat /\ i >= n BY <1>2, DirectFileAssumption
<1>6. ~ (i < n) BY <1>2, <1>5
<1>7. CASE n = 0 \/ HeadNow.status = array_type
  <2>1. ReadIn(IndexNow, BytesNow, i) = eof BY <1>1, <1>2, <1>5, <1>6, <1>7 DEF ReadIn
  <2> QED BY <2>1
<1>8. CASE n # 0 /\ HeadNow.status # array_type
  <2>1. ReadIn(IndexNow, BytesNow, i) = ReadPast(HeadNow, Ndx, Logical("rec"), i)
    BY <1>1, <1>2, <1>5, <1>6, <1>8 DEF ReadIn
  <2>2. i \div n \in Nat /\ i \div n >= 1 /\ i % n \in Nat BY <1>5, <1>8, RoundsFrom
  <2>3. PICK p \in Pairs : p = PairIn(Ndx, i % n) BY <1>1, <2>2, PairType
  <2>4. PICK a \in Nat, b \in Nat : a = p.recstart /\ b = p.reclength BY DEF Pairs
  <2>5. PICK m \in Nat : m = (i \div n) * t /\ m >= t BY <2>2, TimesAround
  <2>6. PastStart(HeadNow, p, i) = m + a BY <1>2, <2>4, <2>5 DEF PastStart
  <2>7. ReadPast(HeadNow, Ndx, Logical("rec"), i)
          = IF m + a + b > l /\ b > 0 THEN eof ELSE Bytes(Logical("rec"), m + a, b)
    BY <1>2, <1>3, <2>3, <2>4, <2>6 DEF ReadPast
  <2>8. b > 0 => m + a + b > l BY <1>4, <2>5, BeyondTheEnd
  <2>9. b > 0 \/ b = 0 OBVIOUS
  <2>10. CASE b > 0
    <3>1. ReadPast(HeadNow, Ndx, Logical("rec"), i) = eof BY <2>7, <2>8, <2>10
    <3> QED BY <2>1, <3>1
  <2>11. CASE b = 0
    <3>1. ~ (b > 0) BY <2>11
    <3>2. ReadPast(HeadNow, Ndx, Logical("rec"), i) = missing BY <2>7, <2>11, <3>1, NoBytes
    <3>3. n > 0 BY <1>8
    <3>4. PairNow(i % n).reclength = 0 BY <1>1, <2>3, <2>4, <2>11
    <3> QED BY <1>2, <2>1, <3>2, <3>3, <3>4
  <2> QED BY <2>9, <2>10, <2>11
<1> QED BY <1>7, <1>8

(* As long as no kill has left bytes beyond those the header counts, a       *)
(* number past the last record reads as the end of the file, or as nothing   *)
(* where the record it would repeat is empty (readrec of fileio.c takes the  *)
(* index to repeat itself), for any number of records of any lengths.        *)
THEOREM EndsAreKnown == Spec => []EndIsKnown
<1>1. IInv => EndIsKnown
  <2> SUFFICES ASSUME IInv PROVE EndIsKnown OBVIOUS
  <2>1. CASE kills = 0
    <3>1. Sound BY <2>1 DEF Sound
    <3> QED BY <3>1, EndHolds DEF IInv
  <2>2. CASE kills # 0 BY <2>2 DEF EndIsKnown
  <2> QED BY <2>1, <2>2
<1> QED BY <1>1, Invariance, PTL

-----------------------------------------------------------------------------
(* A direct file implements a file of records.                               *)
(*                                                                           *)
(* What the index and the bytes say of each number is followed through every *)
(* step.  The index and the bytes on the disk say of a number what those the *)
(* program sees say, unless it is the one in flux or the one written last;   *)
(* before its header is written a call has almost done what it was to do;    *)
(* and the copies that replace the files say of every number copied so far   *)
(* what the files say.                                                       *)
Cell(c, k) == IF k \in DOMAIN c THEN c[k] ELSE hole
Read(x, c, j) == Bytes(c, PairIn(x, j).recstart, PairIn(x, j).reclength)
Count(x) == Head1(x).recordcnt

(* Where an index has the bytes of a number that has any.                    *)
HasOf(n, x, j) == IF j < n /\ PairIn(x, j).reclength # 0 THEN PairIn(x, j) ELSE Pair(0, 0)
Has(x, j) == HasOf(Count(x), x, j)
Found(x, c, j) == Bytes(c, Has(x, j).recstart, Has(x, j).reclength)

Rec == Logical("rec")
Trc == Logical("trc")

IndexHeld == buf["ndx"] # NoWrite /\ file["ndx"] # <<>>
OnDisk ==
  /\ Count(file["ndx"]) <= MaxIndex + 1
  /\ \A j \in Indices :
       /\ Has(file["ndx"], j) = Has(Ndx, j) \/ (j = call.i /\ (InFlux \/ IndexHeld))
       /\ Found(Ndx, file["rec"], j) = Found(Ndx, Rec, j) \/ j = call.last

NewBytes == call.last = call.i /\ Bytes(Rec, call.start, Len(call.d)) = call.d
EmptyFrom(n, i) == \A j \in n .. i - 1 : PairIn(Ndx, j).reclength = 0
WrittenNow ==
  /\ ~call.erases /\ pc = "header" /\ NewBytes /\ PairIn(Ndx, call.i) = Pair(call.start, Len(call.d))
  /\ head.recordcnt = (IF call.i < Count(Ndx) THEN Count(Ndx) ELSE call.i + 1)
  /\ EmptyFrom(Count(Ndx), call.i)
ErasedNow ==
  /\ call.erases /\ call.d = missing
  /\ PairIn(Ndx, call.i).reclength = 0
  /\ \/ pc = "header" /\ call.i + 1 < Count(Ndx) /\ head.recordcnt = Count(Ndx)
     \/ pc = "goback" /\ call.i + 1 = Count(Ndx)
     \/ /\ pc = "header" /\ call.i + 1 = Count(Ndx)
        /\ head.recordcnt <= call.i /\ EmptyFrom(head.recordcnt, call.i)
        /\ head.recordcnt = 0 \/ PairIn(Ndx, head.recordcnt - 1).reclength # 0
AlmostDone == Ndx # <<>> /\ (WrittenNow \/ ErasedNow)

Copied(n) == \A j \in 0 .. n - 1 : Read(Tdx, Trc, j) = Read(Ndx, Rec, j)

K == /\ Count(IndexNow) <= MaxIndex + 1
     /\ pc \in Phases \cup Opening => OnDisk
     /\ pc = "index" => NewBytes /\ ~call.erases
     /\ pc \in {"goback", "header"} => AlmostDone
     /\ pc = "copy" => Copied(call.next)
     /\ pc \in {"close ndx", "unlink ndx"} => Count(Tdx) = Count(Ndx) /\ Copied(Count(Ndx))

-----------------------------------------------------------------------------
(* What a write of bytes leaves of those that were read, and what is read    *)
(* of those it wrote.                                                        *)
LEMMA CellsAfter ==
  ASSUME NEW name \in {"rec", "trc"}, NEW c \in Seq(ByteSet), NEW pos \in Nat, NEW d \in Seq(ByteSet),
         NEW y, y = After(name, c, Block(pos, d)), NEW k \in Nat, k # 0
  PROVE  Cell(y, k) = IF k \in pos + 1 .. pos + Len(d) THEN d[k - pos] ELSE Cell(c, k)
<1>0. Len(c) \in Nat /\ Len(d) \in Nat /\ DOMAIN c = 1 .. Len(c) /\ DOMAIN d = 1 .. Len(d) OBVIOUS
<1>1. CASE d = <<>>
  <2>1. y = c BY <1>1 DEF After, Block
  <2>2. Len(d) = 0 BY <1>1
  <2>3. k \notin pos + 1 .. pos + Len(d) BY <2>2
  <2> QED BY <2>1, <2>3
<1>2. CASE d # <<>>
  <2>1. PICK w : w = [pos |-> pos, cells |-> d] OBVIOUS
  <2>2. Block(pos, d) = w /\ w # NoWrite /\ w.pos = pos /\ w.cells = d BY <1>2, <2>1 DEF Block, NoWrite
  <2>3. y = Put(name, c, w) BY <2>2 DEF After
  <2>z. Len(c) \in Nat /\ pos + Len(d) \in Nat BY <1>0
  <2>a. PICK a \in Nat, b \in Nat : a = Len(c) /\ b = pos + Len(d) BY <2>z
  <2>b. Max({a, b}) = IF a >= b THEN a ELSE b BY MaxOfTwo
  <2>4. PICK l \in Nat : l = Max({Len(c), w.pos + Len(w.cells)}) /\ l = IF a >= b THEN a ELSE b
    BY <2>2, <2>a, <2>b
  <2>5. y = [m \in 1 .. l |-> IF m - w.pos \in DOMAIN w.cells THEN w.cells[m - w.pos]
                              ELSE IF m <= Len(c) THEN c[m] ELSE ZeroCell(name, m)]
    BY <2>3, <2>4 DEF Put
  <2>6. y = [m \in 1 .. l |-> IF m - pos \in 1 .. Len(d) THEN d[m - pos]
                              ELSE IF m <= a THEN c[m] ELSE hole]
    <3>1. \A m \in 1 .. l : ZeroCell(name, m) = hole BY DEF ZeroCell
    <3> QED BY <1>0, <2>2, <2>5, <2>a, <3>1
  <2>7. CASE k \in pos + 1 .. pos + Len(d)
    <3>1. k \in 1 .. l /\ k - pos \in 1 .. Len(d) BY <1>0, <2>4, <2>7, <2>a
    <3>2. k \in DOMAIN y BY <2>6, <3>1
    <3>3. y[k] = d[k - pos] BY <2>6, <3>1
    <3> QED BY <2>7, <3>2, <3>3 DEF Cell
  <2>8. CASE k \notin pos + 1 .. pos + Len(d)
    <3>1. k - pos \notin 1 .. Len(d) BY <1>0, <2>8
    <3>2. CASE k \in 1 .. l
      <4>1. y[k] = IF k <= a THEN c[k] ELSE hole BY <2>6, <3>1, <3>2
      <4>2. k \in DOMAIN y BY <2>6, <3>2
      <4>3. k <= a <=> k \in DOMAIN c BY <1>0, <2>a
      <4> QED BY <2>8, <4>1, <4>2, <4>3 DEF Cell
    <3>3. CASE k \notin 1 .. l
      <4>1. k \notin DOMAIN y BY <2>6, <3>3
      <4>2. k \notin DOMAIN c BY <1>0, <2>4, <2>a, <3>3
      <4> QED BY <2>8, <4>1, <4>2 DEF Cell
    <3> QED BY <3>2, <3>3
  <2> QED BY <2>7, <2>8
<1> QED BY <1>1, <1>2

LEMMA BytesSame ==
  ASSUME NEW c, NEW y, NEW s \in Nat, NEW l \in Nat, \A k \in 1 .. l : Cell(y, s + k) = Cell(c, s + k)
  PROVE  Bytes(y, s, l) = Bytes(c, s, l)
BY DEF Bytes, Cell

LEMMA BytesNew ==
  ASSUME NEW name \in {"rec", "trc"}, NEW c \in Seq(ByteSet), NEW pos \in Nat, NEW d \in Seq(ByteSet),
         NEW y, y = After(name, c, Block(pos, d))
  PROVE  Bytes(y, pos, Len(d)) = d
<1>1. Len(d) \in Nat /\ d = [k \in 1 .. Len(d) |-> d[k]] OBVIOUS
<1>2. ASSUME NEW k \in 1 .. Len(d) PROVE Cell(y, pos + k) = d[k]
  <2>1. PICK m \in Nat : m = pos + k OBVIOUS
  <2>2. m # 0 /\ m \in pos + 1 .. pos + Len(d) /\ m - pos = k BY <1>1, <2>1
  <2> QED BY <2>1, <2>2, CellsAfter
<1>3. Bytes(y, pos, Len(d)) = [k \in 1 .. Len(d) |-> Cell(y, pos + k)] BY DEF Bytes, Cell
<1>4. [k \in 1 .. Len(d) |-> Cell(y, pos + k)] = [k \in 1 .. Len(d) |-> d[k]] BY <1>2
<1> QED BY <1>1, <1>3, <1>4

LEMMA BytesApart ==
  ASSUME NEW name \in {"rec", "trc"}, NEW c \in Seq(ByteSet), NEW pos \in Nat, NEW d \in Seq(ByteSet),
         NEW y, y = After(name, c, Block(pos, d)), NEW s \in Nat, NEW l \in Nat,
         l = 0 \/ Len(d) = 0 \/ s + l <= pos \/ pos + Len(d) <= s
  PROVE  Bytes(y, s, l) = Bytes(c, s, l)
<1>1. Len(d) \in Nat OBVIOUS
<1>2. ASSUME NEW k \in 1 .. l PROVE Cell(y, s + k) = Cell(c, s + k)
  <2>1. PICK m \in Nat : m = s + k OBVIOUS
  <2>2. m # 0 /\ m \notin pos + 1 .. pos + Len(d) BY <1>1, <2>1
  <2> QED BY <2>1, <2>2, CellsAfter
<1> QED BY <1>2, BytesSame

-----------------------------------------------------------------------------
(* The records that a reader would find are those of the index and the bytes *)
(* of now, without the one in flux.                                          *)
Shown(x, c, i) == [j \in 0 .. Count(x) - 1 |-> IF j = i THEN missing ELSE Read(x, c, j)]
Busy == IF InFlux THEN call.i ELSE -1
Recs == Shown(IndexNow, BytesNow, Busy)
MapRecs == [i \in Records |-> IF InFlux /\ i = call.i THEN missing ELSE ReadIn(IndexNow, BytesNow, i)]

LEMMA CountType ==
  ASSUME NEW x \in Indexes
  PROVE  Count(x) \in Nat
BY HeadType DEF Count, Headers

LEMMA NowTypes ==
  ASSUME FilesOK, BufsOK
  PROVE  IndexNow \in Indexes /\ BytesNow \in Seq(ByteSet) /\ Count(IndexNow) \in Nat
<1>1. IndexNow \in Indexes /\ BytesNow \in Seq(ByteSet) BY LogicalTypes DEF IndexNow, BytesNow, FilesOK
<1> QED BY <1>1, CountType

LEMMA RecsAre ==
  ASSUME FilesOK, BufsOK
  PROVE  MapRecs = Recs
<1>1. PICK n \in Nat : n = Count(IndexNow) BY NowTypes
<1>2. Records = 0 .. n - 1 BY <1>1 DEF Records, Count, HeadNow
<1>3. ASSUME NEW j \in 0 .. n - 1
      PROVE  (IF InFlux /\ j = call.i THEN missing ELSE ReadIn(IndexNow, BytesNow, j))
             = IF j = Busy THEN missing ELSE Read(IndexNow, BytesNow, j)
  <2>1. j < Head1(IndexNow).recordcnt /\ ~ (j >= Head1(IndexNow).recordcnt) BY <1>1 DEF Count
  <2>2. ReadIn(IndexNow, BytesNow, j) = Read(IndexNow, BytesNow, j) BY <2>1 DEF ReadIn, Read
  <2>3. j # -1 OBVIOUS
  <2>4. j = Busy <=> InFlux /\ j = call.i BY <2>3 DEF Busy
  <2> QED BY <2>2, <2>4
<1> QED BY <1>1, <1>2, <1>3 DEF MapRecs, Recs, Shown

LEMMA ShownSame ==
  ASSUME NEW x, NEW y, NEW c, NEW e, NEW i, Count(y) = Count(x),
         \A j \in 0 .. Count(x) - 1 : j # i => Read(y, e, j) = Read(x, c, j)
  PROVE  Shown(y, e, i) = Shown(x, c, i)
BY DEF Shown

(* What each kind of step of the record file is of these.                    *)
Nothing == [op |-> "none", d |-> missing]

LEMMA Stutters ==
  ASSUME MapRecs' = MapRecs, Busy' = Busy, Wanted' = Wanted, Unsure' = Unsure
  PROVE  UNCHANGED RF!vars
BY DEF RF!vars, MapRecs, Busy

LEMMA Syncs ==
  ASSUME MapRecs' = MapRecs, Busy = -1, Busy' = -1, Wanted' = Wanted, Unsure' \subseteq Unsure
  PROVE  RF!Next
<1>1. RF!Sync BY DEF RF!Sync, MapRecs, Busy
<1> QED BY <1>1 DEF RF!Next

LEMMA Begins ==
  ASSUME NEW i \in Indices, NEW what, Busy = -1, Busy' = i, Unsure' \in {{i}, Unsure \cup {i}},
         Wanted' = what,
         \/ \E d \in Contents : what = [op |-> "write", d |-> d]
         \/ what = [op |-> "erase", d |-> missing],
         MapRecs' = IF i \in DOMAIN MapRecs THEN [MapRecs EXCEPT ![i] = missing] ELSE MapRecs
  PROVE  RF!Next
<1>1. what \in RF!Wishes BY DEF RF!Wishes, RF!write, RF!erase, RF!missing, missing
<1>2. RF!Begin(i, what) BY DEF RF!Begin, RF!missing, MapRecs, Busy, missing
<1> QED BY <1>1, <1>2 DEF RF!Next

LEMMA Writes ==
  ASSUME NEW d, Wanted = [op |-> "write", d |-> d], Wanted' = Nothing, Busy' = -1, Unsure' = Unsure,
         MapRecs' = [j \in DOMAIN MapRecs \cup 0 .. Busy |->
                       IF j = Busy THEN d ELSE IF j \in DOMAIN MapRecs THEN MapRecs[j] ELSE missing]
  PROVE  RF!Next
<1>1. Wanted.op = "write" /\ Wanted.d = d OBVIOUS
<1>2. RF!Ends BY DEF RF!Ends, RF!nothing, RF!missing, Nothing, Busy, missing
<1>3. RF!Written
  BY <1>1, <1>2 DEF RF!Written, RF!Extended, RF!Get, RF!missing, MapRecs, Busy, missing
<1> QED BY <1>3 DEF RF!Next

Kept(r) == {j \in DOMAIN r : \E k \in DOMAIN r : j <= k /\ r[k] # missing}
LEMMA Erases ==
  ASSUME Wanted = [op |-> "erase", d |-> missing], Wanted' = Nothing,
         Busy \in DOMAIN MapRecs, Busy' = -1, Unsure' = Unsure,
         MapRecs' = IF Busy + 1 \in DOMAIN MapRecs THEN MapRecs ELSE [j \in Kept(MapRecs) |-> MapRecs[j]]
  PROVE  RF!Next
<1>1. Wanted.op = "erase" OBVIOUS
<1>2. RF!Ends BY DEF RF!Ends, RF!nothing, RF!missing, Nothing, Busy, missing
<1>3. RF!Erased BY <1>1, <1>2 DEF RF!Erased, RF!missing, Kept, MapRecs, Busy, missing
<1> QED BY <1>3 DEF RF!Next

LEMMA Kills ==
  ASSUME Busy' = -1, Wanted' = Nothing, Unsure' = {}, NEW n \in Nat, n <= MaxIndex + 1, DOMAIN MapRecs' = 0 .. n - 1,
         \A j \in Indices \ Unsure :
           (IF j \in DOMAIN MapRecs' THEN MapRecs'[j] ELSE missing)
           = (IF j \in DOMAIN MapRecs THEN MapRecs[j] ELSE missing)
  PROVE  RF!Next
<1>1. n \in {0} \cup {k + 1 : k \in Indices}
  <2>1. CASE n # 0
    <3>1. n - 1 \in Indices /\ n = (n - 1) + 1 BY <2>1, DirectFileAssumption DEF Indices
    <3> QED BY <3>1
  <2> QED BY <2>1
<1>2. RF!Kill BY <1>1 DEF RF!Kill, RF!Get, RF!nothing, Nothing, RF!missing, MapRecs, Busy, missing
<1> QED BY <1>2 DEF RF!Next

LEMMA RecsAlways == FilesOK /\ BufsOK => MapRecs = Recs
BY RecsAre

LEMMA RecsThen == FilesOK' /\ BufsOK' => MapRecs' = Recs'
<1>1. (FilesOK /\ BufsOK => MapRecs = Recs)' BY RecsAlways, PTL
<1> QED BY <1>1

LEMMA CountThen == FilesOK' /\ BufsOK' => IndexNow' \in Indexes /\ Count(IndexNow') \in Nat
<1>1. FilesOK /\ BufsOK => IndexNow \in Indexes /\ Count(IndexNow) \in Nat BY NowTypes
<1>2. (FilesOK /\ BufsOK => IndexNow \in Indexes /\ Count(IndexNow) \in Nat)' BY <1>1, PTL
<1> QED BY <1>2

LEMMA Now ==
  /\ pc \notin Late \cup {"rename ndx"} => IndexNow = Ndx /\ BytesNow = Rec
  /\ pc' \notin Late \cup {"rename ndx"} => IndexNow' = Ndx' /\ BytesNow' = Rec'
  /\ pc \in Late => IndexNow = Ndx
  /\ pc' \in Late => IndexNow' = Ndx'
  /\ pc \in Late \cup {"rename ndx"} => BytesNow = Trc
  /\ pc' \in Late \cup {"rename ndx"} => BytesNow' = Trc'
BY DEF IndexNow, BytesNow, Ndx, Rec, Trc, Late

LEMMA InFluxIs == /\ InFlux <=> pc \in {"index", "header", "goback"}
                  /\ InFlux' <=> pc' \in {"index", "header", "goback"}
BY DEF InFlux

(* Steps that show a reader the same records.                                *)
LEMMA SameRecords ==
  ASSUME J, J', Count(IndexNow') = Count(IndexNow),
         \A j \in 0 .. Count(IndexNow) - 1 :
           j # Busy => Read(IndexNow', BytesNow', j) = Read(IndexNow, BytesNow, j),
         Busy' = Busy, Wanted' = Wanted, Unsure' = Unsure \/ (Busy = -1 /\ Unsure' \subseteq Unsure)
  PROVE  RF!Next \/ UNCHANGED RF!vars
<1>1. MapRecs = Recs BY RecsAre DEF J, TypeOK
<1>2. MapRecs' = Recs' BY RecsThen DEF J, TypeOK
<1>3. Recs' = Recs BY ShownSame DEF Recs
<1>4. MapRecs' = MapRecs BY <1>1, <1>2, <1>3
<1>5. CASE Unsure' = Unsure BY <1>4, <1>5, Stutters
<1>6. CASE Busy = -1 /\ Unsure' \subseteq Unsure BY <1>4, <1>6, Syncs
<1> QED BY <1>5, <1>6

LEMMA SameFiles ==
  ASSUME J, J', IndexNow' = IndexNow, BytesNow' = BytesNow,
         Busy' = Busy, Wanted' = Wanted, Unsure' = Unsure \/ (Busy = -1 /\ Unsure' \subseteq Unsure)
  PROVE  RF!Next \/ UNCHANGED RF!vars
BY SameRecords

LEMMA NotBusy == /\ ~InFlux => Busy = -1
                 /\ ~InFlux' => Busy' = -1
                 /\ InFlux => Busy = call.i
                 /\ InFlux' => Busy' = call'.i
                 /\ ~InFlux => Wanted = Nothing
                 /\ ~InFlux' => Wanted' = Nothing
                 /\ InFlux => Wanted = [op |-> IF call.erases THEN "erase" ELSE "write", d |-> call.d]
                 /\ InFlux' => Wanted' = [op |-> IF call'.erases THEN "erase" ELSE "write", d |-> call'.d]
BY DEF Busy, Wanted, Nothing

(* What has been written, or read again, is on the disk.                     *)
LEMMA FreshOnDisk ==
  /\ buf["ndx"] = NoWrite /\ buf["rec"] = NoWrite /\ Count(Ndx) <= MaxIndex + 1 => OnDisk
  /\ buf'["ndx"] = NoWrite /\ buf'["rec"] = NoWrite /\ Count(Ndx') <= MaxIndex + 1 => OnDisk'
BY LogicalIs DEF OnDisk, After, Ndx, Rec, Found

LEMMA ReadOnDisk ==
  ASSUME FilesOK, BufsOK, NEW S, "ndx" \in S, readblock(S), OnDisk, Count(Ndx) <= MaxIndex + 1,
         call'.last = call.last
  PROVE  OnDisk' /\ ~IndexHeld' /\ (buf'["rec"] # NoWrite => buf["rec"] # NoWrite)
<1>1. Ndx' = Ndx /\ Rec' = Rec /\ file'["ndx"] = Ndx /\ buf'["ndx"] = NoWrite BY ReadsStay DEF Rec
<1>2. "rec" \in Names BY DEF Names
<1>3. file'["rec"] = file["rec"] \/ file'["rec"] = Rec BY <1>2, Reads DEF Rec
<1>4. buf'["rec"] # NoWrite => buf["rec"] # NoWrite BY <1>2, Reads
<1>5. ASSUME NEW j \in Indices PROVE Found(Ndx, file'["rec"], j) = Found(Ndx, Rec, j) \/ j = call.last
  BY <1>3 DEF OnDisk
<1>6. OnDisk' BY <1>1, <1>5 DEF OnDisk
<1> QED BY <1>1, <1>4, <1>6 DEF IndexHeld

-----------------------------------------------------------------------------
(* Calls that only read, and the opening of the file.                        *)
LEMMA ReadIdleRefines ==
  ASSUME J, K, J', pc = "idle", NEW S, "ndx" \in S, readblock(S), UNCHANGED <<pc, call>>
  PROVE  K' /\ (RF!Next \/ UNCHANGED RF!vars)
<1>1. FilesOK /\ BufsOK /\ OnDisk /\ IndexNow = Ndx /\ Count(Ndx) <= MaxIndex + 1
  BY Now DEF J, TypeOK, K, Phases, Late
<1>2. Ndx' = Ndx /\ Rec' = Rec BY <1>1, ReadsStay DEF Rec
<1>3. IndexNow' = IndexNow /\ BytesNow' = BytesNow BY <1>1, <1>2, Now DEF Late
<1>4. OnDisk' /\ ~IndexHeld' /\ (buf'["rec"] # NoWrite => buf["rec"] # NoWrite) BY <1>1, ReadOnDisk
<1>5. K' BY <1>1, <1>3, <1>4 DEF K, Phases, Opening
<1>6. ~InFlux /\ ~InFlux' BY InFluxIs
<1>7. Unsure' \subseteq Unsure BY <1>4, <1>6 DEF Unsure, IndexHeld
<1> QED BY <1>3, <1>5, <1>6, <1>7, NotBusy, SameFiles

LEMMA OpenRefines ==
  ASSUME J, K, J', iopen
  PROVE  K' /\ (RF!Next \/ UNCHANGED RF!vars)
<1>1. pc = "idle" /\ UNCHANGED <<file, pc, call, kills, refused>> BY DEF J, iopen
<1>2. FilesOK /\ BufsOK /\ OnDisk /\ IndexNow = Ndx /\ BytesNow = Rec /\ Count(Ndx) <= MaxIndex + 1 /\ NewIsEmpty
  BY <1>1, Now DEF J, TypeOK, K, Phases, Late
<1>3. IndexNow' = Ndx' /\ BytesNow' = Rec' BY <1>1, Now DEF Late
<1>4. ~InFlux /\ ~InFlux' BY <1>1, InFluxIs
<1>5. CASE "ndx" \in exists
  <2>1. UNCHANGED buf BY <1>5 DEF iopen
  <2>2. Ndx' = Ndx /\ Rec' = Rec BY <1>1, <2>1 DEF Ndx, Rec, Logical
  <2>3. OnDisk' BY <1>1, <1>2, <1>4, <2>1, <2>2 DEF OnDisk, IndexHeld
  <2>4. K' BY <1>1, <1>2, <1>3, <2>2, <2>3 DEF K, Phases, Opening
  <2>5. Unsure' = Unsure BY <1>1, <1>4, <2>1 DEF Unsure
  <2> QED BY <1>2, <1>3, <1>4, <2>2, <2>4, <2>5, NotBusy, SameFiles
<1>6. CASE "ndx" \notin exists
  <2>1. file["ndx"] = <<>> /\ buf["ndx"] = NoWrite /\ file["rec"] = <<>> /\ buf["rec"] = NoWrite
    BY <1>2, <1>6 DEF NewIsEmpty
  <2>2. buf' = [buf EXCEPT !["ndx"] = HeaderWrite(ZeroHeader)] BY <1>6, BlockIs DEF iopen
  <2>3. buf'["ndx"] = HeaderWrite(ZeroHeader) /\ buf'["rec"] = NoWrite BY <1>2, <2>1, <2>2 DEF BufsOK, Names
  <2>4. Ndx' = After("ndx", <<>>, HeaderWrite(ZeroHeader)) BY <1>1, <2>1, <2>3, LogicalIs DEF Ndx
  <2>5. Head1(Ndx') = ZeroHeader BY <2>4, NothingIn, ZeroIsHeader, AfterHeader
  <2>6. Head1(Ndx) = ZeroHeader /\ Head1(file["ndx"]) = ZeroHeader
    BY <2>1, LogicalIs, NothingIn DEF Ndx, After
  <2>7. Count(Ndx) = 0 /\ Count(Ndx') = 0 /\ Count(file["ndx"]) = 0 BY <2>5, <2>6 DEF Count, ZeroHeader, Header
  <2>8. Rec' = Rec /\ Rec = <<>> BY <1>1, <2>1, <2>3, LogicalIs DEF Rec, After
  <2>9. \A j \in Indices : Has(Ndx', j) = Pair(0, 0) /\ Has(file["ndx"], j) = Pair(0, 0)
    BY <2>7, DirectFileAssumption DEF Has, HasOf, Indices
  <2>10. OnDisk' BY <1>1, <2>1, <2>7, <2>8, <2>9, DirectFileAssumption DEF OnDisk
  <2>11. K' BY <1>1, <1>3, <2>7, <2>10, DirectFileAssumption DEF K, Phases, Opening
  <2>12. Unsure' = Unsure BY <1>1, <1>4, <2>1, <2>3 DEF Unsure
  <2> QED BY <1>2, <1>3, <1>4, <2>7, <2>11, <2>12, NotBusy, SameRecords
<1> QED BY <1>5, <1>6

-----------------------------------------------------------------------------
(* A record is written.                                                      *)
LEMMA HasIs ==
  ASSUME NEW x \in Indexes, NEW n \in Nat, NEW j \in Nat, NEW p, p = HasOf(n, x, j)
  PROVE  /\ p \in Pairs
         /\ p.reclength # 0 => j < n /\ p = PairIn(x, j)
         /\ p.reclength = 0 => p = Pair(0, 0)
<1>1. PairIn(x, j) \in Pairs /\ Pair(0, 0) \in Pairs BY PairType, ZeroIsHeader
<1>2. Pair(0, 0).reclength = 0 BY DEF Pair
<1> QED BY <1>1, <1>2 DEF HasOf

LEMMA NothingFound ==
  ASSUME NEW x, NEW c, NEW e, NEW j, Has(x, j) = Pair(0, 0)
  PROVE  Found(x, c, j) = Found(x, e, j)
BY NoBytes DEF Found, Pair

(* Where the bytes of a write can be.                                        *)
LEMMA WriteSpoilsNone ==
  ASSUME J, pc = "idle", NEW i \in Nat, NEW h, h = Head1(Ndx), NEW p, p = PairIn(Ndx, i),
         NEW start \in Nat, NEW d \in Seq(ByteSet),
         \/ start = h.totallen
         \/ i < h.recordcnt /\ start = p.recstart /\ Len(d) <= p.reclength,
         NEW y, y = After("rec", Rec, Block(start, d))
  PROVE  \A j \in 0 .. Count(Ndx) - 1 : j # i => Read(Ndx, y, j) = Read(Ndx, Rec, j)
<1>1. Ndx \in Indexes /\ Rec \in Seq(ByteSet) /\ h \in Headers /\ AtIdle
  BY Between DEF Rec
<1>2. PICK n \in Nat, t \in Nat : n = h.recordcnt /\ t = h.totallen BY <1>1 DEF Headers
<1>3. Count(Ndx) = n /\ Apart(Ndx, n, t) BY <1>1, <1>2 DEF Count, AtIdle, Whole
<1>4. PICK l \in Nat : l = Len(d) OBVIOUS
<1>5. ASSUME NEW j \in 0 .. n - 1, j # i PROVE Read(Ndx, y, j) = Read(Ndx, Rec, j)
  <2>1. PICK q \in Pairs : q = PairIn(Ndx, j)
    <3>1. j \in Nat OBVIOUS
    <3> QED BY <1>1, <3>1, PairType
  <2>2. PICK s \in Nat, m \in Nat : s = q.recstart /\ m = q.reclength BY <2>1 DEF Pairs
  <2>3. s + m <= t BY <1>3, <2>1, <2>2 DEF Apart, End
  <2>4. CASE start = t
    <3>1. s + m <= start BY <2>3, <2>4
    <3>2. Bytes(y, s, m) = Bytes(Rec, s, m) BY <1>1, <3>1, BytesApart
    <3> QED BY <2>1, <2>2, <3>2 DEF Read
  <2>5. CASE i < n /\ start = p.recstart /\ l <= p.reclength
    <3>1. i \in 0 .. n - 1 BY <2>5
    <3>2. Before(Ndx, i, j) BY <1>3, <1>5, <3>1 DEF Apart
    <3>3. p \in Pairs BY <1>1, PairType
    <3>4. PICK a \in Nat : a = p.reclength BY <3>3 DEF Pairs
    <3>5. a = 0 \/ m = 0 \/ start + a <= s \/ s + m <= start
      BY <2>1, <2>2, <2>5, <3>2, <3>4 DEF Before, End
    <3>6. m = 0 \/ l = 0 \/ s + m <= start \/ start + l <= s BY <2>5, <3>4, <3>5
    <3>7. Bytes(y, s, m) = Bytes(Rec, s, m) BY <1>1, <1>4, <3>6, BytesApart
    <3> QED BY <2>1, <2>2, <3>7 DEF Read
  <2> QED BY <1>2, <1>4, <2>4, <2>5
<1> QED BY <1>3, <1>5

LEMMA WriteRefines ==
  ASSUME J, K, J', NEW i \in Indices, NEW isarray \in BOOLEAN, NEW d \in Contents, writerec(i, isarray, d)
  PROVE  K' /\ (RF!Next \/ UNCHANGED RF!vars)
<1> DEFINE h == Head1(Ndx)
           p == PairIn(Ndx, i)
           fits == Fits(h, Ndx, i, isarray, d)
           start == IF fits THEN p.recstart ELSE h.totallen
<1>1. /\ pc = "idle" /\ pc' = "index"
      /\ ThenWrites({"ndx", "rec"}, [n \in {"rec"} |-> Block(start, d)])
      /\ call'.i = i /\ call'.d = d /\ call'.start = start /\ call'.last = i /\ ~call'.erases
  BY DEF writerec, Ndx
<1>2. FilesOK /\ BufsOK /\ OnDisk /\ IndexNow = Ndx /\ BytesNow = Rec /\ Count(Ndx) <= MaxIndex + 1
  BY <1>1, Now DEF J, TypeOK, K, Phases, Late
<1>3. Ndx \in Indexes /\ Rec \in Seq(ByteSet) BY <1>2, LogicalTypes DEF Ndx, Rec
<1>4. i \in Nat BY DirectFileAssumption DEF Indices
<1>5. h \in Headers /\ p \in Pairs BY <1>3, <1>4, HeadType, PairType
<1>6. d \in Seq(ByteSet) /\ Len(d) \in Nat BY ContentsAreBytes
<1>7. start \in Nat BY <1>5 DEF Headers, Pairs
<1>8. start = h.totallen \/ (i < h.recordcnt /\ start = p.recstart /\ Len(d) <= p.reclength) BY DEF Fits
<1>9. PICK s \in Nat : s = start BY <1>7
<1>10. h = Head1(Ndx) /\ p = PairIn(Ndx, i) OBVIOUS
<1> HIDE DEF h, p, fits, start
<1>11. /\ \A n \in Names : file'[n] = IF n \in {"ndx", "rec"} THEN Logical(n) ELSE file[n]
       /\ \A n \in Names : buf'[n] = IF n \in DOMAIN [m \in {"rec"} |-> Block(start, d)]
                                     THEN [m \in {"rec"} |-> Block(start, d)][n]
                                     ELSE IF n \in {"ndx", "rec"} THEN NoWrite ELSE buf[n]
  BY <1>1, Steps
<1>12. file'["ndx"] = Ndx /\ buf'["ndx"] = NoWrite /\ file'["rec"] = Rec /\ buf'["rec"] = Block(s, d)
  BY <1>9, <1>11 DEF Ndx, Rec, Names
<1>13. Ndx' = Ndx BY <1>12, LogicalIs DEF After, Ndx
<1>14. PICK y : y = Rec' OBVIOUS
<1>15. y = After("rec", Rec, Block(s, d)) BY <1>12, <1>14, LogicalIs DEF Rec
<1>16. \A j \in 0 .. Count(Ndx) - 1 : j # i => Read(Ndx, y, j) = Read(Ndx, Rec, j)
  BY <1>1, <1>4, <1>6, <1>8, <1>9, <1>10, <1>15, WriteSpoilsNone
<1>17. IndexNow' = Ndx /\ BytesNow' = y BY <1>1, <1>13, <1>14, Now DEF Late
<1>18. Bytes(y, s, Len(d)) = d BY <1>3, <1>6, <1>15, BytesNew
<1>19. NewBytes' BY <1>1, <1>9, <1>14, <1>18 DEF NewBytes
<1>20. ASSUME NEW j \in Indices, j # i PROVE Found(Ndx, Rec, j) = Found(Ndx, y, j)
  <2>1. j \in Nat BY DirectFileAssumption DEF Indices
  <2>2. PICK n \in Nat : n = Count(Ndx) BY <1>3, CountType
  <2>3. PICK q : q = HasOf(n, Ndx, j) OBVIOUS
  <2>4. Has(Ndx, j) = q BY <2>2, <2>3 DEF Has
  <2>5. CASE q.reclength = 0
    <3>1. q = Pair(0, 0) BY <1>3, <2>1, <2>3, <2>5, HasIs
    <3> QED BY <2>4, <3>1, NothingFound
  <2>6. CASE q.reclength # 0
    <3>1. j < n /\ q = PairIn(Ndx, j) BY <1>3, <2>1, <2>3, <2>6, HasIs
    <3>2. j \in 0 .. n - 1 BY <2>1, <3>1
    <3>3. Read(Ndx, y, j) = Read(Ndx, Rec, j) BY <1>16, <1>20, <2>2, <3>2
    <3> QED BY <2>4, <3>1, <3>3 DEF Found, Read
  <2> QED BY <2>5, <2>6
<1>21. OnDisk' BY <1>1, <1>2, <1>12, <1>13, <1>14, <1>20 DEF OnDisk
<1>22. K' BY <1>1, <1>2, <1>17, <1>19, <1>21 DEF K, Phases, Opening
<1>23. ~InFlux /\ InFlux' /\ Busy = -1 /\ Busy' = i BY <1>1, InFluxIs, NotBusy
<1>24. Unsure' \in {{i}, Unsure \cup {i}} BY <1>1, <1>23 DEF Unsure
<1>25. MapRecs = Shown(Ndx, Rec, -1) BY <1>2, <1>23, RecsAre DEF Recs
<1>26. MapRecs' = Shown(Ndx, y, i) BY <1>17, <1>23, RecsThen DEF Recs, J, TypeOK
<1>27. MapRecs' = IF i \in DOMAIN MapRecs THEN [MapRecs EXCEPT ![i] = missing] ELSE MapRecs
  <2>1. PICK n \in Nat : n = Count(Ndx) BY <1>3, CountType
  <2>2. PICK r : r = MapRecs OBVIOUS
  <2>3. r = [j \in 0 .. n - 1 |-> Read(Ndx, Rec, j)] BY <1>25, <2>1, <2>2 DEF Shown
  <2>4. MapRecs' = [j \in 0 .. n - 1 |-> IF j = i THEN missing ELSE Read(Ndx, y, j)]
    BY <1>26, <2>1 DEF Shown
  <2>5. \A j \in 0 .. n - 1 : j # i => Read(Ndx, y, j) = r[j] BY <1>16, <2>1, <2>3
  <2>6. MapRecs' = [j \in 0 .. n - 1 |-> IF j = i THEN missing ELSE r[j]] BY <2>4, <2>5
  <2>7. DOMAIN r = 0 .. n - 1 /\ r = [j \in 0 .. n - 1 |-> r[j]] BY <2>3
  <2>8. CASE i \in 0 .. n - 1 BY <2>2, <2>6, <2>7, <2>8
  <2>9. CASE i \notin 0 .. n - 1 BY <2>2, <2>6, <2>7, <2>9
  <2> QED BY <2>2, <2>7, <2>8, <2>9
<1>28. PICK what : what = [op |-> "write", d |-> d] OBVIOUS
<1>29. Wanted' = what BY <1>1, <1>23, <1>28, NotBusy
<1> QED BY <1>22, <1>23, <1>24, <1>27, <1>28, <1>29, Begins

-----------------------------------------------------------------------------
(* The index is written.                                                     *)
LEMMA RecStays ==
  ASSUME NEW pos, NEW cells, writeblock("ndx", pos, cells)
  PROVE  file'["rec"] = file["rec"] /\ buf'["rec"] = buf["rec"] /\ buf'["ndx"] = Block(pos, cells) /\ Rec' = Rec
<1>1. ThenWrites({"ndx"}, [n \in {"ndx"} |-> Block(pos, cells)]) BY DEF writeblock
<1>2. /\ \A n \in Names : file'[n] = IF n \in {"ndx"} THEN Logical(n) ELSE file[n]
      /\ \A n \in Names : buf'[n] = IF n \in DOMAIN [m \in {"ndx"} |-> Block(pos, cells)]
                                    THEN [m \in {"ndx"} |-> Block(pos, cells)][n]
                                    ELSE IF n \in {"ndx"} THEN NoWrite ELSE buf[n]
  BY <1>1, Steps
<1>3. file'["rec"] = file["rec"] /\ buf'["rec"] = buf["rec"] /\ buf'["ndx"] = Block(pos, cells)
  BY <1>2 DEF Names
<1>4. Rec' = Rec BY <1>3, LogicalIs DEF Rec
<1> QED BY <1>3, <1>4

LEMMA NotEmptyAfter ==
  ASSUME NEW x \in Indexes, NEW j \in Nat, NEW p \in Pairs
  PROVE  After("ndx", x, PairWrite(j, p)) # <<>>
<1>a. PICK z \in Nat : z = j + 1 OBVIOUS
<1>1. PICK y : y = Put("ndx", x, [pos |-> z, cells |-> <<p>>]) OBVIOUS
<1>2. (z = 0 => p \in Headers) /\ (z # 0 => p \in Pairs) BY <1>a
<1>3. IsOver("ndx", x, z, p, y) BY <1>1, <1>2, PutCell
<1>4. Len(y) >= z + 1 BY <1>3 DEF IsOver
<1>5. y # <<>> BY <1>4
<1>6. After("ndx", x, PairWrite(j, p)) = y BY <1>1, <1>a, WritesDiffer DEF After, PairWrite
<1> QED BY <1>5, <1>6

(* A pair is written: of the record in flux, or of one not counted yet.      *)
LEMMA PairOnDisk ==
  ASSUME FilesOK, BufsOK, OnDisk, Count(Ndx) <= MaxIndex + 1,
         NEW i \in Nat, NEW p \in Pairs, writeblock("ndx", i + 1, <<p>>),
         i >= Count(Ndx) \/ (InFlux' /\ i = call'.i /\ (p.reclength = 0 \/ i = call'.last)),
         call'.last = call.last
  PROVE  /\ OnDisk' /\ Ndx \in Indexes /\ Ndx' \in Indexes /\ Rec' = Rec /\ Ndx' # <<>>
         /\ Count(Ndx') = Count(Ndx) /\ PairIn(Ndx', i) = p
         /\ \A j \in Nat : j # i => PairIn(Ndx', j) = PairIn(Ndx, j)
         /\ buf'["rec"] = buf["rec"]
<1>1. /\ file'["ndx"] = Ndx /\ Ndx \in Indexes /\ Ndx' \in Indexes
      /\ Head1(Ndx') = Head1(Ndx) /\ PairIn(Ndx', i) = p
      /\ \A j \in Nat : j # i => PairIn(Ndx', j) = PairIn(Ndx, j)
  BY NdxPair
<1>2. file'["rec"] = file["rec"] /\ buf'["rec"] = buf["rec"] /\ buf'["ndx"] = Block(i + 1, <<p>>) /\ Rec' = Rec
  BY RecStays
<1>3. Count(Ndx') = Count(Ndx) BY <1>1 DEF Count
<1>4. Ndx' # <<>>
  <2>1. buf'["ndx"] = PairWrite(i, p) BY <1>2, BlockIs
  <2>2. Ndx' = After("ndx", Ndx, PairWrite(i, p)) BY <1>1, <2>1, LogicalIs DEF Ndx
  <2> QED BY <1>1, <2>2, NotEmptyAfter
<1>5. ASSUME NEW j \in Indices
      PROVE  Has(Ndx', j) = Has(Ndx, j) \/ (InFlux' /\ j = call'.i /\ (Has(Ndx', j) = Pair(0, 0) \/ j = call'.last))
  <2>1. j \in Nat BY DirectFileAssumption DEF Indices
  <2>2. CASE j # i
    <3>1. PairIn(Ndx', j) = PairIn(Ndx, j) BY <1>1, <2>1, <2>2
    <3> QED BY <1>3, <3>1 DEF Has, HasOf
  <2>3. CASE j = i /\ i >= Count(Ndx)
    <3>1. ~ (j < Count(Ndx)) BY <1>1, <2>3, CountType
    <3> QED BY <1>3, <3>1 DEF Has, HasOf
  <2>4. CASE j = i /\ InFlux' /\ i = call'.i /\ p.reclength = 0
    BY <1>1, <2>4 DEF Has, HasOf
  <2> QED BY <2>2, <2>3, <2>4
<1>6. ASSUME NEW j \in Indices
      PROVE  Found(Ndx', file'["rec"], j) = Found(Ndx', Rec', j) \/ j = call'.last
  <2>1. CASE Has(Ndx', j) = Has(Ndx, j) BY <1>2, <2>1 DEF OnDisk, Found
  <2>2. CASE Has(Ndx', j) = Pair(0, 0) BY <2>2, NothingFound
  <2> QED BY <1>5, <2>1, <2>2
<1>7. OnDisk' BY <1>1, <1>5, <1>6 DEF OnDisk
<1> QED BY <1>1, <1>2, <1>3, <1>4, <1>7

LEMMA GapRefines ==
  ASSUME J, K, J', FillGap
  PROVE  K' /\ (RF!Next \/ UNCHANGED RF!vars)
<1>1. /\ pc = "index" /\ pc' = "index" /\ call.next < call.i
      /\ writeblock("ndx", call.next + 1, <<Pair(head.totallen, 0)>>)
      /\ call' = [call EXCEPT !.next = @ + 1]
  BY DEF FillGap
<1>2. /\ FilesOK /\ BufsOK /\ CallOK /\ OnDisk /\ IndexNow = Ndx /\ BytesNow = Rec /\ Count(Ndx) <= MaxIndex + 1
      /\ NewBytes /\ ~call.erases
  BY <1>1, Now DEF J, TypeOK, K, Phases, Late
<1>3. /\ call'.i = call.i /\ call'.last = call.last /\ call'.start = call.start /\ call'.d = call.d
      /\ call'.erases = call.erases
  BY <1>1, <1>2 DEF CallOK
<1>4. PICK m \in Nat, t \in Nat : m = call.next /\ t = head.totallen BY <1>1, IndexFacts DEF Headers
<1>5. PICK p \in Pairs : p = Pair(t, 0) BY DEF Pair, Pairs
<1>6. m >= Count(Ndx)
  <2>1. head.recordcnt = Count(Ndx) /\ head.recordcnt \in Nat BY <1>1, IndexFacts DEF Count, Headers
  <2>2. head.recordcnt <= call.next BY <1>1 DEF J, AtIndex
  <2> QED BY <1>4, <2>1, <2>2
<1>7. InFlux /\ InFlux' BY <1>1, InFluxIs
<1>8. writeblock("ndx", m + 1, <<p>>) BY <1>1, <1>4, <1>5
<1>9. /\ OnDisk' /\ Rec' = Rec /\ Count(Ndx') = Count(Ndx) /\ buf'["rec"] = buf["rec"] /\ Ndx \in Indexes
      /\ \A j \in Nat : j # m => PairIn(Ndx', j) = PairIn(Ndx, j)
  BY <1>2, <1>3, <1>6, <1>8, PairOnDisk
<1>10. IndexNow' = Ndx' /\ BytesNow' = Rec' BY <1>1, Now DEF Late
<1>11. NewBytes' BY <1>2, <1>3, <1>9 DEF NewBytes
<1>12. K' BY <1>1, <1>2, <1>3, <1>9, <1>10, <1>11 DEF K, Phases, Opening
<1>13. \A j \in 0 .. Count(Ndx) - 1 : Read(Ndx', Rec', j) = Read(Ndx, Rec, j)
  <2> TAKE j \in 0 .. Count(Ndx) - 1
  <2>1. PICK n \in Nat : n = Count(Ndx) BY <1>9, CountType
  <2>2. j \in Nat /\ j # m BY <1>6, <2>1
  <2> QED BY <1>9, <2>2 DEF Read
<1>14. Busy' = Busy /\ Wanted' = Wanted BY <1>3, <1>7, NotBusy
<1>15. Unsure' = Unsure BY <1>3, <1>7, <1>9 DEF Unsure
<1> QED BY <1>2, <1>9, <1>10, <1>12, <1>13, <1>14, <1>15, SameRecords

LEMMA PairRefines ==
  ASSUME J, K, J', WritePair
  PROVE  K' /\ (RF!Next \/ UNCHANGED RF!vars)
<1>1. /\ pc = "index" /\ pc' = "header" /\ call.next >= call.i
      /\ writeblock("ndx", call.i + 1, <<Pair(call.start, Len(call.d))>>)
      /\ UNCHANGED call
      /\ head' = [head EXCEPT !.recordcnt = Max({@, call.i + 1}),
                              !.totallen = IF @ = call.start THEN @ + Len(call.d) ELSE @,
                              !.space_free = @ + call.freed]
  BY DEF WritePair
<1>2. /\ FilesOK /\ BufsOK /\ CallOK /\ OnDisk /\ IndexNow = Ndx /\ BytesNow = Rec /\ Count(Ndx) <= MaxIndex + 1
      /\ NewBytes /\ ~call.erases
  BY <1>1, Now DEF J, TypeOK, K, Phases, Late
<1>3. PICK i \in Nat, s \in Nat, l \in Nat : i = call.i /\ s = call.start /\ l = Len(call.d)
  BY <1>1, IndexFacts
<1>4. PICK p \in Pairs : p = Pair(s, l) BY DEF Pair, Pairs
<1>5. InFlux /\ InFlux' BY <1>1, InFluxIs
<1>6. writeblock("ndx", i + 1, <<p>>) BY <1>1, <1>3, <1>4
<1>7. i = call'.i /\ i = call'.last /\ call'.last = call.last BY <1>1, <1>2, <1>3 DEF NewBytes
<1>8. /\ OnDisk' /\ Rec' = Rec /\ Count(Ndx') = Count(Ndx) /\ buf'["rec"] = buf["rec"] /\ Ndx \in Indexes
      /\ Ndx' # <<>> /\ PairIn(Ndx', i) = p
      /\ \A j \in Nat : j # i => PairIn(Ndx', j) = PairIn(Ndx, j)
  BY <1>1, <1>2, <1>5, <1>6, <1>7, PairOnDisk
<1>9. IndexNow' = Ndx' /\ BytesNow' = Rec' BY <1>1, Now DEF Late
<1>10. PICK n \in Nat : n = Count(Ndx) /\ n = head.recordcnt BY <1>1, IndexFacts DEF Count, Headers
<1>11. head'.recordcnt = IF i < n THEN n ELSE i + 1
  <2>1. PICK k \in Nat : k = i + 1 OBVIOUS
  <2>2. Max({n, k}) = IF n >= k THEN n ELSE k BY MaxOfTwo
  <2>3. head'.recordcnt = Max({n, k}) BY <1>1, <1>3, <1>10, <2>1, IndexFacts DEF Headers
  <2> QED BY <2>1, <2>2, <2>3
<1>12. NewBytes' BY <1>1, <1>2, <1>8 DEF NewBytes
<1>13. \A j \in n .. i - 1 : PairIn(Ndx', j).reclength = 0
  <2> TAKE j \in n .. i - 1
  <2>1. j \in head.recordcnt .. call.next - 1 /\ j \in Nat /\ j # i BY <1>1, <1>3, <1>10, IndexFacts
  <2>2. PairIn(Ndx, j).reclength = 0 BY <1>1, <2>1 DEF J, AtIndex
  <2> QED BY <1>8, <2>1, <2>2
<1>14. AlmostDone'
  <2>1. EmptyFrom(n, i)' BY <1>13 DEF EmptyFrom
  <2>2. WrittenNow' BY <1>1, <1>2, <1>3, <1>4, <1>8, <1>10, <1>11, <1>12, <2>1 DEF WrittenNow, EmptyFrom
  <2> QED BY <1>8, <2>2 DEF AlmostDone
<1>15. K' BY <1>1, <1>2, <1>8, <1>9, <1>14 DEF K, Phases, Opening
<1>16. Busy = i /\ Busy' = i /\ Wanted' = Wanted
  <2>1. call' = call BY <1>1
  <2> QED BY <1>3, <1>5, <1>7, <2>1, NotBusy
<1>17. \A j \in 0 .. Count(Ndx) - 1 : j # i => Read(Ndx', Rec', j) = Read(Ndx, Rec, j)
  <2> TAKE j \in 0 .. Count(Ndx) - 1
  <2>1. j \in Nat BY <1>10
  <2> QED BY <1>8, <2>1 DEF Read
<1>18. Unsure' = Unsure BY <1>1, <1>5, <1>8 DEF Unsure
<1> QED BY <1>2, <1>8, <1>9, <1>15, <1>16, <1>17, <1>18, SameRecords

LEMMA HeaderRefines ==
  ASSUME J, K, J', WriteHeader
  PROVE  K' /\ (RF!Next \/ UNCHANGED RF!vars)
<1>1. /\ pc = "header" /\ pc' = "compressfile" /\ writeblock("ndx", 0, <<head>>) /\ UNCHANGED <<call, head>>
  BY DEF WriteHeader
<1>2. /\ FilesOK /\ BufsOK /\ CallOK /\ OnDisk /\ IndexNow = Ndx /\ BytesNow = Rec /\ Count(Ndx) <= MaxIndex + 1
      /\ AlmostDone /\ head \in Headers
  BY <1>1, Now DEF J, TypeOK, K, Phases, Late
<1>3. /\ file'["ndx"] = Ndx /\ Ndx \in Indexes /\ Ndx' \in Indexes
      /\ Head1(Ndx') = head /\ \A j \in Nat : PairIn(Ndx', j) = PairIn(Ndx, j)
  BY <1>1, <1>2, NdxHeader
<1>4. file'["rec"] = file["rec"] /\ buf'["rec"] = buf["rec"] /\ buf'["ndx"] = Block(0, <<head>>) /\ Rec' = Rec
  BY <1>1, RecStays
<1>5. buf'["ndx"] # NoWrite /\ file'["ndx"] # <<>> BY <1>2, <1>3, <1>4, BlockIs, WritesDiffer DEF AlmostDone
<1>6. PICK i \in Nat : i = call.i /\ i <= MaxIndex BY <1>2, DirectFileAssumption DEF CallOK, Indices
<1>a. MaxIndex \in Nat BY DirectFileAssumption
<1>7. PICK n \in Nat, m \in Nat : n = Count(Ndx) /\ m = head.recordcnt BY <1>2, <1>3, CountType DEF Headers
<1>8. Count(Ndx') = m BY <1>3, <1>7 DEF Count
<1>9. IndexNow' = Ndx' /\ BytesNow' = Rec' BY <1>1, Now DEF Late
<1>10. /\ InFlux /\ ~InFlux' /\ Busy = i /\ Busy' = -1
       /\ Wanted = [op |-> IF call.erases THEN "erase" ELSE "write", d |-> call.d] /\ Wanted' = Nothing
  BY <1>1, <1>6, InFluxIs, NotBusy
<1>11. Unsure' = Unsure BY <1>1, <1>4, <1>5, <1>10 DEF Unsure
<1>12. /\ m <= MaxIndex + 1
       /\ \A j \in Nat : j # i /\ ~ (j < n <=> j < m) => PairIn(Ndx, j).reclength = 0
       /\ PairIn(Ndx, i).reclength = 0 \/ i = call.last
  <2>1. CASE WrittenNow
    <3>1. m = IF i < n THEN n ELSE i + 1 BY <1>6, <1>7, <2>1 DEF WrittenNow
    <3>2. \A j \in n .. i - 1 : PairIn(Ndx, j).reclength = 0 BY <1>6, <1>7, <2>1 DEF WrittenNow, EmptyFrom
    <3>3. i = call.last BY <1>6, <2>1 DEF WrittenNow, NewBytes
    <3>4. \A j \in Nat : j # i /\ ~ (j < n <=> j < m) => j \in n .. i - 1 BY <3>1
    <3>5. m <= MaxIndex + 1 BY <1>2, <1>6, <1>7, <1>a, <3>1
    <3> QED BY <3>2, <3>3, <3>4, <3>5
  <2>2. CASE ErasedNow /\ call.i + 1 < Count(Ndx) /\ head.recordcnt = Count(Ndx)
    BY <1>2, <1>6, <1>7, <2>2 DEF ErasedNow
  <2>3. CASE ErasedNow /\ call.i + 1 = Count(Ndx) /\ head.recordcnt <= call.i /\ EmptyFrom(head.recordcnt, call.i)
    <3>1. \A j \in m .. i - 1 : PairIn(Ndx, j).reclength = 0 BY <1>6, <1>7, <2>3 DEF EmptyFrom
    <3>2. \A j \in Nat : j # i /\ ~ (j < n <=> j < m) => j \in m .. i - 1 BY <1>6, <1>7, <2>3
    <3>3. PairIn(Ndx, i).reclength = 0 BY <1>6, <2>3 DEF ErasedNow
    <3>4. m <= MaxIndex + 1 BY <1>6, <1>7, <1>a, <2>3
    <3> QED BY <3>1, <3>2, <3>3, <3>4
  <2> QED BY <1>1, <1>2, <2>1, <2>2, <2>3 DEF AlmostDone, ErasedNow
<1>13. ASSUME NEW j \in Indices, j # i PROVE Has(Ndx', j) = Has(Ndx, j)
  <2>1. j \in Nat BY DirectFileAssumption DEF Indices
  <2>2. PairIn(Ndx', j) = PairIn(Ndx, j) BY <1>3, <2>1
  <2>3. (j < n <=> j < m) \/ PairIn(Ndx, j).reclength = 0 BY <1>12, <1>13, <2>1
  <2> QED BY <1>7, <1>8, <2>2, <2>3 DEF Has, HasOf
<1>14. ASSUME NEW j \in Indices PROVE Found(Ndx', file'["rec"], j) = Found(Ndx', Rec', j) \/ j = call'.last
  <2>1. CASE j # i
    <3>1. Has(Ndx', j) = Has(Ndx, j) BY <1>13, <2>1
    <3> QED BY <1>1, <1>2, <1>4, <3>1 DEF OnDisk, Found
  <2>2. CASE j = i /\ PairIn(Ndx, i).reclength = 0
    <3>1. PairIn(Ndx', i) = PairIn(Ndx, i) BY <1>3
    <3>2. Has(Ndx', j) = Pair(0, 0) BY <2>2, <3>1 DEF Has, HasOf
    <3> QED BY <3>2, NothingFound
  <2> QED BY <1>1, <1>12, <2>1, <2>2
<1>15. OnDisk'
  <2>1. \A j \in Indices : Has(file'["ndx"], j) = Has(Ndx', j) \/ (j = call'.i /\ IndexHeld')
    BY <1>1, <1>3, <1>5, <1>6, <1>13 DEF IndexHeld
  <2>2. Count(file'["ndx"]) <= MaxIndex + 1 BY <1>2, <1>3
  <2> QED BY <1>14, <2>1, <2>2 DEF OnDisk
<1>16. K' BY <1>1, <1>8, <1>9, <1>12, <1>15 DEF K, Phases, Opening
<1>17. PICK r : r = MapRecs OBVIOUS
<1>18. r = [j \in 0 .. n - 1 |-> IF j = i THEN missing ELSE Read(Ndx, Rec, j)] /\ DOMAIN r = 0 .. n - 1
  <2>1. MapRecs = Shown(Ndx, Rec, i) BY <1>2, <1>10, RecsAre DEF Recs
  <2> QED BY <1>7, <1>17, <2>1 DEF Shown
<1>19. MapRecs' = [j \in 0 .. m - 1 |-> Read(Ndx, Rec, j)]
  <2>1. MapRecs' = Shown(Ndx', Rec, -1) BY <1>4, <1>9, <1>10, RecsThen DEF Recs, J, TypeOK
  <2>2. MapRecs' = [j \in 0 .. m - 1 |-> Read(Ndx', Rec, j)] BY <1>8, <2>1 DEF Shown
  <2>3. \A j \in 0 .. m - 1 : Read(Ndx', Rec, j) = Read(Ndx, Rec, j) BY <1>3 DEF Read
  <2> QED BY <2>2, <2>3
<1>20. ASSUME NEW j \in Nat, PairIn(Ndx, j).reclength = 0 PROVE Read(Ndx, Rec, j) = missing
  BY <1>20, NoBytes DEF Read
<1>22. CASE WrittenNow
  <2>1. PICK d : d = call.d OBVIOUS
  <2>2. m = IF i < n THEN n ELSE i + 1 BY <1>6, <1>7, <1>22 DEF WrittenNow
  <2>3. \A j \in n .. i - 1 : PairIn(Ndx, j).reclength = 0 BY <1>6, <1>7, <1>22 DEF WrittenNow, EmptyFrom
  <2>4. Read(Ndx, Rec, i) = d BY <1>6, <1>22, <2>1 DEF WrittenNow, NewBytes, Read, Pair
  <2>5. DOMAIN r \cup 0 .. i = 0 .. m - 1 BY <1>18, <2>2
  <2>6. ASSUME NEW j \in 0 .. m - 1
        PROVE  Read(Ndx, Rec, j) = IF j = i THEN d ELSE IF j \in DOMAIN r THEN r[j] ELSE missing
    <3>1. CASE j = i BY <2>4, <3>1
    <3>2. CASE j # i /\ j \in DOMAIN r BY <1>18, <3>2
    <3>3. CASE j # i /\ j \notin DOMAIN r
      <4>1. j \in n .. i - 1 /\ j \in Nat BY <1>18, <2>2, <3>3
      <4> QED BY <1>20, <2>3, <3>3, <4>1
    <3> QED BY <3>1, <3>2, <3>3
  <2>7. MapRecs' = [j \in DOMAIN r \cup 0 .. i |-> IF j = i THEN d ELSE IF j \in DOMAIN r THEN r[j] ELSE missing]
    BY <1>19, <2>5, <2>6
  <2>8. Wanted = [op |-> "write", d |-> d] BY <1>10, <1>22, <2>1 DEF WrittenNow
  <2> QED BY <1>10, <1>11, <1>16, <1>17, <2>7, <2>8, Writes
<1>23. CASE ErasedNow /\ call.i + 1 < Count(Ndx) /\ head.recordcnt = Count(Ndx)
  <2>1. m = n /\ i + 1 < n BY <1>6, <1>7, <1>23
  <2>2. Read(Ndx, Rec, i) = missing BY <1>6, <1>20, <1>23 DEF ErasedNow
  <2>3. \A j \in 0 .. n - 1 : Read(Ndx, Rec, j) = r[j] BY <1>18, <2>2
  <2>4. MapRecs' = r BY <1>18, <1>19, <2>1, <2>3
  <2>5. i \in DOMAIN r /\ i + 1 \in DOMAIN r BY <1>18, <2>1
  <2>6. Wanted = [op |-> "erase", d |-> missing] BY <1>10, <1>23 DEF ErasedNow
  <2> QED BY <1>10, <1>11, <1>16, <1>17, <2>4, <2>5, <2>6, Erases
<1>24. CASE /\ ErasedNow /\ call.i + 1 = Count(Ndx) /\ head.recordcnt <= call.i
            /\ EmptyFrom(head.recordcnt, call.i)
            /\ head.recordcnt = 0 \/ PairIn(Ndx, head.recordcnt - 1).reclength # 0
  <2>1. i + 1 = n /\ m <= i BY <1>6, <1>7, <1>24
  <2>2. \A j \in m .. i - 1 : PairIn(Ndx, j).reclength = 0 BY <1>6, <1>7, <1>24 DEF EmptyFrom
  <2>3. m = 0 \/ PairIn(Ndx, m - 1).reclength # 0 BY <1>7, <1>24
  <2>4. ASSUME NEW k \in m .. n - 1 PROVE r[k] = missing
    <3>1. k \in 0 .. n - 1 /\ k \in Nat /\ (k = i \/ k \in m .. i - 1) BY <2>1
    <3> QED BY <1>18, <1>20, <2>2, <3>1
  <2>5. m # 0 => m - 1 \in 0 .. n - 1 /\ r[m - 1] # missing
    <3> SUFFICES ASSUME m # 0 PROVE m - 1 \in 0 .. n - 1 /\ r[m - 1] # missing OBVIOUS
    <3>1. PICK k \in Nat : k = m - 1 /\ k \in 0 .. n - 1 /\ k # i BY <2>1
    <3>2. r[k] = Read(Ndx, Rec, k) BY <1>18, <3>1
    <3>3. PICK q \in Pairs : q = PairIn(Ndx, k) BY <1>3, PairType
    <3>4. PICK s \in Nat, l \in Nat : s = q.recstart /\ l = q.reclength BY <3>3 DEF Pairs
    <3>5. l # 0 BY <2>3, <3>1, <3>3, <3>4
    <3>6. Rec \in Seq(ByteSet) BY <1>2, LogicalTypes DEF Rec
    <3>7. Len(Bytes(Rec, s, l)) = l BY <3>6, BytesAre
    <3>8. r[k] # <<>> BY <3>2, <3>3, <3>4, <3>5, <3>7 DEF Read
    <3> QED BY <3>1, <3>8 DEF missing
  <2>6. Kept(r) = 0 .. m - 1
    <3>1. ASSUME NEW j \in Kept(r) PROVE j \in 0 .. m - 1
      <4>1. j \in 0 .. n - 1 /\ \E k \in 0 .. n - 1 : j <= k /\ r[k] # missing BY <1>18 DEF Kept
      <4>2. PICK k \in 0 .. n - 1 : j <= k /\ r[k] # missing BY <4>1
      <4>3. ~ (k \in m .. n - 1) BY <2>4, <4>2
      <4> QED BY <4>1, <4>2, <4>3
    <3>2. ASSUME NEW j \in 0 .. m - 1 PROVE j \in Kept(r)
      <4>1. m # 0 /\ j \in 0 .. n - 1 /\ j <= m - 1 BY <2>1
      <4> QED BY <1>18, <2>5, <4>1 DEF Kept
    <3> QED BY <3>1, <3>2
  <2>7. MapRecs' = [j \in Kept(r) |-> r[j]]
    <3>1. \A j \in 0 .. m - 1 : r[j] = Read(Ndx, Rec, j)
      <4> TAKE j \in 0 .. m - 1
      <4>1. j \in 0 .. n - 1 /\ j # i BY <2>1
      <4> QED BY <1>18, <4>1
    <3> QED BY <1>19, <2>6, <3>1
  <2>8. i \in DOMAIN r /\ i + 1 \notin DOMAIN r BY <1>18, <2>1
  <2>9. Wanted = [op |-> "erase", d |-> missing] BY <1>10, <1>24 DEF ErasedNow
  <2> QED BY <1>10, <1>11, <1>16, <1>17, <2>7, <2>8, <2>9, Erases
<1> QED BY <1>1, <1>2, <1>22, <1>23, <1>24 DEF AlmostDone, ErasedNow

-----------------------------------------------------------------------------
(* A record is erased.                                                       *)
LEMMA EraseRefines ==
  ASSUME J, K, J', NEW i \in Indices, eraserecord(i)
  PROVE  K' /\ (RF!Next \/ UNCHANGED RF!vars)
<1> DEFINE h == Head1(Ndx)
           p == PairIn(Ndx, i)
<1>1. /\ pc = "idle" /\ i < h.recordcnt
      /\ writeblock("ndx", i + 1, <<[p EXCEPT !.reclength = 0]>>)
      /\ head' = [h EXCEPT !.space_free = @ + p.reclength]
      /\ call' = [Left EXCEPT !.i = i, !.erases = TRUE]
      /\ pc' = (IF i = h.recordcnt - 1 THEN "goback" ELSE "header")
  BY DEF eraserecord, Ndx
<1>2. /\ FilesOK /\ BufsOK /\ OnDisk /\ IndexNow = Ndx /\ BytesNow = Rec /\ Count(Ndx) <= MaxIndex + 1
      /\ buf["ndx"] = NoWrite \/ file["ndx"] = <<>>
  BY <1>1, Now DEF J, TypeOK, K, Phases, Late
<1>3. Ndx \in Indexes /\ i \in Nat BY <1>2, LogicalTypes, DirectFileAssumption DEF Ndx, Indices
<1>4. h \in Headers /\ p \in Pairs BY <1>3, HeadType, PairType
<1>5. PICK n \in Nat, s \in Nat : n = h.recordcnt /\ s = p.recstart BY <1>4 DEF Headers, Pairs
<1>6. [p EXCEPT !.reclength = 0] = Pair(s, 0) /\ Pair(s, 0) \in Pairs BY <1>4, <1>5 DEF Pair, Pairs
<1>7. PICK q \in Pairs : q = Pair(s, 0) BY <1>6
<1>8. q.reclength = 0 BY <1>7 DEF Pair
<1>9. writeblock("ndx", i + 1, <<q>>) BY <1>1, <1>6, <1>7
<1>10. call'.i = i /\ call'.last = call.last /\ call'.erases /\ call'.d = missing BY <1>1 DEF Left, Idle
<1>11. ~InFlux /\ InFlux' BY <1>1, InFluxIs
<1>12. Count(Ndx) = n BY <1>5 DEF Count
<1>13. head'.recordcnt = n BY <1>1, <1>4, <1>5 DEF Headers
<1>14. i < n /\ pc' = IF i + 1 = n THEN "goback" ELSE "header" BY <1>1, <1>3, <1>5
<1> HIDE DEF h, p
<1>15. /\ OnDisk' /\ Rec' = Rec /\ Count(Ndx') = n /\ buf'["rec"] = buf["rec"]
       /\ Ndx' # <<>> /\ PairIn(Ndx', i) = q
       /\ \A j \in Nat : j # i => PairIn(Ndx', j) = PairIn(Ndx, j)
  BY <1>2, <1>3, <1>8, <1>9, <1>10, <1>11, <1>12, PairOnDisk
<1>16. IndexNow' = Ndx' /\ BytesNow' = Rec' BY <1>14, Now DEF Late
<1>17. ErasedNow'
  <2>1. PairIn(Ndx', call'.i).reclength = 0 BY <1>8, <1>10, <1>15
  <2>2. \/ pc' = "header" /\ call'.i + 1 < Count(Ndx') /\ head'.recordcnt = Count(Ndx')
        \/ pc' = "goback" /\ call'.i + 1 = Count(Ndx')
    BY <1>3, <1>10, <1>13, <1>14, <1>15
  <2> QED BY <1>10, <2>1, <2>2 DEF ErasedNow
<1>18. AlmostDone' BY <1>15, <1>17 DEF AlmostDone
<1>19. K' BY <1>2, <1>12, <1>14, <1>15, <1>16, <1>18 DEF K, Phases, Opening
<1>20. Busy = -1 /\ Busy' = i BY <1>10, <1>11, NotBusy
<1>21. Unsure' = Unsure \cup {i} BY <1>2, <1>10, <1>11, <1>15 DEF Unsure
<1>22. PICK r : r = MapRecs OBVIOUS
<1>23. r = [j \in 0 .. n - 1 |-> Read(Ndx, Rec, j)]
  <2>1. MapRecs = Shown(Ndx, Rec, -1) BY <1>2, <1>20, RecsAre DEF Recs
  <2> QED BY <1>12, <1>22, <2>1 DEF Shown
<1>24. MapRecs' = [r EXCEPT ![i] = missing]
  <2>1. MapRecs' = Shown(Ndx', Rec, i) BY <1>15, <1>16, <1>20, RecsThen DEF Recs, J, TypeOK
  <2>2. MapRecs' = [j \in 0 .. n - 1 |-> IF j = i THEN missing ELSE Read(Ndx', Rec, j)]
    BY <1>15, <2>1 DEF Shown
  <2>3. \A j \in 0 .. n - 1 : j # i => Read(Ndx', Rec, j) = Read(Ndx, Rec, j)
    <3> TAKE j \in 0 .. n - 1
    <3>1. j \in Nat OBVIOUS
    <3> QED BY <1>15, <3>1 DEF Read
  <2>4. MapRecs' = [j \in 0 .. n - 1 |-> IF j = i THEN missing ELSE r[j]] BY <1>23, <2>2, <2>3
  <2> QED BY <1>23, <2>4
<1>25. i \in DOMAIN r BY <1>3, <1>14, <1>23
<1>26. MapRecs' = IF i \in DOMAIN MapRecs THEN [MapRecs EXCEPT ![i] = missing] ELSE MapRecs
  BY <1>22, <1>24, <1>25
<1>27. Unsure' \in {{i}, Unsure \cup {i}} BY <1>21
<1>28. PICK what : what = [op |-> "erase", d |-> missing] OBVIOUS
<1>29. Wanted' = what BY <1>10, <1>11, <1>28, NotBusy
<1> QED BY <1>19, <1>20, <1>26, <1>27, <1>28, <1>29, Begins

LEMMA GoBackRefines ==
  ASSUME J, K, J', GoBack
  PROVE  K' /\ (RF!Next \/ UNCHANGED RF!vars)
<1>1. /\ pc = "goback" /\ pc' = "header" /\ readblock({"ndx"})
      /\ head' = [head EXCEPT !.recordcnt = CountBefore(call.i)] /\ UNCHANGED call
  BY DEF GoBack
<1>2. /\ FilesOK /\ BufsOK /\ CallOK /\ OnDisk /\ IndexNow = Ndx /\ BytesNow = Rec /\ Count(Ndx) <= MaxIndex + 1
      /\ AlmostDone /\ head \in Headers
  BY <1>1, Now DEF J, TypeOK, K, Phases, Late
<1>3. /\ Ndx' = Ndx /\ Rec' = Rec /\ buf'["rec"] = buf["rec"]
  BY <1>1, <1>2, ReadsStay, Reads DEF Rec, Names
<1>4. OnDisk' BY <1>1, <1>2, ReadOnDisk
<1>5. Ndx \in Indexes BY <1>2, LogicalTypes DEF Ndx
<1>6. PICK i \in Nat : i = call.i BY <1>2, DirectFileAssumption DEF CallOK, Indices
<1>7. PICK m \in Nat : /\ m = CountBefore(i) /\ m <= i
                       /\ \A j \in m .. i - 1 : PairIn(Ndx, j).reclength = 0
                       /\ m = 0 \/ PairIn(Ndx, m - 1).reclength # 0
  BY <1>5, CountIs
<1>8. head'.recordcnt = m BY <1>1, <1>2, <1>6, <1>7 DEF Headers
<1>9. PairIn(Ndx, i).reclength = 0 /\ i + 1 = Count(Ndx) /\ Ndx # <<>> /\ call.erases /\ call.d = missing
  BY <1>1, <1>2, <1>6 DEF AlmostDone, WrittenNow, ErasedNow
<1>10. ErasedNow'
  <2>1. EmptyFrom(m, i)' BY <1>3, <1>7 DEF EmptyFrom
  <2>2. Count(Ndx') = Count(Ndx) BY <1>3
  <2> QED BY <1>1, <1>3, <1>6, <1>7, <1>8, <1>9, <2>1, <2>2 DEF ErasedNow, EmptyFrom
<1>11. AlmostDone' BY <1>3, <1>9, <1>10 DEF AlmostDone
<1>12. IndexNow' = Ndx' /\ BytesNow' = Rec' BY <1>1, Now DEF Late
<1>13. K' BY <1>1, <1>2, <1>3, <1>4, <1>11, <1>12 DEF K, Phases, Opening
<1>14. InFlux /\ InFlux' BY <1>1, InFluxIs
<1>15. Busy' = Busy /\ Wanted' = Wanted /\ Unsure' = Unsure BY <1>1, <1>3, <1>14, NotBusy DEF Unsure
<1> QED BY <1>2, <1>3, <1>12, <1>13, <1>15, SameFiles

-----------------------------------------------------------------------------
(* Compression: the decision, and the opening of the copies.                 *)
LEMMA CompressRefines ==
  ASSUME J, K, J', compressfile
  PROVE  K' /\ (RF!Next \/ UNCHANGED RF!vars)
<1>1. pc = "compressfile" /\ readblock({"ndx"}) /\ pc' \in {"idle", "open tdx"} /\ call' \in {call, Left}
  BY DEF compressfile, Returns
<1>2. FilesOK /\ BufsOK /\ OnDisk /\ IndexNow = Ndx /\ BytesNow = Rec /\ Count(Ndx) <= MaxIndex + 1
  BY <1>1, Now DEF J, TypeOK, K, Phases, Late
<1>3. call'.last = call.last BY <1>1 DEF Left, Idle
<1>4. Ndx' = Ndx /\ Rec' = Rec BY <1>1, <1>2, ReadsStay DEF Rec
<1>5. OnDisk' /\ ~IndexHeld' /\ (buf'["rec"] # NoWrite => buf["rec"] # NoWrite)
  BY <1>1, <1>2, <1>3, ReadOnDisk
<1>6. IndexNow' = Ndx' /\ BytesNow' = Rec' BY <1>1, Now DEF Late
<1>7. K' BY <1>1, <1>2, <1>4, <1>5, <1>6 DEF K, Phases, Opening
<1>8. ~InFlux /\ ~InFlux' BY <1>1, InFluxIs
<1>9. Unsure' \subseteq Unsure BY <1>3, <1>5, <1>8 DEF Unsure, IndexHeld
<1> QED BY <1>2, <1>4, <1>6, <1>7, <1>8, <1>9, NotBusy, SameFiles

LEMMA OpenCopyRefines ==
  ASSUME J, K, J', NEW name \in {"tdx", "trc"}, NEW at, NEW then, OpenCopy(name, at, then),
         name = "tdx" => at = "open tdx" /\ then = "open trc",
         name = "trc" => at = "open trc" /\ then = "copy header"
  PROVE  K' /\ (RF!Next \/ UNCHANGED RF!vars)
<1>1. /\ pc \in Opening /\ pc' \in {"open trc", "copy header", "idle"} /\ call' \in {call, Left}
      /\ UNCHANGED <<file, buf>>
  BY DEF OpenCopy, Opening, Returns
<1>2. /\ FilesOK /\ BufsOK /\ OnDisk /\ IndexNow = Ndx /\ BytesNow = Rec /\ Count(Ndx) <= MaxIndex + 1
      /\ buf["ndx"] = NoWrite
  BY <1>1, Now DEF J, TypeOK, K, Phases, Late, Opening, Early, AtEarly
<1>3. call'.last = call.last BY <1>1 DEF Left, Idle
<1>4. Ndx' = Ndx /\ Rec' = Rec BY <1>1 DEF Ndx, Rec, Logical
<1>5. ~InFlux /\ ~InFlux' /\ ~IndexHeld BY <1>1, <1>2, InFluxIs DEF Opening, IndexHeld
<1>6. OnDisk' BY <1>1, <1>2, <1>3, <1>4, <1>5 DEF OnDisk
<1>7. IndexNow' = Ndx' /\ BytesNow' = Rec' BY <1>1, Now DEF Late
<1>8. K' BY <1>1, <1>2, <1>4, <1>6, <1>7 DEF K, Phases, Opening
<1>9. Unsure' = Unsure BY <1>1, <1>2, <1>3, <1>5 DEF Unsure
<1> QED BY <1>2, <1>4, <1>5, <1>7, <1>8, <1>9, NotBusy, SameFiles

-----------------------------------------------------------------------------
(* Compression: the copying.                                                 *)
LEMMA TdxLeaves ==
  ASSUME NEW w, ThenWrites({"tdx"}, [n \in {"tdx"} |-> w])
  PROVE  buf'["rec"] = buf["rec"]
<1>1. \A n \in Names : buf'[n] = IF n \in DOMAIN [m \in {"tdx"} |-> w] THEN [m \in {"tdx"} |-> w][n]
                                 ELSE IF n \in {"tdx"} THEN NoWrite ELSE buf[n]
  BY Steps
<1> QED BY <1>1 DEF Names

LEMMA CopyHeaderRefines ==
  ASSUME J, K, J', CopyHeader
  PROVE  K' /\ (RF!Next \/ UNCHANGED RF!vars)
<1>1. /\ pc = "copy header" /\ pc' = "copy" /\ writeblock("tdx", 0, <<head>>)
      /\ call' = [call EXCEPT !.next = 0]
  BY DEF CopyHeader
<1>2. /\ FilesOK /\ BufsOK /\ CallOK /\ head \in Headers /\ buf["ndx"] = NoWrite
      /\ IndexNow = Ndx /\ BytesNow = Rec /\ Count(Ndx) <= MaxIndex + 1
  BY <1>1, Now DEF J, TypeOK, K, Late, Early, AtEarly
<1>3. call'.last = call.last /\ call'.next = 0 BY <1>1, <1>2 DEF CallOK
<1>4. HeaderWrite(head) \in IndexWrites BY <1>2 DEF IndexWrites
<1>5. ThenWrites({"tdx"}, [n \in {"tdx"} |-> HeaderWrite(head)]) BY <1>1, BlockIs DEF writeblock
<1>6. Ndx' = Ndx /\ Rec' = Rec /\ buf'["ndx"] = buf["ndx"] /\ buf'["rec"] = buf["rec"]
  BY <1>2, <1>4, <1>5, TdxWrites, TdxLeaves DEF Rec
<1>7. IndexNow' = Ndx' /\ BytesNow' = Rec' BY <1>1, Now DEF Late
<1>8. Copied(0)' BY DEF Copied
<1>9. K' BY <1>1, <1>2, <1>3, <1>6, <1>7, <1>8 DEF K, Phases, Opening, Copied
<1>10. ~InFlux /\ ~InFlux' BY <1>1, InFluxIs
<1>11. Unsure' = Unsure BY <1>2, <1>3, <1>6, <1>10 DEF Unsure
<1> QED BY <1>2, <1>6, <1>7, <1>9, <1>10, <1>11, NotBusy, SameFiles

LEMMA CopyRecordRefines ==
  ASSUME J, K, J', CopyRecord
  PROVE  K' /\ (RF!Next \/ UNCHANGED RF!vars)
<1> DEFINE p == PairIn(file["ndx"], call.next)
           d == Bytes(Logical("rec"), p.recstart, p.reclength)
           S == {"tdx"} \cup (IF d = <<>> THEN {} ELSE {"rec", "trc"})
           W == {"tdx"} \cup (IF d = <<>> THEN {} ELSE {"trc"})
           ws == [n \in W |-> IF n = "trc" THEN Block(Len(Logical("trc")), d)
                              ELSE Block(call.next + 1, <<Pair(head.totallen, Len(d))>>)]
<1>1. /\ pc = "copy" /\ pc' = "copy" /\ call.next < head.recordcnt /\ ThenWrites(S, ws)
      /\ call' = [call EXCEPT !.next = @ + 1]
  BY DEF CopyRecord
<1>2. /\ FilesOK /\ BufsOK /\ CallOK /\ AtCopy /\ head \in Headers /\ buf["ndx"] = NoWrite
      /\ IndexNow = Ndx /\ BytesNow = Rec /\ Count(Ndx) <= MaxIndex + 1 /\ Copied(call.next)
  BY <1>1, Now DEF J, TypeOK, K, Late, Copying, AtCopy
<1>3. PICK m \in Nat, t \in Nat : m = call.next /\ t = head.totallen BY <1>2 DEF CallOK, Headers
<1>4. call'.next = m + 1 /\ call'.last = call.last BY <1>1, <1>2, <1>3 DEF CallOK
<1>5. Ndx \in Indexes /\ Tdx \in Indexes /\ Trc \in Seq(ByteSet) /\ Rec \in Seq(ByteSet)
  BY <1>2, LogicalTypes DEF Ndx, Tdx, Rec, Trc
<1>6. Ndx = file["ndx"] BY <1>2, LogicalIs DEF Ndx, After
<1>7. p = PairIn(Ndx, m) /\ p \in Pairs BY <1>3, <1>5, <1>6, PairType
<1>8. PICK l \in Nat : l = p.reclength /\ l = Len(d) /\ d \in Seq(ByteSet) BY <1>5, <1>7, BytesAre DEF Pairs, Rec
<1>9. d = Read(Ndx, Rec, m) BY <1>7 DEF Read, Rec
<1> HIDE DEF p, d
<1>10. Pair(t, l) \in Pairs BY DEF Pair, Pairs
<1>11. Len(Trc) = t BY <1>2, <1>3 DEF AtCopy, Trc
<1>12. Block(call.next + 1, <<Pair(head.totallen, Len(d))>>) = PairWrite(m, Pair(t, l))
  <2>1. Block(m + 1, <<Pair(t, l)>>) = PairWrite(m, Pair(t, l)) BY BlockIs
  <2> QED BY <1>3, <1>8, <2>1
<1>13. /\ \A n \in Names : file'[n] = IF n \in S THEN Logical(n) ELSE file[n]
       /\ \A n \in Names : buf'[n] = IF n \in DOMAIN ws THEN ws[n] ELSE IF n \in S THEN NoWrite ELSE buf[n]
  BY <1>1, Steps
<1>14. DOMAIN ws = W /\ ws["tdx"] = PairWrite(m, Pair(t, l)) /\ (d # <<>> => ws["trc"] = Block(t, d))
  BY <1>11, <1>12 DEF Trc
<1>15. "ndx" \in Names /\ "tdx" \in Names /\ "rec" \in Names /\ "trc" \in Names BY DEF Names
<1>16. /\ file'["tdx"] = Tdx /\ buf'["tdx"] = PairWrite(m, Pair(t, l))
       /\ file'["ndx"] = file["ndx"] /\ buf'["ndx"] = buf["ndx"]
  BY <1>13, <1>14, <1>15 DEF Tdx
<1>17. /\ d = <<>> => file'["trc"] = file["trc"] /\ buf'["trc"] = buf["trc"]
                      /\ file'["rec"] = file["rec"] /\ buf'["rec"] = buf["rec"]
       /\ d # <<>> => file'["trc"] = Trc /\ buf'["trc"] = Block(t, d)
                      /\ file'["rec"] = Rec /\ buf'["rec"] = NoWrite
  BY <1>13, <1>14, <1>15 DEF Rec, Trc
<1> HIDE DEF S, W, ws
<1>18. Ndx' = Ndx BY <1>16, LogicalIs DEF Ndx
<1>19. Rec' = Rec BY <1>17, LogicalIs DEF Rec, After
<1>20. Tdx' = After("tdx", Tdx, PairWrite(m, Pair(t, l))) BY <1>16, LogicalIs DEF Tdx
<1>21. PairIn(Tdx', m) = Pair(t, l) /\ \A i \in Nat : i # m => PairIn(Tdx', i) = PairIn(Tdx, i)
  BY <1>5, <1>10, <1>20, AfterPair
<1>22. PICK y : y = Trc' OBVIOUS
<1>23. y = After("trc", Trc, Block(t, d))
  <2>1. CASE d = <<>>
    <3>1. Block(t, d) = NoWrite BY <2>1 DEF Block
    <3>2. Trc' = Trc BY <1>17, <2>1, LogicalIs DEF Trc
    <3> QED BY <1>22, <3>1, <3>2 DEF After
  <2>2. CASE d # <<>> BY <1>17, <1>22, <2>2, LogicalIs DEF Trc
  <2> QED BY <2>1, <2>2
<1>24. ASSUME NEW j \in 0 .. m PROVE Read(Tdx', y, j) = Read(Ndx, Rec, j)
  <2>0. j \in Nat OBVIOUS
  <2>1. CASE j = m
    <3>1. Bytes(y, t, Len(d)) = d BY <1>5, <1>8, <1>23, BytesNew
    <3>2. Read(Tdx', y, j) = Bytes(y, t, l) BY <1>21, <2>1 DEF Read, Pair
    <3> QED BY <1>8, <1>9, <2>1, <3>1, <3>2
  <2>2. CASE j # m
    <3>1. j \in 0 .. m - 1 BY <2>2
    <3>2. PICK q \in Pairs : q = PairIn(Tdx, j) /\ q = PairIn(Tdx', j) BY <1>5, <1>21, <2>0, <2>2, PairType
    <3>3. PICK s \in Nat, k \in Nat : s = q.recstart /\ k = q.reclength BY <3>2 DEF Pairs
    <3>4. s + k <= t
      <4>1. Apart(Tdx, m, t) BY <1>2, <1>3 DEF AtCopy
      <4> QED BY <3>1, <3>2, <3>3, <4>1 DEF Apart, End
    <3>5. Bytes(y, s, k) = Bytes(Trc, s, k) BY <1>5, <1>8, <1>23, <3>4, BytesApart
    <3>6. Read(Tdx', y, j) = Read(Tdx, Trc, j) BY <3>2, <3>3, <3>5 DEF Read
    <3>7. Read(Tdx, Trc, j) = Read(Ndx, Rec, j) BY <1>2, <1>3, <3>1 DEF Copied
    <3> QED BY <3>6, <3>7
  <2> QED BY <2>1, <2>2
<1>25. Copied(m + 1)'
  <2>1. 0 .. (m + 1) - 1 = 0 .. m OBVIOUS
  <2> QED BY <1>18, <1>19, <1>22, <1>24, <2>1 DEF Copied
<1>26. IndexNow' = Ndx' /\ BytesNow' = Rec' BY <1>1, Now DEF Late
<1>27. K' BY <1>1, <1>2, <1>4, <1>18, <1>25, <1>26 DEF K, Phases, Opening, Copied
<1>28. ~InFlux /\ ~InFlux' BY <1>1, InFluxIs
<1>29. Unsure' \subseteq Unsure BY <1>2, <1>4, <1>16, <1>17, <1>28 DEF Unsure
<1> QED BY <1>2, <1>18, <1>19, <1>26, <1>27, <1>28, <1>29, NotBusy, SameFiles

LEMMA CopyEndsRefines ==
  ASSUME J, K, J', CopyEnds
  PROVE  K' /\ (RF!Next \/ UNCHANGED RF!vars)
<1>1. /\ pc = "copy" /\ pc' = "close ndx" /\ call.next = head.recordcnt
      /\ head' = [head EXCEPT !.space_free = 0] /\ writeblock("tdx", 0, <<head'>>) /\ UNCHANGED call
  BY DEF CopyEnds
<1>2. /\ FilesOK /\ BufsOK /\ CallOK /\ AtCopy /\ head \in Headers /\ buf["ndx"] = NoWrite
      /\ IndexNow = Ndx /\ BytesNow = Rec /\ Count(Ndx) <= MaxIndex + 1 /\ Copied(call.next)
  BY <1>1, Now DEF J, TypeOK, K, Late, Copying, AtCopy
<1>3. PICK h \in Headers : h = head' BY <1>1, <1>2 DEF Headers
<1>4. h.recordcnt = head.recordcnt BY <1>1, <1>2, <1>3 DEF Headers
<1>5. HeaderWrite(h) \in IndexWrites BY DEF IndexWrites
<1>6. ThenWrites({"tdx"}, [n \in {"tdx"} |-> HeaderWrite(h)]) BY <1>1, <1>3, BlockIs DEF writeblock
<1>7. /\ Tdx' = After("tdx", Tdx, HeaderWrite(h)) /\ buf'["ndx"] = buf["ndx"] /\ buf'["rec"] = buf["rec"]
      /\ Ndx' = Ndx /\ Rec' = Rec /\ Trc' = Trc
  BY <1>2, <1>5, <1>6, TdxWrites, TdxLeaves DEF Rec, Trc
<1>8. Tdx \in Indexes /\ Ndx \in Indexes BY <1>2, LogicalTypes DEF Tdx, Ndx
<1>9. Head1(Tdx') = h /\ \A i \in Nat : PairIn(Tdx', i) = PairIn(Tdx, i) BY <1>7, <1>8, AfterHeader
<1>10. PICK n \in Nat : n = Count(Ndx) BY <1>8, CountType
<1>11. call.next = n /\ Count(Tdx') = n BY <1>1, <1>2, <1>4, <1>9, <1>10 DEF AtCopy, Count
<1>12. \A j \in 0 .. n - 1 : Read(Tdx', Trc, j) = Read(Ndx, Rec, j)
  <2> TAKE j \in 0 .. n - 1
  <2>1. Read(Tdx', Trc, j) = Read(Tdx, Trc, j) BY <1>9 DEF Read
  <2> QED BY <1>2, <1>11, <2>1 DEF Copied
<1>13. IndexNow' = Ndx' /\ BytesNow' = Rec' BY <1>1, Now DEF Late
<1>14. Count(Tdx') = Count(Ndx') /\ Copied(Count(Ndx))' BY <1>7, <1>10, <1>11, <1>12 DEF Copied
<1>15. K' BY <1>1, <1>2, <1>7, <1>13, <1>14 DEF K, Phases, Opening, Copied
<1>16. ~InFlux /\ ~InFlux' BY <1>1, InFluxIs
<1>17. Unsure' = Unsure BY <1>1, <1>2, <1>7, <1>16 DEF Unsure
<1> QED BY <1>2, <1>7, <1>13, <1>15, <1>16, <1>17, NotBusy, SameFiles

-----------------------------------------------------------------------------
(* Compression: the copies replace the files.                                *)
LEMMA ReadLeaves ==
  ASSUME NEW S, readblock(S)
  PROVE  /\ \A n \in Names : n \notin S => buf'[n] = buf[n] /\ file'[n] = file[n]
         /\ \A n \in Names : buf'[n] # NoWrite => buf[n] # NoWrite
BY Reads

LEMMA CloseNdxRefines ==
  ASSUME J, K, J', CloseBoth("ndx", "tdx", "close ndx", "unlink ndx")
  PROVE  K' /\ (RF!Next \/ UNCHANGED RF!vars)
<1>1. pc = "close ndx" /\ pc' = "unlink ndx" /\ readblock({"ndx", "tdx"}) /\ UNCHANGED call
  BY DEF CloseBoth
<1>2. /\ FilesOK /\ BufsOK /\ IndexNow = Ndx /\ BytesNow = Rec /\ Count(Ndx) <= MaxIndex + 1
      /\ Count(Tdx) = Count(Ndx) /\ Copied(Count(Ndx)) /\ buf["ndx"] = NoWrite
  BY <1>1, Now DEF J, TypeOK, K, Late, Replacing, AtReplace
<1>3. Ndx' = Ndx /\ Tdx' = Tdx /\ Rec' = Rec /\ Trc' = Trc /\ buf'["ndx"] = NoWrite
  <2>1. FilesOK /\ BufsOK BY <1>2
  <2>2. readblock({"ndx", "tdx"}) /\ "ndx" \in {"ndx", "tdx"} BY <1>1
  <2>3. /\ Ndx' = Ndx /\ Tdx' = Tdx /\ buf'["ndx"] = NoWrite
        /\ Logical("rec")' = Logical("rec") /\ Logical("trc")' = Logical("trc")
    BY <2>1, <2>2, ReadsStay
  <2> QED BY <2>3 DEF Rec, Trc
<1>4. buf'["rec"] = buf["rec"]
  <2>1. readblock({"ndx", "tdx"}) BY <1>1
  <2>2. "rec" \in Names /\ "rec" \notin {"ndx", "tdx"} BY DEF Names
  <2> QED BY <2>1, <2>2, ReadLeaves
<1>5. IndexNow' = Ndx' /\ BytesNow' = Rec' BY <1>1, Now DEF Late
<1>6. Copied(Count(Ndx))' BY <1>2, <1>3 DEF Copied
<1>7. K' BY <1>1, <1>2, <1>3, <1>5, <1>6 DEF K, Phases, Opening
<1>8. ~InFlux /\ ~InFlux' BY <1>1, InFluxIs
<1>9. Unsure' = Unsure BY <1>1, <1>2, <1>3, <1>4, <1>8 DEF Unsure
<1> QED BY <1>2, <1>3, <1>5, <1>7, <1>8, <1>9, NotBusy, SameFiles

LEMMA UnlinkNdxRefines ==
  ASSUME J, K, J', Unlink("ndx", "unlink ndx", "rename ndx")
  PROVE  K' /\ (RF!Next \/ UNCHANGED RF!vars)
<1>1. /\ pc = "unlink ndx" /\ pc' = "rename ndx" /\ UNCHANGED <<buf, call>>
      /\ file' = [file EXCEPT !["ndx"] = <<>>]
  BY DEF Unlink
<1>2. /\ FilesOK /\ BufsOK /\ IndexNow = Ndx /\ BytesNow = Rec /\ Count(Ndx) <= MaxIndex + 1
      /\ Count(Tdx) = Count(Ndx) /\ Copied(Count(Ndx)) /\ buf["ndx"] = NoWrite /\ buf["tdx"] = NoWrite
  BY <1>1, Now DEF J, TypeOK, K, Late, Replacing, AtReplace
<1>3. "ndx" \in Names /\ "tdx" \in Names /\ "rec" \in Names /\ "trc" \in Names BY DEF Names
<1>4. file'["tdx"] = file["tdx"] /\ file'["trc"] = file["trc"] BY <1>1, <1>2, <1>3 DEF FilesOK
<1>5. Tdx = file["tdx"] BY <1>2, LogicalIs DEF Tdx, After
<1>6. Trc' = Trc BY <1>1, <1>4, LogicalIs DEF Trc
<1>7. IndexNow' = Tdx /\ BytesNow' = Trc
  <2>1. IndexNow' = file'["tdx"] BY <1>1 DEF IndexNow
  <2>2. BytesNow' = Trc' BY <1>1, Now
  <2> QED BY <1>4, <1>5, <1>6, <2>1, <2>2
<1>8. K' BY <1>1, <1>2, <1>7 DEF K, Phases, Opening
<1>9. ~InFlux /\ ~InFlux' BY <1>1, InFluxIs
<1>10. Unsure' = Unsure BY <1>1, <1>2, <1>9 DEF Unsure
<1>11. \A j \in 0 .. Count(Ndx) - 1 : Read(Tdx, Trc, j) = Read(Ndx, Rec, j) BY <1>2 DEF Copied
<1> QED BY <1>2, <1>7, <1>8, <1>9, <1>10, <1>11, NotBusy, SameRecords

LEMMA RenameNdxRefines ==
  ASSUME J, K, J', Rename("ndx", "tdx", "rename ndx", "close rec")
  PROVE  K' /\ (RF!Next \/ UNCHANGED RF!vars)
<1>1. /\ pc = "rename ndx" /\ pc' = "close rec" /\ UNCHANGED <<buf, call>>
      /\ file' = [file EXCEPT !["ndx"] = file["tdx"], !["tdx"] = <<>>]
  BY DEF Rename
<1>2. /\ FilesOK /\ BufsOK /\ Count(IndexNow) <= MaxIndex + 1 /\ buf["ndx"] = NoWrite
  BY <1>1 DEF J, TypeOK, K, Late, Replacing, AtReplace
<1>3. "ndx" \in Names /\ "tdx" \in Names /\ "rec" \in Names /\ "trc" \in Names BY DEF Names
<1>4. file'["ndx"] = file["tdx"] /\ file'["trc"] = file["trc"] BY <1>1, <1>2, <1>3 DEF FilesOK
<1>5. Trc' = Trc BY <1>1, <1>4, LogicalIs DEF Trc
<1>6. IndexNow' = Ndx' /\ BytesNow' = Trc' /\ BytesNow = Trc BY <1>1, Now DEF Late
<1>7. IndexNow = file["tdx"] BY <1>1 DEF IndexNow
<1>8. Ndx' = file["tdx"] BY <1>1, <1>2, <1>4, LogicalIs DEF Ndx, After
<1>9. K' BY <1>1, <1>2, <1>6, <1>7, <1>8 DEF K, Phases, Opening
<1>10. ~InFlux /\ ~InFlux' BY <1>1, InFluxIs
<1>11. Unsure' = Unsure BY <1>1, <1>2, <1>10 DEF Unsure
<1> QED BY <1>5, <1>6, <1>7, <1>8, <1>9, <1>10, <1>11, NotBusy, SameFiles

LEMMA CloseRecRefines ==
  ASSUME J, K, J', CloseBoth("rec", "trc", "close rec", "unlink rec")
  PROVE  K' /\ (RF!Next \/ UNCHANGED RF!vars)
<1>1. pc = "close rec" /\ pc' = "unlink rec" /\ readblock({"rec", "trc"}) /\ UNCHANGED call
  BY DEF CloseBoth
<1>2. FilesOK /\ BufsOK /\ IndexNow = Ndx /\ BytesNow = Trc /\ Count(Ndx) <= MaxIndex + 1 /\ buf["ndx"] = NoWrite
  BY <1>1, Now DEF J, TypeOK, K, Late, Replacing, AtReplace
<1>3. Ndx' = Ndx /\ Trc' = Trc BY <1>1, <1>2, ReadsStay DEF Trc
<1>4. buf'["ndx"] = buf["ndx"] /\ (buf'["rec"] # NoWrite => buf["rec"] # NoWrite)
  <2>1. readblock({"rec", "trc"}) BY <1>1
  <2>2. "ndx" \in Names /\ "rec" \in Names /\ "ndx" \notin {"rec", "trc"} BY DEF Names
  <2> QED BY <2>1, <2>2, ReadLeaves
<1>5. IndexNow' = Ndx' /\ BytesNow' = Trc' BY <1>1, Now DEF Late
<1>6. K' BY <1>1, <1>2, <1>3, <1>5 DEF K, Phases, Opening
<1>7. ~InFlux /\ ~InFlux' BY <1>1, InFluxIs
<1>8. Unsure' \subseteq Unsure BY <1>1, <1>2, <1>4, <1>7 DEF Unsure
<1> QED BY <1>2, <1>3, <1>5, <1>6, <1>7, <1>8, NotBusy, SameFiles

LEMMA UnlinkRecRefines ==
  ASSUME J, K, J', Unlink("rec", "unlink rec", "rename rec")
  PROVE  K' /\ (RF!Next \/ UNCHANGED RF!vars)
<1>1. /\ pc = "unlink rec" /\ pc' = "rename rec" /\ UNCHANGED <<buf, call>>
      /\ file' = [file EXCEPT !["rec"] = <<>>]
  BY DEF Unlink
<1>2. FilesOK /\ BufsOK /\ IndexNow = Ndx /\ BytesNow = Trc /\ Count(Ndx) <= MaxIndex + 1 /\ buf["ndx"] = NoWrite
  BY <1>1, Now DEF J, TypeOK, K, Late, Replacing, AtReplace
<1>3. "ndx" \in Names /\ "tdx" \in Names /\ "rec" \in Names /\ "trc" \in Names BY DEF Names
<1>4. file'["ndx"] = file["ndx"] /\ file'["trc"] = file["trc"] BY <1>1, <1>2, <1>3 DEF FilesOK
<1>5. Ndx' = Ndx /\ Trc' = Trc BY <1>1, <1>4, LogicalIs DEF Ndx, Trc
<1>6. IndexNow' = Ndx' /\ BytesNow' = Trc' BY <1>1, Now DEF Late
<1>7. K' BY <1>1, <1>2, <1>5, <1>6 DEF K, Phases, Opening
<1>8. ~InFlux /\ ~InFlux' BY <1>1, InFluxIs
<1>9. Unsure' = Unsure BY <1>1, <1>2, <1>8 DEF Unsure
<1> QED BY <1>2, <1>5, <1>6, <1>7, <1>8, <1>9, NotBusy, SameFiles

LEMMA RenameRecRefines ==
  ASSUME J, K, J', Rename("rec", "trc", "rename rec", "idle")
  PROVE  K' /\ (RF!Next \/ UNCHANGED RF!vars)
<1>1. /\ pc = "rename rec" /\ pc' = "idle" /\ UNCHANGED buf
      /\ file' = [file EXCEPT !["rec"] = file["trc"], !["trc"] = <<>>]
  BY DEF Rename, Returns
<1>2. /\ FilesOK /\ BufsOK /\ IndexNow = Ndx /\ BytesNow = Trc /\ Count(Ndx) <= MaxIndex + 1
      /\ buf["ndx"] = NoWrite /\ buf["rec"] = NoWrite /\ buf["trc"] = NoWrite
  BY <1>1, Now DEF J, TypeOK, K, Late, Replacing, AtReplace
<1>3. "ndx" \in Names /\ "tdx" \in Names /\ "rec" \in Names /\ "trc" \in Names BY DEF Names
<1>4. file'["ndx"] = file["ndx"] /\ file'["rec"] = file["trc"] BY <1>1, <1>2, <1>3 DEF FilesOK
<1>5. Ndx' = Ndx BY <1>1, <1>4, LogicalIs DEF Ndx
<1>6. Rec' = Trc BY <1>1, <1>2, <1>4, LogicalIs DEF Rec, Trc, After
<1>7. IndexNow' = Ndx' /\ BytesNow' = Rec' BY <1>1, Now DEF Late
<1>8. OnDisk' BY <1>1, <1>2, <1>5, FreshOnDisk
<1>9. K' BY <1>1, <1>2, <1>5, <1>7, <1>8 DEF K, Phases, Opening
<1>10. ~InFlux /\ ~InFlux' BY <1>1, InFluxIs
<1>11. Unsure' = Unsure BY <1>1, <1>2, <1>10 DEF Unsure
<1> QED BY <1>2, <1>5, <1>6, <1>7, <1>9, <1>10, <1>11, NotBusy, SameFiles

-----------------------------------------------------------------------------
(* The program is killed, where a file survives it.                          *)
LEMMA FoundIs ==
  ASSUME NEW x \in Indexes, NEW c, NEW j \in Nat
  PROVE  Found(x, c, j) = IF j \in 0 .. Count(x) - 1 THEN Read(x, c, j) ELSE missing
<1>1. PICK n \in Nat : n = Count(x) BY CountType
<1>2. PICK p \in Pairs : p = PairIn(x, j) BY PairType
<1>3. CASE j < n /\ p.reclength # 0
  <2>1. j \in 0 .. n - 1 BY <1>3
  <2> QED BY <1>1, <1>2, <1>3, <2>1 DEF Found, Has, HasOf, Read
<1>4. CASE j < n /\ p.reclength = 0
  <2>1. j \in 0 .. n - 1 BY <1>4
  <2>2. Has(x, j) = Pair(0, 0) BY <1>1, <1>2, <1>4 DEF Has, HasOf
  <2>3. Found(x, c, j) = missing BY <2>2, NoBytes DEF Found, Pair
  <2>4. Read(x, c, j) = missing BY <1>2, <1>4, NoBytes DEF Read
  <2> QED BY <1>1, <2>1, <2>3, <2>4
<1>5. CASE ~ (j < n)
  <2>1. j \notin 0 .. n - 1 BY <1>5
  <2>2. Has(x, j) = Pair(0, 0) BY <1>1, <1>5 DEF Has, HasOf
  <2>3. Found(x, c, j) = missing BY <2>2, NoBytes DEF Found, Pair
  <2> QED BY <1>1, <2>1, <2>3
<1> QED BY <1>3, <1>4, <1>5

LEMMA NumbersOf ==
  /\ \A n \in Nat : \A j \in 0 .. n - 1 : j # -1
  /\ \A j \in Indices : j \in Nat /\ j # -1
<1>1. \A n \in Nat : \A j \in 0 .. n - 1 : j # -1 OBVIOUS
<1>2. MaxIndex \in Nat BY DirectFileAssumption
<1>3. \A j \in 0 .. MaxIndex : j \in Nat /\ j # -1 BY <1>2
<1> QED BY <1>1, <1>3 DEF Indices

LEMMA KillRefines ==
  ASSUME J, K, J', Kill, "kill while compressing" \notin Uses
  PROVE  K' /\ (RF!Next \/ UNCHANGED RF!vars)
<1>1. /\ pc' = "idle" /\ buf' = [n \in Names |-> NoWrite] /\ ~Compressing BY DEF Kill, Returns
<1>2. pc \in Phases BY <1>1 DEF Compressing, Phases
<1>3. /\ FilesOK /\ BufsOK /\ OnDisk /\ IndexNow = Ndx /\ BytesNow = Rec /\ Count(Ndx) <= MaxIndex + 1
  BY <1>2, Now DEF J, TypeOK, K, Phases, Late
<1>4. PICK S \in SUBSET Names : file' = FilesAfter(S) BY DEF Kill
<1>5. "ndx" \in Names /\ "rec" \in Names BY DEF Names
<1>6. /\ file'["ndx"] = file["ndx"] \/ file'["ndx"] = Ndx
      /\ file'["rec"] = file["rec"] \/ file'["rec"] = Rec
  BY <1>4, <1>5 DEF FilesAfter, Ndx, Rec
<1>7. buf'["ndx"] = NoWrite /\ buf'["rec"] = NoWrite BY <1>1, <1>5
<1>8. PICK x, c : x = file'["ndx"] /\ c = file'["rec"] OBVIOUS
<1>9. Ndx' = x /\ Rec' = c BY <1>7, <1>8, LogicalIs DEF Ndx, Rec, After
<1>10. Ndx \in Indexes /\ x \in Indexes BY <1>3, <1>6, <1>8, LogicalTypes DEF FilesOK, Ndx
<1>11. PICK n \in Nat, m \in Nat : n = Count(x) /\ m = Count(Ndx) BY <1>10, CountType
<1>12. n <= MaxIndex + 1 BY <1>3, <1>6, <1>8, <1>11 DEF OnDisk
<1>13. OnDisk' BY <1>7, <1>9, <1>11, <1>12, FreshOnDisk
<1>14. IndexNow' = x /\ BytesNow' = c BY <1>1, <1>9, Now DEF Late
<1>15. K' BY <1>1, <1>11, <1>12, <1>13, <1>14 DEF K, Phases, Opening
<1>16. ~InFlux' /\ Busy' = -1 /\ Wanted' = Nothing BY <1>1, InFluxIs, NotBusy
<1>17. Unsure' = {} BY <1>7, <1>16 DEF Unsure
<1>18. MapRecs' = [j \in 0 .. n - 1 |-> Read(x, c, j)]
  <2>1. MapRecs' = Shown(x, c, -1) BY <1>14, <1>16, RecsThen DEF Recs, J, TypeOK
  <2>2. Shown(x, c, -1) = [j \in 0 .. n - 1 |-> IF j = -1 THEN missing ELSE Read(x, c, j)] BY <1>11 DEF Shown
  <2>3. \A j \in 0 .. n - 1 : j # -1 BY NumbersOf
  <2> QED BY <2>1, <2>2, <2>3
<1>19. PICK r : r = MapRecs OBVIOUS
<1>20. r = [j \in 0 .. m - 1 |-> IF j = Busy THEN missing ELSE Read(Ndx, Rec, j)]
  <2>1. r = Shown(Ndx, Rec, Busy) BY <1>3, <1>19, RecsAre DEF Recs
  <2> QED BY <1>11, <2>1 DEF Shown
<1>21. ASSUME NEW j \in Indices \ Unsure
       PROVE  (IF j \in 0 .. n - 1 THEN Read(x, c, j) ELSE missing) = (IF j \in 0 .. m - 1 THEN r[j] ELSE missing)
  <2>0. j \in Nat
    <3>1. j \in Indices BY <1>21
    <3> QED BY <3>1, NumbersOf
  <2>1. j = call.i => ~InFlux /\ ~IndexHeld BY <1>21 DEF Unsure, IndexHeld
  <2>2. j = call.last => buf["rec"] = NoWrite BY <1>21 DEF Unsure
  <2>3. j # Busy
    <3>1. CASE InFlux BY <2>1, <3>1, NotBusy
    <3>2. CASE ~InFlux
      <4>1. Busy = -1 BY <3>2, NotBusy
      <4>2. j \in Indices BY <1>21
      <4>3. j # -1 BY <4>2, NumbersOf
      <4> QED BY <4>1, <4>3
    <3> QED BY <3>1, <3>2
  <2>4. Has(x, j) = Has(Ndx, j)
    <3>1. CASE x = Ndx BY <3>1
    <3>2. CASE x = file["ndx"] BY <1>3, <2>1, <3>2 DEF OnDisk
    <3> QED BY <1>6, <1>8, <3>1, <3>2
  <2>5. Found(Ndx, c, j) = Found(Ndx, Rec, j)
    <3>1. CASE c = Rec BY <3>1
    <3>2. CASE c = file["rec"] /\ j # call.last BY <1>3, <3>2 DEF OnDisk
    <3>3. CASE c = file["rec"] /\ buf["rec"] = NoWrite
      <4>1. c = Rec BY <3>3, LogicalIs DEF Rec, After
      <4> QED BY <4>1
    <3> QED BY <1>6, <1>8, <2>2, <3>1, <3>2, <3>3
  <2>6. Found(x, c, j) = Found(Ndx, Rec, j) BY <2>4, <2>5 DEF Found
  <2>7. Found(x, c, j) = IF j \in 0 .. n - 1 THEN Read(x, c, j) ELSE missing BY <1>10, <1>11, <2>0, FoundIs
  <2>8. Found(Ndx, Rec, j) = IF j \in 0 .. m - 1 THEN Read(Ndx, Rec, j) ELSE missing
    BY <1>10, <1>11, <2>0, FoundIs
  <2>9. j \in 0 .. m - 1 => r[j] = Read(Ndx, Rec, j) BY <1>20, <2>3
  <2> QED BY <2>6, <2>7, <2>8, <2>9
<1>22. \A j \in Indices \ Unsure :
         (IF j \in DOMAIN MapRecs' THEN MapRecs'[j] ELSE missing)
         = (IF j \in DOMAIN MapRecs THEN MapRecs[j] ELSE missing)
  <2> TAKE j \in Indices \ Unsure
  <2>1. DOMAIN MapRecs' = 0 .. n - 1 /\ \A k \in 0 .. n - 1 : MapRecs'[k] = Read(x, c, k) BY <1>18
  <2>2. DOMAIN MapRecs = 0 .. m - 1 BY <1>19, <1>20
  <2> QED BY <1>19, <1>21, <2>1, <2>2
<1>23. DOMAIN MapRecs' = 0 .. n - 1 BY <1>18
<1> QED BY <1>12, <1>15, <1>16, <1>17, <1>22, <1>23, Kills

LEMMA IdleRefines ==
  ASSUME K, UNCHANGED vars
  PROVE  K' /\ (RF!Next \/ UNCHANGED RF!vars)
<1>1. UNCHANGED <<file, exists, buf, open, pc, call, head, kills, refused>> BY DEF vars
<1>2. \A n : Logical(n)' = Logical(n) BY <1>1 DEF Logical
<1>3. Ndx' = Ndx /\ Tdx' = Tdx /\ Rec' = Rec /\ Trc' = Trc BY <1>2 DEF Ndx, Tdx, Rec, Trc
<1>4. IndexNow' = IndexNow /\ BytesNow' = BytesNow /\ (InFlux' <=> InFlux) BY <1>1, <1>2 DEF IndexNow, BytesNow, InFlux
<1>5. NewBytes' = NewBytes BY <1>1, <1>3 DEF NewBytes
<1>6. OnDisk' = OnDisk BY <1>1, <1>3, <1>4 DEF OnDisk, IndexHeld
<1>7. WrittenNow' = WrittenNow BY <1>1, <1>3, <1>5 DEF WrittenNow, EmptyFrom
<1>8. ErasedNow' = ErasedNow BY <1>1, <1>3 DEF ErasedNow, EmptyFrom
<1>9. AlmostDone' = AlmostDone BY <1>3, <1>7, <1>8 DEF AlmostDone
<1>10. Copied(call.next)' = Copied(call.next) /\ Copied(Count(Ndx))' = Copied(Count(Ndx)) BY <1>1, <1>3 DEF Copied
<1>11. K' BY <1>1, <1>3, <1>4, <1>5, <1>6, <1>9, <1>10 DEF K
<1>12. MapRecs' = MapRecs BY <1>1, <1>2, <1>4 DEF MapRecs, Records, HeadNow
<1>13. Busy' = Busy /\ Wanted' = Wanted /\ Unsure' = Unsure BY <1>1, <1>4 DEF Busy, Wanted, Unsure
<1> QED BY <1>11, <1>12, <1>13, Stutters

-----------------------------------------------------------------------------
LEMMA StepRefines ==
  ASSUME J, K, J', [Next]_vars, "kill while compressing" \notin Uses
  PROVE  K' /\ (RF!Next \/ UNCHANGED RF!vars)
<1>1. CASE UNCHANGED vars BY <1>1, IdleRefines
<1>2. CASE iopen BY <1>2, OpenRefines
<1>3. CASE iclose
  <2>1. pc = "idle" /\ readblock({"ndx", "rec"}) /\ UNCHANGED <<pc, call>> BY <1>3 DEF iclose
  <2> QED BY <2>1, ReadIdleRefines
<1>4. CASE readrec
  <2>1. pc = "idle" /\ (readblock({"ndx"}) \/ readblock({"ndx", "rec"})) /\ UNCHANGED <<pc, call>>
    BY <1>4 DEF readrec
  <2> QED BY <2>1, ReadIdleRefines
<1>5. CASE Kill BY <1>5, KillRefines
<1>6. CASE \E i \in Indices, isarray \in BOOLEAN, d \in Contents : writerec(i, isarray, d)
  BY <1>6, WriteRefines
<1>7. CASE \E i \in Indices : eraserecord(i) BY <1>7, EraseRefines
<1>8. CASE FillGap \/ WritePair \/ WriteHeader \/ GoBack \/ compressfile
  BY <1>8, GapRefines, PairRefines, HeaderRefines, GoBackRefines, CompressRefines
<1>9. CASE OpenCopies BY <1>9, OpenCopyRefines DEF OpenCopies
<1>10. CASE CopyHeader \/ CopyRecord \/ CopyEnds
  BY <1>10, CopyHeaderRefines, CopyRecordRefines, CopyEndsRefines
<1>11. CASE Replace
  BY <1>11, CloseNdxRefines, UnlinkNdxRefines, RenameNdxRefines, CloseRecRefines, UnlinkRecRefines,
     RenameRecRefines DEF Replace
<1> QED BY <1>1, <1>2, <1>3, <1>4, <1>5, <1>6, <1>7, <1>8, <1>9, <1>10, <1>11 DEF Next, Calls

LEMMA BeginningRefines == Init => K /\ RF!Init
<1> SUFFICES ASSUME Init PROVE K /\ RF!Init OBVIOUS
<1>1. J BY Beginning
<1>2. /\ file = [n \in Names |-> <<>>] /\ buf = [n \in Names |-> NoWrite] /\ pc = "idle" BY DEF Init
<1>3. "ndx" \in Names /\ "rec" \in Names BY DEF Names
<1>4. file["ndx"] = <<>> /\ buf["ndx"] = NoWrite /\ buf["rec"] = NoWrite BY <1>2, <1>3
<1>5. Ndx = <<>> /\ IndexNow = Ndx BY <1>2, <1>4, LogicalIs, Now DEF Ndx, After, Late
<1>6. Count(Ndx) = 0 BY <1>5, NothingIn DEF Count, ZeroHeader, Header
<1>7. 0 <= MaxIndex + 1 BY DirectFileAssumption
<1>8. OnDisk BY <1>4, <1>6, <1>7, FreshOnDisk
<1>9. K BY <1>2, <1>5, <1>6, <1>7, <1>8 DEF K, Phases, Opening
<1>10. ~InFlux /\ Busy = -1 /\ Wanted = Nothing BY <1>2, InFluxIs, NotBusy
<1>11. Unsure = {} BY <1>4, <1>10 DEF Unsure
<1>12. MapRecs = [j \in {} |-> missing]
  <2>1. MapRecs = Shown(Ndx, BytesNow, -1) BY <1>1, <1>5, <1>10, RecsAre DEF Recs, J, TypeOK
  <2>2. 0 .. 0 - 1 = {} OBVIOUS
  <2> QED BY <1>6, <2>1, <2>2 DEF Shown
<1>13. RF!Init BY <1>10, <1>11, <1>12 DEF RF!Init, RF!nothing, RF!missing, Nothing, MapRecs, Busy, missing
<1> QED BY <1>9, <1>13

(* A direct file is a file of numbered records, each of which reads as the   *)
(* call that wrote it last was told to write it, or as nothing once it is    *)
(* erased, whatever is written, erased, grown or compressed beside it; a     *)
(* kill, not while a record moves or the files are compressed, spoils at     *)
(* most the record under way and the one whose bytes were written last       *)
(* (writerec, eraserecord, readrec and compressfile of fileio.c).            *)
THEOREM RecordFileImplemented ==
  ASSUME "kill while moving" \notin Uses, "kill while compressing" \notin Uses
  PROVE  Spec => ImplementsRecordFile
<1>1. Init => J /\ K /\ RF!Init BY Beginning, BeginningRefines
<1>2. J /\ K /\ [Next]_vars => J' /\ K' /\ [RF!Next]_(RF!vars)
  <2> SUFFICES ASSUME J, K, [Next]_vars PROVE J' /\ K' /\ (RF!Next \/ UNCHANGED RF!vars) OBVIOUS
  <2>1. Sound' BY DEF Sound
  <2>2. J' BY <2>1, StepPreserves
  <2> QED BY <2>2, StepRefines
<1> QED BY <1>1, <1>2, PTL DEF Spec, ImplementsRecordFile, RF!Spec
=============================================================================
