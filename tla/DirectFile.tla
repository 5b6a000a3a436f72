----------------------------- MODULE DirectFile -----------------------------
(***************************************************************************)
(* A direct access file (fileio.c): an index, .ndx, with a header and a    *)
(* pair for each record, and the bytes, .rec.  A record is written in      *)
(* place when it is no longer than it was, and else at the end; when more  *)
(* than half of a long file is waste, both files are copied and replaced.  *)
(* The program may be killed between any two writes.  The stdio library    *)
(* holds back the last write to each file until the next seek in it, which *)
(* every readblock and writeblock does first, or until the file is closed. *)
(***************************************************************************)
EXTENDS Integers, Sequences, FiniteSetsExt

CONSTANTS MaxIndex,   (* Largest record number used.                       *)
          Contents,   (* Sequences of bytes to write.                      *)
          MinTotal,   (* Shorter files are not compressed (10000).         *)
          MaxTotal,   (* Bound on the length of the file.                  *)
          MaxKills,   (* Bound on the kills of the program.                *)
          MaxRefused, (* Bound on the temporary files that do not open.    *)
          Uses        (* Moments of a kill that a file does not survive.   *)

ASSUME DirectFileAssumption ==
  MaxIndex \in Nat /\ \A d \in Contents : d \in Seq({d[k] : k \in DOMAIN d})

VARIABLES file,       (* Contents of each file on the disk: cells.         *)
          exists,     (* The files that exist.                             *)
          buf,        (* The write to each file that is held back.         *)
          open,       (* Is there a port for the file?                     *)
          pc,         (* What the call under way does next, or "idle".     *)
          call,       (* Its arguments and locals.                         *)
          head,       (* filehead.                                         *)
          kills, refused   (* How often.                                   *)
vars == <<file, exists, buf, open, pc, call, head, kills, refused>>
disk == <<file, exists, buf>>

Names   == {"ndx", "rec", "tdx", "trc"}
Indices == 0 .. MaxIndex
array_type  == 1
record_type == 2
hole    == "hole"      \* A byte never written.
eof     == <<"eof">>
missing == <<>>
Header(n, total, free, st) == [recordcnt |-> n, totallen |-> total, space_free |-> free, status |-> st]
Pair(start, len) == [recstart |-> start, reclength |-> len]
ZeroHeader == Header(0, 0, 0, 0)
ZeroCell(name, k) == IF name \in {"rec", "trc"} THEN hole ELSE IF k = 1 THEN ZeroHeader ELSE Pair(0, 0)
-----------------------------------------------------------------------------
(* Blocks.  In an index the header is cell 1 and the pair of record i is   *)
(* cell i + 2; what lies between the end and a block written beyond it     *)
(* reads as zeros.                                                         *)
NoWrite == [pos |-> 0, cells |-> <<>>]
Block(pos, cells) == IF cells = <<>> THEN NoWrite ELSE [pos |-> pos, cells |-> cells]
Put(name, c, w) ==
  [k \in 1 .. Max({Len(c), w.pos + Len(w.cells)}) |->
     IF k - w.pos \in DOMAIN w.cells THEN w.cells[k - w.pos]
     ELSE IF k <= Len(c) THEN c[k] ELSE ZeroCell(name, k)]
Logical(name) == IF buf[name] = NoWrite THEN file[name] ELSE Put(name, file[name], buf[name])

FilesAfter(S) == [n \in Names |-> IF n \in S THEN Logical(n) ELSE file[n]]
HeldAfter(S)  == [n \in Names |-> IF n \in S THEN NoWrite ELSE buf[n]]
readblock(S) == file' = FilesAfter(S) /\ buf' = HeldAfter(S) /\ UNCHANGED exists
ThenWrites(S, ws) ==
  /\ file' = FilesAfter(S)
  /\ buf' = [n \in Names |-> IF n \in DOMAIN ws THEN ws[n] ELSE HeldAfter(S)[n]]
  /\ UNCHANGED exists
writeblock(name, pos, cells) == ThenWrites({name}, [n \in {name} |-> Block(pos, cells)])

Head1(c) == IF c = <<>> THEN ZeroHeader ELSE c[1]
PairIn(c, i) == IF i + 2 \in DOMAIN c THEN c[i + 2] ELSE Pair(0, 0)
Bytes(c, start, len) == [k \in 1 .. len |-> IF start + k \in DOMAIN c THEN c[start + k] ELSE hole]
-----------------------------------------------------------------------------
(* The locals of writerec; of eraserecord i is all there is, and whether   *)
(* it is the one under way.  The number of the record whose bytes were     *)
(* written last is not in the code.                                        *)
Idle == [i |-> 0, d |-> missing, start |-> 0, next |-> 0, last |-> 0, moves |-> FALSE, freed |-> 0,
         erases |-> FALSE]
Left == [Idle EXCEPT !.i = call.i, !.last = call.last]   \* Other locals are dead.

(* readrec.  Past the last record of a file of records the index is taken  *)
(* to repeat itself; a block that ends beyond the file is the end.         *)
\* Mutant: the first repetition is the file itself.
PastStartAgain(h, p, i) == (i \div h.recordcnt - 1) * h.totallen + p.recstart
PastStart(h, p, i) == (i \div h.recordcnt) * h.totallen + p.recstart
ReadPast(h, x, c, i) ==
  LET p     == PairIn(x, i % h.recordcnt)
      start == PastStart(h, p, i)
  IN IF start + p.reclength > Len(c) /\ p.reclength > 0 THEN eof ELSE Bytes(c, start, p.reclength)
ReadIn(x, c, i) ==
  LET h == Head1(x)
      p == PairIn(x, i)
  IN CASE i < h.recordcnt                                                  -> Bytes(c, p.recstart, p.reclength)
       [] i >= h.recordcnt /\ (h.recordcnt = 0 \/ h.status = array_type)   -> eof
       [] OTHER                                                            -> ReadPast(h, x, c, i)
readrec ==
  /\ open /\ pc = "idle"
  /\ \/ readblock({"ndx"})
     \/ Head1(Logical("ndx")).recordcnt > 0 /\ readblock({"ndx", "rec"})
  /\ UNCHANGED <<open, pc, call, head, kills, refused>>
-----------------------------------------------------------------------------
(* writerec: the block, the pairs of records skipped, the pair, the header *)
(* and, when due, the compression.                                         *)
\* Mutants: a record is written in place whatever its length; what a shorter one leaves is not counted.
FitsAlways(h, x, i, isarray, d) == i < h.recordcnt /\ ~isarray
FreedByMoves(h, p, i, fits, d) == IF i >= h.recordcnt \/ fits THEN 0 ELSE p.reclength
Freed(h, p, i, fits, d) ==
  IF i >= h.recordcnt THEN 0 ELSE IF fits THEN p.reclength - Len(d) ELSE p.reclength
Fits(h, x, i, isarray, d) == i < h.recordcnt /\ ~isarray /\ Len(d) <= PairIn(x, i).reclength
StatusOf(isarray) == IF isarray THEN array_type ELSE record_type
writerec(i, isarray, d) ==
  LET x == Logical("ndx")
      h == Head1(x)
      p == PairIn(x, i)
      fits  == Fits(h, x, i, isarray, d)
      start == IF fits THEN p.recstart ELSE h.totallen
  IN /\ open /\ pc = "idle" /\ (isarray => d # <<>>) /\ start + Len(d) <= MaxTotal
     /\ h.status \in {0, StatusOf(isarray)}
     /\ ThenWrites({"ndx", "rec"}, [n \in {"rec"} |-> Block(start, d)])
     /\ head' = [h EXCEPT !.status = StatusOf(isarray)]
     /\ call' = [i |-> i, d |-> d, start |-> start, next |-> h.recordcnt, last |-> i,
                 moves |-> i < h.recordcnt /\ ~fits, freed |-> Freed(h, p, i, fits, d), erases |-> FALSE]
     /\ pc' = "index" /\ UNCHANGED <<open, kills, refused>>
FillGap ==
  /\ pc = "index" /\ call.next < call.i
  /\ writeblock("ndx", call.next + 1, <<Pair(head.totallen, 0)>>)
  /\ call' = [call EXCEPT !.next = @ + 1]
  /\ UNCHANGED <<open, pc, head, kills, refused>>
WritePair ==
  /\ pc = "index" /\ call.next >= call.i
  /\ writeblock("ndx", call.i + 1, <<Pair(call.start, Len(call.d))>>)
  /\ head' = [head EXCEPT !.recordcnt = Max({@, call.i + 1}),
                          !.totallen = IF @ = call.start THEN @ + Len(call.d) ELSE @,
                          !.space_free = @ + call.freed]
  /\ pc' = "header" /\ UNCHANGED <<open, call, kills, refused>>
WriteHeader ==
  /\ pc = "header"
  /\ writeblock("ndx", 0, <<head>>)
  /\ pc' = "compressfile" /\ UNCHANGED <<open, call, head, kills, refused>>

(* eraserecord: the pair gets length 0; when the record was the last, the  *)
(* loop goes back over pairs of length 0, reading only.                    *)
eraserecord(i) ==
  LET h == Head1(Logical("ndx"))
      p == PairIn(Logical("ndx"), i)
  IN /\ open /\ pc = "idle" /\ i < h.recordcnt
     /\ writeblock("ndx", i + 1, <<[p EXCEPT !.reclength = 0]>>)
     /\ head' = [h EXCEPT !.space_free = @ + p.reclength]
     /\ call' = [Left EXCEPT !.i = i, !.erases = TRUE]
     /\ pc' = (IF i = h.recordcnt - 1 THEN "goback" ELSE "header") /\ UNCHANGED <<open, kills, refused>>
LastBefore(i) == Max({-1} \cup {j \in 0 .. i - 1 : PairIn(Logical("ndx"), j).reclength # 0})
\* Mutant: the number of the last record is taken for their count.
CountBeforeLow(i) == Max({0, LastBefore(i)})
CountBefore(i) == LastBefore(i) + 1
GoBack ==
  /\ pc = "goback"
  /\ readblock({"ndx"})
  /\ head' = [head EXCEPT !.recordcnt = CountBefore(call.i)]
  /\ pc' = "header" /\ UNCHANGED <<open, call, kills, refused>>
-----------------------------------------------------------------------------
(* compressfile.  The copies are opened as they are when they exist, and   *)
(* records are put at the end of theirs.                                   *)
Returns == pc' = "idle" /\ call' = Left /\ head' = ZeroHeader
Wasteful(h) == 2 * h.space_free > h.totallen /\ h.totallen > MinTotal
compressfile ==
  /\ pc = "compressfile"
  /\ readblock({"ndx"})
  /\ IF Wasteful(Head1(Logical("ndx")))
     THEN pc' = "open tdx" /\ head' = Head1(Logical("ndx")) /\ UNCHANGED call
     ELSE Returns
  /\ UNCHANGED <<open, kills, refused>>
OpenCopy(name, at, then) ==
  /\ pc = at
  /\ \/ exists' = exists \cup {name} /\ pc' = then /\ UNCHANGED refused
        /\ UNCHANGED <<head, call>>
     \/ refused < MaxRefused /\ refused' = refused + 1 /\ Returns /\ UNCHANGED exists
  /\ UNCHANGED <<file, buf, open, kills>>
OpenCopies == OpenCopy("tdx", "open tdx", "open trc") \/ OpenCopy("trc", "open trc", "copy header")
CopyHeader ==
  /\ pc = "copy header"
  /\ writeblock("tdx", 0, <<head>>)
  /\ head' = [head EXCEPT !.totallen = 0] /\ call' = [call EXCEPT !.next = 0]
  /\ pc' = "copy" /\ UNCHANGED <<open, kills, refused>>
CopyRecord ==
  LET p == PairIn(file["ndx"], call.next)
      d == Bytes(Logical("rec"), p.recstart, p.reclength)
  IN /\ pc = "copy" /\ call.next < head.recordcnt
     /\ ThenWrites({"tdx"} \cup (IF d = <<>> THEN {} ELSE {"rec", "trc"}),
                   [n \in {"tdx"} \cup (IF d = <<>> THEN {} ELSE {"trc"}) |->
                      IF n = "trc" THEN Block(Len(Logical("trc")), d)
                      ELSE Block(call.next + 1, <<Pair(head.totallen, Len(d))>>)])
     /\ head' = [head EXCEPT !.totallen = @ + Len(d)] /\ call' = [call EXCEPT !.next = @ + 1]
     /\ UNCHANGED <<open, pc, kills, refused>>
CopyEnds ==
  /\ pc = "copy" /\ call.next = head.recordcnt
  /\ head' = [head EXCEPT !.space_free = 0]
  /\ writeblock("tdx", 0, <<head'>>)
  /\ pc' = "close ndx" /\ UNCHANGED <<open, call, kills, refused>>

(* The index first, then the records: closed, removed, replaced.           *)
CloseBoth(name, copy, at, then) ==
  /\ pc = at
  /\ readblock({name, copy})
  /\ pc' = then /\ UNCHANGED <<open, call, head, kills, refused>>
Unlink(name, at, then) ==
  /\ pc = at
  /\ exists' = exists \ {name} /\ file' = [file EXCEPT ![name] = <<>>]
  /\ pc' = then /\ UNCHANGED <<buf, open, call, head, kills, refused>>
Rename(name, copy, at, then) ==
  /\ pc = at
  /\ exists' = (exists \ {copy}) \cup {name}
  /\ file' = [file EXCEPT ![name] = file[copy], ![copy] = <<>>]
  /\ IF then = "idle" THEN Returns ELSE pc' = then /\ UNCHANGED <<call, head>>
  /\ UNCHANGED <<buf, open, kills, refused>>
Replace ==
  \/ CloseBoth("ndx", "tdx", "close ndx", "unlink ndx") \/ Unlink("ndx", "unlink ndx", "rename ndx")
  \/ Rename("ndx", "tdx", "rename ndx", "close rec")
  \/ CloseBoth("rec", "trc", "close rec", "unlink rec") \/ Unlink("rec", "unlink rec", "rename rec")
  \/ Rename("rec", "trc", "rename rec", "idle")
-----------------------------------------------------------------------------
Init ==
  /\ file = [n \in Names |-> <<>>] /\ exists = {} /\ buf = [n \in Names |-> NoWrite]
  /\ open = FALSE /\ pc = "idle" /\ call = Idle /\ head = ZeroHeader
  /\ kills = 0 /\ refused = 0

(* iopen in mode "d": the header of a new index is held back like any      *)
(* other write.                                                            *)
iopen ==
  /\ ~open /\ open' = TRUE
  /\ exists' = exists \cup {"ndx", "rec"}
  /\ IF "ndx" \in exists THEN UNCHANGED <<buf, head>>
     ELSE buf' = [buf EXCEPT !["ndx"] = Block(0, <<ZeroHeader>>)] /\ head' = ZeroHeader
  /\ UNCHANGED <<file, pc, call, kills, refused>>
(* iclose, and closeuserfiles after a jump to the top level.               *)
iclose ==
  /\ open /\ pc = "idle" /\ open' = FALSE
  /\ readblock({"ndx", "rec"})
  /\ UNCHANGED <<pc, call, head, kills, refused>>

(* The program ends at once, with or without what was held back.           *)
Moving == call.moves /\ pc \in {"header", "compressfile"}
Compressing == pc \notin {"idle", "index", "goback", "header", "compressfile"}
Kill ==
  /\ kills < MaxKills /\ kills' = kills + 1
  /\ Moving => "kill while moving" \in Uses
  /\ Compressing => "kill while compressing" \in Uses
  /\ \E S \in SUBSET Names : file' = FilesAfter(S)
  /\ buf' = [n \in Names |-> NoWrite] /\ open' = FALSE /\ Returns
  /\ UNCHANGED <<exists, refused>>

Calls == FillGap \/ WritePair \/ WriteHeader \/ GoBack \/ compressfile \/ OpenCopies \/ CopyHeader
         \/ CopyRecord \/ CopyEnds \/ Replace
Next ==
  \/ iopen \/ iclose \/ readrec \/ Kill
  \/ \E i \in Indices, isarray \in BOOLEAN, d \in Contents : writerec(i, isarray, d)
  \/ \E i \in Indices : eraserecord(i)
  \/ Calls

Spec == Init /\ [][Next]_vars
-----------------------------------------------------------------------------
(* The files a reader would find: while they are replaced, the copies.     *)
IndexNow == IF pc = "rename ndx" THEN file["tdx"] ELSE Logical("ndx")
BytesNow == IF pc \in {"rename ndx", "close rec", "unlink rec", "rename rec"} THEN Logical("trc") ELSE Logical("rec")
HeadNow  == Head1(IndexNow)
PairNow(i) == PairIn(IndexNow, i)
Records  == 0 .. HeadNow.recordcnt - 1

(* No byte belongs to two records, or lies beyond the end: a record that   *)
(* is written in place can reach into no other, and one at the end covers  *)
(* none.                                                                   *)
Extent(i) == PairNow(i).recstart + 1 .. PairNow(i).recstart + PairNow(i).reclength
RecordsApart ==
  pc = "idle" =>
    \A i \in Records :
      /\ Extent(i) \subseteq 1 .. HeadNow.totallen
      /\ \A j \in Records \ {i} : Extent(i) \cap Extent(j) = {}

(* Every byte is in a record or counted as free, so that compression comes *)
(* when more than half is waste, and takes all of it; a kill between the   *)
(* pair and the header may leave bytes that nobody counts, and never a     *)
(* count of bytes in use.  The temporary files are gone when the call is.  *)
Used == MapThenSumSet(LAMBDA i : PairNow(i).reclength, Records)
SpaceAccounted ==
  pc = "idle" =>
    /\ Used + HeadNow.space_free <= HeadNow.totallen
    /\ kills = 0 => /\ Used + HeadNow.space_free = HeadNow.totallen
                    /\ refused = 0 => ~Wasteful(HeadNow)
    /\ "trc" \notin exists /\ file["tdx"] = <<>>

(* A number past the end reads as the end of the file, or as nothing where *)
(* the record it would repeat is empty, as long as no kill has left bytes  *)
(* beyond those that the header counts.                                    *)
EndIsKnown ==
  pc = "idle" /\ kills = 0 =>
    \A i \in HeadNow.recordcnt .. 2 * MaxIndex + 1 :
      ReadIn(IndexNow, BytesNow, i) \in
        IF HeadNow.recordcnt > 0 /\ PairNow(i % HeadNow.recordcnt).reclength = 0 THEN {missing, eof} ELSE {eof}

(* A record reads as the last call that wrote it was told to write it, and *)
(* as nothing once it was erased, whatever is written, erased, grown or    *)
(* compressed beside it (writerec, eraserecord, readrec, compressfile); a  *)
(* kill spoils at most the record under way and the one whose bytes were   *)
(* written last.                                                           *)
InFlux == pc \in {"index", "header", "goback"}
Unsure == (IF InFlux \/ (buf["ndx"] # NoWrite /\ file["ndx"] # <<>>) THEN {call.i} ELSE {})
          \cup (IF buf["rec"] # NoWrite THEN {call.last} ELSE {})
Wanted == [op |-> IF ~InFlux THEN "none" ELSE IF call.erases THEN "erase" ELSE "write",
           d  |-> IF InFlux THEN call.d ELSE missing]
RF == INSTANCE RecordFile WITH
        Numbers <- Indices,
        recs    <- [i \in Records |-> IF InFlux /\ i = call.i THEN missing ELSE ReadIn(IndexNow, BytesNow, i)],
        busy    <- IF InFlux THEN call.i ELSE -1,
        wanted  <- Wanted,
        unsure  <- Unsure
ImplementsRecordFile == RF!Spec
=============================================================================
