------------------------------- MODULE Streams -------------------------------
(* The byte streams of nstreams.c: buffering, and the transfer of messages    *)
(* from a child process to its parent through a pipe.  Both processes are     *)
(* interpreters: the child puts arrays and lines into its writer and hands    *)
(* the bytes to the system, the parent reads them into its reader and takes   *)
(* lines, characters and arrays out of it.  A message is an array; in bytes a *)
(* field is WORD bytes <<"w", value, i>> and a character is <<"c", ch>>.      *)
EXTENDS Integers, Sequences, SequencesExt

CONSTANTS BUFFSIZE,      \* SP_BUFFSIZE, bytes in a buffer
          WORD,          \* sizeof(nialint)
          PIPESIZE,      \* bytes the pipe holds
          Scripts,       \* the sequences of messages the child may send
          MaxSignals,    \* signals that may arrive at the parent
          MayBeKilled    \* whether the child may end before it has sent all

ASSUME StreamsAssumption == /\ {BUFFSIZE, WORD, PIPESIZE} \subseteq Nat \ {0}
                            /\ MaxSignals \in Nat /\ MayBeKilled \in BOOLEAN

VARIABLES script,        \* what the child sends
          sent,          \* how many messages of it are in the writer
          writer,        \* the child's stream
          pipe,          \* what the system has
          writing,       \* the child's end of the pipe is open
          reader,        \* the parent's stream
          call,          \* the primitive the parent is in
          frames,        \* the calls of unblock_array, outermost first
          results,       \* what the primitives that take a message returned
          signals        \* for each that came in a call: the array being read, or 0

vars == <<script, sent, writer, pipe, writing, reader, call, frames, results, signals>>

-----------------------------------------------------------------------------
(* Buffers and streams.  A buffer is its d_start and the characters from      *)
(* there to d_end, so count is their number and d_end the sum of the two.     *)

createBuffer == [start |-> 0, chars |-> <<>>]
packBuffer(b) == [b EXCEPT !.start = 0]
dEnd(b) == b.start + Len(b.chars)

createStream == [fd |-> -1, status |-> "normal", count |-> 0, bufs |-> <<createBuffer>>]

Chars(s) == FoldLeft(LAMBDA cs, b : cs \o b.chars, <<>>, s.bufs)

(* The last buffer is packed and filled, and buffers are added for the rest.  *)
Pieces(cs) == [i \in 1..((Len(cs) + BUFFSIZE - 1) \div BUFFSIZE) |->
                 [createBuffer EXCEPT !.chars =
                    SubSeq(cs, (i - 1) * BUFFSIZE + 1,
                           IF i * BUFFSIZE < Len(cs) THEN i * BUFFSIZE ELSE Len(cs))]]

appendChars(s, cs) ==
  LET last == packBuffer(Last(s.bufs))
      space == BUFFSIZE - Len(last.chars)
      nc == IF Len(cs) > space THEN space ELSE Len(cs)
      filled == [last EXCEPT !.chars = @ \o SubSeq(cs, 1, nc)]
  IN IF cs = <<>> THEN s
     ELSE [s EXCEPT !.count = @ + Len(cs),
                    !.bufs = Append(Front(@), filled) \o Pieces(SubSeq(cs, nc + 1, Len(cs)))]

(* n > 0 characters are gone: the buffers before that of the last of them     *)
(* are freed; that one stays, even if it is empty now.                        *)
Before(s, k) == FoldLeft(LAMBDA n, b : n + Len(b.chars), 0, SubSeq(s.bufs, 1, k - 1))
Dropped(s, n) ==
  LET at == CHOOSE k \in 1..Len(s.bufs) : Before(s, k) < n /\ n <= Before(s, k) + Len(s.bufs[k].chars)
      b == s.bufs[at]
      gone == n - Before(s, at)
  IN IF n = 0 THEN s
     ELSE [s EXCEPT !.count = @ - n,
                    !.bufs = <<[start |-> b.start + gone,
                                chars |-> SubSeq(b.chars, gone + 1, Len(b.chars))]>>
                             \o SubSeq(@, at + 1, Len(@))]

(* nio_getchars: what is taken, and the stream without it. *)
Available(s, n) == IF n > s.count THEN s.count ELSE n
nio_getchars(s, n) == [chars |-> SubSeq(Chars(s), 1, Available(s, n)),
                       stream |-> Dropped(s, Available(s, n))]

NL == <<"c", 10>>

(* Mutant: the search does not stop at the first end of line.                 *)
FindLastLine(s) == LET cs == Chars(s)
                       ends == {i \in 1..Len(cs) : cs[i] = NL}
                   IN IF ends = {} THEN 0 ELSE CHOOSE i \in ends : \A j \in ends : i >= j

(* findLine: the length of the first line, 0 when there is none. *)
findLine(s) == LET cs == Chars(s)
                   ends == {i \in 1..Len(cs) : cs[i] = NL}
               IN IF ends = {} THEN 0 ELSE CHOOSE i \in ends : \A j \in ends : i <= j

(* Mutant: a buffer is taken to be written out whenever some of it was.       *)
WrittenOff(s, n) ==
  LET b == s.bufs[1]
  IN [s EXCEPT !.count = @ - Len(b.chars),
               !.bufs = IF Len(s.bufs) > 1 THEN Tail(@) ELSE <<createBuffer>>]

(* writeBuffer and the turn of writeStream after it: n bytes of the first     *)
(* buffer are gone, and the buffer too when it is empty and not the last.     *)
Written(s, n) ==
  LET b == s.bufs[1]
      rest == [start |-> b.start + n, chars |-> SubSeq(b.chars, n + 1, Len(b.chars))]
  IN [s EXCEPT !.count = @ - n,
               !.bufs = IF rest.chars = <<>> /\ Len(s.bufs) > 1
                        THEN Tail(@) ELSE [@ EXCEPT ![1] = rest]]

-----------------------------------------------------------------------------
(* Arrays in bytes.  An array is its kind, its shape and its data: numbers,   *)
(* characters, or items.                                                      *)

atype == 1
inttype == 3
chartype == 6
phrasetype == 7
Line == 0          \* not a kind: the characters of a line, sent with nio_writeln
Plain == 9         \* characters sent with nio_write

Word(n) == [i \in 1..WORD |-> <<"w", n, i>>]
Words(ns) == FlattenSeq([i \in 1..Len(ns) |-> Word(ns[i])])
Text(cs) == [i \in 1..Len(cs) |-> <<"c", cs[i]>>]

Tally(a) == Len(a.data)
DataBytes(a) == IF a.k = inttype THEN Words(a.data) ELSE Text(a.data) \o <<<<"c", 0>>>>

(* block_array *)
RECURSIVE block_array(_)
block_array(a) ==
  Word(a.k) \o Word(Len(a.sh)) \o Word(Tally(a)) \o Words(a.sh)
    \o IF a.k = atype
       THEN FlattenSeq([i \in 1..Tally(a) |-> block_array(a.data[i])])
       ELSE Word(Len(DataBytes(a))) \o DataBytes(a)

(* The bytes of a message: a line, characters, or an array.                   *)
Bytes(m) == CASE m.k = Line  -> Text(m.data) \o <<NL>>
              [] m.k = Plain -> Text(m.data)
              [] OTHER       -> block_array(m)

(* The value of a word, and of as many words as the bytes hold. *)
WordOf(cs) == cs[1][2]
WordsOf(cs) == [i \in 1..(Len(cs) \div WORD) |-> cs[(i - 1) * WORD + 1][2]]
(* Bytes taken as words that are the words of a message. *)
AreWords(cs) == \A i \in 1..Len(cs) : cs[i][1] = "w" /\ cs[i][3] = ((i - 1) % WORD) + 1

CharsOf(cs) == [i \in 1..Len(cs) |-> cs[i][2]]

Null == [k |-> -2, sh |-> <<>>, data |-> <<>>]
invalidptr == [k |-> -1, sh |-> <<>>, data |-> <<>>]

-----------------------------------------------------------------------------
(* The child: ispawn_child gives each process the end of a pipe. *)

NoCall == [op |-> "none", climit |-> 0, flag |-> 0]
Connected == [createStream EXCEPT !.fd = 1]

Init == /\ script \in Scripts
        /\ sent = 0 /\ writer = Connected /\ pipe = <<>> /\ writing = TRUE
        /\ reader = Connected /\ call = NoCall /\ frames = <<>> /\ results = <<>>
        /\ signals = <<>>

inio_put == /\ writing /\ sent < Len(script)
            /\ writer' = appendChars(writer, Bytes(script[sent + 1]))
            /\ sent' = sent + 1
            /\ UNCHANGED <<script, pipe, writing, reader, call, frames, results, signals>>

Room == PIPESIZE - Len(pipe)

(* A turn of writeStream: the system takes all it has room for, or less. *)
writeStream ==
  /\ writing /\ writer.fd # -1 /\ writer.count > 0 /\ Room > 0
  /\ LET cs == writer.bufs[1].chars
         most == IF Len(cs) < Room THEN Len(cs) ELSE Room
     IN \E n \in {1, most} :
          /\ pipe' = pipe \o SubSeq(cs, 1, n)
          /\ writer' = Written(writer, n)
  /\ UNCHANGED <<script, sent, writing, reader, call, frames, results, signals>>

(* The child ends: of itself when all is written, or killed before.  What is  *)
(* in its writer then goes nowhere.                                           *)
ChildEnds ==
  /\ writing
  /\ MayBeKilled \/ (sent = Len(script) /\ writer.count = 0)
  /\ writing' = FALSE
  /\ UNCHANGED <<script, sent, writer, pipe, reader, call, frames, results, signals>>

-----------------------------------------------------------------------------
(* The parent polls for input: it reads what the system has, until it has     *)
(* climit bytes; unless told to wait (flag -1) it stops when there are none.  *)

(* Mutant: -1 is taken for a limit.                                           *)
EnoughForNone == \/ reader.fd = -1 \/ reader.status = "eof"
                 \/ reader.count >= call.climit

HasEnough == \/ reader.fd = -1 \/ reader.status = "eof"
             \/ call.climit # -1 /\ reader.count >= call.climit

Polling == call.op \notin {"none", "astray"} /\ ~HasEnough

Bulk == IF Len(pipe) < BUFFSIZE THEN Len(pipe) ELSE BUFFSIZE

pollReads ==
  /\ Polling /\ pipe # <<>>
  /\ reader' = appendChars(reader, SubSeq(pipe, 1, Bulk))
  /\ pipe' = SubSeq(pipe, Bulk + 1, Len(pipe))
  /\ UNCHANGED <<script, sent, writer, writing, call, frames, results, signals>>

pollMeetsEnd ==
  /\ Polling /\ pipe = <<>> /\ ~writing
  /\ reader' = [reader EXCEPT !.status = "eof"]
  /\ UNCHANGED <<script, sent, writer, pipe, writing, call, frames, results, signals>>

-----------------------------------------------------------------------------
(* unblock_array, a field at a time.  A frame is a call of it: the field it   *)
(* waits for, and what it has of the array.                                   *)

NewFrame == [at |-> "kind", k |-> 0, v |-> 0, t |-> 0, sh |-> <<>>, n |-> 0, items |-> <<>>]

Need(f) == CASE f.at = "shape" -> f.v * WORD
             [] f.at = "data"  -> f.n
             [] OTHER          -> WORD

(* The call of the last frame returns a: it is stored as an item of the array *)
(* of the frame before, invalid or not, and the next item is begun.           *)
RECURSIVE Returned(_, _)
Returned(fs, a) ==
  IF fs = <<>> THEN [frames |-> <<>>, value |-> <<a>>]
  ELSE LET f == [fs[Len(fs)] EXCEPT !.items = Append(@, a)]
       IN IF Len(f.items) = f.t
          THEN Returned(Front(fs), [k |-> f.k, sh |-> f.sh, data |-> f.items])
          ELSE [frames |-> Append(Append(Front(fs), f), NewFrame), value |-> <<>>]

(* The shape is known: the container is made, and its size or items follow.   *)
Shaped(fs, f) ==
  IF f.k # atype THEN [frames |-> Append(fs, [f EXCEPT !.at = "size"]), value |-> <<>>]
  ELSE IF f.t = 0 THEN Returned(fs, [k |-> f.k, sh |-> f.sh, data |-> <<>>])
  ELSE [frames |-> Append(Append(fs, [f EXCEPT !.at = "items"]), NewFrame), value |-> <<>>]

Datum(f, cs) == [k |-> f.k, sh |-> f.sh,
                 data |-> IF f.k = inttype THEN WordsOf(cs) ELSE CharsOf(Front(cs))]

(* The bytes of the field are there. *)
Field(fs, f, cs) ==
  LET on(g) == [frames |-> Append(fs, g), value |-> <<>>]
  IN CASE f.at = "kind"    -> on([f EXCEPT !.k = WordOf(cs), !.at = "valence"])
       [] f.at = "valence" -> on([f EXCEPT !.v = WordOf(cs), !.at = "tally"])
       [] f.at = "tally"   -> LET g == [f EXCEPT !.t = WordOf(cs), !.at = "shape"]
                              IN IF g.v > 0 THEN on(g) ELSE Shaped(fs, g)
       [] f.at = "shape"   -> Shaped(fs, [f EXCEPT !.sh = WordsOf(cs)])
       [] f.at = "size"    -> on([f EXCEPT !.n = WordOf(cs), !.at = "data"])
       [] f.at = "data"    -> Returned(fs, Datum(f, cs))

(* What is read does not say what an array is: the call goes on with it, and  *)
(* the model does not follow.                                                 *)
Astray(f, cs) ==
  \/ f.at # "data" /\ ~AreWords(cs)
  \/ f.at = "kind" /\ WordOf(cs) \notin {atype, inttype, chartype, phrasetype}

UnblockStep ==
  LET f == frames[Len(frames)]
      fs == Front(frames)
      got == nio_getchars(reader, Need(f))
      r == IF reader.count < Need(f) THEN Returned(fs, invalidptr) ELSE Field(fs, f, got.chars)
      rest == IF reader.count < Need(f) THEN reader ELSE got.stream
      failed == r.value = <<invalidptr>>
  IN IF reader.count >= Need(f) /\ Astray(f, got.chars)
     THEN call' = [call EXCEPT !.op = "astray"] /\ UNCHANGED <<reader, frames, results>>
     ELSE /\ frames' = r.frames
          /\ reader' = IF failed THEN [rest EXCEPT !.status = "eof"] ELSE rest
          /\ IF r.value = <<>>
             THEN call' = [call EXCEPT !.climit = Need(r.frames[Len(r.frames)])] /\ UNCHANGED results
             ELSE call' = NoCall /\ results' = Append(results, IF failed THEN Null ELSE r.value[1])

-----------------------------------------------------------------------------
(* The primitives of the parent that take from its reader.  A message that    *)
(* was returned in part is asked for again.                                   *)

Part == results # <<>> /\ Last(results).k = Plain
          /\ Len(Last(results).data) < Len(script[Len(results)].data)
Next1 == IF Part THEN Len(results) ELSE Len(results) + 1

Stopped == Next1 > Len(script) \/ (results # <<>> /\ Last(results) = Null)

Begin(op, climit, flag) == call' = [op |-> op, climit |-> climit, flag |-> flag]

inio_begin ==
  /\ call = NoCall /\ ~Stopped
  /\ LET m == script[Next1]
     IN \/ m.k = Line /\ Begin("readln", -1, 1) /\ UNCHANGED frames
        \/ /\ m.k = Plain /\ UNCHANGED frames
           /\ Begin("read", Len(m.data) - IF Part THEN Len(Last(results).data) ELSE 0, 0)
        \/ m.k \notin {Line, Plain} /\ Begin("unblock", WORD, -1) /\ frames' = <<NewFrame>>
  /\ UNCHANGED <<script, sent, writer, pipe, writing, reader, results, signals>>

inio_read_stream ==
  /\ call = NoCall /\ ~Stopped
  /\ Begin("read_stream", -1, -1) \/ Begin("read_stream", WORD, 0)
  /\ UNCHANGED <<script, sent, writer, pipe, writing, reader, frames, results, signals>>

(* poll_input has returned: the rest of the primitive. *)
Finish ==
  CASE call.op = "read_stream" -> call' = NoCall /\ UNCHANGED <<reader, frames, results>>
    [] call.op = "readln" ->
         /\ LET n == findLine(reader) IN
            IF n = 0 THEN UNCHANGED <<reader, results>>
            ELSE LET got == nio_getchars(reader, n)
                 IN /\ reader' = got.stream
                    /\ results' = Append(results, [k |-> Line, sh |-> <<>>,
                                                   data |-> CharsOf(got.chars)])
         /\ call' = NoCall /\ UNCHANGED frames
    [] call.op = "read" ->
         /\ IF reader.count = 0 THEN UNCHANGED <<reader, results>>
            ELSE LET got == nio_getchars(reader, call.climit)
                     text == CharsOf(got.chars)
                 IN /\ reader' = got.stream
                    /\ results' = IF Part
                                  THEN [results EXCEPT ![Len(results)].data = @ \o text]
                                  ELSE Append(results, [k |-> Plain, sh |-> <<>>, data |-> text])
         /\ call' = NoCall /\ UNCHANGED frames
    [] call.op = "unblock" -> UnblockStep

Returns == /\ call.op \notin {"none", "astray"}
           /\ Finish
           /\ UNCHANGED <<script, sent, writer, pipe, writing>>

pollHasEnough == HasEnough /\ Returns /\ UNCHANGED signals
pollTimesOut == Polling /\ pipe = <<>> /\ writing /\ call.flag # -1 /\ Returns /\ UNCHANGED signals

(* A signal arrives in the call of select: poll_input takes it for a timeout. *)
pollInterrupted ==
  /\ Polling /\ Len(signals) < MaxSignals
  /\ Returns /\ signals' = Append(signals, IF call.op = "unblock" THEN Next1 ELSE 0)

Done == (Stopped \/ call.op = "astray") /\ UNCHANGED vars

Child == inio_put \/ writeStream
Parent == pollReads \/ pollMeetsEnd \/ pollHasEnough \/ pollTimesOut \/ inio_begin
Next == Child \/ ChildEnds \/ Parent \/ inio_read_stream \/ pollInterrupted \/ Done

-----------------------------------------------------------------------------
(* The streams are kept whole: the count is that of the characters in the     *)
(* buffers, no buffer reaches past its end, and only the first of several     *)
(* can be empty, so that a stream with characters is never taken for one      *)
(* without (appendChars, nio_getchars, writeStream).                          *)
WellFormed(s) ==
  /\ s.count = Len(Chars(s)) /\ s.bufs # <<>>
  /\ \A i \in 1..Len(s.bufs) : dEnd(s.bufs[i]) <= BUFFSIZE
  /\ \A i \in 2..Len(s.bufs) : s.bufs[i].chars # <<>>

(* The bytes arrive in order and once: the two streams and the pipe between   *)
(* them are one channel.                                                      *)
Messages == UNION {ToSet(s) : s \in Scripts}
Encoded == [m \in Messages |-> Bytes(m)]
Encode(m) == Encoded[m]
Way == INSTANCE Channel WITH
         way <- Chars(reader) \o pipe \o (IF writing THEN Chars(writer) ELSE <<>>),
         handed <- Len(Chars(reader)) + Len(pipe)
ImplementsChannel == Way!Spec

(* What the parent is given for a message: a line with its end (inio_readln). *)
Delivered(m) == IF m.k = Line THEN [m EXCEPT !.data = Append(@, 10)] ELSE m

(* What becomes of message i: it was not all handed to the system before the  *)
(* child was killed; or a signal came in the reading of an array, it or one   *)
(* before it.                                                                 *)
Length(n) == FoldLeft(LAMBDA l, m : l + Len(Encode(m)), 0, SubSeq(script, 1, n))
HandedOver(i) == i <= sent /\ Length(i) <= Length(sent) - writer.count
Lost(i) == ~writing /\ ~HandedOver(i)
Disturbed(i) == \E k \in DOMAIN signals : signals[k] \in 1..i

(* An array of which only the beginning was there: unblock_array stores the   *)
(* invalid results of its own calls as items and returns the container.       *)
RECURSIVE Truncated(_, _)
Truncated(r, m) ==
  /\ m.k = atype /\ r.k = atype /\ r.sh = m.sh /\ Len(r.data) = Tally(m)
  /\ \E n \in 1..Tally(m) :
       /\ \A i \in 1..(n - 1) : r.data[i] = m.data[i]
       /\ r.data[n] = invalidptr \/ Truncated(r.data[n], m.data[n])
       /\ \A i \in (n + 1)..Tally(m) : r.data[i] = invalidptr

(* Messages are given back whole and in the order they were sent, whatever    *)
(* the pieces they arrive in (inio_readln, inio_read, inio_unblock_array).    *)
(* Of characters, the last may have as many as have come.  Of an array that   *)
(* was not all handed over when the child was killed there is nothing, or the *)
(* items before the break, and what is read after those is what was left of   *)
(* it.  Lines and characters stand a signal during the call; an array, and    *)
(* what is read after it, does not (NullOnError).  The streams stay whole.    *)
MessagesInOrder ==
  /\ WellFormed(reader) /\ WellFormed(writer)
  /\ Len(results) <= Len(script)
  /\ \A i \in 1..Len(results) :
       \/ results[i] = Delivered(script[i])
       \/ i = Len(results) /\ Part /\ results[i].k = Plain
            /\ IsStrictPrefix(results[i].data, script[i].data)
       \/ Lost(i) /\ (results[i] = Null \/ Truncated(results[i], script[i]))
       \/ \E j \in 1..(i - 1) : Lost(j) /\ Truncated(results[j], script[j])
       \/ Disturbed(i)

(* Both processes run.  The child ends when it has sent everything: a parent  *)
(* that calls nio_read_stream without a limit waits for that.  The parent     *)
(* need not call it, but comes back to ask for a message; no signal need      *)
(* arrive.                                                                    *)
Spec == Init /\ [][Next]_vars
Fairness == /\ WF_vars(Child) /\ WF_vars(Parent) /\ SF_vars(inio_begin)
            /\ WF_vars(sent = Len(script) /\ writer.count = 0 /\ ChildEnds)
FairSpec == Spec /\ Fairness

(* Everything the child has put into its writer arrives: again and again all  *)
(* the messages so far have been returned, whole, though the child may have   *)
(* ended or been killed since.  Those that it had not handed to the system    *)
(* when it was killed are excepted, and what is read after a signal in the    *)
(* reading of an array (nio_read_stream, poll_input, inio_readln,             *)
(* inio_unblock_array).                                                       *)
Came(i) == Len(results) >= i /\ (i = Len(results) => ~Part)
EverythingArrives == []<>(\A i \in 1..sent : Came(i) \/ Lost(i) \/ Disturbed(i))
=============================================================================
