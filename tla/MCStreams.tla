------------------------------ MODULE MCStreams ------------------------------
(* Instances of Streams: buffers of 3 bytes and words of 2, so that every     *)
(* field crosses the end of a buffer sooner or later.                         *)
EXTENDS Streams

number == [k |-> inttype, sh |-> <<>>, data |-> <<7>>]
string == [k |-> chartype, sh |-> <<2>>, data |-> <<97, 98>>]
phrase == [k |-> phrasetype, sh |-> <<>>, data |-> <<99>>]
pair == [k |-> atype, sh |-> <<2>>, data |-> <<phrase, number>>]
empty == [k |-> atype, sh |-> <<0>>, data |-> <<>>]
nested == [k |-> atype, sh |-> <<2>>, data |-> <<empty, phrase>>]
line == [k |-> Line, sh |-> <<>>, data |-> <<97>>]
plain == [k |-> Plain, sh |-> <<>>, data |-> <<98, 97>>]

MCScripts == {<<line, line, plain>>, <<plain, number>>, <<nested>>, <<pair, plain>>}
=============================================================================
