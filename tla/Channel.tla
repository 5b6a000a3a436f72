------------------------------- MODULE Channel -------------------------------
(* What a pair of streams joined by a pipe promises: the bytes put in at one  *)
(* end come out at the other, each once and in order.  The bytes the sender   *)
(* had not yet handed to the system when it ended are lost, and only those.   *)
EXTENDS Naturals, Sequences, SequencesExt

CONSTANTS Messages,      \* what is sent at a time
          Encode(_)      \* the bytes of a message

VARIABLES way,           \* the bytes on their way
          handed         \* how many of them the system has

Init == way = <<>> /\ handed = 0

Put(m) == way' = way \o Encode(m) /\ UNCHANGED handed

HandOver(n) == handed' = handed + n /\ handed' <= Len(way) /\ UNCHANGED way

(* The receiver takes bytes the system has, from the front. *)
Take(n) == /\ n <= handed
           /\ handed' = handed - n
           /\ way' = SubSeq(way, n + 1, Len(way))

SenderEnds == way' = SubSeq(way, 1, handed) /\ UNCHANGED handed

Next == \/ \E m \in Messages : Put(m)
        \/ \E n \in 1..Len(way) : HandOver(n) \/ Take(n)
        \/ SenderEnds

Spec == Init /\ [][Next]_<<way, handed>>
=============================================================================
