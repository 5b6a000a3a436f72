------------------------------ MODULE HeapAbs ------------------------------
(***************************************************************************)
(* What the Nial heap promises to new_create_array and freeit: a block     *)
(* that has been handed out keeps its place and its words until it is      *)
(* released, and no other block is handed out over it.  Nothing is said    *)
(* of headers, boundary tags or the free list; module Heap implements      *)
(* this specification.                                                     *)
(***************************************************************************)
EXTENDS Integers

CONSTANTS
  Base,       (* The first word that may be handed out (membase).          *)
  InitSize,   (* The number of words of the initial workspace.             *)
  Requests    (* The sizes that are asked for.                             *)

VARIABLES
  size,       (* The number of words of the workspace (memsize).           *)
  live,       (* live[b]: the number of words of the live block at b.      *)
  want        (* The request under way, 0 if there is none.                *)

vars == <<size, live, want>>

Init ==
  /\ size = InitSize
  /\ live = [b \in {} |-> 0]
  /\ want = 0

(* The s words from b on overlap no live block and lie in the workspace.   *)
Available(b, s) ==
  /\ Base <= b /\ b + s <= size
  /\ \A c \in DOMAIN live : c + live[c] <= b \/ b + s <= c

Ask(n) ==
  /\ want = 0
  /\ want' = n
  /\ UNCHANGED <<size, live>>

(* The request is granted with a block that is at least as large; every    *)
(* other live block stays where it is.                                     *)
Grant ==
  /\ want # 0
  /\ \E b \in DOMAIN live' :
        /\ want <= live'[b]
        /\ Available(b, live'[b])
        /\ live' = [c \in DOMAIN live \cup {b} |->
                       IF c = b THEN live'[b] ELSE live[c]]
  /\ want' = 0
  /\ UNCHANGED size

(* A jump to top level abandons the request.                               *)
Abandon ==
  /\ want # 0
  /\ want' = 0
  /\ UNCHANGED <<size, live>>

Free(b) ==
  /\ b \in DOMAIN live
  /\ live' = [c \in DOMAIN live \ {b} |-> live[c]]
  /\ UNCHANGED <<size, want>>

Grow ==
  /\ size' > size
  /\ UNCHANGED <<live, want>>

Next ==
  \/ \E n \in Requests : Ask(n)
  \/ Grant
  \/ Abandon
  \/ \E b \in DOMAIN live : Free(b)
  \/ Grow

Spec == Init /\ [][Next]_vars

=============================================================================
