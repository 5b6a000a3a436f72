----------------------------- MODULE RecordFile -----------------------------
(***************************************************************************)
(* What the users of a direct access file rely on: numbered records, each  *)
(* of which reads as it was last written, whatever is done to the others,  *)
(* until it is erased.  A write or an erasure takes a while, in which its  *)
(* record is in flux: what it asks for is settled when it begins, and is   *)
(* what it leaves when it ends.  When the program is killed, what it wrote *)
(* last may be lost, or be anything, and nothing else is.                  *)
(***************************************************************************)
EXTENDS Integers, Sequences, FiniteSets

CONSTANTS Numbers,   (* Of records: 0 .. n.                                *)
          Contents   (* Of a record; <<>> is what a missing one has.       *)

VARIABLES recs,      (* Contents of the records the file has.              *)
          busy,      (* The number of a record in flux, or -1,             *)
          wanted,    (* and what is to become of it.                       *)
          unsure     (* Numbers of records a kill may spoil.               *)
vars == <<recs, busy, wanted, unsure>>

missing == <<>>
Get(r, j) == IF j \in DOMAIN r THEN r[j] ELSE missing
Extended(r, i, d) == [j \in DOMAIN r \cup 0 .. i |-> IF j = i THEN d ELSE Get(r, j)]

nothing == [op |-> "none", d |-> missing]
write(d) == [op |-> "write", d |-> d]
erase == [op |-> "erase", d |-> missing]
Wishes == {write(d) : d \in Contents} \cup {erase}

Init == recs = [j \in {} |-> missing] /\ busy = -1 /\ wanted = nothing /\ unsure = {}

Begin(i, what) ==
  /\ busy = -1 /\ busy' = i /\ wanted' = what /\ unsure' \in {{i}, unsure \cup {i}}
  /\ recs' = IF i \in DOMAIN recs THEN [recs EXCEPT ![i] = missing] ELSE recs

Ends == busy' = -1 /\ wanted' = nothing /\ UNCHANGED unsure

(* The record has the contents it was to have; those before it, if there   *)
(* were none, are there and missing.                                       *)
Written == wanted.op = "write" /\ Ends /\ recs' = Extended(recs, busy, wanted.d)

(* The last record of a file takes the missing ones before it along.       *)
Erased ==
  /\ wanted.op = "erase" /\ Ends /\ busy \in DOMAIN recs
  /\ recs' = IF busy + 1 \in DOMAIN recs THEN recs
             ELSE LET kept == {j \in DOMAIN recs : \E k \in DOMAIN recs : j <= k /\ recs[k] # missing}
                  IN [j \in kept |-> recs[j]]

(* What was written has reached the disk.                                  *)
Sync == busy = -1 /\ unsure' \in SUBSET unsure /\ UNCHANGED <<recs, busy, wanted>>

Kill ==
  /\ busy' = -1 /\ wanted' = nothing /\ unsure' = {}
  /\ \E n \in {0} \cup {k + 1 : k \in Numbers} : DOMAIN recs' = 0 .. n - 1
  /\ \A j \in Numbers \ unsure : Get(recs', j) = Get(recs, j)

Next ==
  \/ \E i \in Numbers, what \in Wishes : Begin(i, what)
  \/ Written \/ Erased \/ Sync \/ Kill

Spec == Init /\ [][Next]_vars
=============================================================================
