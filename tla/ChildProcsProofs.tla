-------------------------- MODULE ChildProcsProofs --------------------------
(* Proofs about ChildProcs for every size of the tables, every number of     *)
(* processes and every order of spawns, ends and signals.                    *)
(*                                                                           *)
(* The idea: a process number is unused, held by the spawn under way, in one *)
(* entry of the table, or past; and a descriptor is free, of the spawn under *)
(* way, of one entry, or lost.  A step moves one of them from one place to   *)
(* the next.                                                                 *)
EXTENDS ChildProcs, SetLemmas, FiniteSetTheorems, TLAPS

FdIds == 0..(MaxFds - 1)
Kinds == {"child", "shell", "cmd"}
Ways == Statuses \cup {"killed", "none"}

Entry == [status : {ACTIVE_CHILD, TERMINATED_CHILD}, child : Pids \cup {NoPid}, managed : BOOLEAN,
          result : Ways, rd : StreamIds, wr : StreamIds]
Assigned == [at : {"assigned"}, kind : Kinds, slot : Slots, managed : BOOLEAN]
Piped == [at : {"piped"}, kind : Kinds, slot : Slots, managed : BOOLEAN,
          rd : FdIds, wr : FdIds, close : SUBSET FdIds]
Forked == [at : {"forked"}, kind : Kinds, slot : Slots, managed : BOOLEAN,
           rd : FdIds, wr : FdIds, pid : Pids]

TypeOK ==
  /\ children \in [Slots -> Entry \cup {Free}]
  /\ streams \in [StreamIds -> FdIds \cup {-1, NoStream}]
  /\ fds \subseteq FdIds
  /\ procs \in [Pids -> {"unused", "running", "zombie", "reaped"}]
  /\ ended \in [Pids -> Ways]
  /\ pending \in BOOLEAN
  /\ spawn \in {NoSpawn} \cup Assigned \cup Piped \cup Forked
  /\ reports \subseteq [pid : Pids, result : Ways]
  /\ early \subseteq Pids
  /\ leaked \in [slots : SUBSET Slots, fds : SUBSET FdIds]

(* Each stream belongs to one child at most, and is in use.                  *)
StreamsApart ==
  /\ \A i \in Taken : StreamsOf(children[i]) \subseteq UsedStreams(streams) /\ children[i].rd # children[i].wr
  /\ \A i, j \in Taken : i # j => StreamsOf(children[i]) \cap StreamsOf(children[j]) = {}

(* Each open descriptor belongs to one place: a child's streams, the spawn   *)
(* under way, or what was lost.                                              *)
FdsApart ==
  /\ \A i, j \in Taken : i # j => StreamFds(i) \cap StreamFds(j) = {}
  /\ \A i \in Taken : StreamFds(i) \cap (leaked.fds \cup InSpawn) = {}
  /\ leaked.fds \cap InSpawn = {}
  /\ spawn.at = "piped" => {spawn.rd, spawn.wr} \cap spawn.close = {}
  /\ fds = leaked.fds \cup InSpawn \cup UNION {StreamFds(i) : i \in Taken}

(* The entry of the spawn under way has no process and no descriptor yet.    *)
SpawnHolds ==
  ~Idle => /\ spawn.slot \in Taken
           /\ children[spawn.slot].child = NoPid
           /\ StreamFds(spawn.slot) = {}

(* A process number is in one place.                                         *)
PidsApart ==
  /\ \A i, j \in Taken : i # j /\ children[i].child = children[j].child => children[i].child = NoPid
  /\ \A i \in Taken : children[i].child # NoPid =>
       /\ procs[children[i].child] # "unused"
       /\ spawn.at = "forked" => spawn.pid # children[i].child
       /\ \A r \in reports : r.pid # children[i].child
  /\ spawn.at = "forked" => procs[spawn.pid] # "unused" /\ \A r \in reports : r.pid # spawn.pid

(* What the table, the reports and the reaped processes say of each other.   *)
EndsNoted ==
  /\ \A i \in Taken : children[i].status = TERMINATED_CHILD =>
       /\ children[i].child # NoPid
       /\ procs[children[i].child] = "reaped" /\ children[i].result = ended[children[i].child]
  /\ \A i \in Taken : children[i].child # NoPid /\ procs[children[i].child] = "reaped" =>
       children[i].status = TERMINATED_CHILD \/ children[i].child \in early
  /\ spawn.at = "forked" /\ procs[spawn.pid] = "reaped" => spawn.pid \in early
  /\ \A r \in reports : procs[r.pid] = "reaped" /\ r.result = ended[r.pid]

IInv == /\ TypeOK /\ StreamsApart /\ FdsApart /\ SpawnHolds /\ PidsApart /\ EndsNoted
        /\ EntriesAccounted

-----------------------------------------------------------------------------
(* What the types say of an entry that is taken and of the spawn.            *)
LEMMA TakenEntry ==
  ASSUME TypeOK, NEW i \in Taken
  PROVE  /\ i \in Slots /\ children[i] \in Entry /\ children[i] # Free
         /\ children[i].rd \in StreamIds /\ children[i].wr \in StreamIds
         /\ children[i].status \in {ACTIVE_CHILD, TERMINATED_CHILD}
         /\ children[i].child \in Pids \cup {NoPid}
         /\ children[i].result \in Ways /\ children[i].managed \in BOOLEAN
BY DEF TypeOK, Taken, Entry

LEMMA EntryNotFree == \A c \in Entry : c # Free
BY DEF Entry, Free, ACTIVE_CHILD, TERMINATED_CHILD

LEMMA SpawnShape ==
  ASSUME TypeOK
  PROVE  /\ spawn.at = "assigned" => spawn \in Assigned
         /\ spawn.at = "piped" => spawn \in Piped
         /\ spawn.at = "forked" => spawn \in Forked
         /\ spawn.at \in {"assigned", "piped", "forked"} => ~Idle
         /\ ~Idle => spawn.slot \in Slots
         /\ Idle => spawn.at = "none"
BY DEF TypeOK, Assigned, Piped, Forked, NoSpawn, Idle

(* What the spawn holds when it is at each of its steps.                     *)
LEMMA Holds ==
  ASSUME TypeOK
  PROVE  /\ spawn.at = "piped" => InSpawn = {spawn.rd, spawn.wr} \cup spawn.close
         /\ spawn.at = "forked" => InSpawn = {spawn.rd, spawn.wr}
         /\ spawn.at \notin {"piped", "forked"} => InSpawn = {}
         /\ InSpawn \subseteq FdIds
BY SpawnShape DEF InSpawn, Piped, Forked

LEMMA FdTypes ==
  ASSUME TypeOK
  PROVE  /\ FdIds \subseteq Nat /\ -1 \notin FdIds /\ NoStream \notin FdIds /\ NoStream # -1
         /\ FreeFds \subseteq FdIds /\ FreeFds \in SUBSET Nat /\ IsFiniteSet(FreeFds)
         /\ FreeFds \cap fds = {}
         /\ \A i \in Taken : StreamFds(i) \subseteq FdIds \cup {NoStream}
<1>1. MaxFds \in Nat BY ChildProcsAssumption
<1>2. FdIds \subseteq Nat /\ -1 \notin FdIds /\ NoStream \notin FdIds /\ NoStream # -1
  BY <1>1 DEF FdIds, NoStream
<1>3. FreeFds \subseteq FdIds /\ FreeFds \cap fds = {} BY DEF FreeFds, FdIds
<1>4. IsFiniteSet(FreeFds)
  <2>1. IsFiniteSet(FdIds) BY <1>1, FS_Interval DEF FdIds
  <2> QED BY <1>3, <2>1, FS_Subset
<1>5. \A i \in Taken : StreamFds(i) \subseteq FdIds \cup {NoStream}
  BY TakenEntry DEF StreamFds, TypeOK
<1> QED BY <1>2, <1>3, <1>4, <1>5

LEMMA InitIInv == Init => IInv
<1> SUFFICES ASSUME Init PROVE IInv OBVIOUS
<1>1. Taken = {} BY DEF Init, Taken
<1>2. InSpawn = {} /\ Idle BY DEF Init, InSpawn, NoSpawn, Idle
<1>3. TypeOK BY DEF Init, TypeOK, Ways
<1>4. spawn.at = "none" BY DEF Init, NoSpawn
<1> QED BY <1>1, <1>2, <1>3, <1>4
     DEF IInv, StreamsApart, FdsApart, SpawnHolds, PidsApart, EndsNoted, EntriesAccounted, Init

-----------------------------------------------------------------------------
(* A step that leaves the table, the streams, the descriptors and the spawn  *)
(* alone.                                                                    *)
LEMMA TableKept ==
  ASSUME IInv, UNCHANGED <<children, streams, fds, spawn, leaked>>
  PROVE  StreamsApart' /\ FdsApart' /\ SpawnHolds'
<1>1. Taken' = Taken BY DEF Taken, Slots
<1>2. InSpawn' = InSpawn BY DEF InSpawn
<1>3. \A i \in Slots : StreamFds(i)' = StreamFds(i) BY DEF StreamFds, Slots
<1>4. UsedStreams(streams)' = UsedStreams(streams) BY DEF UsedStreams, StreamIds
<1>5. Idle' = Idle BY DEF Idle, NoSpawn
<1>6. Taken \subseteq Slots BY DEF Taken
<1>7. StreamsApart' BY <1>1, <1>4 DEF IInv, StreamsApart, StreamsOf
<1>8. FdsApart'
  <2>1. {StreamFds(i) : i \in Taken}' = {StreamFds(i) : i \in Taken} BY <1>1, <1>3, <1>6
  <2> QED BY <1>1, <1>2, <1>3, <1>6, <2>1 DEF IInv, FdsApart
<1>9. SpawnHolds' BY <1>1, <1>3, <1>5, <1>6 DEF IInv, SpawnHolds
<1> QED BY <1>7, <1>8, <1>9

(* A process ends, on its own or because it is interrupted.                  *)
LEMMA ProcessEndsIInv ==
  ASSUME IInv, NEW p \in Pids, NEW s \in Ways, ProcessEnds(p, s)
  PROVE  IInv'
<1> USE DEF IInv
<1>1. StreamsApart' /\ FdsApart' /\ SpawnHolds' BY TableKept DEF ProcessEnds
<1>2. TypeOK' BY DEF ProcessEnds, TypeOK, Assigned, Piped, Forked, Entry, FdIds, Ways, Slots, StreamIds
<1>3. Taken' = Taken /\ Idle' = Idle BY DEF ProcessEnds, Taken, Slots, Idle, NoSpawn
<1>4. \A q \in Pids : /\ procs'[q] = (IF q = p THEN "zombie" ELSE procs[q])
                      /\ procs[q] = "reaped" => ended'[q] = ended[q]
                      /\ procs'[q] = "reaped" => procs[q] = "reaped"
                      /\ procs[q] = "reaped" => procs'[q] = "reaped"
  BY DEF ProcessEnds, TypeOK
<1>5. /\ \A i \in Taken : children[i].child # NoPid => children[i].child \in Pids
      /\ spawn.at = "forked" => spawn.pid \in Pids
      /\ \A r \in reports : r.pid \in Pids
  BY TakenEntry, SpawnShape DEF TypeOK, Forked
<1>6. PidsApart'
  BY <1>3, <1>4, <1>5 DEF ProcessEnds, PidsApart
<1>7. EndsNoted'
  BY <1>3, <1>4, <1>5 DEF ProcessEnds, EndsNoted
<1>8. EntriesAccounted'
  BY <1>3, <1>4 DEF ProcessEnds, EntriesAccounted
<1> QED BY <1>1, <1>2, <1>6, <1>7, <1>8

(* The handler of SIGCHLD.                                                   *)
LEMMA HandlerIInv == ASSUME IInv, handle_sigchld PROVE IInv'
<1> USE DEF IInv
<1>1. Found \subseteq Pids /\ \A p \in Found : procs[p] = "zombie" BY DEF Found, Zombies
<1>2. \A i \in Taken : /\ children'[i] = IF children[i].child \in Found THEN Marked(children[i]) ELSE children[i]
                       /\ children'[i] \in Entry
  <2> SUFFICES ASSUME NEW i \in Taken
               PROVE  /\ children'[i] = IF children[i].child \in Found THEN Marked(children[i]) ELSE children[i]
                      /\ children'[i] \in Entry
    OBVIOUS
  <2>1. i \in Slots /\ children[i] # Free /\ children[i] \in Entry BY TakenEntry
  <2>2. children[i].child \in Found => Marked(children[i]) \in Entry
    BY <1>1, <2>1 DEF Marked, Entry, TypeOK
  <2> QED BY <2>1, <2>2 DEF handle_sigchld
<1>3. \A i \in Taken : /\ children'[i].rd = children[i].rd /\ children'[i].wr = children[i].wr
                       /\ children'[i].child = children[i].child
                       /\ children'[i].managed = children[i].managed
                       /\ children[i].child \in Found => /\ children'[i].status = TERMINATED_CHILD
                                                         /\ children'[i].result = ended[children[i].child]
                       /\ children[i].child \notin Found => children'[i] = children[i]
  <2> SUFFICES ASSUME NEW i \in Taken, children[i].child \in Found
               PROVE  /\ children'[i].rd = children[i].rd /\ children'[i].wr = children[i].wr
                      /\ children'[i].child = children[i].child
                      /\ children'[i].managed = children[i].managed
                      /\ children'[i].status = TERMINATED_CHILD
                      /\ children'[i].result = ended[children[i].child]
    BY <1>2
  <2>1. children[i] \in Entry BY TakenEntry
  <2> QED BY <1>2, <2>1 DEF Marked, Entry
<1>4. \A i \in Slots \ Taken : children'[i] = Free BY DEF handle_sigchld, Taken
<1>5. Taken' = Taken
  <2>1. Taken' = {i \in Slots : children'[i] # Free} BY DEF Taken, Slots
  <2>2. Taken \subseteq Slots BY DEF Taken
  <2> QED BY <1>2, <1>4, <2>1, <2>2, EntryNotFree
<1>6. \A i \in Taken : StreamFds(i)' = StreamFds(i) BY <1>3 DEF handle_sigchld, StreamFds
<1>7. InSpawn' = InSpawn /\ Idle' = Idle BY DEF handle_sigchld, InSpawn, Idle, NoSpawn
<1>8. TypeOK'
  <2>1. children' \in [Slots -> Entry \cup {Free}]
    <3>1. children' = [i \in Slots |-> children'[i]] BY DEF handle_sigchld
    <3> QED BY <1>2, <1>4, <3>1
  <2>2. early' \subseteq Pids BY <1>1 DEF handle_sigchld, TypeOK
  <2>3. procs' \in [Pids -> {"unused", "running", "zombie", "reaped"}] BY DEF handle_sigchld, TypeOK
  <2> QED BY <2>1, <2>2, <2>3
          DEF handle_sigchld, TypeOK, Assigned, Piped, Forked, FdIds, Ways, Slots, StreamIds
<1>9. StreamsApart'
  BY <1>3, <1>5 DEF handle_sigchld, StreamsApart, StreamsOf, UsedStreams, StreamIds
<1>10. FdsApart'
  <2>1. {StreamFds(i) : i \in Taken}' = {StreamFds(i) : i \in Taken} BY <1>5, <1>6
  <2> QED BY <1>5, <1>6, <1>7, <2>1 DEF handle_sigchld, FdsApart
<1>11. SpawnHolds' BY <1>3, <1>5, <1>6, <1>7 DEF handle_sigchld, SpawnHolds
<1>12. \A p \in Pids : procs'[p] = (IF p \in Found THEN "reaped" ELSE procs[p])
  BY DEF handle_sigchld
<1>13. /\ \A i \in Taken : children[i].child # NoPid => children[i].child \in Pids
       /\ spawn.at = "forked" => spawn.pid \in Pids
       /\ \A r \in reports : r.pid \in Pids
  BY TakenEntry, SpawnShape DEF TypeOK, Forked
<1>14. PidsApart'
  <2>1. \A p \in Pids : procs[p] # "unused" => procs'[p] # "unused" BY <1>12
  <2>2. UNCHANGED <<reports, spawn>> BY DEF handle_sigchld
  <2>3. \A i, j \in Taken : i # j /\ children'[i].child = children'[j].child => children'[i].child = NoPid
    BY <1>3 DEF PidsApart
  <2>4. \A i \in Taken : children'[i].child # NoPid =>
          /\ procs'[children'[i].child] # "unused"
          /\ spawn'.at = "forked" => spawn'.pid # children'[i].child
          /\ \A r \in reports' : r.pid # children'[i].child
    BY <1>3, <1>13, <2>1, <2>2 DEF PidsApart
  <2>5. spawn'.at = "forked" => procs'[spawn'.pid] # "unused" /\ \A r \in reports' : r.pid # spawn'.pid
    BY <1>13, <2>1, <2>2 DEF PidsApart
  <2> QED BY <1>5, <2>3, <2>4, <2>5 DEF PidsApart
<1>15. EndsNoted'
  <2>1. NoPid \notin Found BY <1>1, ChildProcsAssumption
  <2>2. \A i \in Taken : children'[i].status = TERMINATED_CHILD =>
          /\ children'[i].child # NoPid
          /\ procs'[children'[i].child] = "reaped" /\ children'[i].result = ended'[children'[i].child]
    BY <1>3, <1>12, <1>13, <2>1 DEF handle_sigchld, EndsNoted
  <2>3. \A i \in Taken : children'[i].child # NoPid /\ procs'[children'[i].child] = "reaped" =>
          children'[i].status = TERMINATED_CHILD \/ children'[i].child \in early'
    BY <1>3, <1>12, <1>13 DEF handle_sigchld, EndsNoted
  <2>4. spawn.at = "forked" /\ procs'[spawn.pid] = "reaped" => spawn.pid \in early'
    <3> SUFFICES ASSUME spawn.at = "forked", procs'[spawn.pid] = "reaped" PROVE spawn.pid \in early'
      OBVIOUS
    <3>1. CASE spawn.pid \in Found
      <4>1. \A i \in Slots : children[i] = Free \/ children[i].child # spawn.pid
        <5> SUFFICES ASSUME NEW i \in Taken, children[i].child = spawn.pid PROVE FALSE BY DEF Taken
        <5>1. children[i].child # NoPid BY <2>1, <3>1
        <5> QED BY <5>1 DEF PidsApart
      <4> QED BY <3>1, <4>1 DEF handle_sigchld
    <3>2. CASE spawn.pid \notin Found BY <1>12, <1>13, <3>2 DEF handle_sigchld, EndsNoted
    <3> QED BY <3>1, <3>2
  <2>5. \A r \in reports : procs'[r.pid] = "reaped" /\ r.result = ended'[r.pid]
    BY <1>12, <1>13 DEF handle_sigchld, EndsNoted
  <2> QED BY <1>5, <2>2, <2>3, <2>4, <2>5 DEF handle_sigchld, EndsNoted
<1>16. EntriesAccounted'
  <2>1. UNCHANGED <<leaked, spawn>> BY DEF handle_sigchld
  <2>2. \A i \in Taken : children'[i].child # NoPid \/ (~Idle /\ spawn.slot = i) \/ i \in leaked.slots
    BY <1>3 DEF EntriesAccounted
  <2>3. \A p \in Pids : procs'[p] = "running" =>
          (spawn.at = "forked" /\ spawn.pid = p) \/ \E i \in Taken : children'[i].child = p
    BY <1>3, <1>12 DEF EntriesAccounted
  <2> QED BY <1>5, <1>7, <2>1, <2>2, <2>3 DEF EntriesAccounted
<1> QED BY <1>8, <1>9, <1>10, <1>11, <1>14, <1>15, <1>16

-----------------------------------------------------------------------------
(* A spawn that gives up leaves its entry behind, without a process.         *)
LEMMA GivesUpIInv ==
  ASSUME IInv, NEW open \in SUBSET FdIds, spawn.at = "assigned", GivesUp(open),
         open \cap fds = {}, fds' = fds \cup open,
         UNCHANGED <<children, streams, procs, ended, pending, reports, early>>
  PROVE  IInv'
<1> USE DEF IInv
<1>1. Taken' = Taken BY DEF Taken, Slots
<1>2. \A i \in Taken : StreamFds(i)' = StreamFds(i) BY DEF StreamFds
<1>3. /\ InSpawn = {} /\ ~Idle /\ spawn.slot \in Slots /\ spawn' = NoSpawn
      /\ leaked'.slots = leaked.slots \cup {spawn.slot} /\ leaked'.fds = leaked.fds \cup open
  BY Holds, SpawnShape DEF GivesUp
<1>4. Idle' /\ InSpawn' = {} /\ spawn'.at = "none" BY <1>3 DEF Idle, NoSpawn, InSpawn
<1>5. TypeOK'
  BY <1>3 DEF GivesUp, TypeOK, NoSpawn, Entry, FdIds, Slots, StreamIds, Ways
<1>6. StreamsApart' BY <1>1 DEF StreamsApart, StreamsOf, UsedStreams, StreamIds
<1>7. FdsApart'
  <2>1. {StreamFds(i) : i \in Taken}' = {StreamFds(i) : i \in Taken} BY <1>1, <1>2
  <2>2. \A i \in Taken : StreamFds(i) \cap open = {} BY DEF FdsApart
  <2>3. \A i \in Taken : StreamFds(i) \cap (leaked'.fds \cup {}) = {} BY <1>3, <2>2 DEF FdsApart
  <2>4. fds' = leaked'.fds \cup {} \cup UNION {StreamFds(i) : i \in Taken} BY <1>3 DEF FdsApart
  <2> QED BY <1>1, <1>2, <1>4, <2>1, <2>3, <2>4 DEF FdsApart
<1>8. SpawnHolds' BY <1>4 DEF SpawnHolds
<1>9. PidsApart' BY <1>1, <1>4 DEF PidsApart
<1>10. EndsNoted' BY <1>1, <1>4 DEF EndsNoted
<1>11. EntriesAccounted' BY <1>1, <1>3, <1>4 DEF EntriesAccounted
<1> QED BY <1>5, <1>6, <1>7, <1>8, <1>9, <1>10, <1>11

LEMMA BadArgumentsIInv == ASSUME IInv, BadArguments PROVE IInv'
<1>1. fds' = fds \cup {} /\ {} \cap fds = {} /\ {} \in SUBSET FdIds BY DEF BadArguments
<1> QED BY <1>1, GivesUpIInv DEF BadArguments

(* A spawn that holds no process comes to hold new descriptors.              *)
LEMMA SpawnGoesOn ==
  ASSUME IInv, ~Idle, ~Idle', spawn'.slot = spawn.slot, spawn'.at # "forked", spawn.at # "forked",
         UNCHANGED <<children, streams, procs, ended, pending, reports, early, leaked>>,
         NEW new, new \subseteq FdIds, new \cap fds = {}, fds' = fds \cup new,
         InSpawn = {}, InSpawn' = new, TypeOK',
         spawn'.at = "piped" => {spawn'.rd, spawn'.wr} \cap spawn'.close = {}
  PROVE  IInv'
<1> USE DEF IInv
<1>1. Taken' = Taken BY DEF Taken, Slots
<1>2. \A i \in Taken : StreamFds(i)' = StreamFds(i) BY DEF StreamFds
<1>3. StreamsApart' BY <1>1 DEF StreamsApart, StreamsOf, UsedStreams, StreamIds
<1>4. FdsApart'
  <2>1. {StreamFds(i) : i \in Taken}' = {StreamFds(i) : i \in Taken} BY <1>1, <1>2
  <2>2. \A i \in Taken : StreamFds(i) \cap new = {} BY DEF FdsApart
  <2>3. leaked.fds \cap new = {} BY DEF FdsApart
  <2>4. fds' = leaked.fds \cup new \cup UNION {StreamFds(i) : i \in Taken} BY DEF FdsApart
  <2> QED BY <1>1, <1>2, <2>1, <2>2, <2>3, <2>4 DEF FdsApart
<1>5. SpawnHolds' BY <1>1, <1>2 DEF SpawnHolds
<1>6. PidsApart' BY <1>1 DEF PidsApart
<1>7. EndsNoted' BY <1>1 DEF EndsNoted
<1>8. EntriesAccounted' BY <1>1 DEF EntriesAccounted
<1> QED BY <1>3, <1>4, <1>5, <1>6, <1>7, <1>8

LEMMA PipesIInv == ASSUME IInv, Pipes PROVE IInv'
<1> DEFINE a == LowestFd(FreeFds)
           b == LowestFd(FreeFds \ {a})
           c == LowestFd(FreeFds \ {a, b})
           d == LowestFd(FreeFds \ {a, b, c})
           left == Cardinality(FreeFds)
<1>1. IsFiniteSet(FreeFds) /\ FreeFds \in SUBSET Nat /\ FreeFds \subseteq FdIds /\ FreeFds \cap fds = {}
  BY FdTypes DEF IInv
<1>2. left \in Nat BY <1>1, FS_CardinalityType
<1>3. spawn.at = "assigned" /\ spawn \in Assigned /\ ~Idle /\ InSpawn = {}
  BY SpawnShape, Holds DEF Pipes, IInv
<1>4. ASSUME left >= 4,
             spawn' = [at |-> "piped", kind |-> spawn.kind, slot |-> spawn.slot,
                       managed |-> spawn.managed, rd |-> c, wr |-> b, close |-> {a, d}],
             fds' = fds \cup {a, b, c, d}, leaked' = leaked
      PROVE  IInv'
  <2>1. /\ a \in FreeFds /\ b \in FreeFds /\ c \in FreeFds /\ d \in FreeFds
        /\ a # b /\ a # c /\ a # d /\ b # c /\ b # d /\ c # d
    BY <1>1, <1>4, FourLeft DEF LowestFd
  <2> HIDE DEF a, b, c, d
  <2>2. {a, b, c, d} \subseteq FdIds /\ {a, b, c, d} \cap fds = {} BY <1>1, <2>1
  <2>3. spawn' \in Piped BY <1>3, <1>4, <2>2 DEF Assigned, Piped, FdIds, Slots
  <2>4. TypeOK'
    BY <1>4, <2>2, <2>3 DEF Pipes, IInv, TypeOK, Assigned, Piped, Forked, Entry, FdIds, Slots, StreamIds, Ways
  <2>5. InSpawn' = {a, b, c, d} BY <1>4 DEF InSpawn
  <2>6. ~Idle' /\ spawn'.at = "piped" /\ spawn'.slot = spawn.slot BY <1>4 DEF Idle, NoSpawn
  <2>7. {spawn'.rd, spawn'.wr} \cap spawn'.close = {} BY <1>4, <2>1
  <2> QED BY <1>3, <1>4, <2>2, <2>4, <2>5, <2>6, <2>7, SpawnGoesOn DEF Pipes
<1>5. ASSUME left \in {2, 3}, fds' = fds \cup {a, b}, GivesUp({a, b}) PROVE IInv'
  <2>1. a \in FreeFds /\ b \in FreeFds BY <1>1, <1>2, <1>5, TwoLeft DEF LowestFd
  <2> HIDE DEF a, b
  <2>2. {a, b} \in SUBSET FdIds /\ {a, b} \cap fds = {} BY <1>1, <2>1
  <2> QED BY <1>3, <1>5, <2>2, GivesUpIInv DEF Pipes
<1>6. ASSUME UNCHANGED fds, GivesUp({}) PROVE IInv'
  <2>1. fds' = fds \cup {} /\ {} \cap fds = {} /\ {} \in SUBSET FdIds BY <1>6
  <2> QED BY <1>3, <1>6, <2>1, GivesUpIInv DEF Pipes
<1> QED BY <1>4, <1>5, <1>6 DEF Pipes

-----------------------------------------------------------------------------
(* An entry is released: its streams are free again, and the other entries   *)
(* keep theirs.                                                              *)
LEMMA Released ==
  ASSUME IInv, NEW i \in Taken,
         children' = [children EXCEPT ![i] = Free], streams' = Freed(children[i], streams)
  PROVE  /\ Taken' = Taken \ {i}
         /\ \A j \in Taken \ {i} : children'[j] = children[j] /\ StreamFds(j)' = StreamFds(j)
         /\ StreamsApart'
         /\ children' \in [Slots -> Entry \cup {Free}]
         /\ streams' \in [StreamIds -> FdIds \cup {-1, NoStream}]
<1> USE DEF IInv
<1>1. i \in Slots BY DEF Taken
<1>2. /\ children' \in [Slots -> Entry \cup {Free}]
      /\ streams' \in [StreamIds -> FdIds \cup {-1, NoStream}]
  BY <1>1 DEF Freed, TypeOK
<1>3. \A j \in Slots : children'[j] = IF j = i THEN Free ELSE children[j] BY <1>1 DEF TypeOK
<1>4. Taken' = Taken \ {i}
  <2>1. Taken' = {j \in Slots : children'[j] # Free} BY DEF Taken, Slots
  <2> QED BY <1>3, <2>1 DEF Taken
<1>5. \A s \in StreamIds : streams'[s] = IF s \in StreamsOf(children[i]) THEN NoStream ELSE streams[s]
  BY DEF Freed
<1>6. ASSUME NEW j \in Taken, j # i
      PROVE  /\ children'[j] = children[j]
             /\ streams'[children[j].rd] = streams[children[j].rd]
             /\ streams'[children[j].wr] = streams[children[j].wr]
  <2>1. j \in Slots /\ children[j].rd \in StreamIds /\ children[j].wr \in StreamIds BY TakenEntry
  <2>2. children[j].rd \notin StreamsOf(children[i]) /\ children[j].wr \notin StreamsOf(children[i])
    BY <1>6 DEF StreamsApart, StreamsOf
  <2> QED BY <1>3, <1>5, <1>6, <2>1, <2>2
<1>7. \A j \in Taken \ {i} : StreamFds(j)' = StreamFds(j) BY <1>6 DEF StreamFds
<1>8. StreamsApart'
  <2>1. \A j \in Taken \ {i} : /\ StreamsOf(children'[j]) \subseteq {s \in StreamIds : streams'[s] # NoStream}
                               /\ children'[j].rd # children'[j].wr
    BY <1>6 DEF StreamsApart, StreamsOf, UsedStreams
  <2>2. \A j, k \in Taken \ {i} : j # k => StreamsOf(children'[j]) \cap StreamsOf(children'[k]) = {}
    BY <1>6 DEF StreamsApart
  <2> QED BY <1>4, <2>1, <2>2 DEF StreamsApart, UsedStreams, StreamIds, StreamsOf
<1> QED BY <1>2, <1>4, <1>6, <1>7, <1>8

(* The pid that fork hands out has been nowhere before.                      *)
LEMMA NewPid ==
  ASSUME IInv, Unused # {}
  PROVE  LET p == Min(Unused)
         IN /\ p \in Pids /\ procs[p] = "unused"
            /\ \A i \in Taken : children[i].child # p
            /\ \A r \in reports : r.pid # p
<1> DEFINE p == Min(Unused)
<1>1. Unused \in SUBSET Nat BY ChildProcsAssumption DEF Unused
<1>2. p \in Unused BY <1>1, MinOfNaturals
<1> HIDE DEF p
<1>3. p \in Pids /\ procs[p] = "unused" /\ p # NoPid BY <1>2, ChildProcsAssumption DEF Unused
<1>4. \A i \in Taken : children[i].child # p BY <1>3 DEF IInv, PidsApart
<1>5. \A r \in reports : r.pid # p BY <1>3 DEF IInv, EndsNoted
<1> QED BY <1>3, <1>4, <1>5 DEF p

(* The spawn gets its process: descriptors of the spawn may be closed and new*)
(* ones opened.                                                              *)
LEMMA SpawnForks ==
  ASSUME IInv, ~Idle, spawn.at # "forked", spawn'.at = "forked", spawn'.slot = spawn.slot, ~Idle',
         Unused # {}, spawn'.pid = Min(Unused), procs' = [procs EXCEPT ![Min(Unused)] = "running"],
         UNCHANGED <<children, streams, ended, pending, reports, early, leaked>>,
         TypeOK', InSpawn' = {spawn'.rd, spawn'.wr},
         NEW new, NEW gone, new \cap fds = {}, gone \subseteq InSpawn, new \cap gone = {},
         InSpawn' = (InSpawn \cup new) \ gone, fds' = (fds \cup new) \ gone
  PROVE  IInv'
<1> USE DEF IInv
<1> DEFINE p == Min(Unused)
<1>p. /\ p \in Pids /\ procs[p] = "unused"
      /\ \A i \in Taken : children[i].child # p
      /\ \A r \in reports : r.pid # p
  BY NewPid
<1> HIDE DEF p
<1>1. Taken' = Taken BY DEF Taken, Slots
<1>2. \A i \in Taken : StreamFds(i)' = StreamFds(i) BY DEF StreamFds
<1>3. \A q \in Pids : procs'[q] = IF q = p THEN "running" ELSE procs[q] BY DEF p, TypeOK
<1>4. spawn'.pid = p BY DEF p
<1>5. StreamsApart' BY <1>1 DEF StreamsApart, StreamsOf, UsedStreams, StreamIds
<1>6. FdsApart'
  <2>1. {StreamFds(i) : i \in Taken}' = {StreamFds(i) : i \in Taken} BY <1>1, <1>2
  <2>3. \A i \in Taken : StreamFds(i) \cap (leaked.fds \cup InSpawn') = {} BY DEF FdsApart
  <2>4. leaked.fds \cap InSpawn' = {} BY DEF FdsApart
  <2>5. fds' = leaked.fds \cup InSpawn' \cup UNION {StreamFds(i) : i \in Taken} BY DEF FdsApart
  <2> QED BY <1>1, <1>2, <2>1, <2>3, <2>4, <2>5 DEF FdsApart
<1>7. SpawnHolds' BY <1>1, <1>2 DEF SpawnHolds
<1>8. \A i \in Taken : children[i].child # NoPid => children[i].child \in Pids BY TakenEntry
<1>9. \A r \in reports : r.pid \in Pids BY DEF TypeOK
<1>10. PidsApart' BY <1>p, <1>1, <1>3, <1>4, <1>8, <1>9 DEF PidsApart
<1>11. EndsNoted' BY <1>p, <1>1, <1>3, <1>4, <1>8, <1>9 DEF EndsNoted
<1>12. EntriesAccounted' BY <1>p, <1>1, <1>3, <1>4 DEF EntriesAccounted
<1> QED BY <1>5, <1>6, <1>7, <1>10, <1>11, <1>12

LEMMA ForkIInv == ASSUME IInv, Fork PROVE IInv'
<1> USE DEF IInv
<1> DEFINE slot == spawn.slot
<1>1. /\ spawn.at = "piped" /\ spawn \in Piped /\ ~Idle /\ InSpawn = {spawn.rd, spawn.wr} \cup spawn.close
      /\ slot \in Taken /\ children[slot].child = NoPid /\ StreamFds(slot) = {}
  BY SpawnShape, Holds DEF Fork, SpawnHolds
<1>2. ASSUME children' = [children EXCEPT ![slot] = Free], streams' = Freed(children[slot], streams),
             fds' = fds \ ({spawn.rd, spawn.wr} \cup spawn.close), spawn' = NoSpawn, UNCHANGED procs,
             UNCHANGED <<ended, pending, reports, early, leaked>>
      PROVE  IInv'
  <2>1. /\ Taken' = Taken \ {slot}
        /\ \A j \in Taken \ {slot} : children'[j] = children[j] /\ StreamFds(j)' = StreamFds(j)
        /\ StreamsApart'
        /\ children' \in [Slots -> Entry \cup {Free}]
        /\ streams' \in [StreamIds -> FdIds \cup {-1, NoStream}]
    BY <1>1, <1>2, Released
  <2>2. Idle' /\ InSpawn' = {} /\ spawn'.at = "none" BY <1>2 DEF Idle, NoSpawn, InSpawn
  <2>3. TypeOK'
    BY <1>2, <2>1 DEF TypeOK, FdIds, Slots, StreamIds, Ways, Entry
  <2>4. FdsApart'
    <3>1. {StreamFds(i) : i \in Taken}' = {StreamFds(i) : i \in Taken \ {slot}} BY <2>1
    <3>2. UNION {StreamFds(i) : i \in Taken} = UNION {StreamFds(i) : i \in Taken \ {slot}} BY <1>1
    <3>3. fds' = leaked.fds \cup {} \cup UNION {StreamFds(i) : i \in Taken \ {slot}}
      BY <1>1, <1>2, <3>2 DEF FdsApart
    <3> QED BY <1>2, <2>1, <2>2, <3>1, <3>3 DEF FdsApart
  <2>5. SpawnHolds' BY <2>2 DEF SpawnHolds
  <2>6. PidsApart' BY <1>2, <2>1, <2>2 DEF PidsApart
  <2>7. EndsNoted' BY <1>2, <2>1, <2>2 DEF EndsNoted
  <2>8. EntriesAccounted'
    <3>1. \A i \in Taken \ {slot} : children[i].child # NoPid \/ i \in leaked.slots
      BY DEF EntriesAccounted
    <3>2. \A p \in Pids : procs[p] = "running" => \E i \in Taken : children[i].child = p
      BY <1>1 DEF EntriesAccounted
    <3>3. NoPid \notin Pids BY ChildProcsAssumption
    <3>4. \A p \in Pids : procs[p] = "running" => \E i \in Taken \ {slot} : children[i].child = p
      BY <1>1, <3>2, <3>3
    <3> QED BY <1>2, <2>1, <3>1, <3>4 DEF EntriesAccounted
  <2> QED BY <2>1, <2>3, <2>4, <2>5, <2>6, <2>7, <2>8
<1>3. ASSUME Unused # {}, procs' = [procs EXCEPT ![Min(Unused)] = "running"], fds' = fds \ spawn.close,
             spawn' = [at |-> "forked", kind |-> spawn.kind, slot |-> spawn.slot, managed |-> spawn.managed,
                       rd |-> spawn.rd, wr |-> spawn.wr, pid |-> Min(Unused)],
             UNCHANGED <<children, streams>>, UNCHANGED <<ended, pending, reports, early, leaked>>
      PROVE  IInv'
  <2>1. Min(Unused) \in Pids BY <1>3, NewPid
  <2>2. spawn' \in Forked BY <1>1, <1>3, <2>1 DEF Piped, Forked
  <2>3. ~Idle' /\ spawn'.at = "forked" /\ spawn'.slot = spawn.slot /\ spawn'.pid = Min(Unused)
    BY <1>3 DEF Idle, NoSpawn
  <2>4. InSpawn' = {spawn.rd, spawn.wr} /\ spawn'.rd = spawn.rd /\ spawn'.wr = spawn.wr
    BY <1>3 DEF InSpawn
  <2>5. TypeOK'
    BY <1>3, <2>1, <2>2 DEF TypeOK, Piped, Forked, Assigned, FdIds, Slots, StreamIds, Ways, Entry
  <2>6. /\ spawn.close \subseteq InSpawn /\ InSpawn' = (InSpawn \cup {}) \ spawn.close
        /\ fds' = (fds \cup {}) \ spawn.close
    BY <1>1, <1>3, <2>4 DEF FdsApart
  <2>7. spawn.at # "forked" /\ {} \cap fds = {} /\ {} \cap spawn.close = {} BY <1>1
  <2> QED BY <1>1, <1>3, <2>3, <2>4, <2>5, <2>6, <2>7, SpawnForks
<1> QED BY <1>2, <1>3 DEF Fork

LEMMA ForkPtyIInv == ASSUME IInv, ForkPty PROVE IInv'
<1> USE DEF IInv
<1>1. spawn.at = "assigned" /\ spawn \in Assigned /\ ~Idle /\ InSpawn = {}
  BY SpawnShape, Holds DEF ForkPty
<1>2. ASSUME GivesUp({}), UNCHANGED <<procs, fds>>, UNCHANGED <<children, streams, ended, pending, reports, early>>
      PROVE  IInv'
  <2>1. fds' = fds \cup {} /\ {} \cap fds = {} /\ {} \in SUBSET FdIds BY <1>2
  <2> QED BY <1>1, <1>2, <2>1, GivesUpIInv
<1> DEFINE fd == LowestFd(FreeFds)
<1>3. ASSUME Unused # {}, FreeFds # {},
             procs' = [procs EXCEPT ![Min(Unused)] = "running"], fds' = fds \cup {fd},
             spawn' = [at |-> "forked", kind |-> "shell", slot |-> spawn.slot, managed |-> spawn.managed,
                       rd |-> fd, wr |-> fd, pid |-> Min(Unused)],
             UNCHANGED leaked, UNCHANGED <<children, streams, ended, pending, reports, early>>
      PROVE  IInv'
  <2>1. fd \in FdIds /\ fd \notin fds
    BY <1>3, FdTypes, MinOfNaturals DEF LowestFd
  <2>2. Min(Unused) \in Pids BY <1>3, NewPid
  <2> HIDE DEF fd
  <2>3. spawn' \in Forked BY <1>1, <1>3, <2>1, <2>2 DEF Assigned, Forked, Kinds
  <2>4. ~Idle' /\ spawn'.at = "forked" /\ spawn'.slot = spawn.slot /\ spawn'.pid = Min(Unused)
    BY <1>3 DEF Idle, NoSpawn
  <2>5. InSpawn' = {fd} /\ spawn'.rd = fd /\ spawn'.wr = fd BY <1>3 DEF InSpawn
  <2>6. TypeOK'
    BY <1>3, <2>1, <2>2, <2>3 DEF TypeOK, Piped, Forked, Assigned, FdIds, Slots, StreamIds, Ways, Entry
  <2>7. /\ {fd} \cap fds = {} /\ {} \subseteq InSpawn /\ {fd} \cap {} = {} /\ spawn.at # "forked"
        /\ InSpawn' = (InSpawn \cup {fd}) \ {} /\ fds' = (fds \cup {fd}) \ {}
    BY <1>1, <1>3, <2>1, <2>5
  <2> QED BY <1>1, <1>3, <2>4, <2>5, <2>6, <2>7, SpawnForks
<1> QED BY <1>2, <1>3 DEF ForkPty

(* The parent enters the child: what the spawn held becomes the entry's.     *)
LEMMA EnteredIInv == ASSUME IInv, Entered PROVE IInv'
<1> USE DEF IInv
<1>0. PICK slot \in Taken : slot = spawn.slot
  BY SpawnShape DEF Entered, SpawnHolds
<1> DEFINE c == children[slot]
<1>1. /\ spawn.at = "forked" /\ spawn \in Forked /\ ~Idle /\ InSpawn = {spawn.rd, spawn.wr}
      /\ slot \in Taken /\ c.child = NoPid /\ StreamFds(slot) = {}
      /\ spawn.pid \in Pids /\ spawn.rd \in FdIds /\ spawn.wr \in FdIds /\ spawn.managed \in BOOLEAN
  BY <1>0, SpawnShape, Holds DEF Entered, SpawnHolds, Forked
<1>2. slot \in Slots /\ c \in Entry /\ c.rd \in StreamIds /\ c.wr \in StreamIds /\ c.rd # c.wr
  BY <1>1, TakenEntry DEF StreamsApart
<1>3. spawn.pid # NoPid BY <1>1, ChildProcsAssumption
<1>4. spawn' = NoSpawn /\ Idle' /\ InSpawn' = {} /\ spawn'.at = "none"
  BY DEF Entered, Idle, NoSpawn, InSpawn
<1>5. UNCHANGED <<fds, procs, ended, pending, reports, early, leaked>> BY DEF Entered
<1>6. /\ children' = [children EXCEPT ![slot] = children'[slot]]
      /\ children'[slot] \in Entry /\ children'[slot].child = spawn.pid
      /\ children'[slot].rd = c.rd /\ children'[slot].wr = c.wr
      /\ children'[slot].status = c.status /\ children'[slot].result = c.result
  <2>1. children' = [children EXCEPT ![slot] = [[c EXCEPT !.child = spawn.pid] EXCEPT !.managed = spawn.managed]]
    BY <1>0, <1>2 DEF Entered, TypeOK
  <2>2. children'[slot] = [[c EXCEPT !.child = spawn.pid] EXCEPT !.managed = spawn.managed]
    BY <1>2, <2>1 DEF TypeOK
  <2>3. children' = [children EXCEPT ![slot] = children'[slot]] BY <2>1, <2>2
  <2>4. /\ children'[slot] \in Entry /\ children'[slot].child = spawn.pid
        /\ children'[slot].rd = c.rd /\ children'[slot].wr = c.wr
        /\ children'[slot].status = c.status /\ children'[slot].result = c.result
    BY <1>1, <1>2, <2>2 DEF Entry
  <2> QED BY <2>3, <2>4
<1>7. \A j \in Slots : j # slot => children'[j] = children[j] BY <1>6 DEF TypeOK
<1>8. streams' = [streams EXCEPT ![c.rd] = spawn.rd, ![c.wr] = spawn.wr] BY <1>0 DEF Entered
<1>9. /\ streams'[c.rd] = spawn.rd /\ streams'[c.wr] = spawn.wr
      /\ \A s \in StreamIds : s \notin {c.rd, c.wr} => streams'[s] = streams[s]
      /\ streams' \in [StreamIds -> FdIds \cup {-1, NoStream}]
  BY <1>1, <1>2, <1>8 DEF TypeOK
<1> HIDE DEF c
<1>10. Taken' = Taken
  <2>1. Taken' = {j \in Slots : children'[j] # Free} BY DEF Taken, Slots
  <2> QED BY <1>1, <1>6, <1>7, <2>1, EntryNotFree DEF Taken
<1>11. \A j \in Taken : children'[j].rd = children[j].rd /\ children'[j].wr = children[j].wr
  BY <1>6, <1>7, TakenEntry DEF c
<1>12. ASSUME NEW j \in Taken, j # slot PROVE StreamFds(j)' = StreamFds(j)
  <2>1. children[j].rd \in StreamIds /\ children[j].wr \in StreamIds BY TakenEntry
  <2>2. {children[j].rd, children[j].wr} \cap {c.rd, c.wr} = {}
    BY <1>1, <1>12 DEF StreamsApart, StreamsOf, c
  <2> QED BY <1>9, <1>11, <2>1, <2>2 DEF StreamFds
<1>13. StreamFds(slot)' = {spawn.rd, spawn.wr}
  BY <1>1, <1>6, <1>9, FdTypes DEF StreamFds
<1>14. TypeOK'
  <2>1. children' \in [Slots -> Entry \cup {Free}] BY <1>2, <1>6 DEF TypeOK
  <2> QED BY <1>4, <1>5, <1>9, <2>1 DEF TypeOK, FdIds, Slots, StreamIds, Ways, Entry
<1>15. StreamsApart'
  <2>1. \A j \in Taken : /\ StreamsOf(children'[j]) \subseteq {s \in StreamIds : streams'[s] # NoStream}
                         /\ children'[j].rd # children'[j].wr
    BY <1>1, <1>9, <1>11, FdTypes DEF StreamsApart, StreamsOf, UsedStreams
  <2>2. \A j, k \in Taken : j # k => StreamsOf(children'[j]) \cap StreamsOf(children'[k]) = {}
    BY <1>11 DEF StreamsApart, StreamsOf
  <2> QED BY <1>10, <2>1, <2>2 DEF StreamsApart, UsedStreams, StreamIds, StreamsOf
<1>16. FdsApart'
  <2>1. \A j, k \in Taken : j # k => StreamFds(j)' \cap StreamFds(k)' = {}
    BY <1>1, <1>12, <1>13 DEF FdsApart
  <2>2. \A j \in Taken : StreamFds(j)' \cap leaked.fds = {}
    BY <1>1, <1>12, <1>13 DEF FdsApart
  <2>3. UNION {StreamFds(j)' : j \in Taken} = InSpawn \cup UNION {StreamFds(j) : j \in Taken}
    <3>1. \A x : x \in UNION {StreamFds(j)' : j \in Taken} <=> \E j \in Taken : x \in StreamFds(j)' OBVIOUS
    <3>2. \A x : x \in UNION {StreamFds(j) : j \in Taken} <=> \E j \in Taken : x \in StreamFds(j) OBVIOUS
    <3> QED BY <1>1, <1>12, <1>13, <3>1, <3>2
  <2> QED BY <1>4, <1>5, <1>10, <2>1, <2>2, <2>3 DEF FdsApart
<1>17. SpawnHolds' BY <1>4 DEF SpawnHolds
<1>18. \A j \in Taken : j # slot => children'[j] = children[j] BY <1>7, TakenEntry
<1>19. PidsApart'
  <2>1. \A i, j \in Taken : i # j /\ children'[i].child = children'[j].child => children'[i].child = NoPid
    BY <1>1, <1>3, <1>6, <1>18 DEF PidsApart
  <2>2. \A i \in Taken : children'[i].child # NoPid =>
          procs[children'[i].child] # "unused" /\ \A r \in reports : r.pid # children'[i].child
    BY <1>0, <1>1, <1>6, <1>18 DEF PidsApart
  <2> QED BY <1>4, <1>5, <1>10, <2>1, <2>2 DEF PidsApart
<1>20. EndsNoted'
  <2>1. c.status # TERMINATED_CHILD BY <1>1 DEF EndsNoted, c
  <2>2. \A i \in Taken : children'[i].status = TERMINATED_CHILD =>
          /\ children'[i].child # NoPid
          /\ procs[children'[i].child] = "reaped" /\ children'[i].result = ended[children'[i].child]
    BY <1>6, <1>18, <2>1 DEF EndsNoted
  <2>3. \A i \in Taken : children'[i].child # NoPid /\ procs[children'[i].child] = "reaped" =>
          children'[i].status = TERMINATED_CHILD \/ children'[i].child \in early
    BY <1>1, <1>6, <1>18 DEF EndsNoted
  <2> QED BY <1>4, <1>5, <1>10, <2>2, <2>3 DEF EndsNoted
<1>21. EntriesAccounted'
  <2>1. \A i \in Taken : children'[i].child # NoPid \/ i \in leaked.slots
    BY <1>0, <1>3, <1>6, <1>18 DEF EntriesAccounted
  <2>2. \A p \in Pids : procs[p] = "running" => \E i \in Taken : children'[i].child = p
    <3> SUFFICES ASSUME NEW p \in Pids, procs[p] = "running" PROVE \E i \in Taken : children'[i].child = p
      OBVIOUS
    <3>1. CASE p = spawn.pid BY <1>1, <1>6, <3>1
    <3>2. CASE p # spawn.pid
      <4>1. PICK i \in Taken : children[i].child = p BY <3>2 DEF EntriesAccounted
      <4>2. i # slot BY <1>1, <4>1, ChildProcsAssumption DEF c
      <4> QED BY <1>18, <4>1, <4>2
    <3> QED BY <3>1, <3>2
  <2> QED BY <1>5, <1>10, <2>1, <2>2 DEF EntriesAccounted
<1> QED BY <1>14, <1>15, <1>16, <1>17, <1>19, <1>20, <1>21

-----------------------------------------------------------------------------
(* Closing the streams of a child that has ended closes its descriptors and  *)
(* no others.                                                                *)
LEMMA ClosesItsOwn ==
  ASSUME IInv, Idle, NEW i \in Taken
  PROVE  fds \ ClosedBy(children[i], streams) = leaked.fds \cup UNION {StreamFds(j) : j \in Taken \ {i}}
<1> USE DEF IInv
<1>1. InSpawn = {} BY SpawnShape, Holds
<1>2. fds \cap ClosedBy(children[i], streams) = fds \cap StreamFds(i)
  <2>1. ClosedBy(children[i], streams) = {streams[children[i].rd], streams[children[i].wr]}
    BY DEF ClosedBy, StreamsOf
  <2>2. -1 \notin fds BY FdTypes DEF TypeOK
  <2> QED BY <2>1, <2>2 DEF StreamFds
<1>3. UNION {StreamFds(j) : j \in Taken} = StreamFds(i) \cup UNION {StreamFds(j) : j \in Taken \ {i}}
  OBVIOUS
<1>4. StreamFds(i) \cap UNION {StreamFds(j) : j \in Taken \ {i}} = {} BY DEF FdsApart
<1>5. StreamFds(i) \cap leaked.fds = {} BY DEF FdsApart
<1> QED BY <1>1, <1>2, <1>3, <1>4, <1>5 DEF FdsApart

(* assignChild releases the entry it takes, if it was a child's, and gives it*)
(* two streams that nobody has.                                              *)
LEMMA AssignIInv == ASSUME IInv, assignChild PROVE IInv'
<1> USE DEF IInv
<1>1. PICK kind \in Kinds, managed \in BOOLEAN :
        LET usable == {i \in Slots : Reusable(children[i])}
            i == Min(usable)
            old == children[i]
            st == IF old = Free THEN streams ELSE Freed(old, streams)
            rd == FirstStream(st)
            wr == Min(FreeStreams(st) \ {rd})
            enough == Cardinality(FreeStreams(st)) >= 2
        IN /\ usable # {}
           /\ fds' = IF old = Free THEN fds ELSE fds \ ClosedBy(old, streams)
           /\ streams' = IF enough THEN [st EXCEPT ![rd] = -1, ![wr] = -1] ELSE st
           /\ children' = [children EXCEPT ![i] =
                             IF enough THEN [status |-> ACTIVE_CHILD, child |-> NoPid, managed |-> TRUE,
                                             result |-> "none", rd |-> rd, wr |-> wr]
                             ELSE Free]
           /\ spawn' = IF enough THEN [at |-> "assigned", kind |-> kind, slot |-> i, managed |-> managed]
                       ELSE NoSpawn
  BY DEF assignChild, Kinds
<1>2. Idle /\ InSpawn = {} /\ spawn.at = "none" BY SpawnShape, Holds DEF assignChild
<1>3. UNCHANGED <<procs, ended, pending, reports, early, leaked>> BY DEF assignChild
<1> DEFINE usable == {j \in Slots : Reusable(children[j])}
<1>4. PICK i \in Slots : i = Min(usable) /\ Reusable(children[i])
  <2>1. usable \in SUBSET Nat BY ChildProcsAssumption DEF Slots
  <2>2. usable # {} BY <1>1
  <2> HIDE DEF usable
  <2>3. Min(usable) \in usable BY <2>1, <2>2, MinOfNaturals
  <2> QED BY <2>3 DEF usable
<1> DEFINE old == children[i]
           st == IF old = Free THEN streams ELSE Freed(old, streams)
           rd == FirstStream(st)
           wr == Min(FreeStreams(st) \ {rd})
           enough == Cardinality(FreeStreams(st)) >= 2
           entry == [status |-> ACTIVE_CHILD, child |-> NoPid, managed |-> TRUE,
                     result |-> "none", rd |-> rd, wr |-> wr]
<1>5. /\ fds' = IF old = Free THEN fds ELSE fds \ ClosedBy(old, streams)
      /\ streams' = IF enough THEN [st EXCEPT ![rd] = -1, ![wr] = -1] ELSE st
      /\ children' = [children EXCEPT ![i] = IF enough THEN entry ELSE Free]
      /\ spawn' = IF enough THEN [at |-> "assigned", kind |-> kind, slot |-> i, managed |-> managed] ELSE NoSpawn
  BY <1>1, <1>4
<1>6. enough => rd \in FreeStreams(st) /\ wr \in FreeStreams(st) /\ rd # wr
  <2>1. FreeStreams(st) \in SUBSET Nat /\ FreeStreams(st) \subseteq StreamIds
    BY ChildProcsAssumption DEF FreeStreams, StreamIds
  <2>2. IsFiniteSet(StreamIds) BY ChildProcsAssumption, FS_Interval DEF StreamIds
  <2>3. IsFiniteSet(FreeStreams(st)) BY <2>1, <2>2, FS_Subset
  <2> HIDE DEF st
  <2> QED BY <2>1, <2>3, TwoLeft DEF FirstStream
<1> HIDE DEF usable, rd, wr, enough
<1>7. old # Free => i \in Taken /\ old.status = TERMINATED_CHILD BY <1>4 DEF Taken, Reusable
<1>8. st \in [StreamIds -> FdIds \cup {-1, NoStream}] BY DEF TypeOK, Freed
<1>9. fds' = leaked.fds \cup UNION {StreamFds(j) : j \in Taken \ {i}}
  <2>1. CASE old = Free
    <3>1. Taken \ {i} = Taken BY <2>1 DEF Taken
    <3> QED BY <1>2, <1>5, <2>1, <3>1 DEF FdsApart
  <2>2. CASE old # Free BY <1>2, <1>5, <1>7, <2>2, ClosesItsOwn
  <2> QED BY <2>1, <2>2
<1>10. ASSUME NEW j \in Taken \ {i}
       PROVE  /\ children[j].rd \in StreamIds /\ children[j].wr \in StreamIds
              /\ st[children[j].rd] = streams[children[j].rd] /\ st[children[j].wr] = streams[children[j].wr]
              /\ st[children[j].rd] # NoStream /\ st[children[j].wr] # NoStream
  <2>1. children[j].rd \in StreamIds /\ children[j].wr \in StreamIds BY TakenEntry
  <2>2. streams[children[j].rd] # NoStream /\ streams[children[j].wr] # NoStream
    BY DEF StreamsApart, StreamsOf, UsedStreams
  <2>3. old # Free => StreamsOf(children[j]) \cap StreamsOf(old) = {} BY <1>7 DEF StreamsApart
  <2> QED BY <2>1, <2>2, <2>3 DEF Freed, StreamsOf
<1> HIDE DEF st
<1>11. \A s \in FreeStreams(st) : s \in StreamIds /\ st[s] = NoStream
  BY DEF FreeStreams, UsedStreams
<1>12. /\ streams' \in [StreamIds -> FdIds \cup {-1, NoStream}]
       /\ \A s \in StreamIds : st[s] # NoStream => streams'[s] = st[s]
       /\ enough => streams'[rd] = -1 /\ streams'[wr] = -1
  BY <1>5, <1>6, <1>8, <1>11
<1>13. \A j \in Slots : children'[j] = IF j = i THEN (IF enough THEN entry ELSE Free) ELSE children[j]
  BY <1>4, <1>5 DEF TypeOK
<1>14. enough => entry \in Entry /\ entry # Free
  BY <1>6, <1>11, EntryNotFree DEF Entry, Ways
<1>15. Taken' = (Taken \ {i}) \cup (IF enough THEN {i} ELSE {})
  <2>1. Taken' = {j \in Slots : children'[j] # Free} BY DEF Taken, Slots
  <2> HIDE DEF entry
  <2> QED BY <1>4, <1>13, <1>14, <2>1 DEF Taken
<1>16. \A j \in Taken \ {i} : children'[j] = children[j] /\ StreamFds(j)' = StreamFds(j)
  <2>1. \A j \in Taken \ {i} : children'[j] = children[j] BY <1>13 DEF Taken
  <2> QED BY <1>10, <1>12, <2>1 DEF StreamFds
<1>17. enough => /\ children'[i] = entry /\ children'[i].rd = rd /\ children'[i].wr = wr
                 /\ children'[i].child = NoPid /\ children'[i].status = ACTIVE_CHILD
  <2>1. entry.rd = rd /\ entry.wr = wr /\ entry.child = NoPid /\ entry.status = ACTIVE_CHILD
    OBVIOUS
  <2> HIDE DEF entry
  <2>2. enough => children'[i] = entry BY <1>4, <1>13
  <2> QED BY <2>1, <2>2
<1>18. TypeOK'
  <2>1. children' \in [Slots -> Entry \cup {Free}]
    <3> HIDE DEF entry
    <3> QED BY <1>4, <1>5, <1>14 DEF TypeOK
  <2>2. spawn' \in {NoSpawn} \cup Assigned BY <1>4, <1>5 DEF Assigned
  <2>3. fds' \subseteq FdIds BY <1>5 DEF TypeOK
  <2> QED BY <1>3, <1>12, <2>1, <2>2, <2>3
          DEF TypeOK, FdIds, Slots, StreamIds, Ways, Entry, Assigned, Piped, Forked, Kinds
<1>19. spawn'.at \in {"none", "assigned"} /\ InSpawn' = {}
  BY <1>5 DEF InSpawn, NoSpawn
<1>20. Idle' <=> ~enough BY <1>5 DEF Idle, NoSpawn
<1>21. StreamsApart'
  <2> DEFINE used == {s \in StreamIds : streams'[s] # NoStream}
  <2>1. \A j \in Taken \ {i} : StreamsOf(children'[j]) \subseteq used /\ children'[j].rd # children'[j].wr
    BY <1>10, <1>12, <1>16 DEF StreamsApart, StreamsOf
  <2>2. enough => StreamsOf(children'[i]) \subseteq used /\ children'[i].rd # children'[i].wr
    BY <1>6, <1>11, <1>12, <1>17, FdTypes DEF StreamsOf
  <2>3. \A j, k \in Taken \ {i} : j # k => StreamsOf(children'[j]) \cap StreamsOf(children'[k]) = {}
    BY <1>16 DEF StreamsApart
  <2>4. enough => \A j \in Taken \ {i} : StreamsOf(children'[j]) \cap StreamsOf(children'[i]) = {}
    BY <1>6, <1>10, <1>11, <1>16, <1>17 DEF StreamsOf
  <2>5. /\ \A j \in Taken' : StreamsOf(children'[j]) \subseteq used /\ children'[j].rd # children'[j].wr
        /\ \A j, k \in Taken' : j # k => StreamsOf(children'[j]) \cap StreamsOf(children'[k]) = {}
    BY <1>15, <2>1, <2>2, <2>3, <2>4
  <2> QED BY <2>5 DEF StreamsApart, UsedStreams, StreamIds, StreamsOf
<1>22. enough => StreamFds(i)' = {} BY <1>12, <1>17 DEF StreamFds
<1>23. FdsApart'
  <2>1. UNION {StreamFds(j)' : j \in Taken'} = UNION {StreamFds(j) : j \in Taken \ {i}}
    BY <1>15, <1>16, <1>22
  <2>2. fds' = leaked.fds \cup {} \cup UNION {StreamFds(j)' : j \in Taken'} BY <1>9, <2>1
  <2>3. \A j, k \in Taken' : j # k => StreamFds(j)' \cap StreamFds(k)' = {}
    BY <1>15, <1>16, <1>22 DEF FdsApart
  <2>4. \A j \in Taken' : StreamFds(j)' \cap leaked.fds = {}
    BY <1>15, <1>16, <1>22 DEF FdsApart
  <2> QED BY <1>3, <1>19, <2>2, <2>3, <2>4 DEF FdsApart
<1>24. SpawnHolds'
  <2>1. enough => spawn'.slot = i BY <1>5
  <2> QED BY <1>15, <1>17, <1>20, <1>22, <2>1 DEF SpawnHolds
<1>25. PidsApart'
  <2>1. \A j \in Taken' : children'[j].child # NoPid => j \in Taken /\ children'[j] = children[j]
    BY <1>15, <1>16, <1>17
  <2>2. \A j \in Taken' : children'[j].child # NoPid =>
          procs[children'[j].child] # "unused" /\ \A r \in reports : r.pid # children'[j].child
    BY <2>1 DEF PidsApart
  <2>3. \A j, k \in Taken' : j # k /\ children'[j].child = children'[k].child => children'[j].child = NoPid
    BY <2>1 DEF PidsApart
  <2> QED BY <1>3, <1>19, <2>2, <2>3 DEF PidsApart
<1>26. EndsNoted'
  <2>1. \A j \in Taken' : (j \in Taken /\ children'[j] = children[j])
                         \/ (children'[j].child = NoPid /\ children'[j].status # TERMINATED_CHILD)
    BY <1>15, <1>16, <1>17 DEF ACTIVE_CHILD, TERMINATED_CHILD
  <2>2. \A j \in Taken' : children'[j].status = TERMINATED_CHILD =>
          /\ children'[j].child # NoPid
          /\ procs[children'[j].child] = "reaped" /\ children'[j].result = ended[children'[j].child]
    BY <2>1 DEF EndsNoted
  <2>3. \A j \in Taken' : children'[j].child # NoPid /\ procs[children'[j].child] = "reaped" =>
          children'[j].status = TERMINATED_CHILD \/ children'[j].child \in early
    BY <2>1 DEF EndsNoted
  <2> QED BY <1>3, <1>19, <2>2, <2>3 DEF EndsNoted
<1>27. EntriesAccounted'
  <2>1. \A j \in Taken' : children'[j].child # NoPid \/ (~Idle' /\ spawn'.slot = j) \/ j \in leaked.slots
    BY <1>2, <1>5, <1>15, <1>16, <1>20 DEF EntriesAccounted
  <2>2. \A p \in Pids : procs[p] = "running" => \E j \in Taken' : children'[j].child = p
    <3> SUFFICES ASSUME NEW p \in Pids, procs[p] = "running" PROVE \E j \in Taken' : children'[j].child = p
      OBVIOUS
    <3>1. PICK j \in Taken : children[j].child = p BY <1>2 DEF EntriesAccounted
    <3>2. j # i BY <1>7, <3>1 DEF EndsNoted, Taken
    <3> QED BY <1>15, <1>16, <3>1, <3>2
  <2> QED BY <1>3, <2>1, <2>2 DEF EntriesAccounted
<1> QED BY <1>18, <1>21, <1>23, <1>24, <1>25, <1>26, <1>27

(* The parent is told of a child that has ended, and its entry is released.  *)
LEMMA ChildStatusIInv == ASSUME IInv, ichild_status PROVE IInv'
<1> USE DEF IInv
<1>1. Idle /\ InSpawn = {} /\ spawn.at = "none" /\ ToReport # {}
  BY SpawnShape, Holds DEF ichild_status
<1>2. PICK i \in Taken : i = Min(ToReport) /\ children[i].status = TERMINATED_CHILD
  <2>1. ToReport \in SUBSET Nat BY ChildProcsAssumption DEF ToReport, Slots
  <2>2. Min(ToReport) \in ToReport BY <1>1, <2>1, MinOfNaturals
  <2> QED BY <2>2 DEF ToReport, Taken
<1> DEFINE r == [pid |-> children[i].child, result |-> children[i].result]
<1>3. /\ reports' = reports \cup {r}
      /\ children' = [children EXCEPT ![i] = Free] /\ streams' = Freed(children[i], streams)
      /\ fds' = fds \ ClosedBy(children[i], streams)
      /\ UNCHANGED <<procs, ended, pending, spawn, early, leaked>>
  BY <1>2 DEF ichild_status, releaseChild
<1>4. /\ Taken' = Taken \ {i}
      /\ \A j \in Taken \ {i} : children'[j] = children[j] /\ StreamFds(j)' = StreamFds(j)
      /\ StreamsApart'
      /\ children' \in [Slots -> Entry \cup {Free}]
      /\ streams' \in [StreamIds -> FdIds \cup {-1, NoStream}]
  BY <1>3, Released
<1>5. /\ children[i].child \in Pids /\ children[i].child # NoPid /\ children[i].result \in Ways
      /\ procs[children[i].child] = "reaped" /\ children[i].result = ended[children[i].child]
  BY <1>2, TakenEntry DEF EndsNoted
<1>6. r.pid = children[i].child /\ r.result = children[i].result /\ r \in [pid : Pids, result : Ways]
  BY <1>5
<1> HIDE DEF r
<1>7. Idle' /\ InSpawn' = {} /\ spawn'.at = "none" BY <1>1, <1>3 DEF Idle, NoSpawn, InSpawn
<1>8. TypeOK'
  <2>1. reports' \subseteq [pid : Pids, result : Ways] BY <1>3, <1>6 DEF TypeOK
  <2>2. fds' \subseteq FdIds BY <1>3 DEF TypeOK
  <2>3. spawn' \in {NoSpawn} BY <1>1, <1>3 DEF Idle
  <2> QED BY <1>3, <1>4, <2>1, <2>2, <2>3 DEF TypeOK, FdIds, Slots, StreamIds, Ways, Entry
<1>9. FdsApart'
  <2>1. UNION {StreamFds(j)' : j \in Taken'} = UNION {StreamFds(j) : j \in Taken \ {i}} BY <1>4
  <2>2. fds' = leaked.fds \cup {} \cup UNION {StreamFds(j)' : j \in Taken'} BY <1>1, <1>3, <2>1, ClosesItsOwn
  <2> QED BY <1>3, <1>4, <1>7, <2>2 DEF FdsApart
<1>10. SpawnHolds' BY <1>7 DEF SpawnHolds
<1>11. PidsApart'
  <2>1. \A j \in Taken \ {i} : children[j].child # NoPid => children[j].child # r.pid
    BY <1>6 DEF PidsApart
  <2>2. \A j \in Taken' : children'[j].child # NoPid =>
          procs[children'[j].child] # "unused" /\ \A q \in reports' : q.pid # children'[j].child
    BY <1>3, <1>4, <2>1 DEF PidsApart
  <2>3. \A j, k \in Taken' : j # k /\ children'[j].child = children'[k].child => children'[j].child = NoPid
    BY <1>4 DEF PidsApart
  <2> QED BY <1>3, <1>7, <2>2, <2>3 DEF PidsApart
<1>12. EndsNoted' BY <1>3, <1>4, <1>5, <1>6, <1>7 DEF EndsNoted
<1>13. EntriesAccounted'
  <2>1. \A j \in Taken' : children'[j].child # NoPid \/ j \in leaked.slots
    BY <1>1, <1>4 DEF EntriesAccounted
  <2>2. \A p \in Pids : procs[p] = "running" => \E j \in Taken' : children'[j].child = p
    <3> SUFFICES ASSUME NEW p \in Pids, procs[p] = "running" PROVE \E j \in Taken' : children'[j].child = p
      OBVIOUS
    <3>1. PICK j \in Taken : children[j].child = p BY <1>1 DEF EntriesAccounted
    <3>2. j # i BY <1>5, <3>1
    <3> QED BY <1>4, <3>1, <3>2
  <2> QED BY <1>3, <2>1, <2>2 DEF EntriesAccounted
<1> QED BY <1>4, <1>8, <1>9, <1>10, <1>11, <1>12, <1>13

-----------------------------------------------------------------------------
(* A stream that no child has is opened or closed.                           *)
LEMMA OwnStreamIInv ==
  ASSUME IInv, NEW s \in StreamIds, s \notin Owned, NEW v \in {-1, NoStream},
         streams' = [streams EXCEPT ![s] = v],
         UNCHANGED <<children, fds, procs, ended, pending, spawn, reports, early, leaked>>
  PROVE  IInv'
<1> USE DEF IInv
<1>1. Taken' = Taken /\ Idle' = Idle /\ InSpawn' = InSpawn BY DEF Taken, Slots, Idle, NoSpawn, InSpawn
<1>2. ASSUME NEW i \in Taken
      PROVE  /\ children[i].rd \in StreamIds /\ streams'[children[i].rd] = streams[children[i].rd]
             /\ children[i].wr \in StreamIds /\ streams'[children[i].wr] = streams[children[i].wr]
  <2>1. children[i].rd \in StreamIds /\ children[i].wr \in StreamIds BY TakenEntry
  <2>2. s \notin StreamsOf(children[i]) BY DEF Owned
  <2> QED BY <2>1, <2>2 DEF TypeOK, StreamsOf
<1>3. \A i \in Taken : StreamFds(i)' = StreamFds(i) BY <1>2 DEF StreamFds
<1>4. TypeOK' BY DEF TypeOK, FdIds, Slots, StreamIds, Ways, Entry, Assigned, Piped, Forked, Kinds
<1>5. StreamsApart'
  <2>1. \A i \in Taken : StreamsOf(children[i]) \subseteq {t \in StreamIds : streams'[t] # NoStream}
    BY <1>2 DEF StreamsApart, StreamsOf, UsedStreams
  <2> QED BY <1>1, <2>1 DEF StreamsApart, StreamsOf, UsedStreams, StreamIds
<1>6. FdsApart'
  <2>1. {StreamFds(i) : i \in Taken}' = {StreamFds(i) : i \in Taken} BY <1>1, <1>3
  <2> QED BY <1>1, <1>3, <2>1 DEF FdsApart
<1>7. SpawnHolds' BY <1>1, <1>3 DEF SpawnHolds
<1>8. PidsApart' BY <1>1 DEF PidsApart
<1>9. EndsNoted' BY <1>1 DEF EndsNoted
<1>10. EntriesAccounted' BY <1>1 DEF EntriesAccounted
<1> QED BY <1>4, <1>5, <1>6, <1>7, <1>8, <1>9, <1>10

LEMMA OpenStreamIInv == ASSUME IInv, inio_openStream PROVE IInv'
<1>1. FreeStreams(streams) \in SUBSET Nat /\ FreeStreams(streams) \subseteq StreamIds
  BY ChildProcsAssumption DEF FreeStreams, StreamIds
<1> DEFINE s == FirstStream(streams)
<1>2. s \in FreeStreams(streams) BY <1>1, MinOfNaturals DEF inio_openStream, FirstStream
<1>3. streams' = [streams EXCEPT ![s] = -1] BY DEF inio_openStream
<1> HIDE DEF s
<1>4. s \in StreamIds /\ s \notin UsedStreams(streams) BY <1>2 DEF FreeStreams
<1>5. s \notin Owned BY <1>4 DEF Owned, IInv, StreamsApart
<1> QED BY <1>3, <1>4, <1>5, OwnStreamIInv DEF inio_openStream

LEMMA CloseStreamIInv == ASSUME IInv, inio_closeStream PROVE IInv'
<1>1. PICK s \in OwnStreams : streams' = [streams EXCEPT ![s] = NoStream] BY DEF inio_closeStream
<1>2. s \in StreamIds /\ s \notin Owned BY DEF OwnStreams, UsedStreams
<1> QED BY <1>1, <1>2, OwnStreamIInv DEF inio_closeStream

-----------------------------------------------------------------------------
LEMMA EndsIInv == ASSUME IInv, Ends PROVE IInv'
<1>1. PICK p \in Pids, s \in Statuses : ProcessEnds(p, s) BY DEF Ends
<1> QED BY <1>1, ProcessEndsIInv DEF Ways

LEMMA InterruptIInv == ASSUME IInv, iinterrupt_child PROVE IInv'
<1>1. PICK i \in Slots : /\ children[i] # Free /\ children[i].child # NoPid
                         /\ ProcessEnds(children[i].child, "killed")
  BY DEF iinterrupt_child
<1>2. children[i].child \in Pids BY <1>1, TakenEntry DEF Taken, IInv
<1> QED BY <1>1, <1>2, ProcessEndsIInv DEF Ways

LEMMA StutterIInv == ASSUME IInv, UNCHANGED vars PROVE IInv'
<1>1. StreamsApart' /\ FdsApart' /\ SpawnHolds' BY TableKept DEF vars
<1>2. Taken' = Taken /\ Idle' = Idle BY DEF vars, Taken, Slots, Idle, NoSpawn
<1>3. TypeOK'
  BY DEF IInv, vars, TypeOK, FdIds, Slots, StreamIds, Ways, Entry, Assigned, Piped, Forked, Kinds
<1>4. PidsApart' /\ EndsNoted' /\ EntriesAccounted'
  BY <1>2 DEF IInv, vars, PidsApart, EndsNoted, EntriesAccounted
<1> QED BY <1>1, <1>3, <1>4 DEF IInv

LEMMA Preserved == IInv /\ [Next]_vars => IInv'
BY AssignIInv, BadArgumentsIInv, PipesIInv, ForkIInv, ForkPtyIInv, EnteredIInv, EndsIInv, HandlerIInv,
   ChildStatusIInv, InterruptIInv, OpenStreamIInv, CloseStreamIInv, StutterIInv
   DEF Next, Spawns

(* The inductive invariant holds in every reachable state.                   *)
THEOREM Invariance == Spec => []IInv
BY InitIInv, Preserved, PTL DEF Spec

(* Each stream has one owner, and each open descriptor is that of the streams*)
(* of one child, of the spawn under way, or was lost when a pipe could not be*)
(* made: releaseChild closes what is its own and nothing else.               *)
THEOREM DescriptorsAreOwned == Spec => []DescriptorsOwned
<1>1. IInv => DescriptorsOwned BY DEF IInv, StreamsApart, FdsApart, DescriptorsOwned
<1> QED BY <1>1, Invariance, PTL

(* An entry says that its process has ended exactly when the handler of      *)
(* SIGCHLD has reaped it, unless it ended before it was entered; and what    *)
(* child_status reports is true and reported once.                           *)
THEOREM EndsAreSeen == Spec => []EndsSeen
<1>1. IInv => EndsSeen
  <2> SUFFICES ASSUME IInv PROVE EndsSeen OBVIOUS
  <2>1. \A i \in Taken, r \in reports : children[i].child # r.pid
    <3> SUFFICES ASSUME NEW i \in Taken, NEW r \in reports, children[i].child = r.pid PROVE FALSE
      OBVIOUS
    <3>1. r.pid \in Pids BY DEF IInv, TypeOK
    <3> QED BY <3>1, ChildProcsAssumption DEF IInv, PidsApart
  <2> QED BY <2>1 DEF IInv, EndsNoted, EndsSeen
<1> QED BY <1>1, Invariance, PTL

(* An entry is lost only to a spawn that failed, and a process that runs is  *)
(* in the table or with the spawn under way, so that its end can be noted.   *)
THEOREM EntriesAreAccounted == Spec => []EntriesAccounted
<1>1. IInv => EntriesAccounted BY DEF IInv
<1> QED BY <1>1, Invariance, PTL
=============================================================================
