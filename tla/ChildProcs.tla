----------------------------- MODULE ChildProcs -----------------------------
(* The table of child processes of sprocess.c and the streams and descriptors *)
(* its entries own.  The parent spawns children, asks for their status and    *)
(* interrupts them; the children end when they like, and the handler of       *)
(* SIGCHLD runs between any two steps of the parent.                          *)
EXTENDS Integers, FiniteSets, FiniteSetsExt

CONSTANTS MAX_CHILDREN,  \* entries of the table of children
          MAX_STREAMS,   \* entries of the table of streams
          MaxFds,        \* descriptors the parent may have open
          Pids,          \* process numbers; none is used twice
          Statuses,      \* what a process may end with
          MaxOpens,      \* streams the Nial program opens for itself
          NoPid          \* what the number of a process is before it is set

ASSUME ChildProcsAssumption == /\ {MAX_CHILDREN, MAX_STREAMS, MaxFds, MaxOpens} \subseteq Nat
                               /\ Pids \subseteq Nat /\ NoPid \notin Pids

VARIABLES children,      \* entry -> what is known of the child, or Free
          streams,       \* entry -> descriptor of the stream, -1, or NoStream
          fds,           \* descriptors open in the parent
          procs,         \* pid -> unused, running, zombie or reaped
          ended,         \* pid -> what it ended with
          pending,       \* SIGCHLD is to be delivered
          spawn,         \* how far the parent is with a spawn
          reports,       \* what child_status -1 has returned
          early,         \* pids reaped before they were in the table
          leaked         \* entries and descriptors of failed spawns

vars == <<children, streams, fds, procs, ended, pending, spawn, reports, early, leaked>>

Slots == 0..(MAX_CHILDREN - 1)
StreamIds == 0..(MAX_STREAMS - 1)
Free == [status |-> "free"]
NoStream == -2
ACTIVE_CHILD == "active"
TERMINATED_CHILD == "terminated"

NoSpawn == [at |-> "none"]
Idle == spawn = NoSpawn

-----------------------------------------------------------------------------
(* Helpers on the tables. *)

UsedStreams(st) == {i \in StreamIds : st[i] # NoStream}
FreeStreams(st) == StreamIds \ UsedStreams(st)
(* nio_createStream takes the first free entry. *)
FirstStream(st) == Min(FreeStreams(st))

(* nio_freeStream twice, as releaseChild does: both descriptors are closed.   *)
StreamsOf(c) == {c.rd, c.wr}
(* Mutant: only one of the two descriptors is closed.                         *)
ClosedByOne(c, st) == {st[c.wr]}
ClosedBy(c, st) == {st[i] : i \in StreamsOf(c)}
Freed(c, st) == [i \in StreamIds |-> IF i \in StreamsOf(c) THEN NoStream ELSE st[i]]

(* Mutant: it is not looked at whether the unmanaged child has ended.         *)
ReusableAlive(c) == c = Free \/ ~c.managed
Reusable(c) == c = Free \/ (c.status = TERMINATED_CHILD /\ ~c.managed)

(* The lowest descriptors the system hands out. *)
FreeFds == (0..(MaxFds - 1)) \ fds
LowestFd(S) == Min(S)

-----------------------------------------------------------------------------
Init == /\ children = [i \in Slots |-> Free]
        /\ streams = [i \in StreamIds |-> NoStream]
        /\ fds = {} /\ procs = [p \in Pids |-> "unused"] /\ ended = [p \in Pids |-> "none"]
        /\ pending = FALSE /\ spawn = NoSpawn
        /\ reports = {} /\ early = {} /\ leaked = [slots |-> {}, fds |-> {}]

(* assignChild(-1, -1): the first entry that is free, or of an unmanaged      *)
(* child that has ended, which is released; and two streams for it.           *)
assignChild ==
  /\ Idle
  /\ \E kind \in {"child", "shell", "cmd"}, managed \in BOOLEAN :
     LET usable == {i \in Slots : Reusable(children[i])}
         i == Min(usable)
         old == children[i]
         st == IF old = Free THEN streams ELSE Freed(old, streams)
         rd == FirstStream(st)
         wr == Min(FreeStreams(st) \ {rd})
         enough == Cardinality(FreeStreams(st)) >= 2
     IN /\ usable # {}
        /\ fds' = IF old = Free THEN fds ELSE fds \ ClosedBy(old, streams)
        /\ streams' = IF enough THEN [st EXCEPT ![rd] = -1, ![wr] = -1] ELSE st
        /\ children' = [children EXCEPT ![i] =
                          IF enough THEN [status |-> ACTIVE_CHILD, child |-> NoPid, managed |-> TRUE,
                                          result |-> "none", rd |-> rd, wr |-> wr]
                          ELSE Free]
        /\ spawn' = IF enough THEN [at |-> "assigned", kind |-> kind, slot |-> i, managed |-> managed]
                    ELSE NoSpawn
  /\ UNCHANGED <<procs, ended, pending, reports, early, leaked>>

(* A spawn that returns with a fault and leaves its entry as it is.           *)
GivesUp(open) == /\ spawn' = NoSpawn
                 /\ leaked' = [slots |-> leaked.slots \cup {spawn.slot}, fds |-> leaked.fds \cup open]

(* spawn_cmd looks at its arguments only now. *)
BadArguments == /\ spawn.at = "assigned" /\ spawn.kind = "cmd"
                /\ GivesUp({})
                /\ UNCHANGED <<children, streams, fds, procs, ended, pending, reports, early>>

(* Two pipes, of two descriptors each; the first is not closed when there are *)
(* none left for the second.                                                  *)
Pipes ==
  /\ spawn.at = "assigned" /\ spawn.kind \in {"child", "cmd"}
  /\ LET a == LowestFd(FreeFds)
         b == LowestFd(FreeFds \ {a})
         c == LowestFd(FreeFds \ {a, b})
         d == LowestFd(FreeFds \ {a, b, c})
         left == Cardinality(FreeFds)
     IN \/ left >= 4 /\ spawn' = [at |-> "piped", kind |-> spawn.kind, slot |-> spawn.slot,
                                  managed |-> spawn.managed, rd |-> c, wr |-> b, close |-> {a, d}]
                     /\ fds' = fds \cup {a, b, c, d} /\ UNCHANGED leaked
        \/ left \in {2, 3} /\ fds' = fds \cup {a, b} /\ GivesUp({a, b})
        \/ left < 2 /\ UNCHANGED fds /\ GivesUp({})
  /\ UNCHANGED <<children, streams, procs, ended, pending, reports, early>>

Unused == {p \in Pids : procs[p] = "unused"}

(* fork or vfork: it fails, and everything is given back, or there is a child.*)
Fork ==
  /\ spawn.at = "piped"
  /\ \/ /\ LET c == children[spawn.slot]
           IN /\ streams' = Freed(c, streams)
              /\ children' = [children EXCEPT ![spawn.slot] = Free]
        /\ fds' = fds \ ({spawn.rd, spawn.wr} \cup spawn.close)
        /\ spawn' = NoSpawn /\ UNCHANGED procs
     \/ /\ Unused # {}
        /\ procs' = [procs EXCEPT ![Min(Unused)] = "running"]
        /\ fds' = fds \ spawn.close
        /\ spawn' = [at |-> "forked", kind |-> spawn.kind, slot |-> spawn.slot, managed |-> spawn.managed,
                     rd |-> spawn.rd, wr |-> spawn.wr, pid |-> Min(Unused)]
        /\ UNCHANGED <<children, streams>>
  /\ UNCHANGED <<ended, pending, reports, early, leaked>>

(* forkpty: one descriptor for both streams; when it fails nothing is undone. *)
ForkPty ==
  /\ spawn.at = "assigned" /\ spawn.kind = "shell"
  /\ \/ GivesUp({}) /\ UNCHANGED <<procs, fds>>
     \/ /\ Unused # {} /\ FreeFds # {}
        /\ procs' = [procs EXCEPT ![Min(Unused)] = "running"]
        /\ fds' = fds \cup {LowestFd(FreeFds)}
        /\ spawn' = [at |-> "forked", kind |-> "shell", slot |-> spawn.slot, managed |-> spawn.managed,
                     rd |-> LowestFd(FreeFds), wr |-> LowestFd(FreeFds), pid |-> Min(Unused)]
        /\ UNCHANGED leaked
  /\ UNCHANGED <<children, streams, ended, pending, reports, early>>

(* The parent comes to enter the child in the table. *)
Entered ==
  /\ spawn.at = "forked"
  /\ LET c == children[spawn.slot]
     IN /\ children' = [children EXCEPT ![spawn.slot].child = spawn.pid,
                                        ![spawn.slot].managed = spawn.managed]
        /\ streams' = [streams EXCEPT ![c.rd] = spawn.rd, ![c.wr] = spawn.wr]
  /\ spawn' = NoSpawn
  /\ UNCHANGED <<fds, procs, ended, pending, reports, early, leaked>>

-----------------------------------------------------------------------------
ProcessEnds(p, s) == /\ procs[p] = "running"
                     /\ procs' = [procs EXCEPT ![p] = "zombie"]
                     /\ ended' = [ended EXCEPT ![p] = s]
                     /\ pending' = TRUE
                     /\ UNCHANGED <<children, streams, fds, spawn, reports, early, leaked>>

(* The processes waitpid finds, one call of the handler. *)
Zombies == {p \in Pids : procs[p] = "zombie"}
(* Mutant: the handler waits for one process only.                            *)
FoundOne == {p \in Zombies : \A q \in Zombies : p <= q}
Found == Zombies

(* What the handler writes into the entry of a process that has ended.        *)
(* Mutant: the status it ended with is not kept.                              *)
MarkedOnly(c) == [c EXCEPT !.status = TERMINATED_CHILD]
Marked(c) == [c EXCEPT !.status = TERMINATED_CHILD, !.result = ended[c.child]]

(* handle_sigchld: every entry of a process that has ended is marked.         *)
handle_sigchld ==
  /\ pending
  /\ procs' = [p \in Pids |-> IF p \in Found THEN "reaped" ELSE procs[p]]
  /\ children' = [i \in Slots |->
                    IF children[i] # Free /\ children[i].child \in Found
                    THEN Marked(children[i])
                    ELSE children[i]]
  /\ early' = early \cup {p \in Found : \A i \in Slots : children[i] = Free \/ children[i].child # p}
  /\ pending' = FALSE
  /\ UNCHANGED <<streams, fds, ended, spawn, reports, leaked>>

-----------------------------------------------------------------------------
Taken == {i \in Slots : children[i] # Free}

releaseChild(i) == /\ children' = [children EXCEPT ![i] = Free]
                   /\ streams' = Freed(children[i], streams)
                   /\ fds' = fds \ ClosedBy(children[i], streams)

(* Mutant: the flag is tested the wrong way round.                            *)
ToReportUnmanaged == {i \in Slots : children[i] # Free /\ children[i].status = TERMINATED_CHILD
                                      /\ ~children[i].managed}
(* The managed children that are to be reported. *)
ToReport == {i \in Slots : children[i] # Free /\ children[i].status = TERMINATED_CHILD
                             /\ children[i].managed}

(* ichild_status with a negative argument; with an entry it changes nothing.  *)
ichild_status ==
  /\ Idle /\ ToReport # {}
  /\ LET i == Min(ToReport)
     IN /\ reports' = reports \cup {[pid |-> children[i].child, result |-> children[i].result]}
        /\ releaseChild(i)
  /\ UNCHANGED <<procs, ended, pending, spawn, early, leaked>>

(* iinterrupt_child: the process, if it is still there, may end of it.        *)
iinterrupt_child ==
  /\ Idle
  /\ \E i \in Slots : /\ children[i] # Free /\ children[i].child # NoPid
                      /\ ProcessEnds(children[i].child, "killed")

(* The Nial program opens and closes streams of its own, of no descriptor.    *)
Owned == UNION {StreamsOf(children[i]) : i \in Taken}
OwnStreams == UsedStreams(streams) \ Owned

inio_openStream == /\ Idle /\ Cardinality(OwnStreams) < MaxOpens /\ FreeStreams(streams) # {}
                   /\ streams' = [streams EXCEPT ![FirstStream(streams)] = -1]
                   /\ UNCHANGED <<children, fds, procs, ended, pending, spawn, reports, early, leaked>>

inio_closeStream == /\ Idle
                    /\ \E i \in OwnStreams : streams' = [streams EXCEPT ![i] = NoStream]
                    /\ UNCHANGED <<children, fds, procs, ended, pending, spawn, reports, early, leaked>>

Spawns == assignChild \/ BadArguments \/ Pipes \/ Fork \/ ForkPty \/ Entered
Ends == \E p \in Pids, s \in Statuses : ProcessEnds(p, s)
Next == \/ Spawns \/ Ends \/ handle_sigchld
        \/ ichild_status \/ iinterrupt_child
        \/ inio_openStream \/ inio_closeStream

Spec == Init /\ [][Next]_vars
(* A signal is delivered, a spawn begun goes on, and the parent asks for the  *)
(* children that have ended.                                                  *)
Fairness == /\ WF_vars(handle_sigchld) /\ SF_vars(ichild_status)
            /\ WF_vars(Pipes \/ Fork \/ ForkPty \/ Entered)
FairSpec == Spec /\ Fairness

-----------------------------------------------------------------------------
(* An entry says that its process has ended exactly when it has been reaped,  *)
(* and with what: the handler finds the entry of every process, except of one *)
(* that ends before the parent has entered it.  What child_status reports is  *)
(* true, and reported once.                                                   *)
EndsSeen ==
  /\ \A i \in Taken :
       LET c == children[i]
       IN /\ c.status = TERMINATED_CHILD => procs[c.child] = "reaped" /\ c.result = ended[c.child]
          /\ c.child # NoPid /\ procs[c.child] = "reaped" => c.status = TERMINATED_CHILD \/ c.child \in early
          /\ \A r \in reports : c.child # r.pid
  /\ \A r \in reports : procs[r.pid] = "reaped" /\ r.result = ended[r.pid]

(* Each stream has one owner, and each open descriptor is that of the streams *)
(* of one child, of the spawn under way, or was lost when a pipe could not be *)
(* made: releasing an entry closes what is its own, and nothing else.         *)
StreamFds(i) == {streams[children[i].rd], streams[children[i].wr]} \ {-1}
InSpawn == CASE spawn.at = "piped" -> {spawn.rd, spawn.wr} \cup spawn.close
             [] spawn.at = "forked" -> {spawn.rd, spawn.wr}
             [] OTHER -> {}
DescriptorsOwned ==
  /\ \A i \in Taken : StreamsOf(children[i]) \subseteq UsedStreams(streams) /\ children[i].rd # children[i].wr
  /\ \A i, j \in Taken : i # j => /\ StreamsOf(children[i]) \cap StreamsOf(children[j]) = {}
                                  /\ StreamFds(i) \cap StreamFds(j) = {}
  /\ fds = leaked.fds \cup InSpawn \cup UNION {StreamFds(i) : i \in Taken}

(* An entry is only lost to a spawn that failed: any other that is taken has  *)
(* a process, or is that of the spawn under way; and a process has its entry  *)
(* as long as it runs, so that its end can be noted.                          *)
EntriesAccounted ==
  /\ \A i \in Taken : \/ children[i].child # NoPid
                      \/ ~Idle /\ spawn.slot = i
                      \/ i \in leaked.slots
  /\ \A p \in Pids : procs[p] = "running" =>
       \/ spawn.at = "forked" /\ spawn.pid = p
       \/ \E i \in Taken : children[i].child = p

(* No process stays a zombie (sprocess.c, the comment on waitpid).            *)
NoZombies == \A p \in Pids : (procs[p] = "zombie") ~> (procs[p] = "reaped")

(* A managed child that is entered when it ends comes to be reported.         *)
EndsReported ==
  \A p \in Pids :
    (procs[p] = "zombie" /\ \E i \in Taken : children[i].child = p /\ children[i].managed)
      ~> (\E r \in reports : r.pid = p)
=============================================================================
