-------------------------------- MODULE Calls --------------------------------
(***************************************************************************)
(* Calls of defined operations and transformers, closures, catch and throw *)
(* (apply, prologue, epilogue, b_closure, setup_env, icatch of eval.c).    *)
(*                                                                         *)
(* The parser gives every operation form, transformer form and block a     *)
(* symbol table for its local names.  At run time these names live in an   *)
(* activation record on the evaluation stack, and the symbol table holds   *)
(* the stack pointer of its newest record: the code finds a variable of    *)
(* its own or of an enclosing body through the stack pointer of the table  *)
(* alone.  A call saves the old stack pointer on the stack; an operation   *)
(* given to a transformer is closed with the stack pointers of where it    *)
(* was given, which are installed while it is applied.                     *)
(*                                                                         *)
(* One table here has one name.  A frame of ctl is an invocation of the C  *)
(* functions apply or icatch that has not returned.  Two of its fields are *)
(* not in the code: lex says which cells the text of the program means,    *)
(* and floor how high the stack was below what setup_env put there.        *)
(***************************************************************************)
EXTENDS Integers, Sequences, SequencesExt, FiniteSetsExt

CONSTANTS
  Ops,         (* The defined operations and transformers, and their tables*)
  Trs,         (* Those that are transformers, with an operation parameter.*)
  Outer,       (* The tables of the bodies around each, the nearest first. *)
  Vals,        (* Arrays.                                                  *)
  MaxFrames,   (* Bound: the depth of the C stack.                         *)
  MaxTemps,    (* Bound: the temporaries of one body.                      *)
  MaxCuts,     (* Bound: the jumps and throws of a session.                *)
  none

ASSUME CallsConstants ==
  /\ Trs \subseteq Ops
  /\ Outer \in [Ops -> Seq(Ops)]
  /\ \A f \in Ops : \A i \in DOMAIN Outer[f] :
       /\ Outer[f][i] # f
       /\ Outer[Outer[f][i]] = SubSeq(Outer[f], i + 1, Len(Outer[f]))
  /\ MaxFrames \in Nat /\ MaxTemps \in Nat /\ MaxCuts \in Nat

VARIABLES
  stk,       (* stkarea[0 .. topstack], here counted from one.             *)
  sp,        (* The stack pointer of each table, -1 if it has no record.   *)
  env,       (* current_env, a list of tables; empty for Null.             *)
  ctl,       (* The C stack.                                               *)
  fn,        (* The argument of apply, if that is where control is.        *)
  catchbuf,  (* ct_current_jmp_buf: the frame it is in, 0 or Dead.         *)
  pc,        (* "run", or "astray" after use of a word that is no variable.*)
  thrown,    (* A throw has cut short calls of the expression under way.   *)
  cuts       (* The jumps and throws so far.                               *)

vars == <<stk, sp, env, ctl, fn, catchbuf, pc, thrown, cuts>>

Dead == -1

Env(f) == <<f>> \o Outer[f]

\* The frame of the body under way, what its text can name and what it means.
Frame == Last(ctl)
Here  == IF ctl = <<>> THEN <<>> ELSE Env(Frame.op)
Lex   == IF ctl = <<>> THEN <<>> ELSE Frame.lex
Temps == Len(stk) - (IF ctl = <<>> THEN 0 ELSE Frame.base)

Running    == pc = "run"
Evaluating == Running /\ fn = none /\ (ctl # <<>> => Frame.kind = "op")

\* fetch_var and store_var find a cell of table s.
Finds(s) == sp[s] \in DOMAIN stk /\ stk[sp[s]][1] = "cell" /\ stk[sp[s]][2] = s
Cell(s)  == stk[sp[s]][3]

Init ==
  /\ stk = <<>> /\ sp = [s \in Ops |-> -1] /\ env = <<>> /\ ctl = <<>>
  /\ fn = none /\ catchbuf = 0 /\ pc = "run" /\ thrown = FALSE /\ cuts = 0

Fault == <<"fault">>

Astray == pc' = "astray" /\ UNCHANGED <<stk, sp, env, ctl, fn, catchbuf, thrown, cuts>>
-----------------------------------------------------------------------------
(* Expressions.                                                            *)
Quiet == UNCHANGED <<sp, env, ctl, fn, catchbuf, pc, thrown, cuts>>

PushConst(v) ==
  /\ Evaluating /\ Temps < MaxTemps
  /\ stk' = Append(stk, <<"val", v>>)
  /\ Quiet

ReadVar(s) ==
  /\ Evaluating /\ Temps < MaxTemps /\ s \in Range(Here) \ Trs
  /\ IF sp[s] = -1 THEN stk' = Append(stk, Fault) /\ Quiet
     ELSE IF Finds(s) THEN stk' = Append(stk, Cell(s)) /\ Quiet
     ELSE Astray

(* An assignment, whose value stays on the stack.                          *)
SetVar(s) ==
  /\ Evaluating /\ Temps > 0 /\ s \in Range(Here) \ Trs
  /\ IF sp[s] = -1 THEN stk' = Append(Front(stk), Fault) /\ Quiet
     ELSE IF Finds(s) THEN stk' = [stk EXCEPT ![sp[s]] = <<"cell", s, Last(stk)>>] /\ Quiet
     ELSE Astray

Discard ==
  /\ Evaluating /\ Temps > 0
  /\ stk' = Front(stk)
  /\ Quiet
-----------------------------------------------------------------------------
(***************************************************************************)
(* apply.  Its argument is the name of an operation, the parameter of a    *)
(* transformer, a closure, or a transformer or CATCH with its operand; the *)
(* value it is applied to is on the stack.                                 *)
(***************************************************************************)
InScope(f) == \E i \in 1 .. Len(Here) + 1 : Outer[f] = SubSeq(Here, i, Len(Here))

Named    == {<<"name", f>> : f \in {g \in Ops \ Trs : InScope(g)}}
             \cup {<<"param", t>> : t \in Trs \cap Range(Here)}
Applied  == Named
             \cup {<<"transform", t, o>> : t \in {u \in Trs : InScope(u)}, o \in Named}
             \cup {<<"catch", o>> : o \in Named}

Apply(o) ==
  /\ Temps > 0
  /\ fn' = o
  /\ UNCHANGED <<stk, sp, env, ctl, catchbuf, pc, thrown, cuts>>

Applying(tag) == Running /\ fn # none /\ fn[1] = tag /\ Len(ctl) < MaxFrames

(* The protected code, then prologue and the first assignment: a word for  *)
(* the result, the old stack pointer and the cell, with x in it.           *)
Record(f, x) == <<<<"op", f>>, Fault, <<"sp", sp[f]>>, <<"cell", f, x>>>>

LexOf(f, base) == [s \in Range(Env(f)) |-> IF s = f THEN base ELSE Lex[s]]

\* Mutant: the stack pointer is set only if there is no older record.
EnterOnce(f, x, args) ==
  LET base == Len(stk) + 3 IN
    /\ stk' = Front(stk) \o Record(f, x) \o args
    /\ sp' = [sp EXCEPT ![f] = IF @ = -1 THEN base ELSE @]
    /\ env' = Env(f)
    /\ ctl' = Append(ctl, [kind |-> "op", op |-> f, senv |-> env, base |-> base,
                           lex |-> LexOf(f, base)])
    /\ fn' = none
    /\ UNCHANGED <<catchbuf, pc, thrown, cuts>>

Enter(f, x, args) ==
  LET base == Len(stk) + 3 IN
    /\ stk' = Front(stk) \o Record(f, x) \o args
    /\ sp' = [sp EXCEPT ![f] = base]
    /\ env' = Env(f)
    /\ ctl' = Append(ctl, [kind |-> "op", op |-> f, senv |-> env, base |-> base,
                           lex |-> LexOf(f, base)])
    /\ fn' = none
    /\ UNCHANGED <<catchbuf, pc, thrown, cuts>>

(* The code of a local operation is fetched from the record it is local to.*)
HasCode(f) == Outer[f] # <<>> => Finds(Outer[f][1])

ApplyName ==
  /\ Applying("name")
  /\ IF HasCode(fn[2]) THEN Enter(fn[2], Last(stk), <<>>) ELSE Astray

ApplyParam ==
  /\ Applying("param")
  /\ IF Finds(fn[2])
     THEN fn' = Cell(fn[2]) /\ UNCHANGED <<stk, sp, env, ctl, catchbuf, pc, thrown, cuts>>
     ELSE Astray

(* b_closure: a global operation needs no closure, nor does a parameter    *)
(* that is one.                                                            *)
IsGlobal(o) == o[1] = "name" /\ Outer[o[2]] = <<>>
Closable(o) == o[1] = "param" => Finds(o[2])
Closed(o) ==
  IF env = <<>> \/ IsGlobal(o) THEN o
  ELSE IF o[1] = "param" /\ IsGlobal(Cell(o[2])) THEN Cell(o[2])
  ELSE <<"closure", o, env, [i \in DOMAIN env |-> sp[env[i]]], Lex>>

ApplyTransform ==
  /\ Applying("transform")
  /\ IF Closable(fn[3]) THEN Enter(fn[2], Closed(fn[3]), <<Last(stk)>>) ELSE Astray

(* setup_env: the stack pointers of the closure are installed, those they  *)
(* replace are put on the stack under the argument.                        *)
Saved(syms)         == [i \in DOMAIN syms |-> <<"sp", sp[syms[i]]>>]
\* Mutant: the pointers of the closure are not installed.
InstallNot(syms, sps) == sp

Install(syms, sps)  == [s \in Ops |-> IF s \in Range(syms)
                                      THEN sps[CHOOSE i \in DOMAIN syms : syms[i] = s] ELSE sp[s]]

ApplyClosure ==
  /\ Applying("closure")
  /\ LET syms == fn[3] IN
       /\ stk' = Front(stk) \o Saved(syms) \o <<Last(stk)>>
       /\ sp' = Install(syms, fn[4])
       /\ env' = syms
       /\ ctl' = Append(ctl, [kind |-> "closure", syms |-> syms, svenv |-> env,
                              floor |-> Len(stk) - 1, lex |-> fn[5]])
  /\ fn' = fn[2]
  /\ UNCHANGED <<catchbuf, pc, thrown, cuts>>

ApplyCatch ==
  /\ Applying("catch")
  /\ IF Closable(fn[2])
     THEN /\ ctl' = Append(ctl, [kind |-> "catch", prev |-> catchbuf, arg_stack |-> Len(stk) - 1,
                                 lex |-> Lex])
          /\ catchbuf' = Len(ctl) + 1
          /\ fn' = Closed(fn[2])
          /\ UNCHANGED <<stk, sp, env, pc, thrown, cuts>>
     ELSE Astray
-----------------------------------------------------------------------------
(* Returns.                                                                *)
Leave(n) == ctl' = SubSeq(ctl, 1, n) /\ pc' = pc /\ fn' = none

Return ==
  /\ Evaluating /\ ctl # <<>> /\ Temps = 1
  /\ stk' = Append(SubSeq(stk, 1, Frame.base - 4), Last(stk))
  /\ sp' = [sp EXCEPT ![Head(env)] = stk[Frame.base - 1][2]]
  /\ env' = Frame.senv
  /\ Leave(Len(ctl) - 1)
  /\ UNCHANGED <<catchbuf, thrown, cuts>>

Returning(kind) == Running /\ fn = none /\ ctl # <<>> /\ Frame.kind = kind

ReturnClosure ==
  /\ Returning("closure")
  /\ LET below == Len(stk) - Len(Frame.syms) - 1
     IN  /\ stk' = Append(SubSeq(stk, 1, below), Last(stk))
         /\ sp' = Install(Frame.syms, [i \in DOMAIN Frame.syms |-> stk[below + i][2]])
  /\ env' = Frame.svenv
  /\ Leave(Len(ctl) - 1)
  /\ UNCHANGED <<catchbuf, thrown, cuts>>

ReturnCatch ==
  /\ Returning("catch")
  /\ catchbuf' = Frame.prev
  /\ Leave(Len(ctl) - 1)
  /\ UNCHANGED <<stk, sp, env, thrown, cuts>>

\* Mutant: the stack is unwound too far.
ThrowToOneLower(c) ==
  /\ cuts < MaxCuts
  /\ stk' = Append(SubSeq(stk, 1, ctl[c].arg_stack - 1), Last(stk))
  /\ catchbuf' = ctl[c].prev
  /\ Leave(c - 1)
  /\ thrown' = TRUE /\ cuts' = cuts + 1
  /\ UNCHANGED <<sp, env>>

(* throw, or a fault under a CATCH.  ThrowTo: the stack is unwound to where*)
(* icatch found it; stack pointers and current_env stay.                   *)
ThrowTo(c) ==
  /\ cuts < MaxCuts
  /\ stk' = Append(SubSeq(stk, 1, ctl[c].arg_stack), Last(stk))
  /\ catchbuf' = ctl[c].prev
  /\ Leave(c - 1)
  /\ thrown' = TRUE /\ cuts' = cuts + 1
  /\ UNCHANGED <<sp, env>>

Throw ==
  /\ Evaluating /\ Temps > 0
  /\ \/ catchbuf = 0 /\ stk' = Append(Front(stk), Fault) /\ Quiet
     \/ catchbuf = Dead /\ Astray
     \/ catchbuf > 0 /\ ThrowTo(catchbuf)

(* The next line at the top level: retry in main.                          *)
NextLine ==
  /\ Evaluating /\ ctl = <<>>
  /\ stk' = <<>> /\ env' = <<>> /\ thrown' = FALSE
  /\ UNCHANGED <<sp, ctl, fn, catchbuf, pc, cuts>>

(* A jump to the top level, from anywhere.                                 *)
Jump ==
  /\ Running /\ cuts < MaxCuts
  /\ stk' = <<>> /\ env' = <<>> /\ Leave(0)
  /\ catchbuf' = IF catchbuf = 0 THEN 0 ELSE Dead
  /\ thrown' = FALSE /\ cuts' = cuts + 1
  /\ UNCHANGED sp

Next ==
  \/ \E v \in Vals : PushConst(v)
  \/ \E s \in Ops : ReadVar(s) \/ SetVar(s)
  \/ Evaluating /\ \E o \in Applied : Apply(o)
  \/ Discard \/ ApplyName \/ ApplyParam \/ ApplyTransform \/ ApplyClosure \/ ApplyCatch
  \/ Return \/ ReturnClosure \/ ReturnCatch \/ Throw \/ NextLine \/ Jump

Spec == Init /\ [][Next]_vars
-----------------------------------------------------------------------------
(***************************************************************************)
(* Properties.                                                             *)
(***************************************************************************)
Operands  == {"name", "param", "transform", "catch", "closure"}
Bodies    == {k \in DOMAIN ctl : ctl[k].kind = "op"}
Catchers  == {k \in DOMAIN ctl : ctl[k].kind = "catch"}

TypeOK ==
  /\ \A i \in DOMAIN stk : stk[i][1] \in {"val", "fault", "op", "sp", "cell"}
  /\ sp \in [Ops -> Int]
  /\ env \in Seq(Ops)
  /\ Len(ctl) <= MaxFrames
  /\ fn = none \/ fn[1] \in Operands
  /\ catchbuf \in {Dead, 0} \cup DOMAIN ctl
  /\ pc \in {"run", "astray"} /\ thrown \in BOOLEAN /\ cuts \in 0 .. MaxCuts

(* "Nial has lexical scoping": the environment is that of the text under   *)
(* evaluation, and the stack pointer of each of its tables is that of the  *)
(* record the text means, whatever calls, recursion and closures of        *)
(* operations given to transformers came in between.  After a throw that   *)
(* was caught this need not be so until the next line.  Till then a name   *)
(* in scope is always found: no word that is no variable is used as one.   *)
Scoped == Range(env) = DOMAIN Lex /\ \A s \in Range(env) : sp[s] = Lex[s]
NeverAstray == pc = "astray" => thrown \/ catchbuf = Dead

ScopesAgree == (Running /\ ~thrown => Scoped) /\ NeverAstray

(* A variable changes only by an assignment in a text that means it: no    *)
(* call, return, closure, throw or jump writes into a record in use.       *)
Kept(k) == ctl[k].kind = "op" /\ k \in DOMAIN ctl' /\ ctl'[k] = ctl[k]

VariablesKept ==
  [][~thrown => \A k \in DOMAIN ctl : Kept(k) /\ stk'[ctl[k].base] # stk[ctl[k].base] =>
       Evaluating /\ \E s \in Range(Here) : Lex[s] = ctl[k].base]_vars

(* The records of the calls under way are whole and lie in their order, so *)
(* that each return finds its old stack pointer, also after throws; and    *)
(* unless a jump cut a CATCH short, ct_current_jmp_buf is that of the      *)
(* innermost CATCH under way, and each of these keeps the one around it.   *)
RecordsLie ==
  \A k \in Bodies :
    LET base == ctl[k].base IN
      /\ base <= Len(stk)
      /\ stk[base][1] = "cell" /\ stk[base][2] = ctl[k].op
      /\ stk[base - 1][1] = "sp" /\ stk[base - 3] = <<"op", ctl[k].op>>
      /\ \A j \in Bodies : j < k => ctl[j].base < base - 3
      /\ \A j \in Catchers : IF j < k THEN ctl[j].arg_stack <= base - 4
                              ELSE base <= ctl[j].arg_stack

Innermost(n) == Max({0} \cup {k \in Catchers : k <= n})

CatchersNest ==
  catchbuf # Dead =>
    /\ catchbuf = Innermost(Len(ctl))
    /\ \A k \in Catchers : ctl[k].prev \in {Dead, Innermost(k - 1)}
ControlWhole == Running => RecordsLie /\ CatchersNest
=============================================================================
