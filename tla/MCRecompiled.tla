---------------------------- MODULE MCRecompiled ----------------------------
(***************************************************************************)
(* Programs for TLC.  The image has a function f at 1..6, a function g at  *)
(* 7..9, and from 10 on a part of f that the compiler moved behind g.  Two *)
(* instructions of f, and one of the moved part, are chosen; the words     *)
(* after them, their slots, change the condition.                          *)
(***************************************************************************)
EXTENDS Recompiled

VARIABLE
  strayed     \* the run met something that the emitter does not carry over

I(op, to) == [op |-> op, to |-> to, table |-> <<>>]
Table(s, t) == [op |-> "jr", to |-> 0, table |-> <<s, t>>]
F == 1
G == 7
Moved == 10
PartsOfF == (F..6) \union {Moved}

(* Any branch, jump or call of f to a word of f, and to the start of g; a  *)
(* call may also enter f half-way.                                         *)
Controls ==
  {I("branch", t) : t \in PartsOfF \union {G}}
  \union {I("likely", t) : t \in PartsOfF}
  \union {I("link", t) : t \in {4, G}}
  \union {I("j", t) : t \in PartsOfF \union {G}}
  \union {I("jal", t) : t \in {F, 4, G}}
  \union {I("jalr", t) : t \in {F, G}}
  \union {Table(s, t) : s \in {4}, t \in {3, 6}}

(* The moved part is a control and its slot, or has a step before them.    *)
Program(a, x, b, y, m, z) ==
  [w \in Addr |->
     CASE w = a -> x [] w = b -> y [] w = m -> z
       [] w \in {5, G + 1} -> I("ret", 0)
       [] w \in {a + 1, b + 1, m + 1} -> I("flip", 0)
       [] w = G -> I("frame", 0)
       [] w > m + 1 -> I("data", 0)
       [] OTHER -> I("step", 0)]
Places == {<<1, 3>>, <<2, 4>>}

Targets(i) == IF i.op = "jr" THEN RegisterTargets(i) ELSE IF HasSlot(i) /\ i.op # "ret" THEN {i.to} ELSE {}
Targeted(c) == UNION {Targets(c[a]) : a \in Addr}

(* A slot holds no branch or jump.                                         *)
WellFormed(c) == \A a \in Addr : HasSlot(c[a]) => a + 1 \in Addr /\ ~HasSlot(c[a + 1])
Programs(ends) ==
  {c \in {Program(p[1], x, p[2], y, m, z) :
          p \in Places, x, y \in Controls, m \in {Moved, Moved + 1}, z \in ends} :
     WellFormed(c) /\ (Moved \notin Targeted(c) => c[Moved].op = "ret")}

(* 1 branches over 5 to 8, and 5 jumps over 8 and 9 to 10.                 *)
Crossing ==
  [w \in Addr |->
     CASE w = 1 -> I("branch", 8) [] w = 6 -> I("j", 10)
       [] w \in {3, 8, 10} -> I("ret", 0)
       [] w = 5 -> I("frame", 0)
       [] OTHER -> I("step", 0)]

(* 8, in the function at 7, branches back to 5, where no other walk comes. *)
Backward ==
  [w \in Addr |->
     CASE w = 1 -> I("jal", G) [] w = 8 -> I("branch", 5)
       [] w \in {3, 10} -> I("ret", 0)
       [] w = G -> I("frame", 0)
       [] w = 9 -> I("flip", 0)
       [] OTHER -> I("step", 0)]

(* If the symbol table leaves g out, the prologue scan or a call finds it, *)
(* or a jump of f makes it a part of f.  What is replaced has a symbol.    *)
ImageInit(programs) ==
  /\ code \in programs
  /\ symbols \in {{F, G}, {F}}
  /\ replaced \in {{}, {G}}
  /\ replaced \subseteq symbols
  /\ imports = {}
  /\ flag \in BOOLEAN
  /\ strayed = FALSE
  /\ Init

-----------------------------------------------------------------------------
(* What the emitter does not carry over, met by the run:                   *)
(*  - the call of an address that is no function's start, a nop;           *)
(*  - a branch-and-link that is taken: it is emitted as a branch, so what  *)
(*    it calls does not come back;                                         *)
(*  - the end of a range that the guest goes on from;                      *)
(*  - the slot of a jump or call entered from elsewhere, whose jump is made*)
(*    all the same, and that of a likely branch, executed when not taken.  *)
CallsNothing ==
  /\ Running({"call", "callreg"})
  /\ (IF Statement.k = "call" THEN Statement.a ELSE reg) \notin Known(functions)
LinkTaken == Running({"exec"}) /\ pc = Statement.a /\ code[pc].op = "link" /\ flag
RunsOff == Running({"return"}) /\ Statement = FallsOff
EntersSlot ==
  /\ Running({"label"})
  /\ Top.at > 1
  /\ LET a == Statement.a - 1
     IN  \/ a \in Addr /\ code[a].op = "likely" /\ pc # a + 1
         \/ bodies[Top.fn][Top.at - 1] = Exec1(a) /\ HasSlot(code[a]) /\ npc = a + 2
Strays == CallsNothing \/ LinkTaken \/ RunsOff \/ EntersSlot

MCNext == Next /\ strayed' = (strayed \/ Strays)
UntilStrayed == ~strayed /\ MCNext

(* The moved part returns, or starts a function over, or goes back.        *)
CompiledInit == ImageInit(Programs({I("ret", 0), I("j", F), I("j", G), I("j", 4)}) \union {Crossing, Backward})
CompiledSpec == CompiledInit /\ [][UntilStrayed]_<<vars, strayed>> /\ WF_<<vars, strayed>>(UntilStrayed)

(* It goes back to where it was taken out of f; only calls go wrong.       *)
MovedNext == ~(LinkTaken \/ RunsOff \/ EntersSlot) /\ MCNext
MovedSpec == ImageInit(Programs({I("j", 4)})) /\ [][MovedNext]_<<vars, strayed>>

(* The recompiled program does what the guest's program does until it      *)
(* strays: until then the next instruction is the machine's, slots and     *)
(* nullified slots included, and a run that ends without having strayed    *)
(* ends when the machine does.                                             *)
FollowsTheMachine == ~strayed => RunsAsWritten
=============================================================================
