----------------------------- MODULE Recompiled -----------------------------
(***************************************************************************)
(* The recompiled program: Emitter::emit_function and emit_control of      *)
(* libs/codegen/src/codegen.cpp, and the run of what they emit under       *)
(* Runtime::call of runtime/src/runtime.cpp.                               *)
(*                                                                         *)
(* The body of a function is a sequence of statements of the emitted C++.  *)
(* A frame is a C++ activation: the function, the statement it executes    *)
(* next and its local br.  The statements "exec" and "replaced" stand for  *)
(* an instruction or a stub; the machine of GuestCode is stepped along     *)
(* with them, and says which instruction the guest executes next.          *)
(***************************************************************************)
EXTENDS Analysis

CONSTANTS
  MaxFrames   \* bound: C++ activations at a time

VARIABLES
  bodies,     \* the emitted functions, and Runtime::functions
  frames      \* the C++ stack, the innermost activation first

vars == <<imageVars, analysisVars, machineVars, bodies, frames>>

(* The statements of the emitted code.                                     *)
Exec1(a) == [k |-> "exec", a |-> a]        \* the instruction at a; of a branch, br = its condition
Label(a) == [k |-> "label", a |-> a]
Goto(a) == [k |-> "goto", a |-> a]
Call(a) == [k |-> "call", a |-> a]
CallReg == [k |-> "callreg", a |-> 0]
Ret == [k |-> "return", a |-> 0]
FallsOff == [k |-> "return", a |-> 1]      \* "falls off the end (no explicit terminator)"
Replaced(a) == [k |-> "replaced", a |-> a]
IfBr(body) == <<[k |-> "ifbr", a |-> Len(body)]>> \o body
IsLabel(s, a) == s.k = "label" /\ s.a = a
Switch(cases) == <<[k |-> "switch", a |-> cases]>>

InFunction(f, a) == f.start <= a /\ a < f.end
Word(a) == IF a \in Addr THEN code[a] ELSE [op |-> "step", to |-> 0, table |-> <<>>]

-----------------------------------------------------------------------------
(* emit_control: a branch, jump or call at a of function f, with its slot. *)

Leave(f, t) == IF InFunction(f, t) THEN <<Goto(t)>> ELSE <<Call(t), Ret>>

(* Mutant of EmitBranch: the slot comes first, so a change it makes to the *)
(* condition decides the branch.                                           *)
EmitBranchLate(f, a, i, slotIsTarget) == <<Exec1(a + 1), Exec1(a)>> \o IfBr(Leave(f, i.to))
EmitBranch(f, a, i, slotIsTarget) ==
  <<Exec1(a)>> \o
  IF slotIsTarget
  THEN IfBr(<<Exec1(a + 1)>> \o Leave(f, i.to)) \o <<Label(a + 1), Exec1(a + 1)>>
  ELSE IF i.op = "likely"
  THEN IfBr(<<Exec1(a + 1)>> \o Leave(f, i.to))
  ELSE <<Exec1(a + 1)>> \o IfBr(Leave(f, i.to))

EmitJump(f, a, i) ==
  CASE i.op = "j" -> Leave(f, i.to)
    [] i.op = "jal" -> <<Call(i.to)>>
    [] i.op = "jalr" -> <<CallReg>>
    [] i.op = "ret" -> <<Ret>>
    [] i.op = "jr" ->
         (IF a \in tables THEN Switch({t \in ToSet(JumpTable(i)) : InFunction(f, t)}) ELSE <<>>)
         \o <<CallReg, Ret>>

EmitControl(f, a, i, slotIsTarget) ==
  IF IsBranch(i) THEN EmitBranch(f, a, i, slotIsTarget)
  ELSE <<Exec1(a)>> \o (IF slotIsTarget THEN <<Label(a + 1)>> ELSE <<>>)
       \o <<Exec1(a + 1)>> \o EmitJump(f, a, i)

-----------------------------------------------------------------------------
(* emit_function.  The labels come from every word of the range; the words *)
(* are emitted in order, a slot with its branch.                           *)

(* Mutant of Labels: a jump table has no labels.                           *)
LabelsOfBranches(f) ==
  {a \in Addr : InFunction(f, a) /\ \E b \in Addr :
     InFunction(f, b) /\ (IsBranch(code[b]) \/ code[b].op \in {"j", "jal"}) /\ code[b].to = a}
Labels(f) ==
  LET within == {a \in Addr : InFunction(f, a)}
  IN  {t \in within : \E a \in within :
         LET i == code[a]
         IN  \/ (IsBranch(i) \/ i.op \in {"j", "jal"}) /\ i.to = t
             \/ i.op = "jr" /\ a \in tables /\ t \in ToSet(JumpTable(i))}

(* A stub or skip takes the place of the body; a function without words is *)
(* emitted as one that returns.                                            *)
EmitFunction(f) ==
  LET labels == Labels(f)
      Emit[a \in f.start..(f.end + 1)] ==
        IF a >= f.end THEN <<>>
        ELSE LET i == Word(a)
                 here == IF a \in labels THEN <<Label(a)>> ELSE <<>>
             IN  IF HasSlot(i)
                 THEN here \o EmitControl(f, a, i, a + 1 \in labels) \o
                      IF a + 2 >= f.end /\ i.op \notin {"j", "jr", "ret"} THEN <<FallsOff>> ELSE Emit[a + 2]
                 ELSE here \o <<Exec1(a)>> \o
                      IF a + 1 >= f.end THEN <<FallsOff>> ELSE Emit[a + 1]
  IN  IF f.start \in replaced THEN <<Replaced(f.start), Ret>>
      ELSE IF f.end <= f.start THEN <<FallsOff>>
      ELSE Emit[f.start]

Frame(a) == [fn |-> a, at |-> 1, br |-> FALSE]

Image ==
  /\ code \in [Addr -> Instruction]
  /\ symbols \subseteq Nat
  /\ imports \subseteq Nat /\ IsFiniteSet(imports)

Init ==
  /\ Image
  /\ AnalysisInit
  /\ pc = Entry /\ npc = Entry + 1 /\ returns = <<>> /\ reg = 0
  /\ bodies = <<>>
  /\ frames = <<>>

Analyse == AnalysisStep /\ UNCHANGED <<imageVars, machineVars, bodies, frames>>
CancelAnalysis == Cancel /\ UNCHANGED <<imageVars, machineVars, bodies, frames>>

(* The end of analyze, emit_module, and the runner's call of the entry.    *)
Emit ==
  /\ phase = "finalize"
  /\ \E final \in {Finalized} : functions' = ByStart(final)
  /\ bodies' = [a \in Known(functions') |->
       EmitFunction(functions'[CHOOSE n \in DOMAIN functions' : functions'[n].start = a])]
  /\ frames' = IF cancelled THEN <<>> ELSE <<Frame(Entry)>>
  /\ phase' = IF cancelled THEN "ended" ELSE "run"
  /\ UNCHANGED <<imageVars, machineVars, claimed, walkVars, tables, cancelled>>

-----------------------------------------------------------------------------
(* The run.                                                                *)

Top == Head(frames)
Statement == bodies[Top.fn][Top.at]
Running(kinds) == phase = "run" /\ Statement.k \in kinds
To(where, br) == frames' = <<[Top EXCEPT !.at = where, !.br = br]>> \o Tail(frames)
LabelAt(a) == CHOOSE n \in DOMAIN bodies[Top.fn] : IsLabel(bodies[Top.fn][n], a)

(* An instruction, or a stub, together with the machine.                   *)
RunInstruction ==
  /\ Running({"exec", "replaced"})
  /\ pc = Statement.a
  /\ Execute
  /\ To(Top.at + 1, IF IsBranch(code[pc]) /\ Statement.k = "exec" THEN flag ELSE Top.br)
  /\ UNCHANGED phase

RunLocal ==
  /\ Running({"label", "ifbr", "goto", "switch"})
  /\ To(CASE Statement.k = "goto" -> LabelAt(Statement.a)
          [] Statement.k = "ifbr" /\ ~Top.br -> Top.at + 1 + Statement.a
          [] Statement.k = "switch" /\ reg \in Statement.a -> LabelAt(reg)
          [] OTHER -> Top.at + 1,
        Top.br)
  /\ UNCHANGED <<phase, machineVars>>

(* Runtime::call: a function that is not registered is a nop.              *)
RunCall ==
  /\ Running({"call", "callreg"})
  /\ LET target == IF Statement.k = "call" THEN Statement.a ELSE reg
     IN  IF target \in Known(functions)
         THEN /\ Len(frames) < MaxFrames
              /\ frames' = <<Frame(target), [Top EXCEPT !.at = @ + 1]>> \o Tail(frames)
         ELSE To(Top.at + 1, Top.br)
  /\ UNCHANGED <<phase, machineVars>>

RunReturn ==
  /\ Running({"return"})
  /\ frames' = Tail(frames)
  /\ phase' = IF Tail(frames) = <<>> THEN "ended" ELSE "run"
  /\ UNCHANGED machineVars

Run ==
  /\ RunInstruction \/ RunLocal \/ RunCall \/ RunReturn
  /\ UNCHANGED <<imageVars, functions, claimed, walkVars, tables, cancelled, bodies>>

Next == Analyse \/ CancelAnalysis \/ Emit \/ Run

Spec == Init /\ [][Next]_vars

-----------------------------------------------------------------------------
(* "Make function ranges non-overlapping so the code generator emits each  *)
(* instruction at most once": in the end the functions are in the order of *)
(* their starts and no two share a word, also when the user cancelled.     *)
RangesDisjoint ==
  phase \in {"run", "ended"} =>
    \A n \in 1..(Len(functions) - 1) :
      /\ functions[n].start < functions[n + 1].start
      /\ functions[n].end <= functions[n + 1].start

(* The words that a walk reached and no function emits.                    *)
Emitted == UNION {{a \in Addr : InFunction(functions[n], a)} : n \in DOMAIN functions}
Orphans == {a \in Addr : claimed[a] # 0} \ Emitted

(* Three shapes that the rescue does not see.  A function that starts at a *)
(* word of an earlier walk is empty, and cuts the walk's owner there.  A   *)
(* walk may branch back over its start: the search for lost words compares *)
(* with the end only.  And a rescued word may lie in the range of another  *)
(* function, which it cuts after that search.                              *)
Swallowed(a) == a \in Known(functions) /\ claimed[a] # a
BeforeOwner(a) == a < claimed[a]
CutByRescue(a) ==
  \E r \in Known(functions) \ Orphans :
    claimed[a] < r /\ r <= a /\ claimed[r] \notin {claimed[a], r}

(* "...and rescue any code that the change orphans": each word that a walk *)
(* reached is emitted, but for these shapes.                               *)
ReachedIsEmitted ==
  phase \in {"run", "ended"} => \A a \in Orphans : Swallowed(a) \/ BeforeOwner(a) \/ CutByRescue(a)

(* The emitted C++ compiles: every goto has its label, and one only.       *)
GotosHaveLabels ==
  phase = "run" =>
    \A a \in Known(functions) : \A n \in DOMAIN bodies[a] :
      LET s == bodies[a][n]
          targets == CASE s.k = "goto" -> {s.a} [] s.k = "switch" -> s.a [] OTHER -> {}
      IN  \A t \in targets : \E m \in DOMAIN bodies[a] :
            \A k \in DOMAIN bodies[a] : IsLabel(bodies[a][k], t) <=> (k = m)

(* The recompiled program does what the guest's program does: the next     *)
(* instruction it executes is the one that the machine executes next, slots*)
(* and nullified slots included, and it ends when the machine does.        *)
RunsAsWritten ==
  /\ Running({"exec", "replaced"}) => Statement.a = pc
  /\ (phase = "ended" /\ ~cancelled) => pc = Halt

(* The analysis comes to an end, whatever loops and tables the code has.   *)
AnalysisEnds == <>(phase \in {"run", "ended"})
=============================================================================
