------------------------------ MODULE GuestCode -----------------------------
(***************************************************************************)
(* The guest's program, and what the R5900 does with it.                   *)
(*                                                                         *)
(* An address is the index of a word of the image, from 1 (0 is what the   *)
(* source uses for "none").  Of an instruction only what control flow      *)
(* depends on is kept: the class that r5900::decode gives it and the       *)
(* address that branch_target or jump_target computes.  The delay slot of  *)
(* the instruction at a is the word at a + 1.                              *)
(*                                                                         *)
(* The machine is the reference the recompiled program is compared with.   *)
(* It stands for programs that keep the calling convention: the address a  *)
(* call returns to is saved and restored by the callee, so the returns     *)
(* that are outstanding form a stack.                                      *)
(***************************************************************************)
EXTENDS Naturals, Sequences

CONSTANTS
  Words,      \* the image has the words 1..Words
  Exec        \* the addresses in executable sections

Addr == 1..Words
Halt == 0     \* where the entry function returns to

ASSUME ImageAssumption == Words \in Nat \ {0} /\ Exec \subseteq Addr

VARIABLES
  code,       \* the instruction at each address
  replaced,   \* the functions that a stub or a skip of the configuration replaces
  pc, npc,    \* the machine: the instruction it executes next, and the one after it
  returns,    \*   the addresses that calls return to, the last one first
  flag,       \*   the condition the branches test
  reg         \*   the register that jr and jalr jump through

machineVars == <<pc, npc, returns, flag, reg>>

(* The classes of instructions.  "step" is any that goes on to the next    *)
(* word, "flip" one of these that changes the condition, "frame" one that  *)
(* makes a stack frame; "data" is a word that does not decode.  "branch",  *)
(* "likely" and "link" are the conditional branches, "ret" is jr $ra, "jr" *)
(* and "jalr" jump through another register.                               *)
Instruction ==
  [op : {"step", "flip", "frame", "data", "branch", "likely", "link", "j", "jal", "jalr", "jr", "ret"},
   to : Nat, table : Seq(Nat)]
IsBranch(i) == i.op \in {"branch", "likely", "link"}
HasSlot(i) == IsBranch(i) \/ i.op \in {"j", "jal", "jalr", "jr", "ret"}

(* Where a jump through a register can go: to what its table holds.        *)
RegisterTargets(i) == {i.table[n] : n \in DOMAIN i.table}

-----------------------------------------------------------------------------
(* The machine executes the instruction at pc.  The instruction after a    *)
(* branch or a jump is executed first, unless a likely branch is not taken.*)

After == <<npc, npc + 1>>
GoTo(next) == pc' = next[1] /\ npc' = next[2]
Taken(i) == i.op \notin {"branch", "likely", "link"} \/ flag

Return == IF returns = <<>> THEN Halt ELSE Head(returns)
Outstanding == IF returns = <<>> THEN <<>> ELSE Tail(returns)

ExecuteStep(i) ==
  /\ i.op \in {"step", "flip", "frame", "data"}
  /\ GoTo(After)
  /\ flag' = IF i.op = "flip" THEN ~flag ELSE flag
  /\ UNCHANGED <<returns, reg>>
ExecuteBranch(i) ==
  /\ i.op \in {"branch", "likely", "j"}
  /\ IF Taken(i) THEN GoTo(<<npc, i.to>>)
     ELSE IF i.op = "likely" THEN GoTo(<<npc + 1, npc + 2>>)
     ELSE GoTo(After)
  /\ UNCHANGED <<returns, flag, reg>>
ExecuteCall(i) ==
  /\ i.op \in {"link", "jal", "jalr"}
  /\ IF Taken(i)
     THEN GoTo(<<npc, i.to>>) /\ returns' = <<npc + 1>> \o returns
     ELSE GoTo(After) /\ UNCHANGED returns
  /\ reg' = IF i.op = "jalr" THEN i.to ELSE reg
  /\ UNCHANGED flag
ExecuteReturn(i) ==
  /\ i.op = "ret"
  /\ GoTo(<<npc, Return>>)
  /\ returns' = Outstanding
  /\ UNCHANGED <<flag, reg>>
ExecuteRegisterJump(i) ==
  /\ i.op = "jr"
  /\ \E t \in RegisterTargets(i) : GoTo(<<npc, t>>) /\ reg' = t
  /\ UNCHANGED <<returns, flag>>

(* A function that the configuration replaces returns at once.             *)
ExecuteReplaced ==
  /\ GoTo(<<Return, Return + 1>>)
  /\ returns' = Outstanding
  /\ UNCHANGED <<flag, reg>>

Execute ==
  /\ pc \in Addr
  /\ IF pc \in replaced
     THEN ExecuteReplaced
     ELSE LET i == code[pc]
          IN  \/ ExecuteStep(i) \/ ExecuteBranch(i) \/ ExecuteCall(i)
              \/ ExecuteReturn(i) \/ ExecuteRegisterJump(i)
=============================================================================
