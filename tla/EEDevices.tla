----------------------------- MODULE EEDevices -----------------------------
(***************************************************************************)
(* The DMA controller, the VIF and the GIF (runtime/src/hw.cpp), and the   *)
(* course of the microprograms the VIF calls (vu1.cpp).                    *)
(*                                                                         *)
(* Memory is a sequence of words, from address 0; a quad is four of them,  *)
(* and addresses count bytes.  A word is data, a DMA tag, the first word of*)
(* a GIF tag, or a VIF command, with the fields that the code takes from   *)
(* it; what the guest has not written is Zero, which is a tag (REFE), a    *)
(* command (NOP) and a GIF tag (of no loops) as well.  A write to CHCR runs*)
(* its transfer before it returns: one action below is one turn of a loop  *)
(* of run_chain, Vif::feed or Gif::feed.                                   *)
(***************************************************************************)
EXTENDS Integers, Sequences

CONSTANTS
  QwcRange,   \* a tag's QWC is its word modulo this: 65536 in run_chain
  MaxTags,    \* the tags of one chain: 100000 in run_chain
  MicroSize,  \* the instructions that VU1's memory holds: 2048
  MaxSteps,   \* those a call executes: 1000000 in run_vu_microcode
  LoopSteps   \* those after which it may not be at its start again: 100

ASSUME BoundsAssumption == QwcRange \in Nat \ {0} /\ MaxTags \in Nat /\ MicroSize \in Nat /\ MaxSteps \in Nat /\ LoopSteps \in Nat

VARIABLES
  memory,     \* the words of guest memory
  channel,    \* Dmac::ch of VIF1 (1) and GIF (2): madr, qwc, tadr, mode, str
  chain,      \* run_chain: the channel (0: no transfer), tadr, asr_stack, whether the chain is done, guard
  vifWords,   \* Vif::feed: what is left of the data it was given
  gifWords,   \* Gif::feed: the same
  imem,       \* VU1's instructions, of each its lower word
  vu,         \* run_vu_microcode: pc, where it started, the steps it has taken, its registers, whether it runs
  vif,        \* Vif: the registers its commands set
  gifTag,     \* Gif::feed: the tag it is in, with the registers still to be written
  effects     \* what VIF1 and the GIF wrote, in order, to VU memory and to the GS (a history variable)

deviceVars == <<memory, channel, chain, vifWords, gifWords, imem, vu, vif, gifTag, effects>>

NoTag == [flg |-> "none", left |-> 0, regs |-> <<>>]
Idle == [c |-> 0, tadr |-> 0, asr |-> <<>>, done |-> TRUE, guard |-> 0]
Quad == 4
Zero == [cmd |-> "nop", num |-> 0, imm |-> 0, elems |-> 0, id |-> "refe", word |-> 0,
         flg |-> "packed", nloop |-> 0, regs |-> <<>>, pre |-> FALSE]

(* Words are not torn: transfers begin at the address of a word.           *)
MemoryWord(address) == IF address \div 4 < Len(memory) THEN memory[(address \div 4) + 1] ELSE Zero
Words(from, quads) == [k \in 1..(quads * Quad) |-> MemoryWord(from + 4 * (k - 1))]

-----------------------------------------------------------------------------
(* The DMA controller.                                                     *)

(* A write to CHCR: a rising edge of STR starts the channel.               *)
WriteChcr(c, mode) ==
  /\ chain.c = 0
  /\ IF channel[c].str
     THEN channel' = [channel EXCEPT ![c].mode = mode] /\ UNCHANGED chain
     ELSE /\ channel' = [channel EXCEPT ![c].mode = mode, ![c].str = TRUE]
          /\ chain' = [c |-> c, tadr |-> channel[c].tadr, asr |-> <<>>, done |-> FALSE, guard |-> MaxTags]
  /\ UNCHANGED <<memory, vifWords, gifWords, imem, vu, vif, gifTag, effects>>

(* transfer: the data is given to the device, which takes all it wants     *)
(* before the chain goes on.                                               *)
Transfer(c, from, quads) ==
  IF c = 1 THEN vifWords' = Words(from, quads) /\ UNCHANGED gifWords
  ELSE gifWords' = Words(from, quads) /\ UNCHANGED vifWords
Between == chain.c # 0 /\ vifWords = <<>> /\ gifWords = <<>> /\ ~vu.running

NormalTransfer ==
  /\ Between /\ ~chain.done
  /\ channel[chain.c].mode # "chain"
  /\ Transfer(chain.c, channel[chain.c].madr, channel[chain.c].qwc)
  /\ chain' = [chain EXCEPT !.done = TRUE]
  /\ UNCHANGED <<memory, channel, imem, vu, vif, gifTag, effects>>

(* QWC and the address are read from one word: the QWC is the address      *)
(* modulo QwcRange.  The bits of ID are of the address too, but            *)
(* Memory::translate has no use for them: word is the word without them.   *)
QwcOf(tag) == tag.word % QwcRange
AddrOf(tag) == tag.word
Pushed(asr, a) == IF Len(asr) < 2 THEN <<a>> \o asr ELSE asr
NextTag(tag, here) ==
  LET after == here + 16
      behind == after + QwcOf(tag) * 16
  IN  CASE tag.id = "cnt" -> [done |-> FALSE, tadr |-> behind, asr |-> chain.asr]
        [] tag.id = "next" -> [done |-> FALSE, tadr |-> AddrOf(tag), asr |-> chain.asr]
        [] tag.id \in {"ref", "refs"} -> [done |-> FALSE, tadr |-> after, asr |-> chain.asr]
        [] tag.id = "call" -> [done |-> FALSE, tadr |-> AddrOf(tag), asr |-> Pushed(chain.asr, behind)]
        [] tag.id = "ret" /\ chain.asr # <<>> ->
             [done |-> FALSE, tadr |-> Head(chain.asr), asr |-> Tail(chain.asr)]
        [] OTHER -> [done |-> TRUE, tadr |-> 0, asr |-> chain.asr]

(* Mutant of MoreTags: a chain has no bound.                               *)
MoreTagsUnbounded == ~chain.done
MoreTags == ~chain.done /\ chain.guard > 0
ChainTag ==
  /\ Between /\ MoreTags
  /\ channel[chain.c].mode = "chain"
  /\ chain.tadr % 4 = 0
  /\ LET tag == MemoryWord(chain.tadr)
         next == NextTag(tag, chain.tadr)
         from == IF tag.id \in {"refe", "ref", "refs"} THEN AddrOf(tag) ELSE chain.tadr + 16
     IN  /\ Transfer(chain.c, from, QwcOf(tag))
         /\ chain' = [chain EXCEPT !.tadr = next.tadr, !.asr = next.asr, !.done = next.done,
                                   !.guard = IF @ = 0 THEN 0 ELSE @ - 1]
  /\ UNCHANGED <<memory, channel, imem, vu, vif, gifTag, effects>>

TransferEnds ==
  /\ Between /\ (~MoreTags \/ (channel[chain.c].mode # "chain" /\ chain.done))
  /\ channel' = [channel EXCEPT ![chain.c].str = FALSE,
                                ![chain.c].tadr = IF channel[chain.c].mode = "chain" THEN chain.tadr ELSE @]
  /\ chain' = Idle
  /\ UNCHANGED <<memory, vifWords, gifWords, imem, vu, vif, gifTag, effects>>

-----------------------------------------------------------------------------
(* The VIF, one command a step.                                            *)

AtCommand == vifWords # <<>> /\ gifWords = <<>> /\ ~vu.running
Command == Head(vifWords)
After(n) == SubSeq(vifWords, n + 2, Len(vifWords))
Operand(n) == SubSeq(vifWords, 2, n + 1)
Whole(n) == n < Len(vifWords)
Wrote(e) == effects' = effects \o e

VifSets ==
  /\ AtCommand
  /\ Command.cmd \in {"nop", "stcycl", "offset", "base", "itop", "stmod", "mark", "flush"}
  /\ vif' = IF Command.cmd \in DOMAIN vif THEN [vif EXCEPT ![Command.cmd] = Command.imm] ELSE vif
  /\ vifWords' = After(0)
  /\ UNCHANGED <<gifWords, imem, vu, effects>>

(* MSCAL: the microprogram at imm \div 8 runs to its end before the VIF    *)
(* goes on.                                                                *)
VifCalls ==
  /\ AtCommand
  /\ Command.cmd = "mscal"
  /\ vu' = [pc |-> Command.imm \div 8, start |-> Command.imm \div 8, steps |-> 0, vi |-> [n \in 2..15 |-> 0], running |-> TRUE]
  /\ Wrote(<<[at |-> "run", addr |-> Command.imm, data |-> <<>>]>>)
  /\ vifWords' = After(0)
  /\ UNCHANGED <<gifWords, imem, vif>>

(* STMASK, STROW and STCOL take their words, or end the feed.              *)
OperandsOf(cmd) == IF cmd = "stmask" THEN 1 ELSE 4
VifTakes ==
  /\ AtCommand
  /\ Command.cmd \in {"stmask", "strow", "stcol"}
  /\ IF Whole(OperandsOf(Command.cmd))
     THEN /\ vif' = [vif EXCEPT ![Command.cmd] = Operand(OperandsOf(Command.cmd))]
          /\ vifWords' = After(OperandsOf(Command.cmd))
     ELSE vifWords' = <<>> /\ UNCHANGED vif
  /\ UNCHANGED <<gifWords, imem, vu, effects>>

(* The data of an upload in pieces of n words, as the memory gets them.    *)
Pieces(at, addr, n, count) ==
  [k \in 1..count |-> [at |-> at, addr |-> addr + (k - 1), data |-> SubSeq(vifWords, 2 + (k - 1) * n, 1 + k * n)]]

(* MPG writes the instructions that are there, of two words each; an       *)
(* incomplete one ends the feed.                                           *)
VifProgram ==
  /\ AtCommand
  /\ Command.cmd = "mpg"
  /\ LET there == (Len(vifWords) - 1) \div 2
         n == IF Command.num <= there THEN Command.num ELSE there
         uploaded == Pieces("code", Command.imm, 2, n)
     IN  /\ imem' = [a \in DOMAIN imem |-> IF a - Command.imm \in 0..(n - 1)
                                          THEN uploaded[a - Command.imm + 1].data[1] ELSE imem[a]]
         /\ Wrote(uploaded)
         /\ vifWords' = IF Command.num <= there THEN After(2 * Command.num) ELSE <<>>
  /\ UNCHANGED <<gifWords, vu, vif>>

(* UNPACK of NUM vectors of as many words each; what lies behind the data  *)
(* is read as 0.                                                           *)
(* Mutant of Unpacked: the data are taken to be whole quads.               *)
UnpackedQuads == After(Command.num * Quad)
Unpacked == After(Command.num * Command.elems)
VifUnpack ==
  /\ AtCommand
  /\ Command.cmd = "unpack"
  /\ LET padded == vifWords \o [k \in 1..(Command.num * Command.elems) |-> Zero]
     IN  Wrote([k \in 1..Command.num |->
                  [at |-> "data", addr |-> Command.imm + (k - 1),
                   data |-> SubSeq(padded, 2 + (k - 1) * Command.elems, 1 + k * Command.elems)]])
  /\ vifWords' = Unpacked
  /\ UNCHANGED <<gifWords, imem, vu, vif>>

(* DIRECT gives the GIF its quads, if they are all there.                  *)
VifDirect ==
  /\ AtCommand
  /\ Command.cmd = "direct"
  /\ LET n == (IF Command.num = 0 THEN 65536 ELSE Command.num) * Quad
     IN  IF Whole(n) THEN gifWords' = Operand(n) /\ vifWords' = After(n)
         ELSE vifWords' = <<>> /\ UNCHANGED gifWords
  /\ UNCHANGED <<imem, vu, vif, effects>>

(* Anything else is reported and skipped.                                  *)
Known == {"nop", "stcycl", "offset", "base", "itop", "stmod", "mark", "flush", "mscal", "stmask", "strow", "stcol",
          "mpg", "unpack", "direct"}
VifSkips ==
  /\ AtCommand
  /\ Command.cmd \notin Known
  /\ vifWords' = After(0)
  /\ UNCHANGED <<gifWords, imem, vu, vif, effects>>

VifStep ==
  /\ VifSkips \/ VifSets \/ VifCalls \/ VifTakes \/ VifProgram \/ VifUnpack \/ VifDirect
  /\ UNCHANGED <<memory, channel, chain, gifTag>>

-----------------------------------------------------------------------------
(* The microprogram, one instruction a step.  Of an instruction its lower  *)
(* half is kept: its operation and the register fields fd, fs and ft.  An  *)
(* immediate is the number that the bits of ft, fs and the lowest of fd    *)
(* make; vi00 reads as 0 and vi01 as 1.  A branch goes to one before its   *)
(* offset, at once, and an operation whose code has bit 30 of the word     *)
(* set, "sq" here, ends the program.                                       *)

Imm(i) == i.ft + 32 * i.fs + 1024 * (i.fd % 2)
Vi(n) == IF n \in {0, 1} THEN n ELSE vu.vi[n]
S16(v) == IF v < 32768 THEN v ELSE v - 65536
Ends(i) == i.cmd = "sq"
Writes(n, v) == IF n \in DOMAIN vu.vi THEN [vu.vi EXCEPT ![n] = v % 65536] ELSE vu.vi
Computes(i) ==
  CASE i.cmd = "iaddi" -> Writes(i.ft, Vi(i.fs) + Imm(i))
    [] i.cmd = "iadd" -> Writes(i.fd, Vi(i.fs) + Vi(i.ft))
    [] i.cmd = "isub" -> Writes(i.fd, Vi(i.fs) - Vi(i.ft))
    [] i.cmd \in {"bal", "jalr"} -> Writes(i.fd, vu.pc + 1)
    [] OTHER -> vu.vi
Branches(i) ==
  CASE i.cmd \in {"b", "bal"} -> TRUE
    [] i.cmd = "ibeq" -> Vi(i.fs) = Vi(i.ft)
    [] i.cmd = "ibne" -> Vi(i.fs) # Vi(i.ft)
    [] i.cmd = "ibgtz" -> S16(Vi(i.fs)) > 0
    [] i.cmd = "ibgez" -> S16(Vi(i.fs)) >= 0
    [] i.cmd = "ibltz" -> S16(Vi(i.fs)) < 0
    [] i.cmd = "iblez" -> S16(Vi(i.fs)) <= 0
    [] OTHER -> FALSE
NextPc(i) ==
  CASE i.cmd = "jr" \/ (i.cmd = "jalr" /\ i.fs # i.fd) -> Vi(i.fs)
    [] i.cmd = "jalr" /\ i.fs = i.fd -> IF i.fd \in DOMAIN vu.vi THEN (vu.pc + 1) % 65536 ELSE Vi(i.fs)
    [] Branches(i) -> (vu.pc + Imm(i) - 1) % 65536
    [] Ends(i) -> vu.pc
    [] OTHER -> vu.pc + 1

MicroStep ==
  /\ vu.running
  /\ IF vu.steps < MaxSteps /\ vu.pc \in DOMAIN imem
     THEN LET i == imem[vu.pc]
              again == NextPc(i) = vu.start /\ vu.steps > LoopSteps
          IN  /\ vu' = [vu EXCEPT !.pc = NextPc(i), !.steps = @ + 1, !.vi = Computes(i),
                                  !.running = ~Ends(i) /\ ~again]
              /\ Wrote(IF i.cmd = "sq" THEN <<[at |-> "stored", addr |-> Vi(i.fs), data |-> <<>>]>> ELSE <<>>)
     ELSE vu' = [vu EXCEPT !.running = FALSE] /\ UNCHANGED effects
  /\ UNCHANGED <<memory, channel, chain, vifWords, gifWords, imem, vif, gifTag>>

-----------------------------------------------------------------------------
(* The GIF: a tag, then its data, each step a register or a quad of image. *)
(* A PACKED "nop" writes nothing; in REGLIST it is a register as any other.*)

Need(tag) == IF tag.flg = "reglist" THEN 2 ELSE Quad
GifDrops == SubSeq(gifWords, Quad + 1, Len(gifWords))

(* A turn of the outer loop.  PRE writes PRIM.                             *)
GifReadsTag ==
  /\ gifWords # <<>> /\ gifTag.left = 0
  /\ IF Len(gifWords) < Quad
     THEN gifWords' = <<>> /\ UNCHANGED <<gifTag, effects>>
     ELSE LET tag == Head(gifWords)
              regs == IF tag.flg = "image" THEN <<"image">> ELSE tag.regs
          IN  /\ gifTag' = IF GifDrops = <<>> THEN NoTag
                           ELSE [flg |-> tag.flg, left |-> tag.nloop * Len(regs), regs |-> regs]
              /\ Wrote(IF tag.pre THEN <<[at |-> "gs", addr |-> "prim", data |-> <<>>]>> ELSE <<>>)
              /\ gifWords' = GifDrops
  /\ UNCHANGED <<memory, channel, chain, vifWords, imem, vu, vif>>

Register == gifTag.regs[Len(gifTag.regs) - ((gifTag.left - 1) % Len(gifTag.regs))]
GifWrites ==
  /\ gifWords # <<>> /\ gifTag.left > 0
  /\ IF Len(gifWords) < Need(gifTag)
     THEN gifWords' = <<>> /\ gifTag' = NoTag /\ UNCHANGED effects
     ELSE /\ Wrote(IF Register = "nop" /\ gifTag.flg = "packed" THEN <<>>
                   ELSE <<[at |-> "gs", addr |-> Register, data |-> SubSeq(gifWords, 1, Need(gifTag))]>>)
          /\ gifWords' = SubSeq(gifWords, Need(gifTag) + 1, Len(gifWords))
          /\ gifTag' = IF gifWords' = <<>> THEN NoTag ELSE [gifTag EXCEPT !.left = @ - 1]
  /\ UNCHANGED <<memory, channel, chain, vifWords, imem, vu, vif>>

GifStep == GifReadsTag \/ GifWrites
DeviceStep == NormalTransfer \/ ChainTag \/ TransferEnds \/ VifStep \/ MicroStep \/ GifStep
=============================================================================
