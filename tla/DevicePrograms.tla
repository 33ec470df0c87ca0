--------------------------- MODULE DevicePrograms ---------------------------
(***************************************************************************)
(* What a guest does with EEDevices: it lays VIF and GIF packets out in    *)
(* memory, in segments along a DMA chain, and starts the channel.  The     *)
(* meaning of a packet is what it is to write to VU memory and to the GS;  *)
(* the program's is that of its packets, one after the other.              *)
(***************************************************************************)
EXTENDS EEDevices, SequencesExt

VARIABLES
  packets,    \* the packets of the guest's program, in order
  shape,      \* that of its chain
  kicks       \* the transfers it has still to start

programVars == <<packets, shape, kicks>>

Datum(n) == [cmd |-> "datum", v |-> n]
Data(n, count) == [k \in 1..count |-> Datum(n + k)]
Vif(cmd, num, imm, elems) == [cmd |-> cmd, num |-> num, imm |-> imm, elems |-> elems]

(* Packets for the GIF: a tag with nloop times its registers.  A register  *)
(* takes a quad, or half of one in REGLIST.                                *)
GifPacket(flg, nloop, regs, pre) == [to |-> "gif", flg |-> flg, nloop |-> nloop, regs |-> regs, pre |-> pre]
Width(g) == IF g.flg = "reglist" THEN 2 ELSE Quad
GifData(g) == Data(0, g.nloop * Len(g.regs) * Width(g))
GifWordsOf(g) ==
  <<[cmd |-> "giftag", flg |-> g.flg, nloop |-> g.nloop, regs |-> g.regs, pre |-> g.pre]>>
  \o [k \in 1..(Quad - 1) |-> Zero] \o GifData(g)
GifMeaning(g) ==
  (IF g.pre THEN <<[at |-> "gs", addr |-> "prim", data |-> <<>>]>> ELSE <<>>) \o
  SelectSeq([k \in 1..(g.nloop * Len(g.regs)) |->
               [at |-> "gs", addr |-> g.regs[((k - 1) % Len(g.regs)) + 1],
                data |-> SubSeq(GifData(g), (k - 1) * Width(g) + 1, k * Width(g))]],
            LAMBDA e : e.addr # "nop" \/ g.flg # "packed")

(* Packets for VIF1: a command and its data.                               *)
VifPacket(cmd, num, imm, elems) == [to |-> "vif", cmd |-> cmd, num |-> num, imm |-> imm, elems |-> elems]
Direct(g) == [to |-> "direct", gif |-> g]
(* Microprograms for VU1, and the addresses they store to: straight on,    *)
(* over a store, around a loop until vi03 is 0, through two subroutines,   *)
(* on each condition, for ever on one instruction, and from the start.     *)
Vu(op, fd, fs, ft) == [cmd |-> op, fd |-> fd, fs |-> fs, ft |-> ft]
Set2 == Vu("iaddi", 0, 0, 2)
Skip(op) == <<Vu("iadd", 0, 0, 0), Vu(op, 0, 0, 3), Vu("sq", 0, 1, 0), Vu("sq", 0, 0, 0)>>
MicroPrograms ==
  <<[code |-> <<Set2, Vu("iaddi", 0, 0, 3), Vu("iadd", 2, 2, 3), Vu("sq", 0, 2, 0)>>, stores |-> <<5>>],
    [code |-> <<Set2, Vu("b", 0, 0, 3), Vu("sq", 0, 0, 0), Vu("sq", 0, 2, 0)>>, stores |-> <<2>>],
    [code |-> <<Set2, Vu("iaddi", 0, 0, 3), Vu("isub", 3, 3, 1), Vu("ibeq", 0, 0, 3), Vu("jr", 0, 2, 0), Vu("sq", 0, 3, 0)>>,
     stores |-> <<0>>],
    [code |-> <<Vu("bal", 4, 0, 3), Vu("sq", 0, 2, 0), Vu("iaddi", 0, 0, 2), Vu("jalr", 5, 4, 0)>>, stores |-> <<2>>],
    [code |-> <<Vu("iaddi", 0, 0, 3), Vu("ibne", 0, 0, 3), Vu("sq", 0, 0, 0), Vu("sq", 0, 3, 0)>>, stores |-> <<3>>],
    [code |-> Skip("ibgez"), stores |-> <<0>>],
    [code |-> Skip("iblez"), stores |-> <<0>>],
    [code |-> Skip("ibgtz"), stores |-> <<1>>],
    [code |-> Skip("ibltz"), stores |-> <<1>>],
    [code |-> <<Set2, Vu("b", 0, 0, 1), Vu("sq", 0, 0, 0)>>, stores |-> <<>>],
    [code |-> <<Set2, Vu("b", 0, 0, 0), Vu("sq", 0, 0, 0)>>, stores |-> <<>>]>>
Micro(n) == [to |-> "micro", program |-> MicroPrograms[n]]
CodeOf(p) == FlattenSeq([k \in DOMAIN p.program.code |-> <<p.program.code[k], Zero>>])
DataOf(p) ==
  CASE p.cmd = "unpack" -> Data(p.imm, p.num * p.elems)
    [] p.cmd = "mpg" -> Data(p.imm, p.num * 2)
    [] p.cmd = "stmask" -> Data(p.imm, 1)
    [] p.cmd \in {"strow", "stcol"} -> Data(p.imm, 4)
    [] OTHER -> <<>>
WordsOf(p) ==
  CASE p.to = "gif" -> GifWordsOf(p)
    [] p.to = "direct" -> <<Vif("direct", Len(GifWordsOf(p.gif)) \div Quad, 0, 0)>> \o GifWordsOf(p.gif)
    [] p.to = "micro" -> <<Vif("mpg", Len(p.program.code), 0, 0)>> \o CodeOf(p) \o <<Vif("mscal", 0, 0, 0)>>
    [] p.to = "vif" -> <<Vif(p.cmd, p.num, p.imm, p.elems)>> \o DataOf(p)
Uploaded(p, at, n) ==
  [k \in 1..p.num |-> [at |-> at, addr |-> p.imm + (k - 1), data |-> SubSeq(DataOf(p), (k - 1) * n + 1, k * n)]]
Meaning(p) ==
  CASE p.to = "gif" -> GifMeaning(p)
    [] p.to = "direct" -> GifMeaning(p.gif)
    [] p.to = "micro" ->
         [k \in DOMAIN p.program.code |-> [at |-> "code", addr |-> k - 1, data |-> <<p.program.code[k], Zero>>]]
         \o <<[at |-> "run", addr |-> 0, data |-> <<>>]>>
         \o [k \in DOMAIN p.program.stores |-> [at |-> "stored", addr |-> p.program.stores[k], data |-> <<>>]]
    [] p.to = "vif" /\ p.cmd = "unpack" -> Uploaded(p, "data", p.elems)
    [] p.to = "vif" /\ p.cmd = "mpg" -> Uploaded(p, "code", 2)
    [] p.to = "vif" /\ p.cmd = "mscal" -> <<[at |-> "run", addr |-> p.imm, data |-> <<>>]>>
    [] OTHER -> <<>>

(* A segment is a whole number of quads; a wide one has sixteen.           *)
Filled(words, size) == words \o [k \in 1..(size - Len(words)) |-> Zero]
WordsOfAll(ps) == FlattenSeq([n \in DOMAIN ps |-> WordsOf(ps[n])])
Segment(ps) == Filled(WordsOfAll(ps), Quad * ((Len(WordsOfAll(ps)) + Quad - 1) \div Quad))
WideQuads == 16
Wide(segment) == Filled(segment, Quad * WideQuads)

(* A chain is a sequence of blocks, a tag and its data each ("data" has no *)
(* tag).  A block that a tag refers to lies where its address, modulo      *)
(* QwcRange, is the number of quads that come with that tag; the others lie*)
(* behind the block before them.                                           *)
Behind == QwcRange
Block(lies, id, to, words) == [lies |-> lies, id |-> id, to |-> to, words |-> words]
TagWords(b) == IF b.id = "data" THEN 0 ELSE Quad
BlockSize(b) == 4 * (TagWords(b) + Len(b.words))
Placed(address, lies) == IF lies = Behind THEN address
                         ELSE CHOOSE a \in address..(address + QwcRange - 1) : a % QwcRange = lies
Addresses(blocks) ==
  LET at[n \in DOMAIN blocks] ==
        IF n = 1 THEN 0 ELSE Placed(at[n - 1] + BlockSize(blocks[n - 1]), blocks[n].lies)
  IN  at
MemoryOf(blocks) ==
  LET at == Addresses(blocks)
      tag(b) == [cmd |-> "tag", id |-> b.id, word |-> IF b.to = 0 THEN Len(b.words) \div Quad ELSE at[b.to]]
      gap(n) == IF n = 1 THEN 0 ELSE (at[n] - at[n - 1] - BlockSize(blocks[n - 1])) \div 4
      written(b) == Filled(IF b.id = "data" THEN <<>> ELSE <<tag(b)>>, TagWords(b)) \o b.words
  IN  FlattenSeq([n \in DOMAIN blocks |-> Filled(<<>>, gap(n)) \o written(blocks[n])])

(* The shapes of chains that deliver three segments in order.  In "deep" a *)
(* third call is nested in two: its return passes over the block behind it,*)
(* as only two return addresses are kept.                                  *)
Chain(form, a, b, c) ==
  CASE form = "straight" -> <<Block(0, "cnt", 0, a), Block(Behind, "cnt", 0, b), Block(Behind, "end", 0, c)>>
    [] form = "linked" -> <<Block(0, "cnt", 0, a), Block(Behind, "next", 4, <<>>), Block(Behind, "end", 0, a),
                             Block(0, "cnt", 0, b), Block(Behind, "end", 0, c)>>
    [] form = "called" -> <<Block(0, "call", 3, <<>>), Block(Behind, "end", 0, c),
                             Block(0, "cnt", 0, a), Block(Behind, "ret", 0, b)>>
    [] form = "nested" -> <<Block(0, "call", 3, <<>>), Block(Behind, "end", 0, c), Block(0, "cnt", 0, a),
                             Block(Behind, "call", 6, <<>>), Block(Behind, "ret", 0, <<>>), Block(0, "ret", 0, b)>>
    [] form = "deep" -> <<Block(0, "call", 3, <<>>), Block(Behind, "end", 0, c),
                           Block(0, "call", 5, <<>>), Block(Behind, "ret", 0, b),
                           Block(0, "call", 7, <<>>), Block(Behind, "ret", 0, c), Block(0, "ret", 0, a)>>
    [] form = "wide" -> <<Block(0, "cnt", 0, a), Block(Behind, "ref", 4, <<>>), Block(Behind, "next", 5, Wide(c)),
                           Block(WideQuads, "data", 0, Wide(b)), Block(WideQuads, "end", 0, <<>>)>>
    [] form = "looping" -> <<Block(0, "cnt", 0, a), Block(Behind, "cnt", 0, b), Block(Behind, "next", 1, <<>>)>>

-----------------------------------------------------------------------------
ProgramInit(c, mode, form, ps) ==
  LET blocks == Chain(form, Segment(SubSeq(ps, 1, 2)), Segment(SubSeq(ps, 3, 3)), Segment(SubSeq(ps, 4, 4)))
  IN  /\ shape = form
      /\ packets = IF mode = "chain" THEN ps ELSE SubSeq(ps, 1, 2)
      /\ memory = MemoryOf(blocks)
      /\ channel = [d \in {1, 2} |-> [madr |-> 16, qwc |-> Len(blocks[1].words) \div Quad,
                                      tadr |-> 0, mode |-> "normal", str |-> FALSE]]
      /\ chain = Idle
      /\ vifWords = <<>> /\ gifWords = <<>>
      /\ imem = [a \in 0..(MicroSize - 1) |-> Datum(0)]
      /\ vu = [pc |-> 0, start |-> 0, steps |-> 0, vi |-> <<>>, running |-> FALSE]
      /\ vif = [reg \in {"stmask", "strow", "stcol"} |-> <<>>]
               @@ [reg \in {"stcycl", "offset", "base", "itop", "stmod", "mark"} |-> 0]
      /\ gifTag = NoTag
      /\ effects = <<>>
      /\ kicks = <<<<c, mode>>>>

Start ==
  /\ kicks # <<>>
  /\ WriteChcr(Head(kicks)[1], Head(kicks)[2])
  /\ kicks' = Tail(kicks)
  /\ UNCHANGED <<packets, shape>>

ProgramStep == Start \/ (DeviceStep /\ UNCHANGED programVars)

(* Whatever the shape of the chain, and wherever a packet lies in it, the  *)
(* VIF and the GIF write what the packets mean, in their order: no command *)
(* takes data for a command, or the other way round, and none waits for a  *)
(* microprogram that has no end.                                           *)
PacketsArrive ==
  LET meaning == FlattenSeq([n \in DOMAIN packets |-> Meaning(packets[n])])
  IN  shape # "looping" =>
        /\ IsPrefix(effects, meaning)
        /\ (kicks = <<>> /\ chain.c = 0) => effects = meaning

(* A write to CHCR returns and STR is clear again, also when the chain has *)
(* no end, or a microprogram that it calls.                                *)
TransfersEnd == (chain.c # 0) ~> (chain.c = 0 /\ \A c \in DOMAIN channel : ~channel[c].str)
=============================================================================
