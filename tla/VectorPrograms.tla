--------------------------- MODULE VectorPrograms ---------------------------
(***************************************************************************)
(* What compilers and programmers do with EEVector, as lists of its        *)
(* instructions: an unaligned copy by pairs of loads and stores, the load  *)
(* of an unaligned quad with the funnel shift, the transposition of four   *)
(* registers of four words, unpacking elements and packing them again, a   *)
(* reordering of elements that undoes itself, and what can be computed     *)
(* lane by lane in two ways.                                               *)
(***************************************************************************)
EXTENDS EEVector, SequencesExt

VARIABLES
  idiom,      \* what the list does
  before      \* memory and registers before it

idiomVars == <<idiom, before>>

Ins(op, rd, rs, rt, a, n) == [op |-> op, rd |-> rd, rs |-> rs, rt |-> rt, a |-> a, n |-> n]
MMI(op, rd, rs, rt, n) == Ins(op, rd, rs, rt, 0, n)

(* w bytes at a: the left half of the pair has the address of the last.    *)
Pair(kind, reg, a, w) ==
  {<<x, y>> : x, y \in {Ins(kind \o "left", reg, reg, reg, a + w - 1, w), Ins(kind \o "right", reg, reg, reg, a, w)}}
  \ {<<x, x>> : x \in {Ins(kind \o "left", reg, reg, reg, a + w - 1, w), Ins(kind \o "right", reg, reg, reg, a, w)}}
Copies(a, c, w) == {x \o y : x \in Pair("ld", 1, a, w), y \in Pair("st", 1, c, w)}

(* Registers 1 to 4 are the rows; 5 to 8 become the columns.               *)
TransposeWords ==
  <<MMI("pextl", 9, 2, 1, 4), MMI("pextu", 10, 2, 1, 4), MMI("pextl", 11, 4, 3, 4), MMI("pextu", 12, 4, 3, 4),
    MMI("pcpyld", 5, 11, 9, 8), MMI("pcpyud", 6, 9, 11, 8), MMI("pcpyld", 7, 12, 10, 8), MMI("pcpyud", 8, 10, 12, 8)>>

(* Registers 1 and 2 to elements of twice the size, and back into 5.       *)
UnpackAndPack(s) == <<MMI("pextl", 3, 2, 1, s), MMI("pextu", 4, 2, 1, s), MMI("ppac", 5, 4, 3, s)>>

(* The same permutation as often as it takes to come round.                *)
Round(op, s) == [k \in 1..(IF op = "prot3w" THEN 3 ELSE 2) |-> MMI(op, 1, 1, 1, s)]
Rounds == {<<"pexeh", 2>>, <<"prevh", 2>>, <<"pexch", 2>>, <<"pexew", 4>>, <<"pexcw", 4>>, <<"prot3w", 4>>}

(* The halfwords of 1 that pinth takes from the upper half, beside those   *)
(* of 2; pinteh takes the even ones of them again.                         *)
Halves == <<MMI("pinth", 3, 1, 2, 2), MMI("pinth", 4, 2, 1, 2), MMI("pinteh", 5, 4, 3, 2)>>

(* In two ways from 1 and 2, into 7 and 8; 6 is made 0, and 5 all ones.    *)
Zeros == <<MMI("psub", 6, 1, 1, 2), MMI("pnor", 5, 6, 6, 2)>>
Shift(op, rd, rt, sa) == Ins(op, rd, rt, rt, sa, 2)
(* Where the mask 3 is set what is in 1, elsewhere what is in 2.           *)
Select(mask, x, y) ==
  <<MMI("pand", 9, x, mask, 2), MMI("pnor", 10, mask, 6, 2), MMI("pand", 10, y, 10, 2), MMI("por", 7, 9, 10, 2)>>
Maximum == <<MMI("pcgt", 3, 1, 2, 2)>> \o Select(3, 1, 2) \o <<MMI("pmax", 8, 1, 2, 2)>>
Minimum == <<MMI("pmax", 3, 1, 2, 2), MMI("pceq", 4, 1, 3, 2)>> \o Select(4, 2, 1) \o <<MMI("pmin", 8, 1, 2, 2)>>
AbsoluteValue == <<MMI("psubs", 3, 6, 2, 2), MMI("pmax", 7, 2, 3, 2), MMI("pabs", 8, 2, 2, 2)>>
AddUnsigned(s) ==
  <<MMI("pnor", 3, 1, 6, s), MMI("psubu", 3, 3, 2, s), MMI("pnor", 7, 3, 6, s), MMI("paddu", 8, 1, 2, s)>>
(* The sum overflows where its sign differs from those of both operands.   *)
AddSigned ==
  <<MMI("padd", 4, 1, 2, 2), MMI("pxor", 3, 4, 1, 2), MMI("pxor", 9, 4, 2, 2), MMI("pand", 3, 3, 9, 2),
    Shift("psra", 3, 3, 15), Shift("psra", 11, 1, 15), Shift("psrl", 12, 5, 1), MMI("pxor", 11, 11, 12, 2)>>
  \o Select(3, 11, 4) \o <<MMI("padds", 8, 1, 2, 2)>>
Butterfly ==
  <<MMI("padd", 3, 1, 2, 2), MMI("psub", 4, 1, 2, 2), MMI("pcpyud", 7, 3, 3, 8), MMI("pcpyld", 7, 7, 4, 8),
    MMI("padsbh", 8, 1, 2, 2)>>
Field(sa) ==
  <<Shift("psll", 7, 1, sa), Shift("psrl", 7, 7, sa), Shift("psrl", 3, 5, sa), MMI("pand", 8, 1, 3, 2)>>
Pixels == <<MMI("pext5", 3, 1, 1, 4), MMI("ppac5", 7, 3, 3, 4)>>

Program(name, from, to, w, instructions) ==
  /\ idiom = [name |-> name, from |-> from, to |-> to, w |-> w]
  /\ list = instructions
CopyInit ==
  \E w \in {4, 8} : \E from, to \in 0..(MemorySize - w) : \E l \in Copies(from, to, w) : Program("copy", from, to, w, l)
MoveInit ==
  \/ \E sa \in 0..15 : Program("funnel", 0, 0, sa, <<MMI("qfsrv", 3, 2, 1, sa)>>)
  \/ Program("transpose", 0, 0, 0, TransposeWords)
  \/ \E s \in {1, 2, 4} : Program("pack", 0, 0, 0, UnpackAndPack(s))
  \/ \E o \in Rounds : Program("round", 0, 0, 0, Round(o[1], o[2]))
  \/ Program("halves", 0, 0, 0, Halves)

LanesInit ==
  \/ \E l \in {Maximum, Minimum, AbsoluteValue, AddUnsigned(1), AddUnsigned(2), AddSigned, Butterfly}
              \union {Field(sa) : sa \in 0..15} : Program("lanes", 0, 0, 0, Zeros \o l)
  \/ Program("pixels", 0, 0, 0, Pixels)

Done == list = <<>>
Slice(m, a, n) == [k \in 0..(n - 1) |-> m[a + k]]

(* Each idiom leaves what it is for.  An unaligned copy moves its bytes,   *)
(* and no other, whatever the two addresses, in either order of each pair; *)
(* what the saturating, comparing and shifting instructions give is what   *)
(* is made of the others by masks, at every limit of the elements.         *)
IdiomsWork ==
  Done =>
    CASE idiom.name = "copy" ->
           \A c \in Address :
             mem[c] = IF c \in idiom.to..(idiom.to + idiom.w - 1) THEN before.mem[idiom.from + (c - idiom.to)]
                      ELSE before.mem[c]
      [] idiom.name = "funnel" -> r[3] = [n \in Lane |-> IF n + idiom.w < 16 THEN before.r[1][n + idiom.w]
                                                         ELSE before.r[2][(n + idiom.w) - 16]]
      [] idiom.name = "transpose" ->
           \A row, column \in 0..3 : \A k \in 0..3 :
             r[5 + column][row * 4 + k] = before.r[1 + row][column * 4 + k]
      [] idiom.name = "pack" -> r[5] = before.r[1]
      [] idiom.name = "round" -> r[1] = before.r[1]
      [] idiom.name = "halves" ->
           r[5] = [n \in Lane |-> IF n % 4 < 2 THEN before.r[2][(n \div 4) * 2 + (n % 2)]
                                  ELSE before.r[1][(n \div 4) * 2 + (n % 2)]]
      [] idiom.name = "lanes" -> r[7] = r[8]
      [] idiom.name = "pixels" -> r[7] = [n \in Lane |-> IF n % 4 < 2 THEN before.r[1][n] ELSE 0]
=============================================================================
