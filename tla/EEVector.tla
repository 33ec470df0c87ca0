------------------------------ MODULE EEVector ------------------------------
(***************************************************************************)
(* The bytes of the EE's 128-bit registers: the unaligned loads and stores *)
(* and the MMI instructions that move elements, or compute with the        *)
(* elements of two registers lane by lane (runtime/src/runtime.cpp).       *)
(*                                                                         *)
(* A register is its sixteen bytes, the lowest first, and memory a byte    *)
(* per address.  The guest executes a list of instructions, one a step.    *)
(***************************************************************************)
EXTENDS Integers, Sequences, FiniteSetsExt, Bitwise

CONSTANTS
  MemorySize, \* memory has the addresses 0..MemorySize - 1
  Reg         \* the registers, r0 aside

Byte == 0..255
Ext(b) == IF b < 128 THEN 0 ELSE 255
Lane == 0..15
Quadword == [Lane -> Byte]
Address == 0..(MemorySize - 1)

ASSUME MemoryAssumption == MemorySize \in Nat

VARIABLES
  r,          \* EEContext::r
  mem,        \* Memory
  list        \* the instructions still to execute

vectorVars == <<r, mem, list>>

-----------------------------------------------------------------------------
(* Unaligned access.  m is the aligned word of w bytes (4 or 8) that holds *)
(* the address, b the address's place in it, x the register.               *)

LoadLeft(m, x, b, w) == [k \in 0..(w - 1) |-> IF k + b >= w - 1 THEN m[k + b - (w - 1)] ELSE x[k]]
LoadRight(m, x, b, w) == [k \in 0..(w - 1) |-> IF k + b < w THEN m[k + b] ELSE x[k]]
StoreLeft(m, x, b, w) == [k \in 0..(w - 1) |-> IF k <= b THEN x[k + w - 1 - b] ELSE m[k]]
StoreRight(m, x, b, w) == [k \in 0..(w - 1) |-> IF k >= b THEN x[k - b] ELSE m[k]]

Base(a, w) == a - (a % w)
WordAt(a, w) == [k \in 0..(w - 1) |-> mem[Base(a, w) + k]]
(* set32 and set64: the upper half of the register stays.                  *)
SetLow(x, v, w) ==
  [n \in Lane |-> IF n < w THEN v[n] ELSE IF n < 8 THEN Ext(v[w - 1]) ELSE x[n]]

Loaded(op, a, w, x) == SetLow(x, IF op = "left" THEN LoadLeft(WordAt(a, w), x, a % w, w)
                                 ELSE LoadRight(WordAt(a, w), x, a % w, w), w)
Stored(op, a, w, x) ==
  LET v == IF op = "left" THEN StoreLeft(WordAt(a, w), x, a % w, w)
           ELSE StoreRight(WordAt(a, w), x, a % w, w)
  IN  [c \in Address |-> IF Base(c, w) = Base(a, w) THEN v[c % w] ELSE mem[c]]

-----------------------------------------------------------------------------
(* Elements of s bytes: a register has 16 \div s.  x is rs and y is rt.    *)

(* pextl, pextu: the elements of y and of x alternate, from the first or   *)
(* from the middle one on.                                                 *)
Extend(s, half, x, y) ==
  [n \in Lane |->
     LET i == n \div s
         from == i \div 2 + half * (8 \div s)
     IN  IF i % 2 = 0 THEN y[from * s + (n % s)] ELSE x[from * s + (n % s)]]
(* ppac: the even elements of y, then those of x.                          *)
Pack(s, x, y) ==
  [n \in Lane |->
     LET i == n \div s
     IN  IF n < 8 THEN y[2 * i * s + (n % s)] ELSE x[(2 * i * s + (n % s)) - 16]]
(* pinth and pinteh.                                                       *)
InterleaveHigh(x, y) ==
  [n \in Lane |-> LET k == (n \div 4) * 2 + (n % 2) IN IF n % 4 < 2 THEN y[k] ELSE x[k + 8]]
InterleaveEven(x, y) ==
  [n \in Lane |-> LET k == (n \div 4) * 4 + (n % 2) IN IF n % 4 < 2 THEN y[k] ELSE x[k]]
CopyLower(x, y) == [n \in Lane |-> IF n < 8 THEN y[n] ELSE x[n - 8]]
(* Mutant of CopyUpper: rt first, as in pcpyld.                            *)
CopyUpperSwapped(x, y) == [n \in Lane |-> IF n < 8 THEN y[n + 8] ELSE x[n]]
CopyUpper(x, y) == [n \in Lane |-> IF n < 8 THEN x[n + 8] ELSE y[n]]
(* The instructions that permute each group of four elements of y: the     *)
(* element that comes to each place.                                       *)
Order(op) ==
  CASE op \in {"pexeh", "pexew"} -> <<2, 1, 0, 3>>
    [] op = "prevh" -> <<3, 2, 1, 0>>
    [] op \in {"pexch", "pexcw"} -> <<0, 2, 1, 3>>
    [] op = "prot3w" -> <<1, 2, 0, 3>>
    [] op = "pcpyh" -> <<0, 0, 0, 0>>
Permute(op, s, y) ==
  [n \in Lane |-> LET i == n \div s
                  IN  y[(4 * (i \div 4) + Order(op)[(i % 4) + 1]) * s + (n % s)]]
(* qfsrv: the sixteen bytes from place sa on of y and x, one after the     *)
(* other; nothing for a shift by more than a register.                     *)
Funnel(sa, x, y) ==
  [n \in Lane |-> IF sa > 16 THEN 0 ELSE IF n + sa < 16 THEN y[n + sa] ELSE x[n + sa - 16]]

-----------------------------------------------------------------------------
(* Lane by lane: an element of s bytes is a number below Size(s).          *)

Size(s) == 256 ^ s
Element(x, n, s) == MapThenSumSet(LAMBDA k : x[n * s + k] * 256 ^ k, 0..(s - 1))
SignedElement(v, s) == IF v < Size(s) \div 2 THEN v ELSE v - Size(s)
Clamp(v, least, most) == IF v < least THEN least ELSE IF v > most THEN most ELSE v

Clamped(signed, v, s) ==
  IF signed THEN Clamp(v, -(Size(s) \div 2), (Size(s) \div 2) - 1) ELSE Clamp(v, 0, Size(s) - 1)
Absolute(v, s) == Clamped(TRUE, IF v < 0 THEN -v ELSE v, s)
(* EE_MMI_LANES, and op_pabsw and op_pabsh.                                *)
Computed(op, s, a, b) ==
  LET x == SignedElement(a, s)
      y == SignedElement(b, s)
      All == Size(s) - 1
  IN  CASE op = "padd" -> a + b
        [] op = "psub" -> a - b
        [] op = "padds" -> Clamped(TRUE, x + y, s)
        [] op = "psubs" -> Clamped(TRUE, x - y, s)
        [] op = "paddu" -> Clamped(FALSE, a + b, s)
        [] op = "psubu" -> Clamped(FALSE, a - b, s)
        [] op = "pcgt" -> IF x > y THEN All ELSE 0
        [] op = "pceq" -> IF a = b THEN All ELSE 0
        [] op = "pmax" -> IF x > y THEN x ELSE y
        [] op = "pmin" -> IF x < y THEN x ELSE y
        [] op = "pabs" -> Absolute(y, s)
        [] op = "pand" -> a & b
        [] op = "por" -> a | b
        [] op = "pxor" -> a ^^ b
        [] op = "pnor" -> All - (a | b)
(* EE_MMI_SHIFT: the amount is one of a halfword's bits, or of a word's.   *)
Shifted(op, s, b, sa) ==
  LET factor == 2 ^ (sa % (8 * s))
  IN  CASE op = "psll" -> b * factor
        [] op = "psrl" -> b \div factor
        [] op = "psra" -> SignedElement(b, s) \div factor
LaneBytes(Of(_), s) == [n \in Lane |-> (Of(n \div s) \div 256 ^ (n % s)) % 256]

(* padsbh.                                                                 *)
SubtractAdd(x, y) ==
  LaneBytes(LAMBDA k : Computed(IF k < 4 THEN "psub" ELSE "padd", 2, Element(x, k, 2), Element(y, k, 2)), 2)

(* pext5 and ppac5: a halfword of 1-5-5-5 bits to a word and back.         *)
Extend5(y) ==
  [n \in Lane |-> LET h == y[n - (n % 4)] + 256 * y[n - (n % 4) + 1]
                  IN  IF n % 4 < 3 THEN 8 * ((h \div 32 ^ (n % 4)) % 32) ELSE 128 * (h \div 32768)]
Pack5(y) ==
  [n \in Lane |-> LET at == n - (n % 4)
                      h == (y[at] \div 8) + 32 * (y[at + 1] \div 8) + 1024 * (y[at + 2] \div 8) + 32768 * (y[at + 3] \div 128)
                  IN  CASE n % 4 = 0 -> h % 256 [] n % 4 = 1 -> h \div 256 [] OTHER -> 0]

Moved(i) ==
  LET x == r[i.rs]
      y == r[i.rt]
  IN  CASE i.op = "pextl" -> Extend(i.n, 0, x, y)
        [] i.op = "pextu" -> Extend(i.n, 1, x, y)
        [] i.op = "ppac" -> Pack(i.n, x, y)
        [] i.op = "pinth" -> InterleaveHigh(x, y)
        [] i.op = "pinteh" -> InterleaveEven(x, y)
        [] i.op = "pcpyld" -> CopyLower(x, y)
        [] i.op = "pcpyud" -> CopyUpper(x, y)
        [] i.op = "qfsrv" -> Funnel(i.n, x, y)
        [] i.op \in {"pexeh", "pexew", "prevh", "pexch", "pexcw", "prot3w", "pcpyh"} -> Permute(i.op, i.n, y)
        [] i.op = "pext5" -> Extend5(y)
        [] i.op = "ppac5" -> Pack5(y)
        [] i.op = "padsbh" -> SubtractAdd(x, y)
        [] i.op \in {"psll", "psrl", "psra"} -> LaneBytes(LAMBDA k : Shifted(i.op, i.n, Element(y, k, i.n), i.a), i.n)
        [] OTHER -> LaneBytes(LAMBDA k : Computed(i.op, i.n, Element(x, k, i.n), Element(y, k, i.n)), i.n)

-----------------------------------------------------------------------------
Load ==
  /\ list # <<>>
  /\ Head(list).op \in {"ldleft", "ldright"}
  /\ LET i == Head(list)
     IN  r' = [r EXCEPT ![i.rt] = Loaded(IF i.op = "ldleft" THEN "left" ELSE "right", i.a, i.n, @)]
  /\ list' = Tail(list)
  /\ UNCHANGED mem
Store ==
  /\ list # <<>>
  /\ Head(list).op \in {"stleft", "stright"}
  /\ LET i == Head(list)
     IN  mem' = Stored(IF i.op = "stleft" THEN "left" ELSE "right", i.a, i.n, r[i.rt])
  /\ list' = Tail(list)
  /\ UNCHANGED r
Move ==
  /\ list # <<>>
  /\ Head(list).op \notin {"ldleft", "ldright", "stleft", "stright"}
  /\ r' = [r EXCEPT ![Head(list).rd] = Moved(Head(list))]
  /\ list' = Tail(list)
  /\ UNCHANGED mem

VectorStep == Load \/ Store \/ Move
=============================================================================
