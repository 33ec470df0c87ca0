---------------------------- MODULE EEArithmetic ----------------------------
(***************************************************************************)
(* The arithmetic of the EE core (runtime/src/runtime.cpp): multiplication,*)
(* division and multiply-accumulate into the LO and HI registers of its    *)
(* two pipelines, and the lanes of the MMI instructions.                   *)
(*                                                                         *)
(* A word has W bits where the EE's has 32; LO and HI have twice as many.  *)
(* A value of a register is a natural number, its bits.                    *)
(***************************************************************************)
EXTENDS Integers

CONSTANT W      \* the bits of a word

ASSUME WAssumption == W \in Nat /\ W >= 2

Two[n \in 0..(2 * W)] == IF n = 0 THEN 1 ELSE 2 * Two[n - 1]
Word == 0..(Two[W] - 1)
Double == 0..(Two[2 * W] - 1)
Pipeline == {0, 1}

VARIABLES
  lo, hi,     \* EEContext::lo and hi: of each, its low half for pipeline 0, its high half for 1
  total,      \* what each pipeline has accumulated, exactly (a history variable)
  divided,    \* the last division of a pipeline: signed, dividend, divisor
  kept        \* what the last pmfhl read, and total and divided of that time

arithmeticVars == <<lo, hi, total, divided, kept>>

Low(v) == v % Two[W]
Signed(v) == IF v < Two[W - 1] THEN v ELSE v - Two[W]
Extended(v) == Signed(Low(v)) % Two[2 * W]

-----------------------------------------------------------------------------
(* mult, multu, madd, maddu and their forms for pipeline 1 and for both at *)
(* once.  Each concerns a set P of pipelines; the operands x and y are a   *)
(* word for each pipeline.                                                 *)

Product(signed, x, y) == IF signed THEN Signed(x) * Signed(y) ELSE x * y
Accumulated(p) == Low(lo[p]) + Low(hi[p]) * Two[W]
In(P, new, old) == [p \in Pipeline |-> IF p \in P THEN new[p] ELSE old[p]]
Each(Of(_)) == [p \in Pipeline |-> Of(p)]
Set(P, Low64(_)) ==
  /\ lo' = In(P, Each(LAMBDA p : Extended(Low64(p))), lo)
  /\ hi' = In(P, Each(LAMBDA p : Extended(Low64(p) \div Two[W])), hi)
  /\ UNCHANGED kept

Multiply(P, signed, x, y) ==
  /\ Set(P, LAMBDA p : Product(signed, x[p], y[p]))
  /\ total' = In(P, Each(LAMBDA p : Product(signed, x[p], y[p]) % Two[2 * W]), total)
  /\ divided' = In(P, Each(LAMBDA p : <<>>), divided)
(* Mutant of MultiplyAdd: it adds to LO as it is, with its sign.           *)
MultiplyAddToLo(P, signed, x, y) ==
  /\ Set(P, LAMBDA p : lo[p] + Low(hi[p]) * Two[W] + Product(signed, x[p], y[p]))
  /\ total' = In(P, Each(LAMBDA p : (total[p] + Product(signed, x[p], y[p])) % Two[2 * W]), total)
  /\ divided' = In(P, Each(LAMBDA p : <<>>), divided)
MultiplyAdd(P, signed, x, y) ==
  /\ Set(P, LAMBDA p : Accumulated(p) + Product(signed, x[p], y[p]))
  /\ total' = In(P, Each(LAMBDA p : (total[p] + Product(signed, x[p], y[p])) % Two[2 * W]), total)
  /\ divided' = In(P, Each(LAMBDA p : <<>>), divided)

(* C's division, which rounds towards 0.                                   *)
Quotient(a, b) == IF (a < 0) = (b < 0) THEN (IF a < 0 THEN -a ELSE a) \div (IF b < 0 THEN -b ELSE b)
                  ELSE -((IF a < 0 THEN -a ELSE a) \div (IF b < 0 THEN -b ELSE b))
(* Mutant of RemainderOf: the remainder has the divisor's sign.            *)
RemainderFloored(signed, x, y) ==
  IF y = 0 THEN x ELSE IF ~signed THEN x % y
  ELSE LET b == IF Signed(y) < 0 THEN -Signed(y) ELSE Signed(y) IN Low(Signed(x) % b)
(* div32_common, and the cases of divu.                                    *)
QuotientOf(signed, x, y) ==
  CASE y = 0 -> IF signed /\ Signed(x) < 0 THEN 1 ELSE Two[W] - 1
    [] y # 0 /\ ~signed -> x \div y
    [] y # 0 /\ signed -> Low(Quotient(Signed(x), Signed(y)))
RemainderOf(signed, x, y) ==
  CASE y = 0 -> x
    [] y # 0 /\ ~signed -> x % y
    [] y # 0 /\ signed -> Low(Signed(x) - Quotient(Signed(x), Signed(y)) * Signed(y))

Divide(P, signed, x, y) ==
  LET Q(p) == QuotientOf(signed, x[p], y[p])
      R(p) == RemainderOf(signed, x[p], y[p])
  IN  /\ lo' = In(P, Each(LAMBDA p : Extended(Q(p))), lo)
      /\ hi' = In(P, Each(LAMBDA p : Extended(R(p))), hi)
      /\ total' = In(P, Each(LAMBDA p : Q(p) + R(p) * Two[W]), total)
      /\ divided' = In(P, Each(LAMBDA p : <<signed, x[p], y[p]>>), divided)
      /\ UNCHANGED kept

(* pmfhl.lw, .uw and .slw: the low words of HI and LO, the high ones, or   *)
(* each such pair clamped to a word, of every pipeline.                    *)
High(v) == v \div Two[W]
SignedDouble(v) == IF v < Two[2 * W - 1] THEN v ELSE v - Two[2 * W]
ClampWord(v) == IF v < -Two[W - 1] THEN -Two[W - 1] ELSE IF v >= Two[W - 1] THEN Two[W - 1] - 1 ELSE v
ClampedPair(l, h) == Low(ClampWord(SignedDouble(l + h * Two[W])))
MovedFrom(which, p) ==
  CASE which = "lw" -> <<Low(lo[p]), Low(hi[p])>>
    [] which = "uw" -> <<High(lo[p]), High(hi[p])>>
    [] which = "slw" -> <<ClampedPair(Low(lo[p]), Low(hi[p])), ClampedPair(High(lo[p]), High(hi[p]))>>
MoveFrom(which) ==
  /\ kept' = [which |-> which, words |-> Each(LAMBDA p : MovedFrom(which, p)), total |-> total, divided |-> divided]
  /\ UNCHANGED <<lo, hi, total, divided>>

(* pmthl.lw of what was kept: the high words of LO and HI stay.            *)
MoveTo ==
  /\ kept.which = "lw"
  /\ lo' = [p \in Pipeline |-> (lo[p] - Low(lo[p])) + kept.words[p][1]]
  /\ hi' = [p \in Pipeline |-> (hi[p] - Low(hi[p])) + kept.words[p][2]]
  /\ total' = kept.total
  /\ divided' = kept.divided
  /\ UNCHANGED kept

ArithmeticInit ==
  /\ lo = [p \in Pipeline |-> 0]
  /\ hi = [p \in Pipeline |-> 0]
  /\ total = [p \in Pipeline |-> 0]
  /\ divided = [p \in Pipeline |-> <<>>]
  /\ kept = [which |-> "none"]

(* The instructions.                                                       *)
Pipeline0(signed, x, y) == Multiply({0}, signed, x, y) \/ MultiplyAdd({0}, signed, x, y) \/ Divide({0}, signed, x, y)
Pipeline1(signed, x, y) == Multiply({1}, signed, x, y) \/ MultiplyAdd({1}, signed, x, y) \/ Divide({1}, signed, x, y)
BothMultiply(signed, x, y) == Multiply({0, 1}, signed, x, y) \/ (~signed /\ MultiplyAdd({0, 1}, signed, x, y))
BothDivide(signed, x, y) == Divide({0, 1}, signed, x, y)

(* One of them, on any words.  The runs take some of these steps: MCParts' *)
(* ArithmeticNext names the words it tries.                                *)
ArithmeticStep ==
  \/ \E signed \in BOOLEAN, x, y \in [Pipeline -> Word] :
       \/ Pipeline0(signed, x, y) \/ Pipeline1(signed, x, y)
       \/ BothMultiply(signed, x, y) \/ BothDivide(signed, x, y)
  \/ \E which \in {"lw", "uw", "slw"} : MoveFrom(which)
  \/ MoveTo

ArithmeticSpec == ArithmeticInit /\ [][ArithmeticStep]_arithmeticVars

-----------------------------------------------------------------------------
(* However multiplications and divisions of the two pipelines alternate,   *)
(* the words of HI and LO of each hold what was multiplied and accumulated *)
(* in it, exactly, although each half is kept with its sign extended, and  *)
(* also once a handler has used them and put back what it found; pmfhl.slw *)
(* gives the nearest word to it.                                           *)
AccumulatesExactly ==
  /\ \A p \in Pipeline : Accumulated(p) = total[p]
  /\ kept.which = "slw" => \A p \in Pipeline : kept.words[p][1] = Low(ClampWord(SignedDouble(kept.total[p])))

(* After a division LO times the divisor and HI make the dividend again,   *)
(* HI is smaller than the divisor and has the dividend's sign, also for    *)
(* the least word divided by -1, whose quotient is no word.                *)
DivisionInverts ==
  \A p \in Pipeline : divided[p] # <<>> =>
    LET Value(v) == IF divided[p][1] THEN Signed(Low(v)) ELSE Low(v)
        Word2(v) == IF divided[p][1] THEN Signed(v) ELSE v
        x == Word2(divided[p][2])
        y == Word2(divided[p][3])
        q == Value(lo[p])
        m == Value(hi[p])
    IN  y # 0 => /\ Low(q * y + m) = Low(x)
                 /\ IF m < 0 THEN x < 0 /\ (-m < y \/ -m < -y) ELSE (m = 0 \/ x > 0) /\ (m < y \/ m < -y)
=============================================================================
