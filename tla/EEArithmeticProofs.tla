------------------------- MODULE EEArithmeticProofs -------------------------
(***************************************************************************)
(* Theorems about EEArithmetic, for words of any number of bits and for    *)
(* every order of the instructions: what LO and HI have accumulated, and   *)
(* what a division leaves in them.                                         *)
(*                                                                         *)
(* The halves of an accumulator are kept with their signs extended, so the *)
(* argument is about remainders: an extended word has the word it extends  *)
(* as its remainder by the size of a word, and the two halves of a number  *)
(* make its remainder by the square of that.                               *)
(***************************************************************************)
EXTENDS EEArithmetic, WellFoundedInduction, TLAPS

LEMMA LeastNumber ==
  ASSUME NEW T, T \subseteq Nat, T # {}
  PROVE  \E x \in T : \A y \in T : x <= y
<1>1. PICK x \in T : \A y \in T : <<y, x>> \notin OpToRel(<, Nat)
  BY NatLessThanWellFounded, WFMin
<1>2. ASSUME NEW y \in T PROVE x <= y
  <2>1. x \in Nat /\ y \in Nat
    OBVIOUS
  <2>2. ~(y < x)
    BY <1>1, <2>1, Zenon DEF OpToRel
  <2> QED BY <2>1, <2>2
<1> QED BY <1>2

-----------------------------------------------------------------------------
(* Division with remainder.                                                *)

LEMMA DivMod ==
  ASSUME NEW a \in Int, NEW m \in Nat, m > 0
  PROVE  /\ a \div m \in Int /\ a % m \in Nat /\ a % m < m
         /\ a = m * (a \div m) + (a % m)
BY Z3

LEMMA Unique ==
  ASSUME NEW m \in Nat, m > 0, NEW q \in Int, NEW r \in Nat, r < m
  PROVE  (m * q + r) % m = r /\ (m * q + r) \div m = q
<1> DEFINE a == m * q + r
           p == a \div m
           s == a % m
<1>1. a \in Int /\ p \in Int /\ s \in Nat /\ s < m /\ a = m * p + s
  BY DivMod
<1> HIDE DEF p, s
<1>2. m * (q - p) = s - r
  BY <1>1
<1>3. CASE q - p >= 1
  <2>1. m * (q - p) >= m
    BY <1>1, <1>3
  <2> QED BY <1>1, <1>2, <2>1
<1>4. CASE q - p <= -1
  <2>1. m * (q - p) <= -m
    BY <1>1, <1>4
  <2> QED BY <1>1, <1>2, <2>1
<1>5. CASE q = p
  BY <1>1, <1>2, <1>5 DEF p, s
<1> QED BY <1>1, <1>3, <1>4, <1>5

LEMMA Shifted ==
  ASSUME NEW m \in Nat, m > 0, NEW a \in Int, NEW k \in Int
  PROVE  (a + m * k) % m = a % m
<1> DEFINE q == a \div m
           r == a % m
<1>1. q \in Int /\ r \in Nat /\ r < m /\ a = m * q + r
  BY DivMod
<1> HIDE DEF q, r
<1>2. q + k \in Int /\ a + m * k = m * (q + k) + r
  BY <1>1
<1>3. (m * (q + k) + r) % m = r
  BY <1>1, <1>2, Unique
<1> QED BY <1>2, <1>3 DEF r

LEMMA Small ==
  ASSUME NEW m \in Nat, NEW a \in Nat, a < m
  PROVE  a % m = a /\ a \div m = 0
<1>1. a = m * 0 + a /\ m > 0
  OBVIOUS
<1>2. (m * 0 + a) % m = a /\ (m * 0 + a) \div m = 0
  BY <1>1, Unique
<1> QED BY <1>1, <1>2

-----------------------------------------------------------------------------
(* The powers of two.                                                      *)

Doubles(n, f) == f = [k \in 0..n |-> IF k = 0 THEN 1 ELSE 2 * f[k - 1]]

LEMMA DoublesExist ==
  ASSUME NEW n \in Nat
  PROVE  \E f : Doubles(n, f)
<1> DEFINE T == {m \in Nat : ~\E f : Doubles(m, f)}
<1>1. SUFFICES ASSUME T # {} PROVE FALSE
  OBVIOUS
<1>2. PICK m \in T : \A k \in T : m <= k
  BY <1>1, LeastNumber
<1>3. CASE m = 0
  <2>1. Doubles(0, [k \in 0..0 |-> 1])
    BY DEF Doubles
  <2> QED BY <1>3, <2>1
<1>4. CASE m # 0
  <2>1. m - 1 \in Nat /\ m - 1 \notin T
    BY <1>2, <1>4
  <2>2. PICK f : Doubles(m - 1, f)
    BY <2>1
  <2> DEFINE g == [k \in 0..m |-> IF k = m THEN 2 * f[m - 1] ELSE f[k]]
  <2>3. Doubles(m, g)
    <3>1. \A k \in 0..(m - 1) : f[k] = IF k = 0 THEN 1 ELSE 2 * f[k - 1]
      BY <2>2 DEF Doubles
    <3>2. \A k \in 0..m : k # m => g[k] = f[k] /\ k \in 0..(m - 1)
      OBVIOUS
    <3>3. \A k \in 0..m : k # 0 => g[k - 1] = f[k - 1]
      OBVIOUS
    <3>4. \A k \in 0..m : g[k] = IF k = 0 THEN 1 ELSE 2 * g[k - 1]
      <4> TAKE k \in 0..m
      <4>1. CASE k = m
        BY <1>4, <3>3, <4>1
      <4>2. CASE k # m
        BY <3>1, <3>2, <3>3, <4>2
      <4> QED BY <4>1, <4>2
    <3>5. g = [k \in 0..m |-> g[k]]
      OBVIOUS
    <3> HIDE DEF g
    <3> QED BY <3>4, <3>5 DEF Doubles
  <2> QED BY <2>3
<1> QED BY <1>3, <1>4

LEMMA TwoIs ==
  \A n \in 0..(2 * W) : Two[n] = IF n = 0 THEN 1 ELSE 2 * Two[n - 1]
<1>1. 2 * W \in Nat
  BY WAssumption
<1>2. Doubles(2 * W, CHOOSE f : Doubles(2 * W, f))
  BY <1>1, DoublesExist
<1>3. Two = CHOOSE f : Doubles(2 * W, f)
  BY DEF Two, Doubles
<1>4. Doubles(2 * W, Two)
  BY <1>2, <1>3
<1> QED BY <1>4 DEF Doubles

LEMMA TwoPositive ==
  \A n \in 0..(2 * W) : Two[n] \in Nat /\ Two[n] >= 1
<1> DEFINE T == {n \in 0..(2 * W) : ~(Two[n] \in Nat /\ Two[n] >= 1)}
<1>1. SUFFICES ASSUME T # {} PROVE FALSE
  OBVIOUS
<1>2. PICK m \in T : \A k \in T : m <= k
  <2>1. T \subseteq Nat
    BY WAssumption
  <2> HIDE DEF T
  <2> QED BY <1>1, <2>1, LeastNumber
<1>3. CASE m = 0
  BY <1>3, TwoIs
<1>4. CASE m # 0
  <2>1. m - 1 \in 0..(2 * W) /\ ~(m <= m - 1)
    BY <1>4, WAssumption
  <2>2. m - 1 \notin T
    <3> HIDE DEF T
    <3> QED BY <1>2, <2>1
  <2> QED BY <1>4, <2>1, <2>2, TwoIs
<1> QED BY <1>3, <1>4

LEMMA TwoSquared ==
  \A n \in 0..W : Two[W + n] = Two[W] * Two[n]
<1> DEFINE T == {n \in 0..W : Two[W + n] # Two[W] * Two[n]}
<1>1. SUFFICES ASSUME T # {} PROVE FALSE
  OBVIOUS
<1>2. PICK m \in T : \A k \in T : m <= k
  <2>1. T \subseteq Nat
    BY WAssumption
  <2> HIDE DEF T
  <2> QED BY <1>1, <2>1, LeastNumber
<1>0. W \in Nat /\ W \in 0..(2 * W) /\ 0 \in 0..(2 * W)
  BY WAssumption
<1>3. CASE m = 0
  <2>1. Two[0] = 1 /\ Two[W] \in Nat
    BY <1>0, TwoIs, TwoPositive
  <2> QED BY <1>0, <1>3, <2>1
<1>4. CASE m # 0
  <2>1. m - 1 \in 0..W /\ ~(m <= m - 1)
    BY <1>0, <1>4
  <2>2. m - 1 \notin T
    <3> HIDE DEF T
    <3> QED BY <1>2, <2>1
  <2>3. Two[W + (m - 1)] = Two[W] * Two[m - 1]
    BY <2>1, <2>2
  <2>4. /\ W + m \in 0..(2 * W) /\ W + m # 0 /\ (W + m) - 1 = W + (m - 1)
        /\ m \in 0..(2 * W) /\ m - 1 \in 0..(2 * W)
    BY <1>0, <1>4
  <2>5. Two[W + m] = 2 * Two[W + (m - 1)] /\ Two[m] = 2 * Two[m - 1]
    BY <1>4, <2>4, TwoIs
  <2>6. Two[W] \in Nat /\ Two[m - 1] \in Nat
    BY <1>0, <2>4, TwoPositive
  <2>7. 2 * (Two[W] * Two[m - 1]) = Two[W] * (2 * Two[m - 1])
    BY <2>6
  <2> QED BY <2>3, <2>5, <2>7
<1> QED BY <1>3, <1>4

(* The size of a word, half of it, and the size of a double word. *)
Size == Two[W]
Half == Two[W - 1]
Square == Two[2 * W]

LEMMA Sizes ==
  /\ Size \in Nat /\ Half \in Nat /\ Square \in Nat
  /\ Half >= 2 /\ Size = 2 * Half /\ Square = Size * Size /\ Size > 0 /\ Square > 0
<1>1. /\ W - 2 \in 0..(2 * W) /\ W - 1 \in 0..(2 * W) /\ W \in 0..(2 * W) /\ 2 * W \in 0..(2 * W)
      /\ W # 0 /\ W - 1 # 0 /\ (W - 1) - 1 = W - 2 /\ W \in 0..W /\ W + W = 2 * W
  BY WAssumption
<1>2. /\ Size \in Nat /\ Half \in Nat /\ Square \in Nat /\ Two[W - 2] \in Nat /\ Two[W - 2] >= 1
      /\ Size >= 1 /\ Square >= 1
  BY <1>1, TwoPositive DEF Size, Half, Square
<1>3. Size = 2 * Half /\ Half = 2 * Two[W - 2]
  BY <1>1, TwoIs DEF Size, Half
<1>4. Two[W + W] = Size * Size
  BY <1>1, TwoSquared DEF Size
<1> QED BY <1>1, <1>2, <1>3, <1>4 DEF Square

-----------------------------------------------------------------------------
(* Words and halves.                                                       *)

LEMMA Words ==
  /\ Word = {v \in Nat : v < Size} /\ Double = {v \in Nat : v < Square}
  /\ \A v : Low(v) = v % Size
  /\ \A v : Signed(v) = IF v < Half THEN v ELSE v - Size
  /\ \A v : Extended(v) = Signed(Low(v)) % Square
<1>1. \A n \in Nat : 0..(n - 1) = {v \in Nat : v < n}
  OBVIOUS
<1> QED BY <1>1, Sizes DEF Word, Double, Low, Signed, Extended, Size, Half, Square

LEMMA LowIs ==
  ASSUME NEW v \in Int
  PROVE  Low(v) \in Word
BY DivMod, Sizes, Words

LEMMA LowOfWord ==
  ASSUME NEW v \in Word
  PROVE  v \in Nat /\ v < Size /\ Low(v) = v
BY Small, Sizes, Words

LEMMA LowShifted ==
  ASSUME NEW v \in Int, NEW k \in Int
  PROVE  Low(v + Size * k) = Low(v)
BY Shifted, Sizes, Words

LEMMA SignedIs ==
  ASSUME NEW v \in Word
  PROVE  /\ Signed(v) \in Int /\ -Half <= Signed(v) /\ Signed(v) < Half
         /\ Signed(v) = v \/ Signed(v) = v - Size
         /\ Low(Signed(v)) = v
<1>1. v \in Nat /\ v < Size /\ Low(v) = v
  BY LowOfWord
<1>2. /\ Signed(v) \in Int /\ -Half <= Signed(v) /\ Signed(v) < Half
      /\ Signed(v) = v \/ Signed(v) = v - Size
  BY <1>1, Words, Sizes
<1>3. CASE Signed(v) = v
  BY <1>1, <1>2, <1>3
<1>4. CASE Signed(v) = v - Size
  <2>1. v + Size * (-1) = v - Size
    BY <1>1, Sizes
  <2>2. Low(v + Size * (-1)) = Low(v)
    BY <1>1, LowShifted
  <2> QED BY <1>1, <1>2, <1>4, <2>1, <2>2
<1> QED BY <1>2, <1>3, <1>4

(* A number from half a size below 0 up to half of one is the signed value *)
(* of its low word.                                                        *)
LEMMA SignedOfLow ==
  ASSUME NEW v \in Int, -Half <= v, v < Half
  PROVE  Signed(Low(v)) = v
<1>1. CASE v >= 0
  <2>1. v \in Nat /\ v < Size
    BY <1>1, Sizes
  <2>2. Low(v) = v
    BY <2>1, Small, Words, Sizes
  <2> QED BY <2>2, Words
<1>2. CASE v < 0
  <2>1. v + Size \in Nat /\ v + Size < Size /\ v + Size * 1 = v + Size /\ ~(v + Size < Half) /\ (v + Size) - Size = v
    BY <1>2, Sizes
  <2>2. Low(v + Size) = v + Size
    BY <2>1, Small, Words, Sizes
  <2>3. Low(v + Size * 1) = Low(v)
    BY LowShifted
  <2> QED BY <2>1, <2>2, <2>3, Words
<1> QED BY <1>1, <1>2

(* Extending the sign does not change the word. *)
LEMMA LowOfExtended ==
  ASSUME NEW v \in Int
  PROVE  Extended(v) \in Nat /\ Low(Extended(v)) = Low(v)
<1> DEFINE s == Signed(Low(v))
           q == s \div Square
           e == s % Square
<1>1. s \in Int /\ Low(s) = Low(v)
  BY LowIs, SignedIs
<1>2. q \in Int /\ e \in Nat /\ s = Square * q + e /\ Extended(v) = e
  BY <1>1, DivMod, Sizes, Words
<1> HIDE DEF s, q, e
<1>3. Size * q \in Int /\ s = e + Size * (Size * q)
  BY <1>2, Sizes
<1>4. Low(e + Size * (Size * q)) = Low(e)
  <2>1. \A k \in Int : Low(e + Size * k) = Low(e)
    BY <1>2, LowShifted
  <2> QED BY <1>3, <2>1
<1> QED BY <1>1, <1>2, <1>3, <1>4

(* The two words of a number. *)
LEMMA TwoWords ==
  ASSUME NEW v \in Int
  PROVE  v \div Size \in Int /\ Low(v) + Low(v \div Size) * Size = v % Square
<1> DEFINE q == v \div Size
           r == v % Size
           p == q \div Size
           s == q % Size
<1>1. q \in Int /\ r \in Nat /\ r < Size /\ v = Size * q + r
  BY DivMod, Sizes
<1> HIDE DEF q, r
<1>2. p \in Int /\ s \in Nat /\ s < Size /\ q = Size * p + s
  BY <1>1, DivMod, Sizes
<1> HIDE DEF p, s
<1> DEFINE low == r + s * Size
<1>3. low \in Nat /\ low < Square
  <2>1. s * Size <= (Size - 1) * Size
    BY <1>2, Sizes
  <2> QED BY <1>1, <1>2, <2>1, Sizes
<1>4. v = Square * p + low
  BY <1>1, <1>2, Sizes
<1> HIDE DEF low
<1>5. v % Square = low
  BY <1>2, <1>3, <1>4, Unique, Sizes
<1>6. Low(v) = r /\ Low(q) = s
  BY Words DEF r, s, q
<1> QED BY <1>1, <1>5, <1>6 DEF low, q

LEMMA WordsMake ==
  ASSUME NEW x \in Word, NEW y \in Word
  PROVE  x + y * Size \in Double
<1>1. x \in Nat /\ y \in Nat /\ x < Size /\ y < Size
  BY LowOfWord
<1>2. y * Size <= (Size - 1) * Size
  BY <1>1, Sizes
<1> QED BY <1>1, <1>2, Words, Sizes

-----------------------------------------------------------------------------
(* The invariant.  kept holds what a pmfhl read, with what was true of it. *)

Divisions == {<<>>} \union (BOOLEAN \X Word \X Word)

(* What DivisionInverts says of a division that left the words l and h. *)
Inverts(d, l, h) ==
  d # <<>> =>
    LET Value(v) == IF d[1] THEN Signed(v) ELSE v
        x == Value(d[2])
        y == Value(d[3])
        q == Value(l)
        m == Value(h)
    IN  y # 0 => /\ Low(q * y + m) = Low(x)
                 /\ IF m < 0 THEN x < 0 /\ (-m < y \/ -m < -y) ELSE (m = 0 \/ x > 0) /\ (m < y \/ m < -y)

RegistersOK ==
  /\ lo \in [Pipeline -> Int] /\ hi \in [Pipeline -> Int]
  /\ total \in [Pipeline -> Double] /\ divided \in [Pipeline -> Divisions]
  /\ \A p \in Pipeline : Accumulated(p) = total[p]
  /\ \A p \in Pipeline : Inverts(divided[p], Low(lo[p]), Low(hi[p]))

KeptOK ==
  /\ kept.which = "lw" =>
       /\ kept.total \in [Pipeline -> Double] /\ kept.divided \in [Pipeline -> Divisions]
       /\ \A p \in Pipeline :
            LET l == kept.words[p][1]
                h == kept.words[p][2]
            IN  /\ l \in Word /\ h \in Word
                /\ l + h * Two[W] = kept.total[p]
                /\ Inverts(kept.divided[p], l, h)
  /\ kept.which = "slw" =>
       \A p \in Pipeline : kept.words[p][1] = Low(ClampWord(SignedDouble(kept.total[p])))

ArithmeticInv == RegistersOK /\ KeptOK

LEMMA ArithmeticInitially == ArithmeticInit => ArithmeticInv
<1> SUFFICES ASSUME ArithmeticInit PROVE ArithmeticInv
  OBVIOUS
<1>1. 0 \in Word /\ 0 \in Double /\ Low(0) = 0
  <2>1. 0 \in Word /\ 0 \in Double
    BY Words, Sizes
  <2> QED BY <2>1, LowOfWord
<1>2. \A p \in Pipeline : lo[p] = 0 /\ hi[p] = 0 /\ total[p] = 0 /\ divided[p] = <<>>
  BY DEF ArithmeticInit
<1>3. \A p \in Pipeline : Accumulated(p) = total[p]
  BY <1>1, <1>2, Sizes DEF Accumulated, Size
<1>4. /\ lo \in [Pipeline -> Int] /\ hi \in [Pipeline -> Int]
      /\ total \in [Pipeline -> Double] /\ divided \in [Pipeline -> Divisions]
  BY <1>1 DEF ArithmeticInit, Divisions
<1>5. \A p \in Pipeline : Inverts(divided[p], Low(lo[p]), Low(hi[p]))
  BY <1>2 DEF Inverts
<1>6. KeptOK
  BY DEF ArithmeticInit, KeptOK
<1> QED BY <1>3, <1>4, <1>5, <1>6 DEF ArithmeticInv, RegistersOK

-----------------------------------------------------------------------------
(* Multiplication.                                                         *)

(* The halves of the numbers v go to the pipelines of P. *)
Halved(P, v) ==
  /\ lo' = [p \in Pipeline |-> IF p \in P THEN Extended(v[p]) ELSE lo[p]]
  /\ hi' = [p \in Pipeline |-> IF p \in P THEN Extended(v[p] \div Two[W]) ELSE hi[p]]

LEMMA HalvedIs ==
  ASSUME RegistersOK, NEW P \in SUBSET Pipeline, NEW v \in [Pipeline -> Int], Halved(P, v)
  PROVE  /\ lo' \in [Pipeline -> Int] /\ hi' \in [Pipeline -> Int]
         /\ \A p \in P : Accumulated(p)' = v[p] % Square
         /\ \A p \in Pipeline \ P :
              /\ Accumulated(p)' = Accumulated(p)
              /\ Low(lo[p])' = Low(lo[p]) /\ Low(hi[p])' = Low(hi[p])
<1>1. \A n \in Int : /\ Extended(n) \in Nat /\ Low(Extended(n)) = Low(n)
                     /\ n \div Size \in Int /\ Low(n) + Low(n \div Size) * Size = n % Square
  BY LowOfExtended, TwoWords
<1>2. \A p \in Pipeline :
        /\ lo'[p] = IF p \in P THEN Extended(v[p]) ELSE lo[p]
        /\ hi'[p] = IF p \in P THEN Extended(v[p] \div Size) ELSE hi[p]
  BY DEF Halved, Size
<1>3. lo' \in [Pipeline -> Int] /\ hi' \in [Pipeline -> Int]
  <2>1. \A p \in Pipeline : lo'[p] \in Int /\ hi'[p] \in Int
    BY <1>1, <1>2 DEF RegistersOK
  <2>2. lo' = [p \in Pipeline |-> lo'[p]] /\ hi' = [p \in Pipeline |-> hi'[p]]
    BY DEF Halved
  <2> QED BY <2>1, <2>2
<1>4. \A p : Accumulated(p)' = Low(lo'[p]) + Low(hi'[p]) * Size
  BY DEF Accumulated, Size, Low
<1>5. ASSUME NEW p \in P PROVE Accumulated(p)' = v[p] % Square
  <2>1. Low(lo'[p]) = Low(v[p]) /\ Low(hi'[p]) = Low(v[p] \div Size)
    BY <1>1, <1>2
  <2> QED BY <1>1, <1>4, <2>1
<1>6. \A p \in Pipeline \ P :
        /\ Accumulated(p)' = Accumulated(p)
        /\ Low(lo[p])' = Low(lo[p]) /\ Low(hi[p])' = Low(hi[p])
  BY <1>2, <1>4 DEF Accumulated, Size, Low
<1> QED BY <1>3, <1>5, <1>6

LEMMA ProductIs ==
  ASSUME NEW signed \in BOOLEAN, NEW x \in Word, NEW y \in Word
  PROVE  Product(signed, x, y) \in Int
<1>1. x \in Nat /\ y \in Nat /\ Signed(x) \in Int /\ Signed(y) \in Int
  BY LowOfWord, SignedIs
<1> QED BY <1>1 DEF Product

(* The pipelines of P have multiplied and accumulated t. *)
LEMMA Multiplied ==
  ASSUME ArithmeticInv, NEW P \in SUBSET Pipeline, NEW v \in [Pipeline -> Int], Halved(P, v),
         total' = [p \in Pipeline |-> IF p \in P THEN v[p] % Two[2 * W] ELSE total[p]],
         divided' = [p \in Pipeline |-> IF p \in P THEN <<>> ELSE divided[p]],
         UNCHANGED kept
  PROVE  ArithmeticInv'
<1>1. /\ lo' \in [Pipeline -> Int] /\ hi' \in [Pipeline -> Int]
      /\ \A p \in P : Accumulated(p)' = v[p] % Square
      /\ \A p \in Pipeline \ P :
           /\ Accumulated(p)' = Accumulated(p)
           /\ Low(lo[p])' = Low(lo[p]) /\ Low(hi[p])' = Low(hi[p])
  BY HalvedIs DEF ArithmeticInv
<1>2. \A n \in Int : n % Square \in Double
  BY DivMod, Sizes, Words
<1>3. total' \in [Pipeline -> Double]
  BY <1>2 DEF ArithmeticInv, RegistersOK, Square
<1>4. divided' \in [Pipeline -> Divisions]
  BY DEF ArithmeticInv, RegistersOK, Divisions
<1>5. ASSUME NEW p \in Pipeline
      PROVE  Accumulated(p)' = total'[p] /\ Inverts(divided'[p], Low(lo[p])', Low(hi[p])')
  <2>1. CASE p \in P
    BY <1>1, <2>1 DEF Inverts, Square
  <2>2. CASE p \notin P
    BY <1>1, <2>2 DEF ArithmeticInv, RegistersOK
  <2> QED BY <2>1, <2>2
<1>6. KeptOK'
  BY DEF ArithmeticInv, KeptOK
<1>7. RegistersOK'
  BY <1>1, <1>3, <1>4, <1>5 DEF RegistersOK
<1> QED BY <1>6, <1>7 DEF ArithmeticInv

LEMMA MultiplyKeeps ==
  ASSUME ArithmeticInv, NEW P \in SUBSET Pipeline, NEW signed \in BOOLEAN,
         NEW x \in [Pipeline -> Word], NEW y \in [Pipeline -> Word], Multiply(P, signed, x, y)
  PROVE  ArithmeticInv'
<1> DEFINE v == [p \in Pipeline |-> Product(signed, x[p], y[p])]
<1>1. v \in [Pipeline -> Int]
  BY ProductIs
<1>2. Halved(P, v)
  BY DEF Multiply, Set, In, Each, Halved
<1>3. /\ total' = [p \in Pipeline |-> IF p \in P THEN v[p] % Two[2 * W] ELSE total[p]]
      /\ divided' = [p \in Pipeline |-> IF p \in P THEN <<>> ELSE divided[p]]
      /\ UNCHANGED kept
  BY DEF Multiply, Set, In, Each
<1> HIDE DEF v
<1> QED BY <1>1, <1>2, <1>3, Multiplied

LEMMA MultiplyAddKeeps ==
  ASSUME ArithmeticInv, NEW P \in SUBSET Pipeline, NEW signed \in BOOLEAN,
         NEW x \in [Pipeline -> Word], NEW y \in [Pipeline -> Word], MultiplyAdd(P, signed, x, y)
  PROVE  ArithmeticInv'
<1> DEFINE v == [p \in Pipeline |-> total[p] + Product(signed, x[p], y[p])]
<1>0. \A p \in Pipeline : Accumulated(p) = total[p] /\ total[p] \in Nat
  BY Words DEF ArithmeticInv, RegistersOK
<1>1. v \in [Pipeline -> Int]
  BY <1>0, ProductIs
<1>2. Halved(P, v)
  BY <1>0 DEF MultiplyAdd, Set, In, Each, Halved
<1>3. /\ total' = [p \in Pipeline |-> IF p \in P THEN v[p] % Two[2 * W] ELSE total[p]]
      /\ divided' = [p \in Pipeline |-> IF p \in P THEN <<>> ELSE divided[p]]
      /\ UNCHANGED kept
  BY DEF MultiplyAdd, Set, In, Each
<1> HIDE DEF v
<1> QED BY <1>1, <1>2, <1>3, Multiplied

-----------------------------------------------------------------------------
(* Division.                                                               *)

LEMMA QuotientIs ==
  ASSUME NEW a \in Int, NEW b \in Int, b # 0, NEW h \in Nat, -h <= a, a <= h
  PROVE  LET q == Quotient(a, b)
             m == a - q * b
         IN  /\ q \in Int /\ m \in Int /\ -h <= q /\ q <= h
             /\ m < 0 => a < 0
             /\ m > 0 => a > 0
             /\ m < b \/ m < -b
             /\ -m < b \/ -m < -b
<1> DEFINE A == IF a < 0 THEN -a ELSE a
           B == IF b < 0 THEN -b ELSE b
           q == A \div B
           m == A % B
<1>1. A \in Nat /\ B \in Nat /\ B > 0 /\ A <= h /\ (B = b \/ B = -b)
  OBVIOUS
<1>2. Quotient(a, b) = IF (a < 0) = (b < 0) THEN q ELSE -q
  BY DEF Quotient
<1>3. q \in Int /\ m \in Nat /\ m < B /\ A = B * q + m
  <2> HIDE DEF A, B
  <2> QED BY <1>1, DivMod
<1> HIDE DEF q, m
<1>4. q >= 0 /\ q <= h
  <2> HIDE DEF A, B
  <2>1. CASE q < 0
    <3>1. B * q <= -B
      BY <1>1, <1>3, <2>1
    <3> QED BY <1>1, <1>3, <3>1
  <2>2. CASE q >= 0
    <3>1. q <= B * q
      BY <1>1, <1>3, <2>2
    <3> QED BY <1>1, <1>3, <2>2, <3>1
  <2> QED BY <1>3, <2>1, <2>2
<1>5. CASE a < 0 /\ b < 0
  <2>1. Quotient(a, b) = q /\ a - q * b = -m
    BY <1>2, <1>3, <1>5
  <2> QED BY <1>1, <1>3, <1>4, <1>5, <2>1
<1>6. CASE a >= 0 /\ b > 0
  <2>1. Quotient(a, b) = q /\ a - q * b = m
    BY <1>2, <1>3, <1>6
  <2>2. m > 0 => a > 0
    BY <1>3, <1>6, <2>1, <1>4
  <2> QED BY <1>1, <1>3, <1>4, <1>6, <2>1, <2>2
<1>7. CASE a < 0 /\ b > 0
  <2>1. Quotient(a, b) = -q /\ a - (-q) * b = -m
    BY <1>2, <1>3, <1>7
  <2> QED BY <1>1, <1>3, <1>4, <1>7, <2>1
<1>8. CASE a >= 0 /\ b < 0
  <2>1. Quotient(a, b) = -q /\ a - (-q) * b = m
    BY <1>2, <1>3, <1>8
  <2> QED BY <1>1, <1>3, <1>4, <1>8, <2>1
<1> QED BY <1>5, <1>6, <1>7, <1>8

LEMMA UnsignedInverts ==
  ASSUME NEW x \in Word, NEW y \in Word
  PROVE  LET q == QuotientOf(FALSE, x, y)
             m == RemainderOf(FALSE, x, y)
         IN  q \in Word /\ m \in Word /\ Inverts(<<FALSE, x, y>>, q, m)
<1> DEFINE q == QuotientOf(FALSE, x, y)
           m == RemainderOf(FALSE, x, y)
           d == <<FALSE, x, y>>
<1>1. x \in Nat /\ y \in Nat /\ x < Size /\ y < Size
  BY LowOfWord
<1>2. CASE y = 0
  <2>1. q = Size - 1 /\ m = x
    BY <1>2 DEF QuotientOf, RemainderOf, Size
  <2>2. q \in Word
    <3>1. Size - 1 \in Nat /\ Size - 1 < Size /\ 1 \in Nat /\ 1 < Size
      BY Sizes
    <3> HIDE DEF q
    <3> QED BY <2>1, <3>1, Words
  <2>3. d[1] = FALSE /\ d[3] = 0
    BY <1>2
  <2> HIDE DEF q, m, d
  <2>4. Inverts(d, q, m)
    BY <2>3 DEF Inverts
  <2> QED BY <2>1, <2>2, <2>4 DEF q, m, d
<1>3. CASE y # 0
  <2>1. q = x \div y /\ m = x % y
    BY <1>3 DEF QuotientOf, RemainderOf
  <2>2. q \in Int /\ m \in Nat /\ m < y /\ x = y * q + m
    <3>1. y > 0 /\ x \in Int
      BY <1>1, <1>3
    <3> QED BY <1>1, <2>1, <3>1, DivMod
  <2>3. d[1] = FALSE /\ d[2] = x /\ d[3] = y
    OBVIOUS
  <2> HIDE DEF q, m, d
  <2>4. q >= 0 /\ q <= x
    <3>1. CASE q < 0
      <4>1. y * q <= -y
        BY <1>1, <1>3, <2>2, <3>1
      <4> QED BY <1>1, <2>2, <4>1
    <3>2. CASE q >= 0
      <4>1. q <= y * q
        BY <1>1, <1>3, <2>2, <3>2
      <4> QED BY <1>1, <2>2, <3>2, <4>1
    <3> QED BY <2>2, <3>1, <3>2
  <2>5. m = 0 \/ x > 0
    BY <1>1, <2>2, <2>4
  <2>6. q * y + m = x /\ ~(m < 0)
    BY <1>1, <2>2
  <2>7. Inverts(d, q, m)
    BY <2>2, <2>3, <2>5, <2>6 DEF Inverts
  <2>8. q \in Word /\ m \in Word
    BY <1>1, <2>2, <2>4, Words, Sizes
  <2> QED BY <2>7, <2>8 DEF q, m, d
<1> QED BY <1>2, <1>3

LEMMA SignedInverts ==
  ASSUME NEW x \in Word, NEW y \in Word
  PROVE  LET q == QuotientOf(TRUE, x, y)
             m == RemainderOf(TRUE, x, y)
         IN  q \in Word /\ m \in Word /\ Inverts(<<TRUE, x, y>>, q, m)
<1> DEFINE q == QuotientOf(TRUE, x, y)
           m == RemainderOf(TRUE, x, y)
           d == <<TRUE, x, y>>
           a == Signed(x)
           b == Signed(y)
<1>1. /\ x \in Nat /\ y \in Nat /\ x < Size /\ y < Size
      /\ a \in Int /\ -Half <= a /\ a < Half /\ Low(a) = x
      /\ b \in Int /\ -Half <= b /\ b < Half /\ (b = y \/ b = y - Size)
  BY LowOfWord, SignedIs
<1>2. d[1] = TRUE /\ d[2] = x /\ d[3] = y /\ d # <<>>
  OBVIOUS
<1>3. CASE y = 0
  <2>1. (q = 1 \/ q = Size - 1) /\ m = x
    BY <1>3 DEF QuotientOf, RemainderOf, Size
  <2>2. q \in Word
    <3>1. Size - 1 \in Nat /\ Size - 1 < Size /\ 1 \in Nat /\ 1 < Size
      BY Sizes
    <3> HIDE DEF q
    <3> QED BY <2>1, <3>1, Words
  <2>3. b = 0
    BY <1>3, Words, Sizes
  <2> HIDE DEF q, m, d
  <2>4. Inverts(d, q, m)
    BY <1>2, <2>3 DEF Inverts
  <2> QED BY <2>1, <2>2, <2>4 DEF q, m, d
<1>4. CASE y # 0
  <2> DEFINE k == Quotient(a, b)
             r == a - k * b
  <2>1. b # 0
    BY <1>1, <1>4, Sizes
  <2>2. q = Low(k) /\ m = Low(r)
    BY <1>4 DEF QuotientOf, RemainderOf
  <2> HIDE DEF q, m, d, a, b
  <2>3. /\ k \in Int /\ r \in Int /\ -Half <= k /\ k <= Half
        /\ r < 0 => a < 0
        /\ r > 0 => a > 0
        /\ r < b \/ r < -b
        /\ -r < b \/ -r < -b
    <3>1. Half \in Nat /\ a <= Half
      BY <1>1, Sizes
    <3> QED BY <1>1, <2>1, <3>1, QuotientIs
  <2>4. k * b + r = a
    <3>1. k \in Int
      BY <2>3
    <3> HIDE DEF k
    <3> QED BY <1>1, <3>1
  <2> HIDE DEF k, r
  <2>5. Signed(m) = r
    <3>1. -Half <= r /\ r < Half
      BY <1>1, <2>3, Sizes
    <3> QED BY <2>2, <2>3, <3>1, SignedOfLow
  <2>6. Low(Signed(q) * b + r) = Low(a)
    <3>1. CASE k < Half
      <4>1. Signed(q) = k
        BY <2>2, <2>3, <3>1, SignedOfLow
      <4> QED BY <2>4, <4>1
    <3>2. CASE k = Half
      <4>1. Half \in Nat /\ Half < Size
        BY Sizes
      <4>2. Low(Half) = Half
        BY <4>1, Small, Words, Sizes
      <4>3. Signed(q) = k - Size
        BY <2>2, <3>2, <4>1, <4>2, Words
      <4>4. Size \in Nat
        BY Sizes
      <4>5. (k - Size) * b = k * b - Size * b
        BY <1>1, <2>3, <4>4
      <4>6. k * b \in Int /\ Size * b \in Int /\ Size * (-b) = -(Size * b)
        BY <1>1, <2>3, <4>4
      <4>7. (k - Size) * b + r = a + Size * (-b)
        BY <1>1, <2>3, <2>4, <4>5, <4>6
      <4>8. -b \in Int
        BY <1>1
      <4>9. Low(a + Size * (-b)) = Low(a)
        BY <1>1, <4>8, LowShifted
      <4> QED BY <4>3, <4>7, <4>9
    <3> QED BY <1>1, <2>3, <3>1, <3>2, Sizes
  <2>7. Inverts(d, q, m)
    <3>1. IF r < 0 THEN a < 0 /\ (-r < b \/ -r < -b) ELSE (r = 0 \/ a > 0) /\ (r < b \/ r < -b)
      BY <1>1, <2>3
    <3> QED BY <1>2, <2>5, <2>6, <3>1 DEF Inverts, a, b
  <2>8. q \in Word /\ m \in Word
    BY <2>2, <2>3, LowIs
  <2> QED BY <2>7, <2>8 DEF q, m, d
<1> QED BY <1>3, <1>4

LEMMA DivideKeeps ==
  ASSUME ArithmeticInv, NEW P \in SUBSET Pipeline, NEW signed \in BOOLEAN,
         NEW x \in [Pipeline -> Word], NEW y \in [Pipeline -> Word], Divide(P, signed, x, y)
  PROVE  ArithmeticInv'
<1> DEFINE q == [p \in Pipeline |-> QuotientOf(signed, x[p], y[p])]
           m == [p \in Pipeline |-> RemainderOf(signed, x[p], y[p])]
           d == [p \in Pipeline |-> <<signed, x[p], y[p]>>]
<1>1. \A p \in Pipeline : q[p] \in Word /\ m[p] \in Word /\ Inverts(d[p], q[p], m[p])
  <2> TAKE p \in Pipeline
  <2>1. x[p] \in Word /\ y[p] \in Word
    OBVIOUS
  <2>2. CASE signed = TRUE
    BY <2>1, <2>2, SignedInverts
  <2>3. CASE signed = FALSE
    BY <2>1, <2>3, UnsignedInverts
  <2> QED BY <2>2, <2>3
<1>2. /\ lo' = [p \in Pipeline |-> IF p \in P THEN Extended(q[p]) ELSE lo[p]]
      /\ hi' = [p \in Pipeline |-> IF p \in P THEN Extended(m[p]) ELSE hi[p]]
      /\ total' = [p \in Pipeline |-> IF p \in P THEN q[p] + m[p] * Two[W] ELSE total[p]]
      /\ divided' = [p \in Pipeline |-> IF p \in P THEN d[p] ELSE divided[p]]
      /\ UNCHANGED kept
  BY DEF Divide, In, Each
<1>3. \A p \in Pipeline : d[p] \in Divisions
  BY DEF Divisions
<1> HIDE DEF q, m, d
<1>4. \A p \in Pipeline :
        /\ q[p] \in Int /\ m[p] \in Int
        /\ Extended(q[p]) \in Nat /\ Extended(m[p]) \in Nat
        /\ Low(Extended(q[p])) = q[p] /\ Low(Extended(m[p])) = m[p]
        /\ q[p] + m[p] * Two[W] \in Double
  <2> TAKE p \in Pipeline
  <2>1. q[p] \in Nat /\ m[p] \in Nat /\ Low(q[p]) = q[p] /\ Low(m[p]) = m[p]
    BY <1>1, LowOfWord
  <2>2. q[p] + m[p] * Size \in Double
    BY <1>1, WordsMake
  <2> QED BY <2>1, <2>2, LowOfExtended DEF Size
<1>5. /\ lo' \in [Pipeline -> Int] /\ hi' \in [Pipeline -> Int]
      /\ total' \in [Pipeline -> Double] /\ divided' \in [Pipeline -> Divisions]
  BY <1>2, <1>3, <1>4 DEF ArithmeticInv, RegistersOK
<1>6. \A p : /\ Accumulated(p)' = Low(lo'[p]) + Low(hi'[p]) * Two[W]
             /\ Low(lo[p])' = Low(lo'[p]) /\ Low(hi[p])' = Low(hi'[p])
  BY DEF Accumulated, Low
<1>7. ASSUME NEW p \in Pipeline
      PROVE  Accumulated(p)' = total'[p] /\ Inverts(divided'[p], Low(lo[p])', Low(hi[p])')
  <2>1. CASE p \in P
    <3>1. /\ Low(lo'[p]) = q[p] /\ Low(hi'[p]) = m[p] /\ divided'[p] = d[p]
          /\ total'[p] = q[p] + m[p] * Two[W]
      BY <1>2, <1>4, <2>1
    <3> QED BY <1>1, <1>6, <3>1
  <2>2. CASE p \notin P
    <3>1. lo'[p] = lo[p] /\ hi'[p] = hi[p] /\ divided'[p] = divided[p] /\ total'[p] = total[p]
      BY <1>2, <2>2
    <3>2. Accumulated(p) = total[p] /\ Inverts(divided[p], Low(lo[p]), Low(hi[p]))
      BY DEF ArithmeticInv, RegistersOK
    <3> QED BY <1>6, <3>1, <3>2 DEF Accumulated
  <2> QED BY <2>1, <2>2
<1>8. KeptOK'
  BY <1>2 DEF ArithmeticInv, KeptOK
<1> QED BY <1>5, <1>7, <1>8 DEF ArithmeticInv, RegistersOK

-----------------------------------------------------------------------------
(* What a handler reads and puts back.                                     *)

LEMMA MoveFromKeeps ==
  ASSUME ArithmeticInv, NEW which \in {"lw", "uw", "slw"}, MoveFrom(which)
  PROVE  ArithmeticInv'
<1>1. UNCHANGED <<lo, hi, total, divided>>
  BY DEF MoveFrom
<1>2. /\ kept'.which = which /\ kept'.total = total /\ kept'.divided = divided
      /\ \A p \in Pipeline : kept'.words[p] = MovedFrom(which, p)
  BY DEF MoveFrom, Each
<1>3. \A p \in Pipeline :
        /\ Low(lo[p]) \in Word /\ Low(hi[p]) \in Word
        /\ Low(lo[p]) + Low(hi[p]) * Two[W] = total[p]
        /\ Inverts(divided[p], Low(lo[p]), Low(hi[p]))
  BY LowIs DEF ArithmeticInv, RegistersOK, Accumulated
<1>4. CASE which = "lw"
  <2>1. \A p \in Pipeline : kept'.words[p][1] = Low(lo[p]) /\ kept'.words[p][2] = Low(hi[p])
    BY <1>2, <1>4 DEF MovedFrom
  <2> QED BY <1>1, <1>2, <1>3, <1>4, <2>1 DEF ArithmeticInv, RegistersOK, Accumulated, KeptOK
<1>5. CASE which = "uw"
  BY <1>1, <1>2, <1>5 DEF ArithmeticInv, RegistersOK, Accumulated, KeptOK
<1>6. CASE which = "slw"
  <2>1. \A p \in Pipeline : kept'.words[p][1] = ClampedPair(Low(lo[p]), Low(hi[p]))
    BY <1>2, <1>6 DEF MovedFrom
  <2>2. \A p \in Pipeline : kept'.words[p][1] = Low(ClampWord(SignedDouble(total[p])))
    BY <1>3, <2>1 DEF ClampedPair
  <2>3. KeptOK'
    BY <1>2, <1>6, <2>2 DEF KeptOK, Low, ClampWord, SignedDouble
  <2> QED BY <1>1, <2>3 DEF ArithmeticInv, RegistersOK, Accumulated
<1> QED BY <1>4, <1>5, <1>6

LEMMA MoveToKeeps ==
  ASSUME ArithmeticInv, MoveTo
  PROVE  ArithmeticInv'
<1> DEFINE l(p) == kept.words[p][1]
           h(p) == kept.words[p][2]
<1>1. /\ lo' = [p \in Pipeline |-> (lo[p] - Low(lo[p])) + l(p)]
      /\ hi' = [p \in Pipeline |-> (hi[p] - Low(hi[p])) + h(p)]
      /\ total' = kept.total /\ divided' = kept.divided /\ UNCHANGED kept
  BY DEF MoveTo
<1>2. /\ total' \in [Pipeline -> Double] /\ divided' \in [Pipeline -> Divisions]
      /\ \A p \in Pipeline : /\ l(p) \in Word /\ h(p) \in Word
                             /\ l(p) + h(p) * Two[W] = total'[p]
                             /\ Inverts(divided'[p], l(p), h(p))
  BY <1>1 DEF MoveTo, ArithmeticInv, KeptOK
<1> HIDE DEF l, h
<1>3. \A v \in Int, w \in Word : (v - Low(v)) + w \in Int /\ Low((v - Low(v)) + w) = w
  <2> TAKE v \in Int, w \in Word
  <2> DEFINE k == v \div Size
             low == v % Size
  <2>1. k \in Int /\ low \in Nat /\ v = Size * k + low /\ Low(v) = low
    BY DivMod, Sizes, Words
  <2> HIDE DEF k, low
  <2>2. w \in Nat /\ Low(w) = w
    BY LowOfWord
  <2>3. Size * k \in Int
    BY <2>1, Sizes
  <2>4. (v - Low(v)) + w = w + Size * k
    BY <2>1, <2>2, <2>3
  <2>5. Low(w + Size * k) = w
    BY <2>1, <2>2, LowShifted
  <2> QED BY <2>2, <2>3, <2>4, <2>5
<1>4. \A p \in Pipeline : lo'[p] \in Int /\ hi'[p] \in Int /\ Low(lo'[p]) = l(p) /\ Low(hi'[p]) = h(p)
  <2>1. \A p \in Pipeline : lo[p] \in Int /\ hi[p] \in Int
    BY DEF ArithmeticInv, RegistersOK
  <2> QED BY <1>1, <1>2, <1>3, <2>1
<1>5. lo' \in [Pipeline -> Int] /\ hi' \in [Pipeline -> Int]
  <2>1. lo' = [p \in Pipeline |-> lo'[p]] /\ hi' = [p \in Pipeline |-> hi'[p]]
    BY <1>1
  <2> QED BY <1>4, <2>1
<1>6. RegistersOK'
  BY <1>2, <1>4, <1>5 DEF RegistersOK, Accumulated, Low
<1>7. KeptOK'
  BY <1>1 DEF ArithmeticInv, KeptOK
<1> QED BY <1>6, <1>7 DEF ArithmeticInv

-----------------------------------------------------------------------------
LEMMA ArithmeticNextKeeps ==
  ArithmeticInv /\ [ArithmeticStep]_arithmeticVars => ArithmeticInv'
<1> SUFFICES ASSUME ArithmeticInv, [ArithmeticStep]_arithmeticVars PROVE ArithmeticInv'
  OBVIOUS
<1>1. CASE UNCHANGED arithmeticVars
  BY <1>1 DEF arithmeticVars, ArithmeticInv, RegistersOK, KeptOK, Accumulated
<1>2. ASSUME NEW signed \in BOOLEAN, NEW x \in [Pipeline -> Word], NEW y \in [Pipeline -> Word],
             \/ Pipeline0(signed, x, y) \/ Pipeline1(signed, x, y)
             \/ BothMultiply(signed, x, y) \/ BothDivide(signed, x, y)
      PROVE  ArithmeticInv'
  <2>1. \E P \in SUBSET Pipeline :
          Multiply(P, signed, x, y) \/ MultiplyAdd(P, signed, x, y) \/ Divide(P, signed, x, y)
    <3>1. {0} \in SUBSET Pipeline /\ {1} \in SUBSET Pipeline /\ {0, 1} \in SUBSET Pipeline
      BY DEF Pipeline
    <3> QED BY <1>2, <3>1 DEF Pipeline0, Pipeline1, BothMultiply, BothDivide
  <2> QED BY <2>1, MultiplyKeeps, MultiplyAddKeeps, DivideKeeps
<1>3. CASE (\E which \in {"lw", "uw", "slw"} : MoveFrom(which)) \/ MoveTo
  BY <1>3, MoveFromKeeps, MoveToKeeps
<1> QED BY <1>1, <1>2, <1>3 DEF ArithmeticStep

(* mult, multu, madd and maddu of runtime/src/runtime.cpp, for either      *)
(* pipeline and for both, in any order with divisions and with handlers    *)
(* that read and restore LO and HI: the two hold what was accumulated.     *)
THEOREM Accumulates == ArithmeticSpec => []AccumulatesExactly
<1>1. ArithmeticInv => AccumulatesExactly
  BY DEF ArithmeticInv, RegistersOK, KeptOK, AccumulatesExactly
<1> QED BY <1>1, ArithmeticInitially, ArithmeticNextKeeps, PTL DEF ArithmeticSpec

(* div, divu, pdivw and pdivuw of runtime/src/runtime.cpp, div32_common    *)
(* among them: the quotient and the remainder make the dividend again, for *)
(* every two words.                                                        *)
THEOREM DivisionsInvert == ArithmeticSpec => []DivisionInverts
<1>1. ASSUME ArithmeticInv PROVE DivisionInverts
  <2>1. \A p \in Pipeline : Inverts(divided[p], Low(lo[p]), Low(hi[p]))
    BY <1>1 DEF ArithmeticInv, RegistersOK
  <2> QED BY <2>1 DEF Inverts, DivisionInverts
<1> QED BY <1>1, ArithmeticInitially, ArithmeticNextKeeps, PTL DEF ArithmeticSpec
=============================================================================
