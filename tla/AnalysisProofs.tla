--------------------------- MODULE AnalysisProofs ---------------------------
(***************************************************************************)
(* Two theorems, for every image, symbol table and set of imports, and     *)
(* wherever the user cancels: in the end the ranges of the functions are   *)
(* in order and disjoint, and in the body emitted for each of them every   *)
(* goto has its label, once.                                               *)
(*                                                                         *)
(* ByStart and Truncated bring this about if no two functions have one     *)
(* start and every end is a number.  The first is kept by everything that  *)
(* adds a function.  The second is not obvious of the rescued words, whose *)
(* end is that of their owner: they have one, since the owner of a claimed *)
(* word stays a function (Owned).                                          *)
(*                                                                         *)
(* A body has its labels if its range lies in the image, where a branch    *)
(* within the range goes to a word of it: no walk leaves the image         *)
(* (EndsOK).  Then what is emitted for a stretch of words has each label   *)
(* of these once and no other (Labelled), by pieces, and by the number of  *)
(* words that are left.                                                    *)
(***************************************************************************)
EXTENDS Recompiled, FiniteSetTheorems, WellFoundedInduction, TLAPS

Source == {"Entry", "Symbol", "Import", "Call", "Prologue"}
Function == [start : Nat, end : Nat, source : Source]

Distinct(set) == \A f, g \in set : f.start = g.start => f = g

Listed(fs) ==
  /\ fs \in Seq(Function)
  /\ \A m, n \in 1..Len(fs) : fs[m].start = fs[n].start => m = n

-----------------------------------------------------------------------------
(* ByStart: the set's functions, each once, in the order of their starts.  *)

Rank(set, f) == Cardinality({g \in set : g.start <= f.start})

(* A function's rank is a place in the list, and a later start has a       *)
(* greater one.                                                            *)
LEMMA Ranks ==
  ASSUME NEW set \in SUBSET Function, IsFiniteSet(set)
  PROVE  /\ Cardinality(set) \in Nat
         /\ \A f \in set : Rank(set, f) \in 1..Cardinality(set)
         /\ \A f, g \in set : f.start < g.start => Rank(set, f) < Rank(set, g)
<1> DEFINE Upto(f) == {g \in set : g.start <= f.start}
<1>1. \A f \in set : f.start \in Nat
  BY DEF Function
<1>2. Cardinality(set) \in Nat
  BY FS_CardinalityType
<1>3. ASSUME NEW f \in set
      PROVE  /\ IsFiniteSet(Upto(f)) /\ Cardinality(Upto(f)) \in Nat
             /\ Cardinality(Upto(f)) <= Cardinality(set)
             /\ Cardinality(Upto(f)) # 0
  <2>1. Upto(f) \in SUBSET set
    OBVIOUS
  <2>2. IsFiniteSet(Upto(f)) /\ Cardinality(Upto(f)) <= Cardinality(set)
    <3> HIDE DEF Upto
    <3> QED BY <2>1, FS_Subset
  <2>3. f \in Upto(f)
    BY <1>1
  <2>4. Cardinality(Upto(f)) # 0
    <3> HIDE DEF Upto
    <3> QED BY <2>2, <2>3, FS_EmptySet
  <2>5. Cardinality(Upto(f)) \in Nat
    <3> HIDE DEF Upto
    <3> QED BY <2>2, FS_CardinalityType
  <2> QED BY <2>2, <2>4, <2>5
<1>4. ASSUME NEW f \in set, NEW g \in set, f.start < g.start
      PROVE  Cardinality(Upto(f)) < Cardinality(Upto(g))
  <2>1. Upto(f) \in SUBSET Upto(g)
    BY <1>1, <1>4
  <2>2. g \in Upto(g) /\ g \notin Upto(f)
    BY <1>1, <1>4
  <2>3. Upto(f) # Upto(g)
    BY <2>2
  <2>4. IsFiniteSet(Upto(g)) /\ Cardinality(Upto(g)) \in Nat /\ Cardinality(Upto(f)) \in Nat
    BY <1>3
  <2> HIDE DEF Upto
  <2>5. Cardinality(Upto(f)) <= Cardinality(Upto(g)) /\ Cardinality(Upto(f)) # Cardinality(Upto(g))
    BY <2>1, <2>3, <2>4, FS_Subset
  <2> QED BY <2>4, <2>5
<1>5. \A f : Rank(set, f) = Cardinality(Upto(f))
  BY DEF Rank
<1> HIDE DEF Upto
<1> QED BY <1>2, <1>3, <1>4, <1>5

LEMMA ByStartLists ==
  ASSUME NEW set \in SUBSET Function, IsFiniteSet(set), Distinct(set)
  PROVE  /\ Listed(ByStart(set))
         /\ \A n \in 1..Len(ByStart(set)) : ByStart(set)[n] \in set
         /\ \A f \in set : \E n \in 1..Len(ByStart(set)) : ByStart(set)[n] = f
         /\ \A m, n \in 1..Len(ByStart(set)) :
              m < n => ByStart(set)[m].start < ByStart(set)[n].start
<1> DEFINE N == Cardinality(set)
           q == ByStart(set)
           rank == [f \in set |-> Rank(set, f)]
<1>1. /\ N \in Nat
      /\ \A f \in set : Rank(set, f) \in 1..N
      /\ \A f, g \in set : f.start < g.start => Rank(set, f) < Rank(set, g)
  BY Ranks
<1>2. \A f \in set : f.start \in Nat
  BY DEF Function
<1>3. \A f, g \in set : Rank(set, f) = Rank(set, g) => f = g
  <2> SUFFICES ASSUME NEW f \in set, NEW g \in set, Rank(set, f) = Rank(set, g) PROVE f = g
    OBVIOUS
  <2>1. ~(f.start < g.start) /\ ~(g.start < f.start)
    BY <1>1
  <2> QED BY <1>2, <2>1 DEF Distinct
<1>4. rank \in Injection(set, 1..N)
  <2>1. rank \in [set -> 1..N]
    BY <1>1
  <2> QED BY <1>3, <2>1 DEF Injection, IsInjective
<1>5. rank \in Surjection(set, 1..N)
  <2>1. IsFiniteSet(1..N) /\ Cardinality(1..N) = N
    BY <1>1, FS_Interval
  <2> HIDE DEF rank
  <2> QED BY <1>4, <2>1, FS_Injection
<1>6. \A n \in 1..N : \E f \in set : Rank(set, f) = n
  BY <1>5 DEF Surjection
<1>7. \A n \in 1..N : q[n] \in set /\ Rank(set, q[n]) = n
  BY <1>6 DEF ByStart, Rank
<1>8. q \in Seq(Function) /\ Len(q) = N
  <2>1. q = [n \in 1..N |-> q[n]]
    <3> DEFINE e(n) == CHOOSE f \in set : Cardinality({g \in set : g.start <= f.start}) = n
    <3>1. q = [n \in 1..N |-> e(n)]
      BY DEF ByStart
    <3> HIDE DEF q, N, e
    <3> QED BY <3>1
  <2>2. \A n \in 1..N : q[n] \in Function
    BY <1>7
  <2> HIDE DEF q, N
  <2> QED BY <1>1, <2>1, <2>2
<1> HIDE DEF q, N, rank
<1>9. \A m, n \in 1..N : m < n => q[m].start < q[n].start
  <2> SUFFICES ASSUME NEW m \in 1..N, NEW n \in 1..N, m < n PROVE q[m].start < q[n].start
    OBVIOUS
  <2>1. q[m] \in set /\ q[n] \in set /\ Rank(set, q[m]) = m /\ Rank(set, q[n]) = n
    BY <1>7
  <2>2. ~(q[n].start < q[m].start)
    BY <1>1, <2>1
  <2>3. q[n].start # q[m].start
    BY <2>1 DEF Distinct
  <2> QED BY <1>2, <2>1, <2>2, <2>3
<1>10. \A f \in set : \E n \in 1..N : q[n] = f
  BY <1>1, <1>3, <1>7
<1>11. \A m, n \in 1..N : q[m].start = q[n].start => m = n
  BY <1>2, <1>7, <1>9
<1>12. Listed(q)
  BY <1>8, <1>11 DEF Listed
<1> QED BY <1>7, <1>8, <1>9, <1>10, <1>12 DEF q

-----------------------------------------------------------------------------
(* Truncation.                                                             *)

LEMMA LeastNumber ==
  ASSUME NEW T, T \subseteq Nat, T # {}
  PROVE  \E x \in T : \A y \in T : x <= y
<1>1. PICK x \in T : \A y \in T : <<y, x>> \notin OpToRel(<, Nat)
  BY NatLessThanWellFounded, WFMin
<1>2. ASSUME NEW y \in T PROVE x <= y
  <2>1. x \in Nat /\ y \in Nat
    OBVIOUS
  <2>2. ~(y < x)
    BY <1>1, <2>1, Zenon DEF OpToRel
  <2> QED BY <2>1, <2>2
<1> QED BY <1>2

LEMMA EndAmongIs ==
  ASSUME NEW set \in SUBSET Function, NEW f \in Function
  PROVE  /\ EndAmong(set, f) \in Nat
         /\ \A g \in set : f.start < g.start => EndAmong(set, f) <= g.start
<1> DEFINE inside == {g.start : g \in {h \in set : f.start < h.start /\ h.start < f.end}}
<1>1. f.end \in Nat /\ \A g \in set : g.start \in Nat
  BY DEF Function
<1>2. CASE inside = {}
  <2>1. EndAmong(set, f) = f.end
    BY <1>2 DEF EndAmong
  <2>2. \A g \in set : f.start < g.start => ~(g.start < f.end)
    BY <1>2
  <2> QED BY <1>1, <2>1, <2>2
<1>3. CASE inside # {}
  <2>1. inside \subseteq Nat
    BY <1>1
  <2>2. EndAmong(set, f) = CHOOSE a \in inside : \A b \in inside : a <= b
    BY <1>3 DEF EndAmong
  <2>3. EndAmong(set, f) \in inside /\ \A b \in inside : EndAmong(set, f) <= b
    <3> HIDE DEF inside
    <3> QED BY <1>3, <2>1, <2>2, LeastNumber
  <2>4. EndAmong(set, f) \in Nat /\ EndAmong(set, f) < f.end
    BY <1>1, <2>3
  <2>5. ASSUME NEW g \in set, f.start < g.start PROVE EndAmong(set, f) <= g.start
    <3>1. CASE g.start < f.end
      BY <2>3, <2>5, <3>1
    <3>2. CASE ~(g.start < f.end)
      BY <1>1, <2>4, <3>2
    <3> QED BY <3>1, <3>2
  <2> QED BY <2>4, <2>5
<1> QED BY <1>2, <1>3

LEMMA TruncatedIs ==
  ASSUME NEW set \in SUBSET Function, IsFiniteSet(set), Distinct(set)
  PROVE  /\ Truncated(set) \in SUBSET Function
         /\ IsFiniteSet(Truncated(set))
         /\ Distinct(Truncated(set))
         /\ \A f, g \in Truncated(set) : f.start < g.start => f.end <= g.start
<1> DEFINE cut(f) == [f EXCEPT !.end = EndAmong(set, f)]
           cuts == [f \in set |-> cut(f)]
<1>1. \A f \in set : /\ cut(f) \in Function /\ cut(f).start = f.start
                     /\ cut(f).end = EndAmong(set, f)
  <2> SUFFICES ASSUME NEW f \in set
               PROVE  cut(f) \in Function /\ cut(f).start = f.start /\ cut(f).end = EndAmong(set, f)
    OBVIOUS
  <2>1. EndAmong(set, f) \in Nat
    BY EndAmongIs
  <2> QED BY <2>1 DEF Function
<1>2. Truncated(set) = {cut(f) : f \in set}
  BY DEF Truncated
<1>3. cuts \in Surjection(set, Truncated(set))
  <2> HIDE DEF cut
  <2> QED BY <1>2 DEF Surjection
<1>4. IsFiniteSet(Truncated(set))
  <2> HIDE DEF cuts
  <2> QED BY <1>3, FS_Surjection
<1> HIDE DEF cut, cuts
<1>5. Distinct(Truncated(set))
  BY <1>1, <1>2 DEF Distinct
<1>6. ASSUME NEW f \in set, NEW g \in set, cut(f).start < cut(g).start
      PROVE  cut(f).end <= cut(g).start
  BY <1>1, <1>6, EndAmongIs
<1> QED BY <1>1, <1>2, <1>4, <1>5, <1>6

(* The list of a truncated set has the property.                           *)
InOrder(fs) ==
  \A n \in 1..(Len(fs) - 1) :
    /\ fs[n].start < fs[n + 1].start
    /\ fs[n].end <= fs[n + 1].start

LEMMA TruncatedInOrder ==
  ASSUME NEW set \in SUBSET Function, IsFiniteSet(set), Distinct(set)
  PROVE  InOrder(ByStart(Truncated(set)))
<1> DEFINE cut == Truncated(set)
           q == ByStart(cut)
<1>1. /\ cut \in SUBSET Function /\ IsFiniteSet(cut) /\ Distinct(cut)
      /\ \A f, g \in cut : f.start < g.start => f.end <= g.start
  BY TruncatedIs
<1> HIDE DEF cut
<1>2. /\ Len(q) \in Nat
      /\ \A n \in 1..Len(q) : q[n] \in cut
      /\ \A m, n \in 1..Len(q) : m < n => q[m].start < q[n].start
  BY <1>1, ByStartLists DEF Listed
<1> HIDE DEF q
<1>3. ASSUME NEW n \in 1..(Len(q) - 1)
      PROVE  q[n].start < q[n + 1].start /\ q[n].end <= q[n + 1].start
  <2>1. n \in 1..Len(q) /\ n + 1 \in 1..Len(q) /\ n < n + 1
    BY <1>2
  <2>2. q[n].start < q[n + 1].start
    BY <1>2, <2>1
  <2> QED BY <1>1, <1>2, <2>1, <2>2
<1> QED BY <1>3 DEF InOrder, q, cut

-----------------------------------------------------------------------------
(* What adds a function.                                                   *)

LEMMA Members ==
  ASSUME NEW fs, Listed(fs)
  PROVE  /\ ToSet(fs) \in SUBSET Function /\ IsFiniteSet(ToSet(fs)) /\ Distinct(ToSet(fs))
         /\ Known(fs) = {f.start : f \in ToSet(fs)}
<1>1. fs \in [1..Len(fs) -> Function] /\ Len(fs) \in Nat
  BY DEF Listed
<1>2. ToSet(fs) = {fs[n] : n \in 1..Len(fs)}
  BY <1>1 DEF ToSet
<1>3. fs \in Surjection(1..Len(fs), ToSet(fs))
  BY <1>1, <1>2 DEF Surjection
<1>4. IsFiniteSet(ToSet(fs))
  BY <1>1, <1>3, FS_Interval, FS_Surjection
<1>5. ToSet(fs) \in SUBSET Function /\ Distinct(ToSet(fs))
  BY <1>1, <1>2 DEF Listed, Distinct
<1>6. Known(fs) = {f.start : f \in ToSet(fs)}
  BY <1>1, <1>2 DEF Known
<1> QED BY <1>4, <1>5, <1>6

LEMMA FoundIs ==
  ASSUME NEW as \in SUBSET Nat, IsFiniteSet(as), NEW source \in Source
  PROVE  LET new == {Found(a, source) : a \in as}
         IN  /\ new \in SUBSET Function /\ IsFiniteSet(new) /\ Distinct(new)
             /\ \A f \in new : f.start \in as
<1> DEFINE new == {Found(a, source) : a \in as}
           found == [a \in as |-> Found(a, source)]
<1>1. \A a \in as : Found(a, source) \in Function /\ Found(a, source).start = a
  BY DEF Found, Function
<1>2. found \in Surjection(as, new)
  <2>1. found \in [as -> new] /\ \A f \in new : \E a \in as : found[a] = f
    OBVIOUS
  <2> QED BY <2>1 DEF Surjection
<1>3. IsFiniteSet(new)
  <2> HIDE DEF found, new
  <2> QED BY <1>2, FS_Surjection
<1> QED BY <1>1, <1>3 DEF Distinct

(* A list goes on with new starts.                                         *)
LEMMA ListedGoesOn ==
  ASSUME NEW fs, Listed(fs), NEW more, Listed(more),
         \A n \in 1..Len(more) : more[n].start \notin Known(fs)
  PROVE  /\ Listed(fs \o more)
         /\ Len(fs) <= Len(fs \o more)
         /\ Known(fs) \subseteq Known(fs \o more)
<1> DEFINE r == fs \o more
<1>1. /\ Len(fs) \in Nat /\ Len(more) \in Nat /\ Len(r) = Len(fs) + Len(more)
      /\ r \in Seq(Function)
      /\ \A n \in 1..Len(fs) : r[n] = fs[n]
      /\ \A n \in 1..Len(r) : n > Len(fs) => n - Len(fs) \in 1..Len(more) /\ r[n] = more[n - Len(fs)]
  BY DEF Listed
<1>2. \A n \in 1..Len(fs) : fs[n].start \in Known(fs)
  BY DEF Known, Listed
<1> HIDE DEF r
<1>3. ASSUME NEW m \in 1..Len(r), NEW n \in 1..Len(r), r[m].start = r[n].start
      PROVE  m = n
  <2>1. CASE m <= Len(fs) /\ n <= Len(fs)
    BY <1>1, <1>3, <2>1 DEF Listed
  <2>2. CASE m > Len(fs) /\ n > Len(fs)
    <3>1. m - Len(fs) = n - Len(fs)
      BY <1>1, <1>3, <2>2 DEF Listed
    <3> QED BY <1>1, <3>1
  <2>3. CASE m <= Len(fs) /\ n > Len(fs)
    BY <1>1, <1>2, <1>3, <2>3
  <2>4. CASE m > Len(fs) /\ n <= Len(fs)
    BY <1>1, <1>2, <1>3, <2>4
  <2> QED BY <1>1, <2>1, <2>2, <2>3, <2>4
<1>4. Listed(r)
  BY <1>1, <1>3 DEF Listed
<1>5. Known(fs) \subseteq Known(r)
  <2>1. DOMAIN fs = 1..Len(fs) /\ DOMAIN r = 1..Len(r)
    BY <1>1 DEF Listed
  <2> QED BY <1>1, <2>1 DEF Known
<1> QED BY <1>1, <1>4, <1>5 DEF r

LEMMA AddedAllKeeps ==
  ASSUME NEW fs, Listed(fs), NEW as \in SUBSET Nat, IsFiniteSet(as), NEW source \in Source
  PROVE  /\ Listed(AddedAll(fs, as, source))
         /\ Len(fs) <= Len(AddedAll(fs, as, source))
         /\ Known(fs) \subseteq Known(AddedAll(fs, as, source))
<1> DEFINE bs == {b \in as : AddrOk(b) /\ b \notin Known(fs)}
           new == {Found(a, source) : a \in bs}
<1>1. bs \in SUBSET Nat /\ IsFiniteSet(bs) /\ \A b \in bs : b \notin Known(fs)
  <2>1. bs \in SUBSET as
    OBVIOUS
  <2> QED BY <2>1, FS_Subset
<1> HIDE DEF bs
<1>2. new \in SUBSET Function /\ IsFiniteSet(new) /\ Distinct(new) /\ \A f \in new : f.start \in bs
  BY <1>1, FoundIs
<1>3. AddedAll(fs, as, source) = fs \o ByStart(new)
  BY DEF AddedAll, bs
<1> HIDE DEF new
<1>4. Listed(ByStart(new)) /\ \A n \in 1..Len(ByStart(new)) : ByStart(new)[n].start \notin Known(fs)
  BY <1>1, <1>2, ByStartLists
<1> QED BY <1>3, <1>4, ListedGoesOn

LEMMA AddedKeeps ==
  ASSUME NEW fs, Listed(fs), NEW a \in Nat, NEW source \in Source
  PROVE  /\ Listed(Added(fs, a, source))
         /\ Len(fs) <= Len(Added(fs, a, source))
         /\ Known(fs) \subseteq Known(Added(fs, a, source))
<1>1. CASE ~AddrOk(a) \/ a \in Known(fs)
  <2>1. Added(fs, a, source) = fs
    BY <1>1 DEF Added
  <2> QED BY <2>1 DEF Listed
<1>2. CASE ~(~AddrOk(a) \/ a \in Known(fs))
  <2> DEFINE new == <<Found(a, source)>>
  <2>1. Found(a, source) \in Function /\ Found(a, source).start = a
    BY DEF Found, Function
  <2>2. Added(fs, a, source) = fs \o new
    BY <1>2, <2>1 DEF Added, Listed
  <2>3. Listed(new) /\ \A n \in 1..Len(new) : new[n].start \notin Known(fs)
    BY <1>2, <2>1 DEF Listed
  <2> HIDE DEF new
  <2> QED BY <2>2, <2>3, ListedGoesOn
<1> QED BY <1>1, <1>2

(* A walk's end is written back.                                           *)
LEMMA EndKeeps ==
  ASSUME NEW fs, Listed(fs), NEW n \in 1..Len(fs), NEW e \in Nat
  PROVE  LET r == [fs EXCEPT ![n].end = e]
         IN  Listed(r) /\ Len(r) = Len(fs) /\ Known(r) = Known(fs)
<1> DEFINE r == [fs EXCEPT ![n].end = e]
<1>1. fs \in [1..Len(fs) -> Function] /\ Len(fs) \in Nat
  BY DEF Listed
<1>2. /\ r \in [1..Len(fs) -> Function]
      /\ \A m \in 1..Len(fs) : r[m].start = fs[m].start
  BY <1>1 DEF Function
<1>3. r \in Seq(Function) /\ Len(r) = Len(fs)
  <2> HIDE DEF r
  <2> QED BY <1>1, <1>2
<1> HIDE DEF r
<1>4. Listed(r)
  BY <1>2, <1>3 DEF Listed
<1>5. Known(r) = Known(fs)
  BY <1>1, <1>2 DEF Known
<1> QED BY <1>3, <1>4, <1>5 DEF r

-----------------------------------------------------------------------------
(* The invariant: what discovery keeps until it is over, and its result.   *)

Discovering == phase \in {"seed", "walk", "scan", "rewalk", "finalize"}

(* The owner of a claimed word is a function. *)
Owned == \A a \in Addr : claimed[a] # 0 => claimed[a] \in Known(functions)

WalkOK ==
  /\ fi \in 0..Len(functions) /\ queue \in Seq(Nat) /\ at \in Nat /\ maxEnd \in Nat
  /\ at # 0 \/ queue # <<>> => fi # 0

DiscoveryOK ==
  /\ Listed(functions)
  /\ phase = "seed" => functions = <<>>
  /\ claimed \in [Addr -> Nat]
  /\ Owned
  /\ WalkOK

RangesInv ==
  /\ Image
  /\ Discovering => DiscoveryOK
  /\ RangesDisjoint

LEMMA InitRanges == Init => RangesInv
<1> SUFFICES ASSUME Init PROVE RangesInv
  OBVIOUS
<1>1. Listed(functions) /\ Len(functions) = 0
  BY DEF Init, AnalysisInit, Listed
<1>2. claimed = [a \in Addr |-> 0]
  BY DEF Init, AnalysisInit
<1>3. claimed \in [Addr -> Nat] /\ Owned
  BY <1>2 DEF Owned
<1>4. WalkOK
  BY <1>1 DEF WalkOK, Init, AnalysisInit
<1> QED BY <1>1, <1>3, <1>4 DEF RangesInv, DiscoveryOK, RangesDisjoint, Init, AnalysisInit

(* A step that adds functions and leaves the rest alone. *)
LEMMA AddingKeeps ==
  ASSUME DiscoveryOK, Listed(functions'), Len(functions) <= Len(functions'),
         Known(functions) \subseteq Known(functions'), UNCHANGED <<claimed, walkVars>>,
         phase' # "seed"
  PROVE  DiscoveryOK'
<1>1. Len(functions) \in Nat /\ Len(functions') \in Nat
  BY DEF DiscoveryOK, Listed
<1> QED BY <1>1 DEF DiscoveryOK, Owned, WalkOK, walkVars

LEMMA AddrsFinite ==
  ASSUME NEW as, as \subseteq Addr
  PROVE  as \in SUBSET Nat /\ IsFiniteSet(as)
<1>1. Addr \subseteq Nat /\ IsFiniteSet(Addr)
  BY ImageAssumption, FS_Interval DEF Addr
<1> HIDE DEF Addr
<1> QED BY <1>1, FS_Subset

LEMMA SeedKeeps ==
  ASSUME Image, DiscoveryOK, Seed
  PROVE  DiscoveryOK'
<1> DEFINE none == <<>>
           one == AddedAll(none, {Entry}, "Entry")
           two == AddedAll(one, symbols \cap Exec, "Symbol")
           three == AddedAll(two, imports, "Import")
<1>1. Listed(none)
  BY DEF Listed
<1>2. {Entry} \in SUBSET Nat /\ IsFiniteSet({Entry})
  BY AnalysisAssumption, FS_Singleton
<1>3. symbols \cap Exec \in SUBSET Nat /\ IsFiniteSet(symbols \cap Exec)
  BY AddrsFinite, ImageAssumption
<1>4. imports \in SUBSET Nat /\ IsFiniteSet(imports)
  BY DEF Image
<1>5. functions' = three /\ UNCHANGED <<claimed, walkVars>>
  BY DEF Seed
<1>6. {"Entry", "Symbol", "Import"} \subseteq Source
  BY DEF Source
<1> HIDE DEF none
<1>7. Listed(one)
  BY <1>1, <1>2, <1>6, AddedAllKeeps
<1> HIDE DEF one
<1>8. Listed(two)
  BY <1>3, <1>6, <1>7, AddedAllKeeps
<1> HIDE DEF two
<1>9. Listed(three)
  BY <1>4, <1>6, <1>8, AddedAllKeeps
<1> HIDE DEF two
<1>10. Known(functions) = {} /\ Len(functions) = 0
  BY DEF DiscoveryOK, Seed, Known
<1>11. Len(three) \in Nat
  BY <1>9 DEF Listed
<1>12. phase' # "seed"
  BY DEF Seed
<1> HIDE DEF three
<1> QED BY <1>5, <1>9, <1>10, <1>11, <1>12, AddingKeeps

LEMMA WalkEndsKeeps ==
  ASSUME DiscoveryOK, WalkEnds
  PROVE  DiscoveryOK'
<1> DEFINE fs == IF fi = 0 THEN functions ELSE [functions EXCEPT ![fi].end = maxEnd]
           pending == {n \in DOMAIN fs : n > fi /\ fs[n].end = 0}
<1>1. Listed(functions) /\ Len(functions) \in Nat /\ fi \in 0..Len(functions) /\ maxEnd \in Nat
  BY DEF DiscoveryOK, WalkOK, Listed
<1>2. Listed(fs) /\ Len(fs) = Len(functions) /\ Known(fs) = Known(functions)
  <2>1. CASE fi = 0
    BY <1>1, <2>1
  <2>2. CASE fi # 0
    BY <1>1, <2>2, EndKeeps
  <2> QED BY <2>1, <2>2
<1>3. /\ functions' = fs /\ UNCHANGED <<claimed, at>> /\ at = 0 /\ phase' # "seed"
      /\ \/ pending = {} /\ fi' = 0 /\ queue' = <<>> /\ maxEnd' = 0
         \/ LET next == CHOOSE n \in pending : \A k \in pending : n <= k
            IN  /\ pending # {} /\ fi' = next
                /\ queue' = <<fs[next].start>> /\ maxEnd' = fs[next].start
  BY DEF WalkEnds, Walking
<1> HIDE DEF fs
<1>4. CASE pending = {} /\ fi' = 0 /\ queue' = <<>> /\ maxEnd' = 0
  <2>1. WalkOK'
    BY <1>1, <1>2, <1>3, <1>4 DEF WalkOK
  <2> QED BY <1>2, <1>3, <2>1 DEF DiscoveryOK, Owned
<1>5. ASSUME pending # {},
             fi' = CHOOSE n \in pending : \A k \in pending : n <= k,
             queue' = <<fs[fi'].start>>, maxEnd' = fs[fi'].start
      PROVE  DiscoveryOK'
  <2>1. DOMAIN fs = 1..Len(fs) /\ \A n \in 1..Len(fs) : fs[n].start \in Nat
    <3>1. fs \in [1..Len(fs) -> Function]
      BY <1>2 DEF Listed
    <3>2. \A f \in Function : f.start \in Nat
      BY DEF Function
    <3> QED BY <3>1, <3>2
  <2>2. pending \subseteq Nat
    BY <2>1
  <2>3. fi' \in pending
    <3> HIDE DEF pending
    <3> QED BY <1>5, <2>2, LeastNumber
  <2>4. fi' \in 1..Len(fs)
    BY <2>1, <2>3
  <2>5. WalkOK'
    <3>1. fi' \in 0..Len(functions') /\ fi' # 0
      BY <1>1, <1>2, <1>3, <2>4
    <3>2. maxEnd' \in Nat
      BY <1>5, <2>1, <2>4
    <3>3. queue' \in Seq(Nat)
      BY <1>5, <2>1, <2>4
    <3> QED BY <1>3, <3>1, <3>2, <3>3 DEF WalkOK
  <2> QED BY <1>2, <1>3, <2>5 DEF DiscoveryOK, Owned
<1> QED BY <1>3, <1>4, <1>5

LEMMA TakeTargetKeeps ==
  ASSUME DiscoveryOK, TakeTarget
  PROVE  DiscoveryOK'
<1>1. Last(queue) \in Nat /\ Front(queue) \in Seq(Nat)
  BY DEF DiscoveryOK, WalkOK, TakeTarget, Last, Front
<1> QED BY <1>1 DEF DiscoveryOK, Owned, WalkOK, TakeTarget, Walking

LEMMA PrologueScanKeeps ==
  ASSUME Image, DiscoveryOK, PrologueScan
  PROVE  DiscoveryOK'
<1>1. Prologues \in SUBSET Nat /\ IsFiniteSet(Prologues)
  BY AddrsFinite, ImageAssumption DEF Prologues
<1>2. "Prologue" \in Source
  BY DEF Source
<1> QED BY <1>1, <1>2, AddedAllKeeps, AddingKeeps DEF PrologueScan, DiscoveryOK

LEMMA CancelKeeps ==
  ASSUME Image, DiscoveryOK, Cancel
  PROVE  DiscoveryOK'
<1>1. CASE phase = "seed" /\ UNCHANGED <<phase, functions>>
  BY <1>1 DEF Cancel, DiscoveryOK, Owned, WalkOK, walkVars
<1>2. CASE /\ Walking /\ fi # 0
           /\ functions' = [functions EXCEPT ![fi].end = maxEnd]
           /\ phase' = "finalize"
  <2>1. fi \in 1..Len(functions) /\ maxEnd \in Nat /\ Listed(functions)
    BY <1>2 DEF DiscoveryOK, WalkOK, Listed
  <2>2. Listed(functions') /\ Len(functions') = Len(functions) /\ Known(functions') = Known(functions)
    BY <1>2, <2>1, EndKeeps
  <2>3. Len(functions) <= Len(functions') /\ Known(functions) \subseteq Known(functions')
    <3>1. Len(functions) \in Nat
      BY <2>1 DEF Listed
    <3> QED BY <2>2, <3>1
  <2>4. UNCHANGED <<claimed, walkVars>> /\ phase' # "seed"
    BY <1>2 DEF Cancel
  <2> QED BY <2>2, <2>3, <2>4, AddingKeeps
<1>3. CASE phase = "scan" /\ phase' = "finalize"
           /\ \E a \in Addr : functions' = AddedAll(functions, {b \in Prologues : b < a}, "Prologue")
  <2>1. PICK a \in Addr : functions' = AddedAll(functions, {b \in Prologues : b < a}, "Prologue")
    BY <1>3
  <2>2. {b \in Prologues : b < a} \in SUBSET Nat /\ IsFiniteSet({b \in Prologues : b < a})
    BY AddrsFinite, ImageAssumption DEF Prologues
  <2>3. "Prologue" \in Source
    BY DEF Source
  <2> QED BY <1>3, <2>1, <2>2, <2>3, AddedAllKeeps, AddingKeeps DEF Cancel, DiscoveryOK
<1> QED BY <1>1, <1>2, <1>3 DEF Cancel

(* Every operation of Visit claims the word at hand, and perhaps its slot, *)
(* for the function that is walked.                                        *)
LEMMA CoverKeeps ==
  ASSUME DiscoveryOK, fi # 0, at \in Addr, NEW as, as = {at} \/ as = {at} \union Slot(at), Cover(as)
  PROVE  /\ claimed' \in [Addr -> Nat]
         /\ \A a \in Addr : claimed'[a] # 0 => claimed'[a] \in Known(functions)
         /\ maxEnd' \in Nat
<1>1. FnStart \in Known(functions) /\ FnStart \in Nat
  <2>1. fi \in 1..Len(functions) /\ functions \in [1..Len(functions) -> Function]
    BY DEF DiscoveryOK, WalkOK, Listed
  <2>2. functions[fi].start \in Nat
    BY <2>1 DEF Function
  <2> QED BY <2>1, <2>2 DEF FnStart, Known
<1>2. claimed' = [a \in Addr |-> IF a \in as THEN FnStart ELSE claimed[a]]
  BY DEF Cover
<1>3. /\ claimed' \in [Addr -> Nat]
      /\ \A a \in Addr : claimed'[a] # 0 => claimed'[a] \in Known(functions)
  BY <1>1, <1>2 DEF DiscoveryOK, Owned
<1>4. maxEnd \in Nat /\ at \in Nat
  BY DEF DiscoveryOK, WalkOK
<1>5. maxEnd' \in Nat
  <2> DEFINE ends == {maxEnd} \union {a + 1 : a \in as}
  <2>1. maxEnd' = CHOOSE e \in ends : \A f \in ends : f <= e
    BY DEF Cover
  <2>2. ends = {maxEnd, at + 1} \/ ends = {maxEnd, at + 1, at + 2}
    <3>1. Slot(at) = {} \/ Slot(at) = {at + 1}
      BY DEF Slot
    <3>2. as = {at} \/ as = {at, at + 1}
      BY <3>1
    <3>3. at + 1 + 1 = at + 2
      BY <1>4
    <3>4. CASE as = {at}
      BY <3>4
    <3>5. CASE as = {at, at + 1}
      BY <3>3, <3>5
    <3> QED BY <3>2, <3>4, <3>5
  <2> HIDE DEF ends
  <2>3. \E e \in ends : \A f \in ends : f <= e
    <3>1. CASE ends = {maxEnd, at + 1}
      BY <1>4, <3>1
    <3>2. CASE ends = {maxEnd, at + 1, at + 2}
      BY <1>4, <3>2
    <3> QED BY <2>2, <3>1, <3>2
  <2>4. maxEnd' \in ends
    BY <2>1, <2>3
  <2> QED BY <1>4, <2>2, <2>4
<1> QED BY <1>3, <1>5

LEMMA JumpTableType ==
  ASSUME NEW i \in Instruction
  PROVE  JumpTable(i) \in Seq(Nat)
<1> DEFINE Fits(n) == \A k \in 1..n : /\ i.table[k] \in Exec
                                      /\ i.table[k] <= i.table[1] + Span
                                      /\ i.table[1] <= i.table[k] + Span
           stop == {n \in 0..Len(i.table) : n = Len(i.table) \/ ~Fits(n + 1)}
           entries == CHOOSE n \in 0..Len(i.table) : Fits(n) /\ (n = Len(i.table) \/ ~Fits(n + 1))
<1>1. i.table \in Seq(Nat) /\ Len(i.table) \in Nat
  BY DEF Instruction
<1>2. Fits(0)
  OBVIOUS
<1>3. JumpTable(i) = SubSeq(i.table, 1, entries)
  BY DEF JumpTable
<1> HIDE DEF Fits
<1>4. PICK n \in stop : \A m \in stop : n <= m
  <2>1. Len(i.table) \in stop /\ stop \subseteq Nat
    BY <1>1
  <2> HIDE DEF stop
  <2> QED BY <2>1, LeastNumber
<1>5. Fits(n)
  <2>1. CASE n = 0
    BY <1>2, <2>1
  <2>2. CASE n # 0
    <3>1. n \in 0..Len(i.table)
      OBVIOUS
    <3>2. n - 1 \in 0..Len(i.table) /\ n - 1 + 1 = n /\ ~(n <= n - 1)
      BY <1>1, <2>2, <3>1
    <3>3. n - 1 \notin stop
      <4> HIDE DEF stop
      <4> QED BY <1>4, <3>2
    <3> QED BY <3>2, <3>3
  <2> QED BY <2>1, <2>2
<1>6. entries \in 0..Len(i.table)
  BY <1>4, <1>5
<1> HIDE DEF entries
<1> QED BY <1>1, <1>3, <1>6

LEMMA VisitKeeps ==
  ASSUME Image, DiscoveryOK, Visit
  PROVE  DiscoveryOK'
<1>1. /\ Listed(functions) /\ Len(functions) \in Nat
      /\ fi \in 1..Len(functions) /\ fi' = fi /\ queue \in Seq(Nat) /\ at \in Nat /\ maxEnd \in Nat
      /\ phase' # "seed"
  BY DEF Visit, Walking, DiscoveryOK, WalkOK, Listed
<1>2. "Call" \in Source
  BY DEF Source
<1>3. ASSUME /\ claimed' \in [Addr -> Nat]
             /\ \A a \in Addr : claimed'[a] # 0 => claimed'[a] \in Known(functions),
             maxEnd' \in Nat, at' \in Nat, queue' \in Seq(Nat),
             UNCHANGED functions \/ \E t \in Nat : functions' = Added(functions, t, "Call")
      PROVE  DiscoveryOK'
  <2>1. /\ Listed(functions') /\ Len(functions) <= Len(functions')
        /\ Known(functions) \subseteq Known(functions')
    <3>1. CASE UNCHANGED functions
      BY <1>1, <3>1
    <3>2. ASSUME NEW t \in Nat, functions' = Added(functions, t, "Call")
          PROVE  /\ Listed(functions') /\ Len(functions) <= Len(functions')
                 /\ Known(functions) \subseteq Known(functions')
      BY <1>1, <1>2, <3>2, AddedKeeps
    <3> QED BY <1>3, <3>1, <3>2
  <2>2. Len(functions') \in Nat
    BY <2>1 DEF Listed
  <2>3. WalkOK'
    BY <1>1, <1>3, <2>1, <2>2 DEF WalkOK
  <2>4. Owned'
    BY <1>3, <2>1 DEF Owned
  <2> QED BY <1>1, <1>3, <2>1, <2>3, <2>4 DEF DiscoveryOK
<1>4. CASE VisitNothing
  BY <1>1, <1>3, <1>4 DEF VisitNothing, DiscoveryOK, Owned
<1>5. CASE ~Stops(at)
  <2>1. at \in Addr /\ code[at] \in Instruction /\ code[at].to \in Nat /\ at + 1 \in Nat
    <3>1. at \in Addr /\ code[at] \in Instruction
      BY <1>5 DEF Stops, Image
    <3> QED BY <1>1, <3>1 DEF Instruction
  <2>2. ASSUME NEW as, as = {at} \/ as = {at} \union Slot(at), Cover(as)
        PROVE  /\ claimed' \in [Addr -> Nat]
               /\ \A a \in Addr : claimed'[a] # 0 => claimed'[a] \in Known(functions)
               /\ maxEnd' \in Nat
    <3>1. fi # 0
      BY <1>1
    <3> QED BY <2>1, <2>2, <3>1, CoverKeeps
  <2>3. CASE VisitStep
    BY <1>1, <1>3, <2>1, <2>2, <2>3 DEF VisitStep
  <2>4. CASE VisitBranch
    <3>1. queue' \in Seq(Nat)
      BY <1>1, <2>1, <2>4 DEF VisitBranch
    <3> QED BY <1>3, <2>1, <2>2, <2>4, <3>1 DEF VisitBranch
  <2>5. CASE VisitCall
    BY <1>1, <1>3, <2>1, <2>2, <2>5 DEF VisitCall
  <2>6. CASE VisitJump
    <3>1. queue' \in Seq(Nat)
      BY <1>1, <2>1, <2>6 DEF VisitJump
    <3> QED BY <1>3, <2>1, <2>2, <2>6, <3>1 DEF VisitJump
  <2>7. CASE VisitRegisterJump
    <3>1. queue' \in Seq(Nat)
      <4>1. JumpTable(code[at]) \in Seq(Nat)
        BY <2>1, JumpTableType
      <4>2. queue' = queue \/ queue' = queue \o JumpTable(code[at])
        BY <2>7 DEF VisitRegisterJump
      <4>3. \A t \in Seq(Nat) : queue \o t \in Seq(Nat)
        BY <1>1
      <4> QED BY <1>1, <4>1, <4>2, <4>3
    <3> QED BY <1>3, <2>1, <2>2, <2>7, <3>1 DEF VisitRegisterJump
  <2> QED BY <1>4, <1>5, <2>3, <2>4, <2>5, <2>6, <2>7 DEF Visit
<1> QED BY <1>4, <1>5 DEF Visit

(* The functions that were walked, and the rescued words with their ends.  *)
LEMMA RescuedIs ==
  ASSUME DiscoveryOK
  PROVE  LET all == ToSet(functions) \union Rescued(ToSet(functions))
         IN  all \in SUBSET Function /\ IsFiniteSet(all) /\ Distinct(all)
<1> DEFINE walked == ToSet(functions)
           Owner(a) == CHOOSE f \in walked : f.start = claimed[a]
           lost == {a \in Addr : /\ claimed[a] # 0
                                 /\ \A f \in walked : f.start # a
                                 /\ a >= EndAmong(walked, Owner(a))}
           rescue(a) == [Found(a, "Call") EXCEPT !.end = Owner(a).end]
           rescues == [a \in lost |-> rescue(a)]
<1>1. /\ walked \in SUBSET Function /\ IsFiniteSet(walked) /\ Distinct(walked)
      /\ Known(functions) = {f.start : f \in walked}
  BY Members DEF DiscoveryOK
<1>2. Rescued(walked) = {rescue(a) : a \in lost}
  BY DEF Rescued
<1> HIDE DEF walked
<1>3. ASSUME NEW a \in lost PROVE rescue(a) \in Function /\ rescue(a).start = a
  <2>1. a \in Addr /\ claimed[a] \in Known(functions)
    BY DEF DiscoveryOK, Owned
  <2>2. Owner(a) \in walked
    BY <1>1, <2>1
  <2>3. Owner(a).end \in Nat
    BY <1>1, <2>2 DEF Function
  <2>4. a \in Nat
    BY <2>1, ImageAssumption DEF Addr
  <2> HIDE DEF Owner
  <2> QED BY <2>3, <2>4 DEF Found, Function, Source
<1>4. \A a \in lost : \A f \in walked : f.start # a
  OBVIOUS
<1>5. IsFiniteSet(lost)
  <2>1. lost \subseteq Addr
    OBVIOUS
  <2> HIDE DEF lost
  <2> QED BY <2>1, AddrsFinite
<1> HIDE DEF lost, rescue
<1>6. rescues \in Surjection(lost, Rescued(walked))
  BY <1>2 DEF Surjection
<1>7. IsFiniteSet(Rescued(walked))
  <2> HIDE DEF rescues
  <2> QED BY <1>5, <1>6, FS_Surjection
<1>8. Rescued(walked) \in SUBSET Function
  BY <1>2, <1>3
<1>9. Distinct(walked \union Rescued(walked))
  <2> SUFFICES ASSUME NEW f \in walked \union Rescued(walked), NEW g \in walked \union Rescued(walked),
                      f.start = g.start
               PROVE  f = g
    BY DEF Distinct
  <2>1. CASE f \in walked /\ g \in walked
    BY <1>1, <2>1 DEF Distinct
  <2>2. CASE f \in Rescued(walked) /\ g \in Rescued(walked)
    <3>1. PICK a \in lost : f = rescue(a)
      BY <1>2, <2>2
    <3>2. PICK b \in lost : g = rescue(b)
      BY <1>2, <2>2
    <3> QED BY <1>3, <3>1, <3>2
  <2>3. CASE f \in walked /\ g \in Rescued(walked)
    <3>1. PICK b \in lost : g = rescue(b)
      BY <1>2, <2>3
    <3> QED BY <1>3, <1>4, <2>3, <3>1
  <2>4. CASE f \in Rescued(walked) /\ g \in walked
    <3>1. PICK b \in lost : f = rescue(b)
      BY <1>2, <2>4
    <3> QED BY <1>3, <1>4, <2>4, <3>1
  <2> QED BY <2>1, <2>2, <2>3, <2>4
<1>10. IsFiniteSet(walked \union Rescued(walked))
  BY <1>1, <1>7, FS_Union
<1> QED BY <1>1, <1>8, <1>9, <1>10 DEF walked

LEMMA EmitInOrder ==
  ASSUME DiscoveryOK, Emit
  PROVE  RangesDisjoint' /\ ~Discovering'
<1> DEFINE all == ToSet(functions) \union Rescued(ToSet(functions))
<1>1. all \in SUBSET Function /\ IsFiniteSet(all) /\ Distinct(all)
  BY RescuedIs
<1>2. functions' = ByStart(Truncated(all))
  BY DEF Emit, Finalized
<1> HIDE DEF all
<1>3. InOrder(functions')
  BY <1>1, <1>2, TruncatedInOrder
<1>4. phase' \in {"run", "ended"}
  BY DEF Emit
<1> QED BY <1>3, <1>4 DEF RangesDisjoint, InOrder, Discovering

LEMMA NextRanges == RangesInv /\ [Next]_vars => RangesInv'
<1> SUFFICES ASSUME RangesInv, [Next]_vars PROVE RangesInv'
  OBVIOUS
<1>1. CASE UNCHANGED vars
  BY <1>1 DEF RangesInv, DiscoveryOK, Owned, WalkOK, RangesDisjoint, Discovering, Image,
     vars, imageVars, analysisVars, walkVars
<1>2. CASE Analyse \/ CancelAnalysis
  <2>1. AnalysisStep \/ Cancel
    BY <1>2 DEF Analyse, CancelAnalysis
  <2>2. Discovering /\ phase' \notin {"run", "ended"} /\ Image'
    BY <1>2, <2>1 DEF Analyse, CancelAnalysis, AnalysisStep, Seed, WalkEnds, TakeTarget, Visit,
       PrologueScan, Cancel, Walking, Discovering, RangesInv, Image, imageVars
  <2>3. DiscoveryOK'
    BY <2>1, <2>2, SeedKeeps, WalkEndsKeeps, TakeTargetKeeps, VisitKeeps, PrologueScanKeeps,
       CancelKeeps DEF AnalysisStep, RangesInv
  <2> QED BY <2>2, <2>3 DEF RangesInv, RangesDisjoint
<1>3. CASE Emit
  <2>1. DiscoveryOK /\ Image'
    BY <1>3 DEF Emit, RangesInv, Discovering, Image, imageVars
  <2> QED BY <1>3, <2>1, EmitInOrder DEF RangesInv
<1>4. CASE Run
  <2>1. phase = "run" /\ phase' \in {"run", "ended"} /\ UNCHANGED functions /\ Image'
    BY <1>4 DEF Run, RunInstruction, RunLocal, RunCall, RunReturn, Running, RangesInv, Image, imageVars
  <2> QED BY <2>1 DEF RangesInv, RangesDisjoint, Discovering
<1> QED BY <1>1, <1>2, <1>3, <1>4 DEF Next

(* The end of analyze, libs/analysis/src/analysis.cpp: "Make function      *)
(* ranges non-overlapping so the code generator emits each instruction at  *)
(* most once."                                                             *)
THEOREM RangesAreDisjoint == Spec => []RangesDisjoint
<1>1. RangesInv => RangesDisjoint
  BY DEF RangesInv
<1> QED BY <1>1, InitRanges, NextRanges, PTL DEF Spec


-----------------------------------------------------------------------------
(* The statements that emit_function prints for a stretch of words from lo *)
(* up to hi, of a function whose labels are L.                             *)

Statements ==
  [k : {"exec", "label", "goto", "call", "callreg", "return", "replaced", "ifbr", "switch"},
   a : Nat \union SUBSET Nat]
TargetsOf(s) == CASE s.k = "goto" -> {s.a} [] s.k = "switch" -> s.a [] OTHER -> {}

(* They have each label of the stretch once, no other, and jump to labels. *)
Labelled(q, lo, hi, L) ==
  /\ q \in Seq(Statements)
  /\ \A n \in 1..Len(q) : q[n].k = "label" => q[n].a \in L /\ q[n].a \in lo..(hi - 1)
  /\ \A t \in L : lo <= t /\ t < hi => \E n \in 1..Len(q) : IsLabel(q[n], t)
  /\ \A m, n \in 1..Len(q) : q[m].k = "label" /\ q[n].k = "label" /\ q[m].a = q[n].a => m = n
  /\ \A n \in 1..Len(q) : TargetsOf(q[n]) \subseteq L

Unlabelled(lo, hi, L) == \A t \in L : ~(lo <= t /\ t < hi)

LEMMA Nothing ==
  ASSUME NEW lo \in Nat, NEW hi \in Nat, NEW L \in SUBSET Nat, Unlabelled(lo, hi, L)
  PROVE  Labelled(<<>>, lo, hi, L)
BY DEF Labelled, Unlabelled

LEMMA One ==
  ASSUME NEW lo \in Nat, NEW hi \in Nat, NEW L \in SUBSET Nat, Unlabelled(lo, hi, L),
         NEW s \in Statements, s.k # "label", TargetsOf(s) \subseteq L
  PROVE  Labelled(<<s>>, lo, hi, L)
<1>1. <<s>> \in Seq(Statements) /\ Len(<<s>>) = 1 /\ <<s>>[1] = s
  OBVIOUS
<1> QED BY <1>1 DEF Labelled, Unlabelled

LEMMA OneLabel ==
  ASSUME NEW L \in SUBSET Nat, NEW a \in L
  PROVE  Labelled(<<Label(a)>>, a, a + 1, L)
<1>1. Label(a) \in Statements /\ Label(a).k = "label" /\ Label(a).a = a
  BY DEF Label, Statements
<1>2. <<Label(a)>> \in Seq(Statements) /\ Len(<<Label(a)>>) = 1 /\ <<Label(a)>>[1] = Label(a)
  BY <1>1
<1>3. \A t \in L : a <= t /\ t < a + 1 => t = a
  OBVIOUS
<1>4. TargetsOf(Label(a)) = {}
  BY <1>1 DEF TargetsOf
<1> HIDE DEF Label
<1> QED BY <1>1, <1>2, <1>3, <1>4 DEF Labelled, IsLabel

(* One stretch after another. *)
LEMMA Both ==
  ASSUME NEW lo \in Nat, NEW mid \in Nat, NEW hi \in Nat, lo <= mid, mid <= hi, NEW L \in SUBSET Nat,
         NEW q, Labelled(q, lo, mid, L), NEW r, Labelled(r, mid, hi, L)
  PROVE  Labelled(q \o r, lo, hi, L)
<1> DEFINE s == q \o r
           x == Len(q)
           y == Len(r)
<1>1. /\ q \in Seq(Statements) /\ r \in Seq(Statements) /\ x \in Nat /\ y \in Nat
  BY DEF Labelled
<1>2. /\ s \in Seq(Statements) /\ Len(s) = x + y
      /\ \A n \in 1..x : s[n] = q[n]
      /\ \A n \in 1..y : s[x + n] = r[n]
  BY <1>1
<1>3. \A n \in 1..Len(s) : n \in 1..x \/ (n > x /\ n - x \in 1..y /\ s[n] = r[n - x])
  <2> HIDE DEF s
  <2> QED BY <1>1, <1>2
<1>4. \A n \in 1..x : q[n].k = "label" => q[n].a \in L /\ q[n].a \in lo..(mid - 1)
  BY DEF Labelled
<1>5. \A n \in 1..y : r[n].k = "label" => r[n].a \in L /\ r[n].a \in mid..(hi - 1)
  BY DEF Labelled
<1> HIDE DEF s, x, y
<1>6. \A n \in 1..Len(s) : s[n].k = "label" => s[n].a \in L /\ s[n].a \in lo..(hi - 1)
  BY <1>2, <1>3, <1>4, <1>5
<1>7. ASSUME NEW t \in L, lo <= t, t < hi
      PROVE  \E n \in 1..Len(s) : IsLabel(s[n], t)
  <2>1. CASE t < mid
    <3>1. PICK n \in 1..x : IsLabel(q[n], t)
      BY <1>7, <2>1 DEF Labelled, x
    <3> QED BY <1>1, <1>2, <3>1
  <2>2. CASE mid <= t
    <3>1. PICK n \in 1..y : IsLabel(r[n], t)
      BY <1>7, <2>2 DEF Labelled, y
    <3>2. x + n \in 1..Len(s)
      BY <1>1, <1>2, <3>1
    <3> QED BY <1>2, <3>1, <3>2
  <2> QED BY <2>1, <2>2, <1>7
<1>8. ASSUME NEW m \in 1..Len(s), NEW n \in 1..Len(s),
             s[m].k = "label", s[n].k = "label", s[m].a = s[n].a
      PROVE  m = n
  <2>1. CASE m \in 1..x /\ n \in 1..x
    BY <1>2, <1>8, <2>1 DEF Labelled, x
  <2>2. CASE m > x /\ n > x
    <3>1. m - x \in 1..y /\ n - x \in 1..y /\ s[m] = r[m - x] /\ s[n] = r[n - x]
      BY <1>1, <1>3, <2>2
    <3>2. m - x = n - x
      BY <1>8, <3>1 DEF Labelled, y
    <3> QED BY <1>1, <3>2
  <2>3. CASE m \in 1..x /\ n > x
    <3>1. s[m] = q[m] /\ n - x \in 1..y /\ s[n] = r[n - x]
      BY <1>1, <1>2, <1>3, <2>3
    <3> QED BY <1>4, <1>5, <1>8, <2>3, <3>1
  <2>4. CASE n \in 1..x /\ m > x
    <3>1. s[n] = q[n] /\ m - x \in 1..y /\ s[m] = r[m - x]
      BY <1>1, <1>2, <1>3, <2>4
    <3> QED BY <1>4, <1>5, <1>8, <2>4, <3>1
  <2> QED BY <1>1, <1>3, <2>1, <2>2, <2>3, <2>4
<1>9. \A n \in 1..Len(s) : TargetsOf(s[n]) \subseteq L
  <2>1. \A n \in 1..x : TargetsOf(q[n]) \subseteq L
    BY DEF Labelled, x
  <2>2. \A n \in 1..y : TargetsOf(r[n]) \subseteq L
    BY DEF Labelled, y
  <2> QED BY <1>2, <1>3, <2>1, <2>2
<1> QED BY <1>2, <1>6, <1>7, <1>8, <1>9 DEF Labelled, s

(* A stretch of statements none of which is a label. *)
LEMMA BothAt ==
  ASSUME NEW a \in Nat, NEW L \in SUBSET Nat,
         NEW q, Labelled(q, a, a, L), NEW r, Labelled(r, a, a, L)
  PROVE  Labelled(q \o r, a, a, L)
BY Both

LEMMA Empty ==
  ASSUME NEW a \in Nat, NEW L \in SUBSET Nat
  PROVE  Unlabelled(a, a, L)
BY DEF Unlabelled

LEMMA Kinds ==
  ASSUME NEW a \in Nat
  PROVE  /\ Exec1(a) \in Statements /\ Exec1(a).k # "label" /\ TargetsOf(Exec1(a)) = {}
         /\ Goto(a) \in Statements /\ Goto(a).k # "label" /\ TargetsOf(Goto(a)) = {a}
         /\ Call(a) \in Statements /\ Call(a).k # "label" /\ TargetsOf(Call(a)) = {}
         /\ CallReg \in Statements /\ CallReg.k # "label" /\ TargetsOf(CallReg) = {}
         /\ Ret \in Statements /\ Ret.k # "label" /\ TargetsOf(Ret) = {}
         /\ Replaced(a) \in Statements /\ Replaced(a).k # "label" /\ TargetsOf(Replaced(a)) = {}
BY DEF Exec1, Goto, Call, CallReg, Ret, Replaced, Statements, TargetsOf

LEMMA FallsOffKind == FallsOff \in Statements /\ FallsOff.k # "label" /\ TargetsOf(FallsOff) = {}
BY DEF FallsOff, Statements, TargetsOf

LEMMA Pair ==
  ASSUME NEW s \in Statements, NEW t \in Statements
  PROVE  <<s, t>> = <<s>> \o <<t>>
<1> DEFINE q == <<s>> \o <<t>>
           r == <<s, t>>
<1>1. <<s>> \in Seq(Statements) /\ <<t>> \in Seq(Statements) /\ Len(<<s>>) = 1 /\ Len(<<t>>) = 1
  OBVIOUS
<1>2. q \in Seq(Statements) /\ Len(q) = 2 /\ q[1] = s /\ q[2] = t
  BY <1>1
<1>3. r \in Seq(Statements) /\ Len(r) = 2 /\ r[1] = s /\ r[2] = t
  OBVIOUS
<1> HIDE DEF q, r
<1>4. \A n \in 1..2 : q[n] = r[n]
  BY <1>2, <1>3
<1>5. r = q
  BY <1>2, <1>3, <1>4
<1> QED BY <1>5 DEF q, r

LEMMA IfBrIs ==
  ASSUME NEW a \in Nat, NEW L \in SUBSET Nat, NEW q, Labelled(q, a, a, L)
  PROVE  Labelled(IfBr(q), a, a, L)
<1> DEFINE s == [k |-> "ifbr", a |-> Len(q)]
<1>1. Len(q) \in Nat
  BY DEF Labelled
<1>2. s \in Statements /\ s.k # "label" /\ TargetsOf(s) = {}
  BY <1>1 DEF Statements, TargetsOf
<1>3. IfBr(q) = <<s>> \o q
  BY DEF IfBr
<1> HIDE DEF s
<1>4. Labelled(<<s>>, a, a, L)
  BY <1>2, One, Empty
<1> QED BY <1>3, <1>4, BothAt

LEMMA SwitchIs ==
  ASSUME NEW a \in Nat, NEW L \in SUBSET Nat, NEW cases \in SUBSET L
  PROVE  Labelled(Switch(cases), a, a, L)
<1> DEFINE s == [k |-> "switch", a |-> cases]
<1>2. s \in Statements /\ s.k # "label" /\ TargetsOf(s) = cases
  BY DEF Statements, TargetsOf
<1>3. Switch(cases) = <<s>>
  BY DEF Switch
<1> HIDE DEF s
<1> QED BY <1>2, <1>3, One, Empty

LEMMA LeaveIs ==
  ASSUME NEW x \in Nat, NEW L \in SUBSET Nat, NEW f, NEW t \in Nat, InFunction(f, t) => t \in L
  PROVE  Labelled(Leave(f, t), x, x, L)
<1>1. CASE InFunction(f, t)
  <2>1. Labelled(<<Goto(t)>>, x, x, L)
    BY <1>1, One, Empty, Kinds
  <2> QED BY <1>1, <2>1 DEF Leave
<1>2. CASE ~InFunction(f, t)
  <2>1. Labelled(<<Call(t)>>, x, x, L) /\ Labelled(<<Ret>>, x, x, L)
    BY One, Empty, Kinds
  <2>2. <<Call(t), Ret>> = <<Call(t)>> \o <<Ret>>
    BY Kinds, Pair
  <2> QED BY <1>2, <2>1, <2>2, BothAt DEF Leave
<1> QED BY <1>1, <1>2

(* An instruction in its place, or after its label. *)
LEMMA ExecIs ==
  ASSUME NEW a \in Nat, NEW x \in Nat, NEW L \in SUBSET Nat
  PROVE  Labelled(<<Exec1(a)>>, x, x, L)
BY One, Empty, Kinds

(* The label of the word at a, if it has one. *)
LEMMA HereIs ==
  ASSUME NEW a \in Nat, NEW L \in SUBSET Nat
  PROVE  Labelled(IF a \in L THEN <<Label(a)>> ELSE <<>>, a, a + 1, L)
<1>1. CASE a \in L
  BY <1>1, OneLabel
<1>2. CASE a \notin L
  <2>1. Unlabelled(a, a + 1, L)
    BY <1>2 DEF Unlabelled
  <2> QED BY <1>2, <2>1, Nothing
<1> QED BY <1>1, <1>2

(* What holds no label may stand for any words without one. *)
LEMMA Elsewhere ==
  ASSUME NEW x \in Nat, NEW lo \in Nat, NEW hi \in Nat, NEW L \in SUBSET Nat,
         Unlabelled(lo, hi, L), NEW q, Labelled(q, x, x, L)
  PROVE  Labelled(q, lo, hi, L)
<1>1. \A n \in 1..Len(q) : q[n].k # "label"
  BY DEF Labelled
<1> QED BY <1>1 DEF Labelled, Unlabelled

LEMMA BothOrNot ==
  ASSUME NEW b \in Nat, NEW L \in SUBSET Nat, NEW q, Labelled(q, b, b, L), NEW r, Labelled(r, b, b + 1, L)
  PROVE  Labelled(q \o r, b, b + 1, L)
BY Both

LEMMA SlotIs ==
  ASSUME NEW b \in Nat, NEW L \in SUBSET Nat
  PROVE  /\ b \in L => Labelled(<<Label(b), Exec1(b)>>, b, b + 1, L)
         /\ b \notin L => Unlabelled(b, b + 1, L)
<1>1. CASE b \in L
  <2>1. Labelled(<<Label(b)>>, b, b + 1, L) /\ Labelled(<<Exec1(b)>>, b + 1, b + 1, L)
    BY <1>1, OneLabel, ExecIs
  <2>2. Label(b) \in Statements /\ Exec1(b) \in Statements
    BY Kinds DEF Label, Statements
  <2>3. Labelled(<<Label(b)>> \o <<Exec1(b)>>, b, b + 1, L)
    BY <2>1, Both
  <2> QED BY <1>1, <2>2, <2>3, Pair
<1>2. CASE b \notin L
  BY <1>2 DEF Unlabelled
<1> QED BY <1>1, <1>2

(* What emit_control prints has the label of the slot. *)
LEMMA BranchIs ==
  ASSUME NEW a \in Nat, NEW L \in SUBSET Nat, NEW f, NEW i, i.to \in Nat,
         InFunction(f, i.to) => i.to \in L
  PROVE  Labelled(EmitBranch(f, a, i, a + 1 \in L), a + 1, a + 2, L)
<1> DEFINE b == a + 1
           leave == Leave(f, i.to)
           taken == IfBr(<<Exec1(b)>> \o leave)
           here == <<Exec1(a)>>
           slot == <<Exec1(b)>>
           labelled == <<Label(b), Exec1(b)>>
<1>0. b \in Nat /\ b + 1 = a + 2 /\ b + 1 \in Nat
  OBVIOUS
<1>1. Labelled(leave, b, b, L)
  BY LeaveIs
<1>2. Labelled(here, b, b, L) /\ Labelled(slot, b, b, L)
  BY ExecIs
<1>3. Labelled(taken, b, b, L) /\ Labelled(IfBr(leave), b, b, L)
  <2> HIDE DEF leave
  <2> QED BY <1>1, <1>2, BothAt, IfBrIs
<1>4. EmitBranch(f, a, i, b \in L) =
        here \o
        IF b \in L THEN taken \o labelled
        ELSE IF i.op = "likely" THEN taken ELSE slot \o IfBr(leave)
  BY DEF EmitBranch
<1>5. /\ b \in L => Labelled(labelled, b, b + 1, L)
      /\ b \notin L => Unlabelled(b, b + 1, L)
  <2> HIDE DEF b
  <2> QED BY <1>0, SlotIs
<1> HIDE DEF taken, leave, here, slot, labelled
<1>7. Labelled(EmitBranch(f, a, i, b \in L), b, b + 1, L)
  <2> HIDE DEF b
  <2>1. CASE b \in L
    <3>1. Labelled(here \o (taken \o labelled), b, b + 1, L)
      BY <1>0, <1>2, <1>3, <1>5, <2>1, BothOrNot
    <3> QED BY <1>4, <2>1, <3>1
  <2>2. CASE b \notin L /\ i.op = "likely"
    <3> DEFINE out == here \o taken
    <3>1. Labelled(out, b, b, L)
      BY <1>0, <1>2, <1>3, BothAt
    <3>2. EmitBranch(f, a, i, b \in L) = out
      BY <1>4, <2>2
    <3> HIDE DEF out
    <3>3. Labelled(out, b, b + 1, L)
      BY <1>0, <1>5, <2>2, <3>1, Elsewhere
    <3> QED BY <3>2, <3>3
  <2>3. CASE b \notin L /\ i.op # "likely"
    <3> DEFINE out == here \o (slot \o IfBr(leave))
    <3>1. Labelled(out, b, b, L)
      BY <1>0, <1>2, <1>3, BothAt
    <3>2. EmitBranch(f, a, i, b \in L) = out
      BY <1>4, <2>3
    <3> HIDE DEF out
    <3>3. Labelled(out, b, b + 1, L)
      BY <1>0, <1>5, <2>3, <3>1, Elsewhere
    <3> QED BY <3>2, <3>3
  <2> QED BY <2>1, <2>2, <2>3
<1> QED BY <1>0, <1>7 DEF b

(* What a jump puts after its slot. *)
LEMMA JumpIs ==
  ASSUME NEW a \in Nat, NEW x \in Nat, NEW L \in SUBSET Nat, NEW f, NEW i, i.to \in Nat,
         i.op \in {"j", "jal", "jalr", "ret", "jr"},
         i.op = "j" /\ InFunction(f, i.to) => i.to \in L,
         i.op = "jr" /\ a \in tables =>
           \A t \in ToSet(JumpTable(i)) : InFunction(f, t) => t \in L
  PROVE  Labelled(EmitJump(f, a, i), x, x, L)
<1>0. /\ Labelled(<<Ret>>, x, x, L) /\ Labelled(<<CallReg>>, x, x, L)
      /\ Labelled(<<Call(i.to)>>, x, x, L)
  BY One, Empty, Kinds
<1>1. CASE i.op = "j"
  <2>1. Labelled(Leave(f, i.to), x, x, L)
    BY <1>1, LeaveIs
  <2> QED BY <1>1, <2>1 DEF EmitJump
<1>2. CASE i.op = "jal"
  BY <1>0, <1>2 DEF EmitJump
<1>3. CASE i.op = "jalr"
  BY <1>0, <1>3 DEF EmitJump
<1>4. CASE i.op = "ret"
  BY <1>0, <1>4 DEF EmitJump
<1>5. CASE i.op = "jr"
  <2> DEFINE cases == {t \in ToSet(JumpTable(i)) : InFunction(f, t)}
             switch == IF a \in tables THEN Switch(cases) ELSE <<>>
             rest == <<CallReg, Ret>>
  <2>1. EmitJump(f, a, i) = switch \o rest
    BY <1>5 DEF EmitJump
  <2>2. Labelled(switch, x, x, L)
    <3>1. CASE a \in tables
      <4>1. cases \in SUBSET L
        BY <1>5, <3>1
      <4> HIDE DEF cases
      <4> QED BY <3>1, <4>1, SwitchIs
    <3>2. CASE a \notin tables
      BY <3>2, Nothing, Empty
    <3> QED BY <3>1, <3>2
  <2>3. Labelled(rest, x, x, L)
    <3>1. rest = <<CallReg>> \o <<Ret>>
      BY Kinds, Pair
    <3> HIDE DEF rest
    <3> QED BY <1>0, <3>1, BothAt
  <2> HIDE DEF switch, rest
  <2> QED BY <2>1, <2>2, <2>3, BothAt
<1> QED BY <1>1, <1>2, <1>3, <1>4, <1>5

(* Every jump of the instruction at a that stays in the function goes to a label. *)
Jumps(f, a, L) ==
  /\ code[a].to \in Nat
  /\ (IsBranch(code[a]) \/ code[a].op = "j") /\ InFunction(f, code[a].to) => code[a].to \in L
  /\ code[a].op = "jr" /\ a \in tables =>
       \A t \in ToSet(JumpTable(code[a])) : InFunction(f, t) => t \in L

LEMMA ControlIs ==
  ASSUME NEW a \in Nat, NEW L \in SUBSET Nat, NEW f, HasSlot(code[a]), Jumps(f, a, L)
  PROVE  Labelled(EmitControl(f, a, code[a], a + 1 \in L), a + 1, a + 2, L)
<1> DEFINE i == code[a]
           b == a + 1
<1>0. b \in Nat /\ b + 1 = a + 2 /\ b + 1 \in Nat
  OBVIOUS
<1>1. CASE IsBranch(i)
  <2>1. Labelled(EmitBranch(f, a, i, a + 1 \in L), a + 1, a + 2, L)
    <3> HIDE DEF i
    <3> QED BY <1>1, BranchIs DEF Jumps, i
  <2> QED BY <1>1, <2>1 DEF EmitControl
<1>2. CASE ~IsBranch(i)
  <2> DEFINE jump == EmitJump(f, a, i)
             label == IF b \in L THEN <<Label(b)>> ELSE <<>>
             first == <<Exec1(a)>>
             slot == <<Exec1(b)>>
  <2>1. i.op \in {"j", "jal", "jalr", "ret", "jr"}
    BY <1>2 DEF HasSlot
  <2>2. EmitControl(f, a, i, b \in L) = first \o label \o slot \o jump
    BY <1>2 DEF EmitControl
  <2>3. Labelled(jump, b + 1, b + 1, L)
    <3> HIDE DEF i, b
    <3> QED BY <1>0, <2>1, JumpIs DEF Jumps, i
  <2>4. /\ Labelled(first, b, b, L) /\ Labelled(label, b, b + 1, L)
        /\ Labelled(slot, b + 1, b + 1, L)
    <3> HIDE DEF b
    <3> QED BY <1>0, ExecIs, HereIs
  <2> HIDE DEF jump, label, first, slot, i, b
  <2>5. Labelled(first \o label, b, b + 1, L)
    BY <1>0, <2>4, Both
  <2>6. Labelled((first \o label) \o slot, b, b + 1, L)
    BY <1>0, <2>4, <2>5, Both
  <2>7. Labelled(((first \o label) \o slot) \o jump, b, b + 1, L)
    BY <1>0, <2>3, <2>6, Both
  <2> QED BY <1>0, <2>2, <2>7 DEF i, b
<1> QED BY <1>1, <1>2

-----------------------------------------------------------------------------
(* emit_function.  The words after a are emitted by the words after those: *)
(* both that the recursion defines its function and what this is are shown *)
(* of the words that are left.                                             *)

EmitAt(f, L, g, a) ==
  IF a >= f.end THEN <<>>
  ELSE LET i == Word(a)
           here == IF a \in L THEN <<Label(a)>> ELSE <<>>
       IN  IF HasSlot(i)
           THEN here \o EmitControl(f, a, i, a + 1 \in L) \o
                IF a + 2 >= f.end /\ i.op \notin {"j", "jr", "ret"} THEN <<FallsOff>> ELSE g[a + 2]
           ELSE here \o <<Exec1(a)>> \o
                IF a + 1 >= f.end THEN <<FallsOff>> ELSE g[a + 1]
EmitsFrom(f, L, lo, g) == g = [a \in lo..(f.end + 1) |-> EmitAt(f, L, g, a)]

LEMMA EmitFunctionIs ==
  ASSUME NEW f, f.start \notin replaced, ~(f.end <= f.start)
  PROVE  EmitFunction(f) = (CHOOSE g : EmitsFrom(f, Labels(f), f.start, g))[f.start]
BY DEF EmitFunction, EmitsFrom, EmitAt

LEMMA EmitAtOnly ==
  ASSUME NEW f, NEW L, NEW g, NEW h, NEW a,
         g[a + 1] = h[a + 1], g[a + 2] = h[a + 2]
  PROVE  EmitAt(f, L, g, a) = EmitAt(f, L, h, a)
BY DEF EmitAt

LEMMA EmitsExist ==
  ASSUME NEW f, f.start \in Nat, f.end \in Nat, f.start < f.end, NEW L
  PROVE  \E g : EmitsFrom(f, L, f.start, g)
<1> DEFINE first == f.start
           last == f.end + 1
           T == {m \in 0..(last - first) : ~\E g : EmitsFrom(f, L, last - m, g)}
<1>0. first \in Nat /\ last \in Nat /\ f.end \in Nat /\ first < last /\ last = f.end + 1
  OBVIOUS
<1>1. SUFFICES ASSUME T # {} PROVE FALSE
  <2>1. last - first \in 0..(last - first) /\ last - (last - first) = first
    BY <1>0
  <2> HIDE DEF last, first
  <2>2. CASE T = {}
    <3>1. \E g : EmitsFrom(f, L, last - (last - first), g)
      BY <2>1, <2>2
    <3> QED BY <2>1, <3>1 DEF first
  <2> QED BY <2>2
<1>2. PICK m \in T : \A k \in T : m <= k
  <2>1. T \subseteq Nat
    BY <1>0
  <2> HIDE DEF T
  <2> QED BY <1>1, <2>1, LeastNumber
<1> DEFINE lo == last - m
<1>3. m \in 0..(last - first) /\ lo \in Nat /\ lo <= last /\ ~\E g : EmitsFrom(f, L, lo, g)
  BY <1>0
<1>4. CASE m = 0
  <2> DEFINE g == [a \in lo..last |-> <<>>]
  <2>1. lo = last /\ lo..last = {last}
    BY <1>0, <1>4
  <2>2. \A h : EmitAt(f, L, h, last) = <<>>
    <3>1. last >= f.end
      BY <1>0
    <3> QED BY <3>1 DEF EmitAt
  <2> HIDE DEF last, lo
  <2>3. g = [a \in lo..last |-> EmitAt(f, L, g, a)]
    BY <2>1, <2>2
  <2>4. EmitsFrom(f, L, lo, g)
    BY <2>3 DEF EmitsFrom, last
  <2> QED BY <1>3, <2>4
<1>5. CASE m # 0
  <2>1. m - 1 \in 0..(last - first) /\ ~(m <= m - 1) /\ last - (m - 1) = lo + 1 /\ lo < last
    BY <1>0, <1>3, <1>5
  <2>2. m - 1 \notin T
    <3> HIDE DEF T
    <3> QED BY <1>2, <2>1
  <2>3. PICK h : EmitsFrom(f, L, lo + 1, h)
    BY <2>1, <2>2
  <2> DEFINE g == [a \in lo..last |-> IF a = lo THEN EmitAt(f, L, h, lo) ELSE h[a]]
  <2> HIDE DEF last, lo, T, first
  <2>4. \A a \in (lo + 1)..last : h[a] = EmitAt(f, L, h, a) /\ g[a] = h[a] /\ a \in lo..last /\ a # lo
    <3>1. h = [a \in (lo + 1)..last |-> EmitAt(f, L, h, a)]
      BY <2>3 DEF EmitsFrom, last
    <3> HIDE DEF g
    <3>2. \A a \in (lo + 1)..last : h[a] = EmitAt(f, L, h, a)
      BY <3>1
    <3>3. \A a \in (lo + 1)..last : a \in lo..last /\ a # lo
      BY <1>0, <1>3
    <3> QED BY <3>2, <3>3 DEF g
  <2>5. \A a \in lo..last : EmitAt(f, L, g, a) = EmitAt(f, L, h, a)
    <3> TAKE a \in lo..last
    <3>1. CASE a >= f.end
      BY <3>1 DEF EmitAt
    <3>2. CASE a < f.end
      <4>1. a + 1 \in (lo + 1)..last /\ a + 2 \in (lo + 1)..last
        BY <1>0, <1>3, <3>2
      <4>2. g[a + 1] = h[a + 1] /\ g[a + 2] = h[a + 2]
        BY <2>4, <4>1
      <4> HIDE DEF g
      <4> QED BY <4>2, EmitAtOnly
    <3> QED BY <1>0, <1>3, <3>1, <3>2
  <2>6. \A a \in lo..last : g[a] = EmitAt(f, L, h, a)
    <3> TAKE a \in lo..last
    <3>1. CASE a = lo
      BY <3>1
    <3>2. CASE a # lo
      <4>1. a \in (lo + 1)..last
        BY <1>0, <1>3, <3>2
      <4> HIDE DEF g
      <4> QED BY <2>4, <4>1
    <3> QED BY <3>1, <3>2
  <2>7. g = [a \in lo..last |-> g[a]]
    OBVIOUS
  <2> HIDE DEF g
  <2>8. g = [a \in lo..last |-> EmitAt(f, L, g, a)]
    BY <2>5, <2>6, <2>7
  <2>9. EmitsFrom(f, L, lo, g)
    BY <2>8 DEF EmitsFrom, last
  <2> QED BY <1>3, <2>9
<1> QED BY <1>4, <1>5

(* A range that has words is a range of the image. *)
Within(f) == f.end <= f.start \/ (f.start \in Addr /\ f.end <= Words + 1)

LEMMA LabelsAre ==
  ASSUME Image, NEW f \in Function, f.start \in Addr, f.end <= Words + 1
  PROVE  /\ Labels(f) \in SUBSET Nat
         /\ \A t \in Labels(f) : f.start <= t /\ t < f.end
         /\ \A a \in Addr : InFunction(f, a) /\ HasSlot(code[a]) => Jumps(f, a, Labels(f))
<1> DEFINE within == {a \in Addr : InFunction(f, a)}
<1>1. f.start \in Nat /\ f.end \in Nat /\ Words \in Nat /\ Addr \subseteq Nat
  BY ImageAssumption DEF Function, Addr
<1>2. \A t \in Nat : InFunction(f, t) => t \in within
  BY <1>1 DEF InFunction, Addr
<1>3. \A t \in within : t \in Nat /\ f.start <= t /\ t < f.end
  BY <1>1 DEF InFunction
<1>4. \A a \in Addr : code[a] \in Instruction /\ code[a].to \in Nat /\ JumpTable(code[a]) \in Seq(Nat)
  <2> TAKE a \in Addr
  <2>1. code[a] \in Instruction
    BY DEF Image
  <2>2. code[a].to \in Nat
    BY <2>1 DEF Instruction
  <2> QED BY <2>1, <2>2, JumpTableType
<1>5. Labels(f) =
        {t \in within : \E a \in within :
           \/ (IsBranch(code[a]) \/ code[a].op \in {"j", "jal"}) /\ code[a].to = t
           \/ code[a].op = "jr" /\ a \in tables /\ t \in ToSet(JumpTable(code[a]))}
  BY DEF Labels
<1>6. \A q \in Seq(Nat) : ToSet(q) \subseteq Nat
  BY DEF ToSet
<1>7. ASSUME NEW a \in Addr, InFunction(f, a), HasSlot(code[a])
      PROVE  Jumps(f, a, Labels(f))
  <2>1. a \in within /\ code[a].to \in Nat
    BY <1>4, <1>7
  <2> HIDE DEF within
  <2>2. (IsBranch(code[a]) \/ code[a].op = "j") /\ InFunction(f, code[a].to) => code[a].to \in Labels(f)
    BY <1>2, <1>5, <2>1
  <2>3. ASSUME code[a].op = "jr", a \in tables, NEW t \in ToSet(JumpTable(code[a])), InFunction(f, t)
        PROVE  t \in Labels(f)
    <3>1. t \in Nat
      BY <1>4, <1>6
    <3> QED BY <1>2, <1>5, <2>1, <2>3, <3>1
  <2> QED BY <2>1, <2>2, <2>3 DEF Jumps
<1> HIDE DEF within
<1> QED BY <1>3, <1>5, <1>7

(* The words of a function from a on. *)
LEMMA EmitAtIs ==
  ASSUME Image, NEW f \in Function, f.start \in Addr, f.end <= Words + 1, NEW g,
         NEW a \in Nat, f.start <= a, a <= f.end + 1,
         a + 1 <= f.end + 1 => Labelled(g[a + 1], a + 1, f.end + 2, Labels(f)),
         a + 2 <= f.end + 1 => Labelled(g[a + 2], a + 2, f.end + 2, Labels(f))
  PROVE  Labelled(EmitAt(f, Labels(f), g, a), a, f.end + 2, Labels(f))
<1> DEFINE L == Labels(f)
           hi == f.end + 2
           i == Word(a)
           here == IF a \in L THEN <<Label(a)>> ELSE <<>>
<1>0. /\ f.end \in Nat /\ Words \in Nat /\ hi \in Nat /\ L \in SUBSET Nat
      /\ \A t \in L : f.start <= t /\ t < f.end
      /\ a + 1 \in Nat /\ a + 2 \in Nat
  BY LabelsAre, ImageAssumption DEF Function
<1>1. CASE a >= f.end
  <2>1. EmitAt(f, L, g, a) = <<>>
    BY <1>1 DEF EmitAt
  <2>2. Unlabelled(a, hi, L)
    BY <1>0, <1>1 DEF Unlabelled
  <2> HIDE DEF L, hi
  <2> QED BY <1>0, <2>1, <2>2, Nothing DEF L, hi
<1>2. CASE a < f.end
  <2>0. ~(a >= f.end)
    BY <1>0, <1>2
  <2>1. a \in Addr /\ InFunction(f, a) /\ i = code[a] /\ a + 1 <= f.end + 1 /\ a + 2 <= f.end + 1
    BY <1>0, <1>2, ImageAssumption DEF Addr, InFunction, Word
  <2>2. Labelled(here, a, a + 1, L)
    <3> HIDE DEF L
    <3> QED BY <1>0, HereIs
  <2>3. ASSUME NEW b \in Nat, b >= f.end
        PROVE  Labelled(<<FallsOff>>, b, hi, L)
    <3>1. Unlabelled(b, hi, L)
      BY <1>0, <2>3 DEF Unlabelled
    <3> HIDE DEF L, hi
    <3> QED BY <1>0, <3>1, FallsOffKind, One
  <2>4. CASE HasSlot(i)
    <3> DEFINE control == EmitControl(f, a, i, a + 1 \in L)
               rest == IF a + 2 >= f.end /\ i.op \notin {"j", "jr", "ret"} THEN <<FallsOff>> ELSE g[a + 2]
    <3>1. EmitAt(f, L, g, a) = here \o control \o rest
      BY <2>0, <2>4, Zenon DEF EmitAt
    <3>2. Labelled(control, a + 1, a + 2, L)
      <4>1. Jumps(f, a, L)
        BY <2>1, <2>4, LabelsAre
      <4> HIDE DEF L
      <4>2. Labelled(EmitControl(f, a, code[a], a + 1 \in L), a + 1, a + 2, L)
        BY <1>0, <2>1, <2>4, <4>1, ControlIs
      <4> QED BY <2>1, <4>2
    <3>3. Labelled(rest, a + 2, hi, L)
      BY <1>0, <2>1, <2>3
    <3> HIDE DEF control, rest, here, L, hi
    <3>4. Labelled(here \o control, a, a + 2, L)
      BY <1>0, <2>2, <3>2, Both
    <3>5. a + 2 <= hi
      BY <1>0, <2>1 DEF hi
    <3>6. Labelled((here \o control) \o rest, a, hi, L)
      BY <1>0, <3>3, <3>4, <3>5, Both
    <3> QED BY <3>1, <3>6 DEF L, hi
  <2>5. CASE ~HasSlot(i)
    <3> DEFINE exec == <<Exec1(a)>>
               rest == IF a + 1 >= f.end THEN <<FallsOff>> ELSE g[a + 1]
    <3>1. EmitAt(f, L, g, a) = here \o exec \o rest
      BY <2>0, <2>5, Zenon DEF EmitAt
    <3>2. Labelled(exec, a + 1, a + 1, L)
      <4> HIDE DEF L
      <4> QED BY <1>0, ExecIs
    <3>3. Labelled(rest, a + 1, hi, L)
      BY <1>0, <2>1, <2>3
    <3> HIDE DEF exec, rest, here, L, hi
    <3>4. Labelled(here \o exec, a, a + 1, L)
      BY <1>0, <2>2, <3>2, Both
    <3>5. a + 1 <= hi
      BY <1>0, <2>1 DEF hi
    <3>6. Labelled((here \o exec) \o rest, a, hi, L)
      BY <1>0, <3>3, <3>4, <3>5, Both
    <3> QED BY <3>1, <3>6 DEF L, hi
  <2> QED BY <2>4, <2>5
<1> QED BY <1>0, <1>1, <1>2

(* A body that compiles. *)
Compiles(q) ==
  \A n \in DOMAIN q : \A t \in TargetsOf(q[n]) :
    \E m \in DOMAIN q : \A k \in DOMAIN q : IsLabel(q[k], t) <=> (k = m)

LEMMA LabelledCompiles ==
  ASSUME NEW q, NEW lo, NEW hi, NEW L, Labelled(q, lo, hi, L), \A t \in L : lo <= t /\ t < hi
  PROVE  Compiles(q)
<1>1. DOMAIN q = 1..Len(q)
  BY DEF Labelled
<1>2. ASSUME NEW n \in DOMAIN q, NEW t \in TargetsOf(q[n])
      PROVE  \E m \in DOMAIN q : \A k \in DOMAIN q : IsLabel(q[k], t) <=> (k = m)
  <2>1. t \in L
    BY <1>1 DEF Labelled
  <2>2. PICK m \in DOMAIN q : IsLabel(q[m], t)
    BY <1>1, <2>1 DEF Labelled
  <2>3. \A k \in DOMAIN q : IsLabel(q[k], t) => k = m
    BY <1>1, <2>2 DEF Labelled, IsLabel
  <2> QED BY <2>2, <2>3
<1> QED BY <1>2 DEF Compiles

LEMMA EmitFunctionCompiles ==
  ASSUME Image, NEW f \in Function, Within(f)
  PROVE  Compiles(EmitFunction(f))
<1>0. f.start \in Nat /\ f.end \in Nat /\ Words \in Nat
  BY ImageAssumption DEF Function
<1>1. CASE f.start \in replaced
  <2> DEFINE q == <<Replaced(f.start), Ret>>
  <2>1. EmitFunction(f) = q
    BY <1>1 DEF EmitFunction
  <2>2. TargetsOf(q[1]) = {} /\ TargetsOf(q[2]) = {} /\ DOMAIN q = {1, 2}
    BY <1>0, Kinds
  <2> HIDE DEF q
  <2> QED BY <2>1, <2>2 DEF Compiles
<1>2. CASE f.start \notin replaced /\ f.end <= f.start
  <2> DEFINE q == <<FallsOff>>
  <2>1. EmitFunction(f) = q
    BY <1>2 DEF EmitFunction
  <2>2. TargetsOf(q[1]) = {} /\ DOMAIN q = {1}
    BY FallsOffKind
  <2> HIDE DEF q
  <2> QED BY <2>1, <2>2 DEF Compiles
<1>3. CASE f.start \notin replaced /\ ~(f.end <= f.start)
  <2> DEFINE L == Labels(f)
             hi == f.end + 2
             last == f.end + 1
             E == CHOOSE g : EmitsFrom(f, L, f.start, g)
             T == {m \in 0..(last - f.start) : ~Labelled(E[last - m], last - m, hi, L)}
  <2>1. f.start \in Addr /\ f.end <= Words + 1 /\ f.start < f.end
    BY <1>0, <1>3 DEF Within
  <2>2. EmitFunction(f) = E[f.start]
    BY <1>3, EmitFunctionIs
  <2>3. E = [a \in f.start..last |-> EmitAt(f, L, E, a)]
    <3>1. EmitsFrom(f, L, f.start, E)
      BY <1>0, <2>1, EmitsExist
    <3> HIDE DEF E
    <3> QED BY <3>1 DEF EmitsFrom
  <2> HIDE DEF E
  <2>4. T = {}
    <3>1. SUFFICES ASSUME T # {} PROVE FALSE
      OBVIOUS
    <3>2. PICK m \in T : \A k \in T : m <= k
      <4>1. T \subseteq Nat
        BY <1>0
      <4> HIDE DEF T
      <4> QED BY <3>1, <4>1, LeastNumber
    <3> DEFINE a == last - m
    <3>3. m \in 0..(last - f.start) /\ a \in f.start..last /\ a \in Nat /\ ~Labelled(E[a], a, hi, L)
      BY <1>0, <2>1
    <3>4. \A k \in 1..2 : m - k \in 0..(last - f.start) => Labelled(E[last - (m - k)], last - (m - k), hi, L)
      <4>1. \A k \in 1..2 : m - k \notin T
        <5>1. \A k \in 1..2 : ~(m <= m - k)
          BY <3>3
        <5> HIDE DEF T
        <5> QED BY <3>2, <5>1
      <4> QED BY <4>1
    <3>5. /\ a + 1 <= f.end + 1 => m - 1 \in 0..(last - f.start) /\ last - (m - 1) = a + 1
          /\ a + 2 <= f.end + 1 => m - 2 \in 0..(last - f.start) /\ last - (m - 2) = a + 2
      BY <1>0, <3>3
    <3>6. /\ a + 1 <= f.end + 1 => Labelled(E[a + 1], a + 1, hi, L)
          /\ a + 2 <= f.end + 1 => Labelled(E[a + 2], a + 2, hi, L)
      <4> HIDE DEF T, L, hi
      <4>1. 1 \in 1..2 /\ 2 \in 1..2
        OBVIOUS
      <4> HIDE DEF a, last
      <4> QED BY <3>4, <3>5, <4>1
    <3>7. f.start <= a /\ a <= f.end + 1
      BY <1>0, <3>3
    <3>8. E[a] = EmitAt(f, L, E, a)
      <4> HIDE DEF a, last
      <4> QED BY <2>3, <3>3
    <3>9. Labelled(EmitAt(f, L, E, a), a, hi, L)
      <4> HIDE DEF a
      <4> QED BY <2>1, <3>3, <3>6, <3>7, EmitAtIs
    <3> QED BY <3>3, <3>8, <3>9
  <2>5. Labelled(E[f.start], f.start, hi, L)
    <3>1. last - f.start \in 0..(last - f.start) /\ last - (last - f.start) = f.start
      BY <1>0, <2>1
    <3> HIDE DEF last, hi, L
    <3>2. Labelled(E[last - (last - f.start)], last - (last - f.start), hi, L)
      BY <2>4, <3>1
    <3> QED BY <3>1, <3>2
  <2>6. \A t \in L : f.start <= t /\ t < hi
    <3>1. L \in SUBSET Nat /\ \A t \in L : f.start <= t /\ t < f.end
      BY <2>1, LabelsAre
    <3> HIDE DEF L
    <3> QED BY <1>0, <3>1
  <2> HIDE DEF L, hi
  <2> QED BY <2>2, <2>5, <2>6, LabelledCompiles
<1> QED BY <1>1, <1>2, <1>3

-----------------------------------------------------------------------------
(* The ends that the walks find: no walk comes out of the image, and one   *)
(* that starts outside it ends where it starts.                            *)

WalkWithin(start, end) == end <= start \/ (start \in Addr /\ end <= Words + 1)

EndsOK ==
  /\ \A n \in 1..Len(functions) : Within(functions[n])
  /\ \A a \in Addr : claimed[a] # 0 => claimed[a] \in Addr
  /\ fi # 0 =>
       /\ WalkWithin(FnStart, maxEnd)
       /\ FnStart \notin Addr => at \notin Addr /\ \A n \in 1..Len(queue) : queue[n] \notin Addr

(* What is found has no words yet, and what was there stays.               *)
GoesOn(fs, gs) ==
  /\ Len(fs) <= Len(gs)
  /\ \A n \in 1..Len(fs) : gs[n] = fs[n]
  /\ \A n \in 1..Len(gs) : n > Len(fs) => Within(gs[n])

LEMMA FoundWithin ==
  ASSUME NEW a \in Nat, NEW source
  PROVE  Within(Found(a, source))
BY DEF Within, Found

LEMMA AddedAllGoesOn ==
  ASSUME NEW fs, Listed(fs), NEW as \in SUBSET Nat, IsFiniteSet(as), NEW source \in Source
  PROVE  GoesOn(fs, AddedAll(fs, as, source))
<1> DEFINE bs == {b \in as : AddrOk(b) /\ b \notin Known(fs)}
           new == {Found(a, source) : a \in bs}
           more == ByStart(new)
           gs == fs \o more
<1>1. bs \in SUBSET Nat /\ IsFiniteSet(bs)
  <2>1. bs \in SUBSET as
    OBVIOUS
  <2> QED BY <2>1, FS_Subset
<1>2. \A f \in new : Within(f)
  <2> HIDE DEF bs
  <2> QED BY <1>1, FoundWithin
<1>3. new \in SUBSET Function /\ IsFiniteSet(new) /\ Distinct(new)
  <2> HIDE DEF bs
  <2> QED BY <1>1, FoundIs
<1>4. AddedAll(fs, as, source) = gs
  BY DEF AddedAll
<1>5. Listed(more) /\ \A n \in 1..Len(more) : more[n] \in new
  <2> HIDE DEF new
  <2> QED BY <1>3, ByStartLists
<1> HIDE DEF new, more
<1>6. /\ Len(fs) \in Nat /\ Len(more) \in Nat /\ Len(gs) = Len(fs) + Len(more)
      /\ \A n \in 1..Len(fs) : gs[n] = fs[n]
      /\ \A n \in 1..Len(gs) : n > Len(fs) => n - Len(fs) \in 1..Len(more) /\ gs[n] = more[n - Len(fs)]
  BY <1>5 DEF Listed
<1> HIDE DEF gs
<1> QED BY <1>2, <1>4, <1>5, <1>6 DEF GoesOn

LEMMA AddedGoesOn ==
  ASSUME NEW fs, Listed(fs), NEW a \in Nat, NEW source \in Source
  PROVE  GoesOn(fs, Added(fs, a, source))
<1>0. Len(fs) \in Nat /\ fs \in Seq(Function)
  BY DEF Listed
<1>1. CASE ~AddrOk(a) \/ a \in Known(fs)
  <2>1. Added(fs, a, source) = fs
    BY <1>1 DEF Added
  <2> QED BY <1>0, <2>1 DEF GoesOn
<1>2. CASE ~(~AddrOk(a) \/ a \in Known(fs))
  <2> DEFINE f == Found(a, source)
             gs == Append(fs, f)
  <2>1. f \in Function /\ Within(f)
    BY FoundWithin DEF Found, Function
  <2>2. Added(fs, a, source) = gs
    BY <1>2 DEF Added
  <2> HIDE DEF f
  <2>3. Len(gs) = Len(fs) + 1 /\ (\A n \in 1..Len(fs) : gs[n] = fs[n]) /\ gs[Len(fs) + 1] = f
    BY <1>0, <2>1
  <2> HIDE DEF gs
  <2>4. \A n \in 1..Len(gs) : n > Len(fs) => n = Len(fs) + 1
    BY <1>0, <2>3
  <2> QED BY <1>0, <2>1, <2>2, <2>3, <2>4 DEF GoesOn
<1> QED BY <1>1, <1>2

LEMMA GoesOnTwice ==
  ASSUME NEW fs, NEW gs, NEW hs, Listed(fs), Listed(gs), Listed(hs), GoesOn(fs, gs), GoesOn(gs, hs)
  PROVE  GoesOn(fs, hs)
<1>1. Len(fs) \in Nat /\ Len(gs) \in Nat /\ Len(hs) \in Nat
  BY DEF Listed
<1>2. \A n \in 1..Len(fs) : n \in 1..Len(gs)
  BY <1>1 DEF GoesOn
<1>3. \A n \in 1..Len(hs) : n > Len(fs) => n > Len(gs) \/ n \in 1..Len(gs)
  BY <1>1
<1> QED BY <1>1, <1>2, <1>3 DEF GoesOn

(* What adds functions, at any time. *)
LEMMA AddingStaysWithin ==
  ASSUME DiscoveryOK, EndsOK, GoesOn(functions, functions'), Listed(functions'), fi' = fi
  PROVE  /\ \A n \in 1..Len(functions') : Within(functions'[n])
         /\ fi # 0 => FnStart' = FnStart
<1>1. Len(functions) \in Nat /\ Len(functions') \in Nat /\ fi \in 0..Len(functions)
  BY DEF DiscoveryOK, Listed, WalkOK
<1>2. \A n \in 1..Len(functions') : n > Len(functions) \/ n \in 1..Len(functions)
  BY <1>1
<1>3. \A n \in 1..Len(functions') : Within(functions'[n])
  BY <1>2 DEF GoesOn, EndsOK
<1>4. fi # 0 => fi \in 1..Len(functions)
  BY <1>1
<1> QED BY <1>3, <1>4 DEF GoesOn, FnStart

LEMMA SeedEnds ==
  ASSUME Image, DiscoveryOK, EndsOK, Seed
  PROVE  EndsOK'
<1> DEFINE none == <<>>
           one == AddedAll(none, {Entry}, "Entry")
           two == AddedAll(one, symbols \cap Exec, "Symbol")
           three == AddedAll(two, imports, "Import")
<1>1. Listed(none)
  BY DEF Listed
<1>2. {Entry} \in SUBSET Nat /\ IsFiniteSet({Entry})
  BY AnalysisAssumption, FS_Singleton
<1>3. symbols \cap Exec \in SUBSET Nat /\ IsFiniteSet(symbols \cap Exec)
  BY AddrsFinite, ImageAssumption
<1>4. imports \in SUBSET Nat /\ IsFiniteSet(imports)
  BY DEF Image
<1>5. functions' = three /\ UNCHANGED <<claimed, walkVars>> /\ functions = none
  BY DEF Seed, DiscoveryOK
<1>6. {"Entry", "Symbol", "Import"} \subseteq Source
  BY DEF Source
<1> HIDE DEF none
<1>7. Listed(one) /\ GoesOn(none, one)
  BY <1>1, <1>2, <1>6, AddedAllKeeps, AddedAllGoesOn
<1> HIDE DEF one
<1>8. Listed(two) /\ GoesOn(one, two)
  BY <1>3, <1>6, <1>7, AddedAllKeeps, AddedAllGoesOn
<1> HIDE DEF two
<1>9. Listed(three) /\ GoesOn(two, three)
  BY <1>4, <1>6, <1>8, AddedAllKeeps, AddedAllGoesOn
<1> HIDE DEF three
<1>10. GoesOn(none, three)
  BY <1>1, <1>7, <1>8, <1>9, GoesOnTwice
<1>11. fi' = fi /\ GoesOn(functions, functions') /\ Listed(functions')
  BY <1>5, <1>9, <1>10 DEF walkVars
<1> QED BY <1>5, <1>11, AddingStaysWithin DEF EndsOK, walkVars

LEMMA PrologueScanEnds ==
  ASSUME Image, DiscoveryOK, EndsOK, PrologueScan
  PROVE  EndsOK'
<1>1. Prologues \in SUBSET Nat /\ IsFiniteSet(Prologues)
  BY AddrsFinite, ImageAssumption DEF Prologues
<1>2. "Prologue" \in Source
  BY DEF Source
<1>3. GoesOn(functions, functions') /\ Listed(functions') /\ UNCHANGED <<claimed, walkVars>>
  BY <1>1, <1>2, AddedAllKeeps, AddedAllGoesOn DEF PrologueScan, DiscoveryOK
<1> QED BY <1>3, AddingStaysWithin DEF EndsOK, walkVars

(* A walk's end is one that Within allows. *)
LEMMA EndIsWithin ==
  ASSUME DiscoveryOK, EndsOK, fi # 0
  PROVE  LET r == [functions EXCEPT ![fi].end = maxEnd]
         IN  /\ Len(r) = Len(functions)
             /\ \A n \in 1..Len(r) : Within(r[n]) /\ r[n].start = functions[n].start
<1> DEFINE r == [functions EXCEPT ![fi].end = maxEnd]
<1>1. functions \in [1..Len(functions) -> Function] /\ fi \in 1..Len(functions) /\ Listed(functions)
      /\ maxEnd \in Nat
  BY DEF DiscoveryOK, WalkOK, Listed
<1>2. Len(r) = Len(functions)
  BY <1>1, EndKeeps
<1>3. \A n \in 1..Len(functions) : n # fi => r[n] = functions[n]
  BY <1>1
<1>4. r[fi].start = FnStart /\ r[fi].end = maxEnd
  BY <1>1 DEF Function, FnStart
<1> HIDE DEF r
<1>5. Within(r[fi])
  BY <1>4 DEF EndsOK, Within, WalkWithin
<1> QED BY <1>1, <1>2, <1>3, <1>4, <1>5 DEF EndsOK, FnStart, r

LEMMA WalkEndsEnds ==
  ASSUME DiscoveryOK, EndsOK, WalkEnds
  PROVE  EndsOK'
<1> DEFINE fs == IF fi = 0 THEN functions ELSE [functions EXCEPT ![fi].end = maxEnd]
           pending == {n \in DOMAIN fs : n > fi /\ fs[n].end = 0}
<1>1. DiscoveryOK' /\ Len(functions') \in Nat
  BY WalkEndsKeeps DEF DiscoveryOK, Listed
<1>2. \A n \in 1..Len(fs) : Within(fs[n])
  BY EndIsWithin DEF EndsOK
<1>3. /\ functions' = fs /\ UNCHANGED <<claimed, at>> /\ at = 0
      /\ \/ fi' = 0 
         \/ queue' = <<fs[fi'].start>> /\ maxEnd' = fs[fi'].start
  BY DEF WalkEnds, Walking
<1> HIDE DEF fs
<1>4. 0 \notin Addr
  BY ImageAssumption DEF Addr
<1>5. ASSUME queue' = <<fs[fi'].start>>, maxEnd' = fs[fi'].start, fi' # 0
      PROVE  /\ WalkWithin(FnStart', maxEnd')
             /\ FnStart' \notin Addr => at' \notin Addr /\ \A n \in 1..Len(queue') : queue'[n] \notin Addr
  <2>1. FnStart' = maxEnd' /\ maxEnd' \in Nat
    BY <1>1, <1>3, <1>5 DEF FnStart, DiscoveryOK, WalkOK
  <2>2. Len(queue') = 1 /\ queue'[1] = FnStart'
    BY <1>5, <2>1
  <2>3. \A n \in 1..Len(queue') : n = 1
    BY <2>2
  <2> QED BY <1>3, <1>4, <2>1, <2>2, <2>3 DEF WalkWithin
<1> QED BY <1>2, <1>3, <1>5 DEF EndsOK

LEMMA TakeTargetEnds ==
  ASSUME DiscoveryOK, EndsOK, TakeTarget
  PROVE  EndsOK'
<1>1. queue \in Seq(Nat) /\ queue # <<>> /\ fi # 0
  BY DEF DiscoveryOK, WalkOK, TakeTarget
<1>2. Last(queue) = queue[Len(queue)] /\ Len(queue) \in 1..Len(queue)
  BY <1>1 DEF Last
<1>3. \A n \in 1..Len(Front(queue)) : n \in 1..Len(queue) /\ Front(queue)[n] = queue[n]
  BY <1>1 DEF Front
<1>4. at' = Last(queue) /\ queue' = Front(queue) /\ UNCHANGED <<functions, claimed, fi, maxEnd>>
  BY DEF TakeTarget
<1> QED BY <1>1, <1>2, <1>3, <1>4 DEF EndsOK, FnStart

LEMMA CancelEnds ==
  ASSUME Image, DiscoveryOK, EndsOK, Cancel
  PROVE  EndsOK'
<1>1. UNCHANGED <<claimed, walkVars>>
  BY DEF Cancel
<1>2. CASE UNCHANGED functions
  BY <1>1, <1>2 DEF EndsOK, FnStart, walkVars
<1>3. CASE fi # 0 /\ functions' = [functions EXCEPT ![fi].end = maxEnd]
  <2>1. /\ Len(functions') = Len(functions)
        /\ \A n \in 1..Len(functions') : Within(functions'[n]) /\ functions'[n].start = functions[n].start
    BY <1>3, EndIsWithin
  <2>2. fi \in 1..Len(functions)
    BY <1>3 DEF DiscoveryOK, WalkOK, Listed
  <2>3. FnStart' = FnStart
    BY <1>1, <2>1, <2>2 DEF FnStart, walkVars
  <2> QED BY <1>1, <2>1, <2>3 DEF EndsOK, walkVars
<1>4. CASE \E a \in Addr : functions' = AddedAll(functions, {b \in Prologues : b < a}, "Prologue")
  <2>1. PICK a \in Addr : functions' = AddedAll(functions, {b \in Prologues : b < a}, "Prologue")
    BY <1>4
  <2>2. {b \in Prologues : b < a} \in SUBSET Nat /\ IsFiniteSet({b \in Prologues : b < a})
    BY AddrsFinite, ImageAssumption DEF Prologues
  <2>3. "Prologue" \in Source
    BY DEF Source
  <2>4. GoesOn(functions, functions') /\ Listed(functions')
    BY <2>1, <2>2, <2>3, AddedAllKeeps, AddedAllGoesOn DEF DiscoveryOK
  <2> QED BY <1>1, <2>4, AddingStaysWithin DEF EndsOK, walkVars
<1> QED BY <1>2, <1>3, <1>4 DEF Cancel

LEMMA CoverEnds ==
  ASSUME DiscoveryOK, EndsOK, fi # 0, at \in Addr, NEW as, as = {at} \/ as = {at} \union Slot(at), Cover(as)
  PROVE  /\ FnStart \in Addr
         /\ \A a \in Addr : claimed'[a] # 0 => claimed'[a] \in Addr
         /\ WalkWithin(FnStart, maxEnd')
<1>1. FnStart \in Addr
  BY DEF EndsOK
<1>2. claimed' = [a \in Addr |-> IF a \in as THEN FnStart ELSE claimed[a]]
  BY DEF Cover
<1>3. \A a \in Addr : claimed'[a] # 0 => claimed'[a] \in Addr
  BY <1>1, <1>2 DEF EndsOK
<1>4. maxEnd \in Nat /\ at \in Nat /\ Words \in Nat /\ FnStart \in 1..Words
  BY <1>1, ImageAssumption DEF DiscoveryOK, WalkOK, Addr
<1>5. maxEnd' \in Nat
  BY CoverKeeps
<1>6. WalkWithin(FnStart, maxEnd')
  <2> DEFINE ends == {maxEnd} \union {a + 1 : a \in as}
  <2>1. maxEnd' = CHOOSE e \in ends : \A f \in ends : f <= e
    BY DEF Cover
  <2>2. as \subseteq 1..Words
    BY DEF Slot, Addr
  <2>3. \A e \in ends : e = maxEnd \/ e <= Words + 1
    <3>1. \A a \in 1..Words : a + 1 <= Words + 1
      BY <1>4
    <3> QED BY <2>2, <3>1
  <2>4. as = {at} \/ as = {at, at + 1}
    BY DEF Slot
  <2>5. ends = {maxEnd, at + 1} \/ ends = {maxEnd, at + 1, at + 2}
    <3>1. at + 1 + 1 = at + 2
      BY <1>4
    <3>2. CASE as = {at}
      BY <3>2
    <3>3. CASE as = {at, at + 1}
      BY <3>1, <3>3
    <3> QED BY <2>4, <3>2, <3>3
  <2> HIDE DEF ends
  <2>6. \E e \in ends : \A f \in ends : f <= e
    <3>1. CASE ends = {maxEnd, at + 1}
      BY <1>4, <3>1
    <3>2. CASE ends = {maxEnd, at + 1, at + 2}
      BY <1>4, <3>2
    <3> QED BY <2>5, <3>1, <3>2
  <2>7. maxEnd' \in ends
    BY <2>1, <2>6
  <2>8. maxEnd' = maxEnd \/ maxEnd' <= Words + 1
    BY <2>3, <2>7
  <2> QED BY <1>1, <2>8 DEF EndsOK, WalkWithin
<1> QED BY <1>1, <1>3, <1>6

LEMMA VisitEnds ==
  ASSUME Image, DiscoveryOK, EndsOK, Visit
  PROVE  EndsOK'
<1>1. DiscoveryOK' /\ Listed(functions) /\ fi # 0 /\ fi' = fi /\ 0 \notin Addr /\ "Call" \in Source
  BY VisitKeeps, ImageAssumption DEF Visit, Walking, DiscoveryOK, WalkOK, Addr, Source
<1>2. CASE VisitNothing
  BY <1>1, <1>2 DEF VisitNothing, EndsOK, FnStart
<1>3. CASE ~Stops(at) /\ (VisitStep \/ VisitBranch \/ VisitCall \/ VisitJump \/ VisitRegisterJump)
  <2>1. at \in Addr /\ code[at].to \in Nat
    <3>1. at \in Addr /\ code[at] \in Instruction
      BY <1>3 DEF Stops, Image
    <3> QED BY <3>1 DEF Instruction
  <2>2. \E as : (as = {at} \/ as = {at} \union Slot(at)) /\ Cover(as)
    BY <1>3 DEF VisitStep, VisitBranch, VisitCall, VisitJump, VisitRegisterJump
  <2>3. /\ FnStart \in Addr
        /\ \A a \in Addr : claimed'[a] # 0 => claimed'[a] \in Addr
        /\ WalkWithin(FnStart, maxEnd')
    BY <1>1, <2>1, <2>2, CoverEnds
  <2>4. GoesOn(functions, functions')
    <3>1. GoesOn(functions, functions)
      BY <1>1 DEF GoesOn, Listed
    <3>2. UNCHANGED functions \/ \E t \in Nat : functions' = Added(functions, t, "Call")
      BY <1>3, <2>1 DEF VisitStep, VisitBranch, VisitCall, VisitJump, VisitRegisterJump
    <3> QED BY <1>1, <3>1, <3>2, AddedGoesOn
  <2>5. Listed(functions')
    BY <1>1 DEF DiscoveryOK
  <2> QED BY <1>1, <2>3, <2>4, <2>5, AddingStaysWithin DEF EndsOK
<1> QED BY <1>2, <1>3 DEF Visit

(* The cut and the rescued ranges are parts of those. *)
LEMMA CutShorter ==
  ASSUME NEW set \in SUBSET Function, NEW f \in Function
  PROVE  EndAmong(set, f) <= f.end
<1> DEFINE inside == {g.start : g \in {h \in set : f.start < h.start /\ h.start < f.end}}
<1>1. f.end \in Nat /\ \A g \in set : g.start \in Nat
  BY DEF Function
<1>2. CASE inside = {}
  BY <1>1, <1>2 DEF EndAmong
<1>3. CASE inside # {}
  <2>1. inside \subseteq Nat /\ \A a \in inside : a < f.end
    BY <1>1
  <2>2. EndAmong(set, f) = CHOOSE a \in inside : \A b \in inside : a <= b
    BY <1>3 DEF EndAmong
  <2> HIDE DEF inside
  <2>3. EndAmong(set, f) \in inside
    BY <1>3, <2>1, <2>2, LeastNumber
  <2>4. EndAmong(set, f) \in Nat /\ EndAmong(set, f) < f.end
    BY <2>1, <2>3
  <2> QED BY <1>1, <2>4
<1> QED BY <1>2, <1>3

LEMMA TruncatedWithin ==
  ASSUME NEW set \in SUBSET Function, \A f \in set : Within(f)
  PROVE  \A f \in Truncated(set) : Within(f)
<1> SUFFICES ASSUME NEW f \in set PROVE Within([f EXCEPT !.end = EndAmong(set, f)])
  BY DEF Truncated
<1> DEFINE e == EndAmong(set, f)
           g == [f EXCEPT !.end = e]
<1>1. e \in Nat /\ e <= f.end /\ f.end \in Nat /\ f.start \in Nat /\ Words \in Nat
  BY EndAmongIs, CutShorter, ImageAssumption DEF Function
<1>2. g.start = f.start /\ g.end = e
  BY DEF Function
<1> HIDE DEF e, g
<1>3. Within(g)
  BY <1>1, <1>2 DEF Within
<1> QED BY <1>3 DEF e, g

LEMMA RescuedWithin ==
  ASSUME DiscoveryOK, EndsOK
  PROVE  \A f \in ToSet(functions) \union Rescued(ToSet(functions)) : Within(f)
<1> DEFINE walked == ToSet(functions)
           Owner(a) == CHOOSE f \in walked : f.start = claimed[a]
           lost == {a \in Addr : /\ claimed[a] # 0
                                 /\ \A f \in walked : f.start # a
                                 /\ a >= EndAmong(walked, Owner(a))}
           rescue(a) == [Found(a, "Call") EXCEPT !.end = Owner(a).end]
<1>1. /\ walked \in SUBSET Function /\ Known(functions) = {f.start : f \in walked}
      /\ \A f \in walked : Within(f)
  <2>1. walked \in SUBSET Function /\ Known(functions) = {f.start : f \in walked}
    BY Members DEF DiscoveryOK
  <2>2. DOMAIN functions = 1..Len(functions)
    BY DEF DiscoveryOK, Listed
  <2> QED BY <2>1, <2>2 DEF EndsOK, ToSet
<1>2. Rescued(walked) = {rescue(a) : a \in lost}
  BY DEF Rescued
<1> HIDE DEF walked
<1>3. ASSUME NEW a \in lost PROVE Within(rescue(a))
  <2>1. a \in Addr /\ claimed[a] \in Known(functions) /\ claimed[a] \in Addr
    BY DEF DiscoveryOK, Owned, EndsOK
  <2>2. Owner(a) \in walked /\ Owner(a).start = claimed[a]
    BY <1>1, <2>1
  <2>3. Within(Owner(a)) /\ Owner(a).start \in Addr /\ Owner(a).end \in Nat
    BY <1>1, <2>1, <2>2 DEF Function
  <2> HIDE DEF Owner
  <2>4. rescue(a).start = a /\ rescue(a).end = Owner(a).end
    BY DEF Found
  <2> HIDE DEF rescue
  <2>5. Owner(a).end <= Words + 1
    BY <2>3, ImageAssumption DEF Within, Addr
  <2> QED BY <2>1, <2>4, <2>5 DEF Within
<1> QED BY <1>1, <1>2, <1>3 DEF walked

BodiesOK == phase = "run" => \A a \in Known(functions) : Compiles(bodies[a])

LEMMA EmitCompiles ==
  ASSUME Image, DiscoveryOK, EndsOK, Emit
  PROVE  BodiesOK'
<1> DEFINE all == ToSet(functions) \union Rescued(ToSet(functions))
<1>1. all \in SUBSET Function /\ IsFiniteSet(all) /\ Distinct(all) /\ \A f \in all : Within(f)
  BY RescuedIs, RescuedWithin
<1>2. functions' = ByStart(Truncated(all))
  BY DEF Emit, Finalized
<1> HIDE DEF all
<1>3. /\ Truncated(all) \in SUBSET Function /\ IsFiniteSet(Truncated(all)) /\ Distinct(Truncated(all))
      /\ \A f \in Truncated(all) : Within(f)
  BY <1>1, TruncatedIs, TruncatedWithin
<1>4. Listed(functions') /\ \A n \in 1..Len(functions') : functions'[n] \in Truncated(all)
  BY <1>2, <1>3, ByStartLists
<1>5. bodies' = [a \in Known(functions') |->
        EmitFunction(functions'[CHOOSE n \in DOMAIN functions' : functions'[n].start = a])]
  BY DEF Emit
<1>6. ASSUME NEW a \in Known(functions')
      PROVE  Compiles(bodies'[a])
  <2> DEFINE n == CHOOSE n \in DOMAIN functions' : functions'[n].start = a
             f == functions'[n]
  <2>1. DOMAIN functions' = 1..Len(functions')
    BY <1>4 DEF Listed
  <2>2. n \in DOMAIN functions'
    BY DEF Known
  <2>3. f \in Function /\ Within(f)
    BY <1>3, <1>4, <2>1, <2>2
  <2>4. bodies'[a] = EmitFunction(f)
    BY <1>5
  <2> HIDE DEF f
  <2>5. Compiles(EmitFunction(f))
    BY <2>3, EmitFunctionCompiles
  <2> QED BY <2>4, <2>5
<1> QED BY <1>6 DEF BodiesOK

CompilesInv ==
  /\ RangesInv
  /\ Discovering => EndsOK
  /\ BodiesOK

LEMMA InitCompiles == Init => CompilesInv
<1> SUFFICES ASSUME Init PROVE CompilesInv
  OBVIOUS
<1>1. RangesInv
  BY InitRanges
<1>2. functions = <<>> /\ fi = 0 /\ claimed = [a \in Addr |-> 0] /\ phase = "seed"
  BY DEF Init, AnalysisInit
<1>3. EndsOK
  BY <1>2 DEF EndsOK
<1> QED BY <1>1, <1>2, <1>3 DEF CompilesInv, BodiesOK

LEMMA NextCompiles == CompilesInv /\ [Next]_vars => CompilesInv'
<1> SUFFICES ASSUME CompilesInv, [Next]_vars PROVE CompilesInv'
  OBVIOUS
<1>0. RangesInv' /\ RangesInv /\ Image
  BY NextRanges DEF CompilesInv, RangesInv
<1>1. CASE UNCHANGED vars
  BY <1>0, <1>1 DEF CompilesInv, EndsOK, FnStart, BodiesOK, Compiles, Discovering, 
     vars, analysisVars, walkVars
<1>2. CASE Analyse \/ CancelAnalysis
  <2>1. AnalysisStep \/ Cancel
    BY <1>2 DEF Analyse, CancelAnalysis
  <2>2. Discovering /\ phase' \notin {"run", "ended"}
    BY <1>2, <2>1 DEF Analyse, CancelAnalysis, AnalysisStep, Seed, WalkEnds, TakeTarget, Visit,
       PrologueScan, Cancel, Walking, Discovering
  <2>3. DiscoveryOK /\ EndsOK
    BY <2>2 DEF CompilesInv, RangesInv
  <2>4. EndsOK'
    BY <1>0, <2>1, <2>3, SeedEnds, WalkEndsEnds, TakeTargetEnds, VisitEnds, PrologueScanEnds,
       CancelEnds DEF AnalysisStep
  <2> QED BY <1>0, <2>2, <2>4 DEF CompilesInv, BodiesOK
<1>3. CASE Emit
  <2>1. DiscoveryOK /\ EndsOK
    BY <1>3 DEF Emit, CompilesInv, RangesInv, Discovering
  <2>2. ~Discovering'
    BY <1>3, <2>1, EmitInOrder
  <2> QED BY <1>0, <1>3, <2>1, <2>2, EmitCompiles DEF CompilesInv
<1>4. CASE Run
  <2>1. phase = "run" /\ phase' \in {"run", "ended"} /\ UNCHANGED <<functions, bodies>>
    BY <1>4 DEF Run, RunInstruction, RunLocal, RunCall, RunReturn, Running
  <2> QED BY <1>0, <2>1 DEF CompilesInv, BodiesOK, Discovering
<1> QED BY <1>1, <1>2, <1>3, <1>4 DEF Next

(* What emit_function of libs/codegen/src/codegen.cpp prints compiles, for *)
(* every image and every set of functions that the analysis comes to: each *)
(* goto, and each case of the switch for a jump table, has its label in    *)
(* the function, and has it once.                                          *)
THEOREM GotosHaveTheirLabels == Spec => []GotosHaveLabels
<1>1. CompilesInv => GotosHaveLabels
  BY DEF CompilesInv, BodiesOK, Compiles, TargetsOf, GotosHaveLabels
<1> QED BY <1>1, InitCompiles, NextCompiles, PTL DEF Spec
=============================================================================
