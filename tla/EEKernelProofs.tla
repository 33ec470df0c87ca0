--------------------------- MODULE EEKernelProofs ---------------------------
(***************************************************************************)
(* Theorems about EEKernel, for every set of threads, semaphores and       *)
(* priorities: what the operators on its queues return, its types, the     *)
(* baton, and what it counts (tokens, wakeups and suspensions).  None of   *)
(* them needs the reservation `~quit' that the runs make of some of these. *)
(***************************************************************************)
EXTENDS EEKernel, SequenceTheorems, WellFoundedInduction, TLAPS

(* What the ready queue's operators return, for every queue. *)

(* Every non-empty set of naturals has a least element. *)
LEMMA LeastNatural ==
  ASSUME NEW T, T \subseteq Nat, T # {}
  PROVE  \E x \in T : \A y \in T : x <= y
<1>1. PICK x \in T : \A y \in T : <<y, x>> \notin OpToRel(<, Nat)
  BY NatLessThanWellFounded, WFMin
<1>2. ASSUME NEW y \in T PROVE ~ (y < x)
  <2>1. x \in Nat /\ y \in Nat
    OBVIOUS
  <2> QED BY <1>1, <2>1, Zenon DEF OpToRel
<1>3. \A y \in T : x <= y
  BY <1>2
<1> QED BY <1>3

(* The loop of ready_insert stops inside the queue or just behind it: at   *)
(* the first thread of strictly lower priority, if there is one.           *)
LEMMA InsertPosStops ==
  ASSUME NEW S, NEW pr, NEW q \in Seq(S), NEW t
  PROVE  LET i == InsertPos(q, pr, t)
         IN  /\ i \in 1..Len(q) + 1
             /\ i = Len(q) + 1 \/ pr[q[i]] > pr[t]
             /\ \A j \in 1..Len(q) : pr[q[j]] > pr[t] => i <= j
<1> DEFINE T == InsertStops(q, pr, t)
<1>1. /\ T \subseteq Nat
      /\ Len(q) + 1 \in T
  BY LenProperties DEF InsertStops
<1>2. \E x \in T : \A y \in T : x <= y
  <2> HIDE DEF T
  <2> QED BY <1>1, LeastNatural
<1>3. InsertPos(q, pr, t) \in T /\ \A y \in T : InsertPos(q, pr, t) <= y
  BY <1>2 DEF InsertPos
<1> QED BY <1>3 DEF InsertStops

(* ready_insert returns a queue of threads. *)
LEMMA ReadyInsertType ==
  ASSUME NEW S, NEW pr, NEW q \in Seq(S), NEW t \in S
  PROVE  ReadyInsert(q, pr, t) \in Seq(S)
<1> DEFINE i == InsertPos(q, pr, t)
<1>1. i \in 1..Len(q) + 1
  BY InsertPosStops
<1>2. SubSeq(q, 1, i - 1) \in Seq(S) /\ SubSeq(q, i, Len(q)) \in Seq(S)
  BY <1>1, LenProperties, SubSeqProperties, ElementOfSeq
<1> QED BY <1>2 DEF ReadyInsert, InsertAt

(* ready_remove returns a queue of threads. *)
LEMMA ReadyRemoveType ==
  ASSUME NEW S, NEW q \in Seq(S), NEW t
  PROVE  ReadyRemove(q, t) \in Seq(S)
<1>1. CASE ~ \E i \in 1..Len(q) : q[i] = t
  BY <1>1 DEF ReadyRemove, RemoveFirst
<1>2. CASE \E i \in 1..Len(q) : q[i] = t
  <2> DEFINE T == {i \in 1..Len(q) : q[i] = t}
             k == Min(T)
  <2>1. T \subseteq Nat /\ T # {}
    BY <1>2
  <2>2. \E x \in T : \A y \in T : x <= y
    <3> HIDE DEF T
    <3> QED BY <2>1, LeastNatural
  <2>3. k \in T
    BY <2>2 DEF Min
  <2>4. ReadyRemove(q, t) = SubSeq(q, 1, k - 1) \o SubSeq(q, k + 1, Len(q))
    BY <1>2, <2>1 DEF ReadyRemove, RemoveFirst, RemoveAt, SelectInSeq
  <2>5. SubSeq(q, 1, k - 1) \in Seq(S) /\ SubSeq(q, k + 1, Len(q)) \in Seq(S)
    <3>1. k \in 1..Len(q)
      BY <2>3
    <3> HIDE DEF k
    <3> QED BY <3>1, LenProperties, SubSeqProperties, ElementOfSeq
  <2> QED BY <2>4, <2>5
<1> QED BY <1>1, <1>2

-----------------------------------------------------------------------------
(* Where the elements of a queue are after an insertion and a removal. *)

LEMMA InsertAtElements ==
  ASSUME NEW S, NEW q \in Seq(S), NEW t \in S, NEW i \in 1..Len(q) + 1
  PROVE  LET r == InsertAt(q, i, t)
         IN  /\ r \in Seq(S)
             /\ Len(r) = Len(q) + 1
             /\ \A j \in 1..Len(q) + 1 : r[j] = IF j < i THEN q[j] ELSE IF j = i THEN t ELSE q[j - 1]
<1> DEFINE a == SubSeq(q, 1, i - 1)
           b == SubSeq(q, i, Len(q))
<1>0. Len(q) \in Nat /\ i \in Nat
  BY LenProperties
<1>1. /\ a \in Seq(S) /\ Len(a) = i - 1
      /\ \A j \in 1..i - 1 : a[j] = q[j]
  BY <1>0, SubSeqProperties, ElementOfSeq
<1>2. /\ b \in Seq(S) /\ Len(b) = Len(q) - i + 1
      /\ \A j \in 1..Len(q) - i + 1 : b[j] = q[i + j - 1]
  BY <1>0, SubSeqProperties, ElementOfSeq
<1>3. <<t>> \in Seq(S) /\ Len(<<t>>) = 1 /\ <<t>>[1] = t
  OBVIOUS
<1> HIDE DEF a, b
<1> DEFINE c == a \o <<t>>
<1>4. /\ c \in Seq(S) /\ Len(c) = i
      /\ \A j \in 1..i : c[j] = IF j < i THEN q[j] ELSE t
  BY <1>0, <1>1, <1>3, ConcatProperties
<1> HIDE DEF c
<1> DEFINE r == c \o b
<1>5. /\ r \in Seq(S) /\ Len(r) = Len(q) + 1
      /\ \A j \in 1..Len(q) + 1 : r[j] = IF j <= i THEN c[j] ELSE b[j - i]
  <2>1. /\ r \in Seq(S) /\ Len(r) = Len(c) + Len(b)
        /\ \A j \in 1..Len(c) + Len(b) : r[j] = IF j <= Len(c) THEN c[j] ELSE b[j - Len(c)]
    BY <1>2, <1>4, ConcatProperties
  <2>2. Len(c) = i /\ Len(c) + Len(b) = Len(q) + 1
    BY <1>0, <1>2, <1>4
  <2> HIDE DEF r
  <2> QED BY <2>1, <2>2
<1>6. \A j \in 1..Len(q) + 1 : r[j] = IF j < i THEN q[j] ELSE IF j = i THEN t ELSE q[j - 1]
  <2> SUFFICES ASSUME NEW j \in 1..Len(q) + 1
               PROVE  r[j] = IF j < i THEN q[j] ELSE IF j = i THEN t ELSE q[j - 1]
    OBVIOUS
  <2> HIDE DEF r
  <2>1. CASE j <= i
    BY <1>0, <1>4, <1>5, <2>1
  <2>2. CASE j > i
    <3>1. j - i \in 1..Len(q) - i + 1 /\ i + (j - i) - 1 = j - 1
      BY <1>0, <2>2
    <3>2. r[j] = b[j - i] /\ b[j - i] = q[j - 1]
      BY <1>0, <1>2, <1>5, <2>2, <3>1
    <3> QED BY <1>0, <2>2, <3>2
  <2> QED BY <1>0, <2>1, <2>2
<1> QED BY <1>5, <1>6 DEF InsertAt, a, b, c

LEMMA RemoveAtElements ==
  ASSUME NEW S, NEW q \in Seq(S), NEW k \in 1..Len(q)
  PROVE  LET r == RemoveAt(q, k)
         IN  /\ r \in Seq(S)
             /\ Len(r) = Len(q) - 1
             /\ \A j \in 1..Len(q) - 1 : r[j] = IF j < k THEN q[j] ELSE q[j + 1]
<1> DEFINE a == SubSeq(q, 1, k - 1)
           b == SubSeq(q, k + 1, Len(q))
<1>0. Len(q) \in Nat /\ k \in Nat
  BY LenProperties
<1>1. /\ a \in Seq(S) /\ Len(a) = k - 1
      /\ \A j \in 1..k - 1 : a[j] = q[j]
  BY <1>0, SubSeqProperties, ElementOfSeq
<1>2. /\ b \in Seq(S) /\ Len(b) = Len(q) - k
      /\ \A j \in 1..Len(q) - k : b[j] = q[k + j]
  BY <1>0, SubSeqProperties, ElementOfSeq
<1> HIDE DEF a, b
<1> DEFINE r == a \o b
<1>3. /\ r \in Seq(S) /\ Len(r) = Len(q) - 1
      /\ \A j \in 1..Len(q) - 1 : r[j] = IF j <= k - 1 THEN a[j] ELSE b[j - (k - 1)]
  <2>1. /\ r \in Seq(S) /\ Len(r) = Len(a) + Len(b)
        /\ \A j \in 1..Len(a) + Len(b) : r[j] = IF j <= Len(a) THEN a[j] ELSE b[j - Len(a)]
    BY <1>1, <1>2, ConcatProperties
  <2>2. Len(a) = k - 1 /\ Len(a) + Len(b) = Len(q) - 1
    BY <1>0, <1>1, <1>2
  <2> HIDE DEF r
  <2> QED BY <2>1, <2>2
<1>4. \A j \in 1..Len(q) - 1 : r[j] = IF j < k THEN q[j] ELSE q[j + 1]
  <2> SUFFICES ASSUME NEW j \in 1..Len(q) - 1
               PROVE  r[j] = IF j < k THEN q[j] ELSE q[j + 1]
    OBVIOUS
  <2> HIDE DEF r
  <2>1. CASE j < k
    BY <1>0, <1>1, <1>3, <2>1
  <2>2. CASE j >= k
    <3>1. j - (k - 1) \in 1..Len(q) - k /\ k + (j - (k - 1)) = j + 1
      BY <1>0, <2>2
    <3>2. r[j] = b[j - (k - 1)] /\ b[j - (k - 1)] = q[j + 1]
      BY <1>0, <1>2, <1>3, <2>2, <3>1
    <3> QED BY <1>0, <2>2, <3>2
  <2> QED BY <1>0, <2>1, <2>2
<1> QED BY <1>3, <1>4 DEF RemoveAt, a, b

(* What insertion keeps of a queue. *)
Inserted(r, q, i, t) ==
  /\ Len(q) \in Nat /\ i \in 1..Len(q) + 1 /\ Len(r) = Len(q) + 1
  /\ \A j \in 1..Len(q) + 1 : r[j] = IF j < i THEN q[j] ELSE IF j = i THEN t ELSE q[j - 1]

LEMMA ReadyInsertElements ==
  ASSUME NEW S, NEW pr, NEW q \in Seq(S), NEW t \in S
  PROVE  Inserted(ReadyInsert(q, pr, t), q, InsertPos(q, pr, t), t)
<1> DEFINE i == InsertPos(q, pr, t)
<1>1. i \in 1..Len(q) + 1
  BY InsertPosStops
<1> HIDE DEF i
<1>2. Inserted(InsertAt(q, i, t), q, i, t)
  BY <1>1, InsertAtElements, LenProperties DEF Inserted
<1> QED BY <1>2 DEF ReadyInsert, i

LEMMA ReadyInsertContains ==
  ASSUME NEW S, NEW pr, NEW q \in Seq(S), NEW t \in S, NEW x
  PROVE  Contains(ReadyInsert(q, pr, t), x) <=> (x = t \/ Contains(q, x))
<1> DEFINE i == InsertPos(q, pr, t)
           r == ReadyInsert(q, pr, t)
<1>0. Inserted(r, q, i, t)
  BY ReadyInsertElements
<1> HIDE DEF i, r
<1>1. /\ Len(q) \in Nat /\ i \in 1..Len(q) + 1 /\ Len(r) = Len(q) + 1
      /\ \A j \in 1..Len(q) + 1 : r[j] = IF j < i THEN q[j] ELSE IF j = i THEN t ELSE q[j - 1]
  BY <1>0 DEF Inserted
<1>2. ASSUME NEW j \in 1..Len(r), r[j] = x PROVE x = t \/ Contains(q, x)
  <2>1. CASE j < i
    BY <1>1, <1>2, <2>1 DEF Contains
  <2>2. CASE j = i
    BY <1>1, <1>2, <2>2
  <2>3. CASE j > i
    <3>1. j - 1 \in 1..Len(q) /\ q[j - 1] = x
      BY <1>1, <1>2, <2>3
    <3> QED BY <3>1 DEF Contains
  <2> QED BY <1>1, <2>1, <2>2, <2>3
<1>3. r[i] = t
  BY <1>1
<1>4. ASSUME NEW j \in 1..Len(q), q[j] = x PROVE \E k \in 1..Len(r) : r[k] = x
  <2>1. CASE j < i
    BY <1>1, <1>4, <2>1
  <2>2. CASE j >= i
    <3>1. j + 1 \in 1..Len(r) /\ r[j + 1] = q[(j + 1) - 1] /\ (j + 1) - 1 = j
      BY <1>1, <2>2
    <3> QED BY <1>4, <3>1
  <2> QED BY <1>1, <2>1, <2>2
<1>5. Contains(r, x) <=> (x = t \/ Contains(q, x))
  BY <1>1, <1>2, <1>3, <1>4 DEF Contains
<1> QED BY <1>5 DEF r

LEMMA ReadyInsertNoRepeats ==
  ASSUME NEW S, NEW pr, NEW q \in Seq(S), NEW t \in S, NoRepeats(q), ~Contains(q, t)
  PROVE  NoRepeats(ReadyInsert(q, pr, t))
<1> DEFINE i == InsertPos(q, pr, t)
           r == ReadyInsert(q, pr, t)
           at(j) == IF j < i THEN j ELSE j - 1
<1>0. Inserted(r, q, i, t)
  BY ReadyInsertElements
<1> HIDE DEF i, r
<1>1. /\ Len(q) \in Nat /\ i \in 1..Len(q) + 1 /\ Len(r) = Len(q) + 1
      /\ \A j \in 1..Len(q) + 1 : r[j] = IF j < i THEN q[j] ELSE IF j = i THEN t ELSE q[j - 1]
  BY <1>0 DEF Inserted
<1>2. ASSUME NEW j \in 1..Len(r), j # i PROVE at(j) \in 1..Len(q) /\ r[j] = q[at(j)]
  BY <1>1, <1>2
<1>3. ASSUME NEW j \in 1..Len(r), NEW k \in 1..Len(r), j # k PROVE r[j] # r[k]
  <2>1. CASE j # i /\ k # i
    <3>1. at(j) # at(k)
      BY <1>1, <1>3, <2>1
    <3> QED BY <1>2, <2>1, <3>1 DEF NoRepeats
  <2>2. CASE j = i
    <3>1. r[j] = t
      BY <1>1, <2>2
    <3> QED BY <1>2, <1>3, <2>2, <3>1 DEF Contains
  <2>3. CASE k = i
    <3>1. r[k] = t
      BY <1>1, <2>3
    <3> QED BY <1>2, <1>3, <2>3, <3>1 DEF Contains
  <2> QED BY <2>1, <2>2, <2>3
<1> QED BY <1>3 DEF NoRepeats, r

(* All of a sorted queue before the place of insertion is of the thread's  *)
(* priority or a higher one, and all behind it is of a lower one.          *)
LEMMA InsertPosSplits ==
  ASSUME NEW S, NEW pr \in [S -> Int], NEW q \in Seq(S), NEW t \in S, SortedByPriority(q, pr)
  PROVE  LET i == InsertPos(q, pr, t)
         IN  \A j \in 1..Len(q) : IF j < i THEN pr[q[j]] <= pr[t] ELSE pr[q[j]] > pr[t]
<1> DEFINE i == InsertPos(q, pr, t)
<1>1. /\ i \in 1..Len(q) + 1
      /\ i = Len(q) + 1 \/ pr[q[i]] > pr[t]
      /\ \A j \in 1..Len(q) : pr[q[j]] > pr[t] => i <= j
  BY InsertPosStops
<1>2. Len(q) \in Nat /\ \A j \in 1..Len(q) : q[j] \in S /\ pr[q[j]] \in Int
  BY LenProperties, ElementOfSeq
<1>3. pr[t] \in Int
  OBVIOUS
<1> HIDE DEF i
<1>4. ASSUME NEW j \in 1..Len(q) PROVE IF j < i THEN pr[q[j]] <= pr[t] ELSE pr[q[j]] > pr[t]
  <2>1. CASE j < i
    BY <1>1, <1>2, <1>3, <2>1
  <2>2. CASE j >= i
    <3>1. i \in 1..Len(q) /\ pr[q[i]] > pr[t]
      BY <1>1, <1>2, <2>2
    <3>2. pr[q[i]] <= pr[q[j]]
      BY <1>2, <2>2, <3>1 DEF SortedByPriority
    <3> QED BY <1>2, <1>3, <2>2, <3>1, <3>2
  <2> QED BY <1>1, <2>1, <2>2
<1> QED BY <1>4 DEF i

LEMMA ReadyInsertSorted ==
  ASSUME NEW S, NEW pr \in [S -> Int], NEW q \in Seq(S), NEW t \in S, SortedByPriority(q, pr)
  PROVE  SortedByPriority(ReadyInsert(q, pr, t), pr)
<1> DEFINE i == InsertPos(q, pr, t)
           r == ReadyInsert(q, pr, t)
           at(j) == IF j < i THEN j ELSE j - 1
<1>0. Inserted(r, q, i, t)
  BY ReadyInsertElements
<1>2. \A j \in 1..Len(q) : IF j < i THEN pr[q[j]] <= pr[t] ELSE pr[q[j]] > pr[t]
  BY InsertPosSplits
<1>3. pr[t] \in Int /\ \A j \in 1..Len(q) : pr[q[j]] \in Int
  BY ElementOfSeq
<1> HIDE DEF i, r
<1>1. /\ Len(q) \in Nat /\ i \in 1..Len(q) + 1 /\ Len(r) = Len(q) + 1
      /\ \A j \in 1..Len(q) + 1 : r[j] = IF j < i THEN q[j] ELSE IF j = i THEN t ELSE q[j - 1]
  BY <1>0 DEF Inserted
<1>4. ASSUME NEW j \in 1..Len(r), j # i PROVE at(j) \in 1..Len(q) /\ r[j] = q[at(j)]
  BY <1>1, <1>4
<1>5. ASSUME NEW j \in 1..Len(r), NEW k \in 1..Len(r), j < k PROVE pr[r[j]] <= pr[r[k]]
  <2>1. CASE j # i /\ k # i
    <3>1. at(j) < at(k)
      BY <1>1, <1>5, <2>1
    <3> QED BY <1>4, <2>1, <3>1 DEF SortedByPriority
  <2>2. CASE j = i
    <3>1. r[j] = t /\ at(k) = k - 1
      BY <1>1, <1>5, <2>2
    <3>2. at(k) \in 1..Len(q) /\ r[k] = q[at(k)]
      BY <1>1, <1>4, <1>5, <2>2
    <3>3. ~(at(k) < i)
      BY <1>1, <1>5, <2>2, <3>1
    <3> HIDE DEF at
    <3>4. pr[q[at(k)]] > pr[t] /\ pr[q[at(k)]] \in Int
      BY <1>2, <1>3, <3>2, <3>3
    <3> QED BY <1>3, <3>1, <3>2, <3>4
  <2>3. CASE k = i
    <3>1. r[k] = t /\ at(j) = j
      BY <1>1, <1>5, <2>3
    <3>2. at(j) \in 1..Len(q) /\ r[j] = q[at(j)]
      BY <1>1, <1>4, <1>5, <2>3
    <3> QED BY <1>2, <1>5, <2>3, <3>1, <3>2
  <2> QED BY <2>1, <2>2, <2>3
<1> QED BY <1>5 DEF SortedByPriority, r

(* Queue r is queue q without the element at k. *)
Removed(r, q, k) ==
  /\ Len(q) \in Nat /\ k \in 1..Len(q) /\ Len(r) = Len(q) - 1
  /\ \A j \in 1..Len(q) - 1 : r[j] = IF j < k THEN q[j] ELSE q[j + 1]

LEMMA ReadyRemoveElements ==
  ASSUME NEW S, NEW q \in Seq(S), NEW t, Contains(q, t)
  PROVE  \E k \in 1..Len(q) : q[k] = t /\ Removed(ReadyRemove(q, t), q, k)
<1> DEFINE T == {i \in 1..Len(q) : q[i] = t}
           k == Min(T)
<1>1. T \subseteq Nat /\ T # {}
  BY DEF Contains
<1>2. \E x \in T : \A y \in T : x <= y
  <2> HIDE DEF T
  <2> QED BY <1>1, LeastNatural
<1>3. k \in T
  BY <1>2 DEF Min
<1>4. ReadyRemove(q, t) = RemoveAt(q, k)
  BY <1>1 DEF ReadyRemove, RemoveFirst, SelectInSeq
<1> HIDE DEF k
<1>5. k \in 1..Len(q) /\ q[k] = t
  BY <1>3
<1>6. Removed(RemoveAt(q, k), q, k)
  BY <1>5, RemoveAtElements, LenProperties DEF Removed
<1> QED BY <1>4, <1>5, <1>6

LEMMA TailRemoves ==
  ASSUME NEW S, NEW q \in Seq(S), q # <<>>
  PROVE  Removed(Tail(q), q, 1) /\ Head(q) = q[1] /\ Contains(q, Head(q))
<1>1. Len(q) \in Nat /\ Len(q) # 0
  BY EmptySeq, LenProperties
<1>2. Head(q) = q[1]
  OBVIOUS
<1> QED BY <1>1, <1>2, HeadTailProperties DEF Removed, Contains

LEMMA RemovedContains ==
  ASSUME NEW r, NEW q, NEW k, Removed(r, q, k), NoRepeats(q), NEW x
  PROVE  Contains(r, x) <=> (x # q[k] /\ Contains(q, x))
<1> USE DEF Removed
<1>1. ASSUME NEW j \in 1..Len(r), r[j] = x PROVE x # q[k] /\ Contains(q, x)
  <2>1. CASE j < k
    <3>1. j \in 1..Len(q) /\ q[j] = x
      BY <1>1, <2>1
    <3> QED BY <2>1, <3>1 DEF NoRepeats, Contains
  <2>2. CASE j >= k
    <3>1. j + 1 \in 1..Len(q) /\ q[j + 1] = x
      BY <1>1, <2>2
    <3> QED BY <2>2, <3>1 DEF NoRepeats, Contains
  <2> QED BY <2>1, <2>2
<1>2. ASSUME NEW j \in 1..Len(q), q[j] = x, x # q[k] PROVE \E i \in 1..Len(r) : r[i] = x
  <2>1. CASE j < k
    BY <1>2, <2>1
  <2>2. CASE j > k
    <3>1. j - 1 \in 1..Len(r) /\ r[j - 1] = q[(j - 1) + 1] /\ (j - 1) + 1 = j
      BY <2>2
    <3> QED BY <1>2, <3>1
  <2> QED BY <1>2, <2>1, <2>2
<1> QED BY <1>1, <1>2 DEF Contains

LEMMA RemovedNoRepeats ==
  ASSUME NEW r, NEW q, NEW k, Removed(r, q, k), NoRepeats(q)
  PROVE  NoRepeats(r)
<1> DEFINE at(j) == IF j < k THEN j ELSE j + 1
<1>1. ASSUME NEW j \in 1..Len(r) PROVE at(j) \in 1..Len(q) /\ r[j] = q[at(j)]
  BY DEF Removed
<1>2. \A j, l \in 1..Len(r) : j # l => at(j) # at(l)
  BY DEF Removed
<1> QED BY <1>1, <1>2 DEF NoRepeats

LEMMA RemovedSorted ==
  ASSUME NEW r, NEW q, NEW k, Removed(r, q, k), NEW pr, SortedByPriority(q, pr)
  PROVE  SortedByPriority(r, pr)
<1> DEFINE at(j) == IF j < k THEN j ELSE j + 1
<1>1. ASSUME NEW j \in 1..Len(r) PROVE at(j) \in 1..Len(q) /\ r[j] = q[at(j)]
  BY DEF Removed
<1>2. \A j, l \in 1..Len(r) : j < l => at(j) < at(l)
  BY DEF Removed
<1> QED BY <1>1, <1>2 DEF SortedByPriority

(* Appending a thread, as a semaphore's queue does. *)
LEMMA AppendContains ==
  ASSUME NEW S, NEW q \in Seq(S), NEW t \in S, NEW x
  PROVE  Contains(Append(q, t), x) <=> (x = t \/ Contains(q, x))
<1>1. /\ Len(q) \in Nat /\ Len(Append(q, t)) = Len(q) + 1 /\ Append(q, t)[Len(q) + 1] = t
      /\ \A i \in 1..Len(q) : Append(q, t)[i] = q[i]
  BY AppendProperties, LenProperties
<1>2. 1..(Len(q) + 1) = (1..Len(q)) \union {Len(q) + 1}
  BY <1>1
<1> QED BY <1>1, <1>2 DEF Contains

LEMMA AppendNoRepeats ==
  ASSUME NEW S, NEW q \in Seq(S), NEW t \in S, NoRepeats(q), ~Contains(q, t)
  PROVE  NoRepeats(Append(q, t))
<1>1. /\ Len(q) \in Nat /\ Len(Append(q, t)) = Len(q) + 1 /\ Append(q, t)[Len(q) + 1] = t
      /\ \A i \in 1..Len(q) : Append(q, t)[i] = q[i]
  BY AppendProperties, LenProperties
<1> QED BY <1>1 DEF Contains, NoRepeats

(* The head of a sorted queue has the highest priority in it. *)
LEMMA HeadIsFirst ==
  ASSUME NEW S, NEW pr \in [S -> Int], NEW q \in Seq(S), q # <<>>, SortedByPriority(q, pr),
         NEW x, Contains(q, x)
  PROVE  pr[Head(q)] <= pr[x]
<1>1. Len(q) \in Nat /\ Head(q) = q[1]
  BY LenProperties
<1>2. PICK i \in 1..Len(q) : q[i] = x
  BY DEF Contains
<1>3. pr[q[1]] \in Int
  BY <1>1, <1>2, ElementOfSeq
<1> QED BY <1>1, <1>2, <1>3 DEF SortedByPriority

-----------------------------------------------------------------------------
(* First in, first out: the threads of O, which were queued before, are    *)
(* ahead of the others of their priority.                                  *)
OldAhead(q, pr, O) ==
  \A i, j \in 1..Len(q) : (pr[q[i]] = pr[q[j]] /\ q[i] \in O /\ q[j] \notin O) => i < j

LEMMA RemovedOldAhead ==
  ASSUME NEW r, NEW q, NEW k, Removed(r, q, k), NEW pr, NEW O, OldAhead(q, pr, O)
  PROVE  OldAhead(r, pr, O)
<1> DEFINE at(j) == IF j < k THEN j ELSE j + 1
<1>1. ASSUME NEW j \in 1..Len(r) PROVE at(j) \in 1..Len(q) /\ r[j] = q[at(j)]
  BY DEF Removed
<1>2. \A j, l \in 1..Len(r) : at(j) < at(l) => j < l
  BY DEF Removed
<1> QED BY <1>1, <1>2 DEF OldAhead

(* A newcomer is queued behind all of its priority. *)
LEMMA InsertedOldAhead ==
  ASSUME NEW S, NEW pr \in [S -> Int], NEW q \in Seq(S), NEW t \in S, SortedByPriority(q, pr),
         NEW O, t \notin O, OldAhead(q, pr, O)
  PROVE  OldAhead(ReadyInsert(q, pr, t), pr, O)
<1> DEFINE i == InsertPos(q, pr, t)
           r == ReadyInsert(q, pr, t)
           at(j) == IF j < i THEN j ELSE j - 1
<1>0. Inserted(r, q, i, t)
  BY ReadyInsertElements
<1>1. \A j \in 1..Len(q) : IF j < i THEN pr[q[j]] <= pr[t] ELSE pr[q[j]] > pr[t]
  BY InsertPosSplits
<1>2. pr[t] \in Int /\ \A j \in 1..Len(q) : pr[q[j]] \in Int
  BY ElementOfSeq
<1> HIDE DEF i, r
<1>3. ASSUME NEW j \in 1..Len(r), j # i PROVE at(j) \in 1..Len(q) /\ r[j] = q[at(j)]
  BY <1>0, <1>3 DEF Inserted
<1>4. i \in 1..Len(r) /\ r[i] = t
  BY <1>0 DEF Inserted
<1>5. ASSUME NEW j \in 1..Len(r), NEW l \in 1..Len(r),
             pr[r[j]] = pr[r[l]], r[j] \in O, r[l] \notin O
      PROVE  j < l
  <2>1. j # i
    BY <1>4, <1>5
  <2>2. CASE l = i
    <3>1. pr[q[at(j)]] = pr[t] /\ at(j) \in 1..Len(q)
      BY <1>3, <1>4, <1>5, <2>1, <2>2
    <3>2. at(j) < i
      <4> HIDE DEF at
      <4> QED BY <1>1, <1>2, <3>1
    <3> QED BY <1>4, <2>1, <2>2, <3>2
  <2>3. CASE l # i
    <3>1. /\ at(j) \in 1..Len(q) /\ r[j] = q[at(j)]
          /\ at(l) \in 1..Len(q) /\ r[l] = q[at(l)]
      BY <1>3, <2>1, <2>3
    <3>2. at(j) < at(l)
      <4> HIDE DEF at
      <4>1. /\ pr[q[at(j)]] = pr[q[at(l)]] /\ q[at(j)] \in O /\ q[at(l)] \notin O
        BY <1>5, <3>1
      <4> QED BY <3>1, <4>1 DEF OldAhead
    <3> QED BY <1>4, <3>2
  <2> QED BY <2>2, <2>3
<1> QED BY <1>5 DEF OldAhead, r

-----------------------------------------------------------------------------
(* The kernel. *)

Hosts == [Thread -> [at : HostAt, on : Nat]]

LEMMA MainIsThread == Main \in Thread /\ Thread \subseteq Nat
  BY ThreadAssumption

-----------------------------------------------------------------------------
(* Type correctness. *)

LEMMA AtType ==
  ASSUME NEW place \in HostAt, NEW on \in Thread
  PROVE  At(place, on) \in [at : HostAt, on : Nat]
BY MainIsThread DEF At

(* The scheduler's part of the state is well typed. *)
SchedTypeOK ==
  /\ status \in [Thread -> Status]
  /\ ready \in Seq(Thread)
  /\ current \in Thread
  /\ host \in Hosts
  /\ allowed \in [Thread -> BOOLEAN]

(* A count that goes up by one is a count. *)
LEMMA RaisedType ==
  ASSUME NEW f \in [Thread -> Nat], NEW t \in Thread
  PROVE  [f EXCEPT ![t] = @ + 1] \in [Thread -> Nat]
<1>1. f[t] + 1 \in Nat
  OBVIOUS
<1> QED BY <1>1

(* block_current leaves the scheduler well typed. *)
LEMMA BlockCurrentType ==
  ASSUME TypeOK, NEW self \in Thread, NEW st \in Status, NEW w \in Wait,
         NEW rd \in Seq(Thread), BlockCurrent(self, st, w, rd)
  PROVE  SchedTypeOK' /\ wait' \in [Thread -> Wait] /\ quit' \in BOOLEAN
<1>1. wait' \in [Thread -> Wait] /\ quit' \in BOOLEAN
  BY DEF TypeOK, BlockCurrent
<1>2. CASE rd = <<>>
  BY <1>2 DEF TypeOK, BlockCurrent, SchedTypeOK, Hosts
<1>3. CASE rd # <<>>
  <2>1. Head(rd) \in Thread /\ Tail(rd) \in Seq(Thread)
    BY <1>3, HeadTailProperties
  <2>2. At("switch", current) \in [at : HostAt, on : Nat]
    BY AtType DEF TypeOK, HostAt
  <2>3. /\ status' = [status EXCEPT ![current] = st, ![Head(rd)] = "RUN"]
        /\ ready' = Tail(rd)
        /\ current' = Head(rd)
        /\ \/ UNCHANGED <<host, allowed>>
           \/ SwitchTo(self, Head(rd), current, "switch", host, allowed)
    BY <1>3 DEF BlockCurrent
  <2>4. status' \in [Thread -> Status]
    BY <2>3 DEF TypeOK, Status
  <2>5. host \in Hosts /\ allowed \in [Thread -> BOOLEAN] /\ current \in Thread
    BY DEF TypeOK, Hosts
  <2>6. host' \in Hosts
    BY <2>2, <2>3, <2>5 DEF SwitchTo, Hosts
  <2>7. allowed' \in [Thread -> BOOLEAN]
    BY <2>3, <2>5 DEF SwitchTo
  <2>8. ready' \in Seq(Thread) /\ current' \in Thread
    BY <2>1, <2>3
  <2> QED BY <1>1, <2>4, <2>6, <2>7, <2>8 DEF SchedTypeOK
<1> QED BY <1>1, <1>2, <1>3

(* maybe_preempt leaves the scheduler well typed. *)
LEMMA MaybePreemptFromType ==
  ASSUME TypeOK, NEW self \in Thread, NEW st \in [Thread -> Status],
         NEW rd \in Seq(Thread), NEW hs \in Hosts, NEW al \in [Thread -> BOOLEAN],
         MaybePreemptFrom(self, st, rd, hs, al)
  PROVE  SchedTypeOK'
<1> DEFINE stays == \/ destroying
                    \/ dispatchDisabled' > 0
                    \/ rd = <<>>
                    \/ prio'[Head(rd)] >= prio'[current]
<1>1. CASE stays
  BY <1>1 DEF TypeOK, MaybePreemptFrom, SchedTypeOK
<1>2. CASE ~stays
  <2>1. Head(rd) \in Thread /\ Tail(rd) \in Seq(Thread)
    BY <1>2, HeadTailProperties
  <2>2. ReadyInsert(Tail(rd), prio', current) \in Seq(Thread)
    BY <2>1, ReadyInsertType DEF TypeOK
  <2>3. At("switch", current) \in [at : HostAt, on : Nat]
    BY AtType DEF TypeOK, HostAt
  <2>4. /\ status' = [st EXCEPT ![current] = "READY", ![Head(rd)] = "RUN"]
        /\ ready' = ReadyInsert(Tail(rd), prio', current)
        /\ current' = Head(rd)
        /\ SwitchTo(self, Head(rd), current, "switch", hs, al)
    BY <1>2 DEF MaybePreemptFrom
  <2>5. status' \in [Thread -> Status]
    BY <2>4 DEF Status
  <2>6. host' \in Hosts /\ allowed' \in [Thread -> BOOLEAN]
    BY <2>3, <2>4 DEF SwitchTo, Hosts
  <2> QED BY <2>1, <2>2, <2>4, <2>5, <2>6 DEF SchedTypeOK
<1> QED BY <1>1, <1>2

LEMMA MaybePreemptType ==
  ASSUME TypeOK, NEW self \in Thread, NEW st \in [Thread -> Status],
         NEW rd \in Seq(Thread), MaybePreempt(self, st, rd)
  PROVE  SchedTypeOK'
BY MaybePreemptFromType DEF TypeOK, MaybePreempt, Hosts

(* Making thread t ready, as most calls do. *)
LEMMA MakeReadyType ==
  ASSUME TypeOK, NEW t \in Thread, NEW rd \in Seq(Thread), NEW pr
  PROVE  /\ [status EXCEPT ![t] = "READY"] \in [Thread -> Status]
         /\ ReadyInsert(rd, pr, t) \in Seq(Thread)
BY ReadyInsertType DEF TypeOK, Status

LEMMA WaitTypes ==
  /\ NotWaiting \in Wait
  /\ WaitSleep \in Wait
  /\ \A s \in Sema : WaitOnSema(s) \in Wait
  /\ \A t \in Thread : WaitOnJoin(t) \in Wait
BY ThreadAssumption, SemaAssumption DEF NotWaiting, WaitSleep, WaitOnSema, WaitOnJoin, Wait

(* The hand-over of an ending thread leaves the scheduler well typed. *)
LEMMA HandOffType ==
  ASSUME TypeOK, NEW self \in Thread, NEW t \in Nat, NEW switching \in HostAt,
         NEW parked \in HostAt, HandOffAndPark(self, t, switching, parked)
  PROVE  SchedTypeOK'
<1>1. At(switching, t) \in [at : HostAt, on : Nat] /\ At(parked, t) \in [at : HostAt, on : Nat]
  BY DEF At
<1>2. CASE ready = <<>>
  <2>1. host' \in Hosts
    BY <1>1, <1>2 DEF TypeOK, HandOffAndPark, Hosts
  <2> QED BY <1>2, <2>1 DEF TypeOK, HandOffAndPark, SchedTypeOK
<1>3. CASE ready # <<>>
  <2>1. Head(ready) \in Thread /\ Tail(ready) \in Seq(Thread)
    BY <1>3, HeadTailProperties DEF TypeOK
  <2>2. status' \in [Thread -> Status] /\ ready' \in Seq(Thread) /\ current' \in Thread
    BY <1>3, <2>1 DEF TypeOK, HandOffAndPark, Status
  <2>3. host' \in Hosts
    BY <1>1, <1>3 DEF TypeOK, HandOffAndPark, SwitchTo, Hosts
  <2>4. allowed' \in [Thread -> BOOLEAN]
    BY <1>3, <2>1 DEF TypeOK, HandOffAndPark, SwitchTo
  <2> QED BY <2>2, <2>3, <2>4 DEF SchedTypeOK
<1> QED BY <1>2, <1>3

LEMMA InitType == Init => TypeOK
<1> SUFFICES ASSUME Init PROVE TypeOK
  OBVIOUS
<1>1. \A t \in Thread : At("guest", t) \in [at : HostAt, on : Nat] /\ At("none", t) \in [at : HostAt, on : Nat]
  BY AtType DEF HostAt
<1>2. 0 \in Priority
  BY PriorityAssumption
<1>3. <<>> \in Seq(Thread)
  BY EmptySeq
<1>4. /\ status \in [Thread -> Status] /\ wait \in [Thread -> Wait] /\ current \in Thread
      /\ host \in [Thread -> [at : HostAt, on : Nat]]
  BY <1>1, MainIsThread, WaitTypes DEF Init, Status
<1>5. /\ ready \in Seq(Thread) /\ waiters \in [Sema -> Seq(Thread)]
      /\ prio \in [Thread -> Priority]
  BY <1>2, <1>3 DEF Init
<1>6. /\ wakeups \in [Thread -> Nat] /\ suspends \in [Thread -> Nat] /\ dispatchDisabled \in Nat
      /\ count \in [Sema -> Int] /\ maxCount \in [Sema -> Int]
  BY DEF Init
<1>7. /\ semaState \in [Sema -> {"none", "live", "deleted"}]
      /\ allowed \in [Thread -> BOOLEAN] /\ exitReq \in [Thread -> BOOLEAN]
      /\ quit \in BOOLEAN /\ destroying \in BOOLEAN
  BY DEF Init
<1> QED BY <1>4, <1>5, <1>6, <1>7 DEF TypeOK

LEMMA DecrementedType == \A n \in Nat : Decremented(n) \in Nat
BY DEF Decremented

LEMMA LaunchType ==
  ASSUME TypeOK, NEW self \in Thread, NEW t \in Thread, Launch(self, t)
  PROVE  TypeOK'
<1> DEFINE hs == [host EXCEPT ![self] = At("guest", self), ![t] = At("start", t)]
           al == [allowed EXCEPT ![t] = FALSE]
<1>1. hs \in Hosts /\ al \in [Thread -> BOOLEAN]
  <2>1. At("guest", self) \in [at : HostAt, on : Nat] /\ At("start", t) \in [at : HostAt, on : Nat]
    BY AtType DEF HostAt
  <2> QED BY <2>1 DEF TypeOK, Hosts
<1>2. SchedTypeOK'
  <2>1. MaybePreemptFrom(self, [status EXCEPT ![t] = "READY"], ReadyInsert(ready, prio, t), hs, al)
    BY DEF Launch
  <2>2. [status EXCEPT ![t] = "READY"] \in [Thread -> Status] /\ ReadyInsert(ready, prio, t) \in Seq(Thread)
    BY MakeReadyType DEF TypeOK
  <2> HIDE DEF hs, al
  <2> QED BY <1>1, <2>1, <2>2, MaybePreemptFromType
<1> QED BY <1>2, WaitTypes DEF Launch, TypeOK, SchedTypeOK, Hosts, attrVars, ctlVars, semaVars

(* Every call of the scheduler keeps the types. *)
LEMMA ThreadCallType ==
  ASSUME TypeOK, NEW self \in Thread, ThreadCall(self)
  PROVE  TypeOK'
<1> USE MainIsThread
<1>1. ASSUME NEW t \in Thread, NEW p \in Priority, CreateThread(self, t, p) PROVE TypeOK'
  BY <1>1 DEF CreateThread, TypeOK, Status, ctlVars, semaVars, hostVars
<1>2. ASSUME NEW t \in Thread, StartThread(self, t) PROVE TypeOK'
  <2>1. CASE Joinable(t)
    <3>1. At("joinStart", t) \in [at : HostAt, on : Nat]
      BY AtType DEF HostAt
    <3> QED BY <1>2, <2>1, <3>1 DEF StartThread, TypeOK, schedVars, attrVars, ctlVars, semaVars
  <2>2. CASE ~Joinable(t)
    BY <1>2, <2>2, LaunchType DEF StartThread
  <2> QED BY <2>1, <2>2
<1>3. ASSUME ExitThread(self) PROVE TypeOK'
  <2>1. At("exitWake", current) \in [at : HostAt, on : Nat]
    BY AtType DEF HostAt, TypeOK
  <2>2. CASE current = Main
    BY <1>3, <2>2 DEF ExitThread, TypeOK, schedVars, attrVars, semaVars, hostVars
  <2>3. CASE current # Main
    <3>1. /\ status' = [status EXCEPT ![current] = "DORMANT"]
          /\ host' = [host EXCEPT ![self] = At("exitWake", current)]
      BY <1>3, <2>3 DEF ExitThread
    <3>2. status' \in [Thread -> Status]
      BY <3>1 DEF TypeOK, Status
    <3>3. host' \in Hosts
      BY <2>1, <3>1 DEF TypeOK, Hosts
    <3> QED BY <1>3, <2>3, <3>2, <3>3 DEF ExitThread, TypeOK, Hosts, attrVars, ctlVars, semaVars
  <2> QED BY <2>2, <2>3
<1>4. ASSUME FinishThread(self) PROVE TypeOK'
  <2>1. At("finWake", self) \in [at : HostAt, on : Nat]
    BY AtType DEF HostAt
  <2> QED BY <1>4, <2>1, WaitTypes DEF FinishThread, TypeOK, Status, attrVars, ctlVars, semaVars
<1>5. ASSUME NEW t \in Thread, NEW p \in Priority, ChangeThreadPriority(self, t, p) PROVE TypeOK'
  <2>1. ReadyInsert(ReadyRemove(ready, t), prio', t) \in Seq(Thread)
    BY ReadyRemoveType, ReadyInsertType DEF TypeOK
  <2>2. SchedTypeOK'
    BY <1>5, <2>1, MaybePreemptType DEF ChangeThreadPriority, TypeOK
  <2> QED BY <1>5, <2>2 DEF ChangeThreadPriority, TypeOK, SchedTypeOK, Hosts, ctlVars, semaVars
<1>6. ASSUME NEW p \in Priority, RotateThreadReadyQueue(self, p) PROVE TypeOK'
  <2>1. PICK i \in 1..Len(ready) :
          /\ status' = [status EXCEPT ![current] = "READY", ![ready[i]] = "RUN"]
          /\ ready' = ReadyInsert(ReadyRemove(ready, ready[i]), prio, current)
          /\ current' = ready[i]
          /\ SwitchTo(self, ready[i], current, "switch", host, allowed)
    BY <1>6 DEF RotateThreadReadyQueue
  <2>2. ready[i] \in Thread
    BY ElementOfSeq DEF TypeOK
  <2>3. ready' \in Seq(Thread)
    BY <2>1, ReadyRemoveType, ReadyInsertType DEF TypeOK
  <2>4. At("switch", current) \in [at : HostAt, on : Nat]
    BY AtType DEF HostAt, TypeOK
  <2> QED BY <1>6, <2>1, <2>2, <2>3, <2>4
          DEF RotateThreadReadyQueue, SwitchTo, TypeOK, Status, attrVars, ctlVars, semaVars
<1>7. ASSUME SleepThread(self) PROVE TypeOK'
  <2>1. CASE wakeups[current] > 0
    <3>1. wakeups' \in [Thread -> Nat]
      <4>1. wakeups' = [wakeups EXCEPT ![current] = @ - 1]
        BY <1>7, <2>1 DEF SleepThread
      <4>2. wakeups \in [Thread -> Nat] /\ current \in Thread
        BY DEF TypeOK
      <4>3. wakeups[current] - 1 \in Nat
        BY <2>1, <4>2
      <4> QED BY <4>1, <4>2, <4>3
    <3> QED BY <1>7, <2>1, <3>1 DEF SleepThread, TypeOK, schedVars, semaVars
  <2>2. CASE ~(wakeups[current] > 0)
    <3>1. SchedTypeOK' /\ wait' \in [Thread -> Wait] /\ quit' \in BOOLEAN
      BY <1>7, <2>2, WaitTypes, BlockCurrentType DEF SleepThread, TypeOK, Status
    <3> QED BY <1>7, <2>2, <3>1 DEF SleepThread, TypeOK, SchedTypeOK, Hosts, semaVars
  <2> QED BY <2>1, <2>2
<1>8. ASSUME NEW t \in Thread, WakeupThread(self, t) PROVE TypeOK'
  <2>1. SchedTypeOK'
    <3>1. [status EXCEPT ![t] = "READY"] \in [Thread -> Status] /\ ReadyInsert(ready, prio, t) \in Seq(Thread)
      BY MakeReadyType DEF TypeOK
    <3>2. status \in [Thread -> Status] /\ ready \in Seq(Thread)
      BY DEF TypeOK
    <3> QED BY <1>8, <3>1, <3>2, MaybePreemptType DEF WakeupThread
  <2>2. wait' \in [Thread -> Wait]
    BY <1>8, WaitTypes DEF WakeupThread, TypeOK
  <2>3. wakeups' \in [Thread -> Nat]
    <3>1. CASE status[t] = "WAIT" /\ wait[t] = WaitSleep
      BY <1>8, <3>1 DEF WakeupThread, TypeOK
    <3>2. CASE ~(status[t] = "WAIT" /\ wait[t] = WaitSleep)
      <4>1. wakeups' = [wakeups EXCEPT ![t] = @ + 1]
        BY <1>8, <3>2 DEF WakeupThread
      <4>2. wakeups \in [Thread -> Nat]
        BY DEF TypeOK
      <4> QED BY <4>1, <4>2, RaisedType
    <3> QED BY <3>1, <3>2
  <2> QED BY <1>8, <2>1, <2>2, <2>3 DEF WakeupThread, TypeOK, SchedTypeOK, Hosts, ctlVars, semaVars
<1>9. ASSUME NEW t \in Thread, CancelWakeupThread(self, t) PROVE TypeOK'
  <2>1. wakeups' \in [Thread -> Nat]
    BY <1>9 DEF CancelWakeupThread, TypeOK
  <2> QED BY <1>9, <2>1 DEF CancelWakeupThread, TypeOK, schedVars, ctlVars, semaVars, hostVars
<1>10. ASSUME NEW t \in Thread, SuspendThread(self, t) PROVE TypeOK'
  <2> DEFINE rd == IF status[t] = "READY" THEN ReadyRemove(ready, t) ELSE ready
  <2>1. rd \in Seq(Thread)
    BY ReadyRemoveType DEF TypeOK
  <2>2. SchedTypeOK' /\ wait' \in [Thread -> Wait] /\ quit' \in BOOLEAN
    <3>1. CASE t = current /\ suspends[t] = 0
      <4>1. BlockCurrent(self, "SUSPEND", WaitSleep, rd)
        BY <1>10, <3>1 DEF SuspendThread
      <4> HIDE DEF rd
      <4> QED BY <2>1, <4>1, WaitTypes, BlockCurrentType DEF Status
    <3>2. CASE ~(t = current /\ suspends[t] = 0)
      BY <1>10, <2>1, <3>2 DEF SuspendThread, TypeOK, SchedTypeOK, Hosts, Status
    <3> QED BY <3>1, <3>2
  <2>3. suspends' \in [Thread -> Nat]
    <3>1. suspends' = [suspends EXCEPT ![t] = @ + 1]
      BY <1>10 DEF SuspendThread
    <3>2. suspends \in [Thread -> Nat]
      BY DEF TypeOK
    <3> QED BY <3>1, <3>2, RaisedType
  <2> QED BY <1>10, <2>2, <2>3 DEF SuspendThread, TypeOK, SchedTypeOK, Hosts, semaVars
<1>11. ASSUME NEW t \in Thread, ResumeThread(self, t) PROVE TypeOK'
  <2>1. SchedTypeOK'
    <3>1. [status EXCEPT ![t] = "READY"] \in [Thread -> Status] /\ ReadyInsert(ready, prio, t) \in Seq(Thread)
      BY MakeReadyType DEF TypeOK
    <3>2. status \in [Thread -> Status] /\ ready \in Seq(Thread)
      BY DEF TypeOK
    <3> QED BY <1>11, <3>1, <3>2, MaybePreemptType DEF ResumeThread
  <2>2. suspends' \in [Thread -> Nat]
    BY <1>11, DecrementedType DEF ResumeThread, TypeOK
  <2> QED BY <1>11, <2>1, <2>2 DEF ResumeThread, TypeOK, SchedTypeOK, Hosts, ctlVars, semaVars
<1>12. ASSUME NEW t \in Thread, JoinThread(self, t) PROVE TypeOK'
  <2>1. SchedTypeOK' /\ wait' \in [Thread -> Wait] /\ quit' \in BOOLEAN
    BY <1>12, WaitTypes, BlockCurrentType DEF JoinThread, TypeOK, Status
  <2> QED BY <1>12, <2>1 DEF JoinThread, TypeOK, SchedTypeOK, Hosts, attrVars, semaVars
<1>13. ASSUME DisableDispatchThread(self) PROVE TypeOK'
  <2>1. dispatchDisabled' \in Nat
    BY <1>13 DEF DisableDispatchThread, TypeOK
  <2> QED BY <1>13, <2>1 DEF DisableDispatchThread, TypeOK, schedVars, attrVars, semaVars, hostVars
<1>14. ASSUME EnableDispatchThread(self) PROVE TypeOK'
  <2>1. SchedTypeOK'
    BY <1>14, MaybePreemptType DEF EnableDispatchThread, TypeOK
  <2>2. dispatchDisabled' \in Nat
    BY <1>14, DecrementedType DEF EnableDispatchThread, TypeOK
  <2> QED BY <1>14, <2>1, <2>2 DEF EnableDispatchThread, TypeOK, SchedTypeOK, Hosts, attrVars, semaVars
<1>15. ASSUME KExit(self) PROVE TypeOK'
  BY <1>15 DEF KExit, TypeOK, schedVars, attrVars, semaVars, hostVars
<1> QED BY <1>1, <1>2, <1>3, <1>4, <1>5, <1>6, <1>7, <1>8, <1>9, <1>10, <1>11, <1>12, <1>13, <1>14, <1>15
        DEF ThreadCall

(* Every semaphore call keeps the types. *)
LEMMA SemaCallType ==
  ASSUME TypeOK, NEW self \in Thread, SemaCall(self)
  PROVE  TypeOK'
<1>1. ASSUME NEW s \in Sema, NEW p \in SemaInit, CreateSema(self, s, p) PROVE TypeOK'
  <2>1. p[1] \in Int /\ p[2] \in Int
    BY SemaInitAssumption
  <2> QED BY <1>1, <2>1 DEF CreateSema, TypeOK, schedVars, attrVars, ctlVars, hostVars
<1>2. ASSUME NEW s \in Sema, SignalSema(self, s) PROVE TypeOK'
  <2>1. CASE waiters[s] # <<>>
    <3>1. FirstWaiter(s) \in Thread /\ OtherWaiters(s) \in Seq(Thread)
      <4>1. waiters[s] \in Seq(Thread)
        BY DEF TypeOK
      <4> QED BY <2>1, <4>1, HeadTailProperties DEF FirstWaiter, OtherWaiters
    <3>2. SchedTypeOK'
      <4>1. /\ [status EXCEPT ![FirstWaiter(s)] = "READY"] \in [Thread -> Status]
            /\ ReadyInsert(ready, prio, FirstWaiter(s)) \in Seq(Thread)
        BY <3>1, MakeReadyType DEF TypeOK
      <4> QED BY <1>2, <2>1, <4>1, MaybePreemptType DEF SignalSema
    <3> QED BY <1>2, <2>1, <3>1, <3>2, WaitTypes
            DEF SignalSema, TypeOK, SchedTypeOK, Hosts, attrVars, ctlVars
  <2>2. CASE waiters[s] = <<>>
    <3>1. SchedTypeOK'
      BY <1>2, <2>2, MaybePreemptType DEF SignalSema, TypeOK
    <3>2. count' \in [Sema -> Int]
      BY <1>2, <2>2 DEF SignalSema, TypeOK
    <3> QED BY <1>2, <2>2, <3>1, <3>2 DEF SignalSema, TypeOK, SchedTypeOK, Hosts, attrVars, ctlVars
  <2> QED BY <2>1, <2>2
<1>3. ASSUME NEW s \in Sema, WaitSema(self, s) PROVE TypeOK'
  <2>1. CASE HasToken(s)
    <3>1. count' \in [Sema -> Int]
      BY <1>3, <2>1 DEF WaitSema, TypeOK
    <3> QED BY <1>3, <2>1, <3>1 DEF WaitSema, TypeOK, schedVars, attrVars
  <2>2. CASE ~HasToken(s)
    <3>1. SchedTypeOK' /\ wait' \in [Thread -> Wait] /\ quit' \in BOOLEAN
      BY <1>3, <2>2, WaitTypes, BlockCurrentType DEF WaitSema, TypeOK, Status
    <3>2. waiters' \in [Sema -> Seq(Thread)]
      <4>1. waiters[s] \in Seq(Thread) /\ current \in Thread
        BY DEF TypeOK
      <4>2. Append(waiters[s], current) \in Seq(Thread)
        BY <4>1, AppendProperties
      <4> QED BY <1>3, <2>2, <4>2 DEF WaitSema, TypeOK
    <3> QED BY <1>3, <2>2, <3>1, <3>2 DEF WaitSema, TypeOK, SchedTypeOK, Hosts, attrVars
  <2> QED BY <2>1, <2>2
<1>4. ASSUME NEW s \in Sema, PollSema(self, s) PROVE TypeOK'
  BY <1>4 DEF PollSema, TypeOK, schedVars, attrVars, ctlVars, hostVars
<1> QED BY <1>1, <1>2, <1>3, <1>4 DEF SemaCall

(* Every step of a host keeps the types. *)
LEMMA HostStepType ==
  ASSUME TypeOK, NEW self \in Thread, HostStep(self)
  PROVE  TypeOK'
<1>1. ASSUME NEW place \in {"guest", "finPark"}, TakeBaton(self, place) PROVE TypeOK'
  <2>1. At(place, host[self].on) \in [at : HostAt, on : Nat]
    BY DEF At, TypeOK, HostAt
  <2>2. host' \in Hosts
    BY <1>1, <2>1 DEF TakeBaton, TypeOK, Hosts
  <2>3. allowed' \in [Thread -> BOOLEAN]
    BY <1>1 DEF TakeBaton, TypeOK
  <2> QED BY <1>1, <2>2, <2>3 DEF TakeBaton, TypeOK, Hosts, schedVars, attrVars, ctlVars, semaVars
<1>2. ASSUME WakeJoiner(self) PROVE TypeOK'
  <2>1. PICK o \in Joiners(host[self].on) :
          /\ status' = [status EXCEPT ![o] = "READY"]
          /\ wait' = [wait EXCEPT ![o] = NotWaiting]
          /\ ready' = ReadyInsert(ready, prio, o)
    BY <1>2 DEF WakeJoiner
  <2>2. o \in Thread
    BY DEF Joiners
  <2>3. status' \in [Thread -> Status] /\ ready' \in Seq(Thread)
    BY <2>1, <2>2, MakeReadyType DEF TypeOK
  <2>4. wait' \in [Thread -> Wait]
    BY <2>1, <2>2, WaitTypes DEF TypeOK
  <2> QED BY <1>2, <2>3, <2>4 DEF WakeJoiner, TypeOK, attrVars, ctlVars, semaVars, hostVars
<1>3. ASSUME ExitHandOff(self) PROVE TypeOK'
  <2>1. SchedTypeOK'
    <3>1. host[self].on \in Nat
      BY DEF TypeOK
    <3> QED BY <1>3, <3>1, HandOffType DEF ExitHandOff, HostAt
  <2> QED BY <1>3, <2>1 DEF ExitHandOff, TypeOK, SchedTypeOK, Hosts, attrVars, ctlVars, semaVars
<1>4. ASSUME FinishHandOff(self) PROVE TypeOK'
  <2>1. SchedTypeOK'
    <3>1. CASE current = self
      <4>1. self \in Nat
        BY ThreadAssumption
      <4> QED BY <1>4, <3>1, <4>1, HandOffType DEF FinishHandOff, HostAt
    <3>2. CASE current # self
      <4>1. At("finPark", self) \in [at : HostAt, on : Nat]
        BY AtType DEF HostAt
      <4> QED BY <1>4, <3>2, <4>1 DEF FinishHandOff, TypeOK, SchedTypeOK, Hosts
    <3> QED BY <3>1, <3>2
  <2> QED BY <1>4, <2>1 DEF FinishHandOff, TypeOK, SchedTypeOK, Hosts, attrVars, ctlVars, semaVars
<1> QED BY <1>1, <1>2, <1>3, <1>4
        DEF HostStep, ReturnFromSwitch, BeginThread, ReturnToPark

LEMMA NextType == TypeOK /\ [Next]_vars => TypeOK'
<1> SUFFICES ASSUME TypeOK, [Next]_vars PROVE TypeOK'
  OBVIOUS
<1>1. ASSUME NEW self \in Thread, ThreadCall(self) \/ SemaCall(self) \/ HostStep(self) PROVE TypeOK'
  BY <1>1, ThreadCallType, SemaCallType, HostStepType
<1>2. CASE UNCHANGED vars
  BY <1>2 DEF TypeOK, vars, schedVars, attrVars, ctlVars, semaVars, hostVars
<1> QED BY <1>1, <1>2 DEF Next

(* The kernel's state keeps its types: above all the u32 counts stay at or *)
(* above zero (wakeup_count, suspend_count, m_dispatch_disabled), and the  *)
(* ready and waiter queues hold threads that exist.                        *)
THEOREM TypeCorrect == Spec => []TypeOK
BY InitType, NextType, PTL DEF Spec

-----------------------------------------------------------------------------
(* The baton.  BatonExclusive alone is not inductive: a host that waits in *)
(* switch_to must wait for its own wake-up, and none may have been told to *)
(* exit, or a wake-up meant for one host would start another.              *)

ExecutingAt == {"guest", "exitWake", "finWake", "semaWake", "dtor"}
RefersToItself == {"start", "switch", "exitSwitch", "finSwitch", "exitWake", "finWake"}

OwnPlaces(hs) == \A h \in Thread : hs[h].at \in RefersToItself => hs[h].on = h
NoneToldToExit == \A t \in Thread : ~exitReq[t]
BatonInv == BatonExclusive /\ OwnPlaces(host) /\ NoneToldToExit /\ ~destroying

(* Of the hosts hs only self executes, and no wake-up is on its way. *)
Alone(self, hs, al) ==
  /\ \A h \in Thread : hs[h].at \in ExecutingAt => h = self
  /\ \A t \in Thread : ~al[t]

LEMMA ExecutingIsAlone ==
  ASSUME BatonExclusive, NEW self \in Thread, host[self].at \in ExecutingAt
  PROVE  self = current /\ Alone(self, host, allowed)
BY DEF BatonExclusive, Executing, InFlight, Alone, ExecutingAt

(* The caller of switch_to gives up the baton. *)
LEMMA SwitchToBaton ==
  ASSUME NEW self \in Thread, NEW target \in Thread, NEW hs \in Hosts,
         NEW al \in [Thread -> BOOLEAN], NEW place \in {"switch", "exitSwitch", "finSwitch"},
         Alone(self, hs, al), OwnPlaces(hs),
         SwitchTo(self, target, self, place, hs, al), current' = target
  PROVE  BatonExclusive' /\ OwnPlaces(host)'
<1>1. host' = [hs EXCEPT ![self] = At(place, self)] /\ allowed' = [al EXCEPT ![target] = TRUE]
  BY DEF SwitchTo
<1>2. At(place, self).at = place /\ At(place, self).on = self
  BY DEF At
<1>3. \A h \in Thread : ~(host'[h].at \in ExecutingAt)
  BY <1>1, <1>2 DEF Alone, ExecutingAt, Hosts
<1>4. \A t \in Thread : allowed'[t] => t = target
  BY <1>1 DEF Alone
<1>5. OwnPlaces(host)'
  BY <1>1, <1>2 DEF OwnPlaces, RefersToItself, Hosts
<1> QED BY <1>3, <1>4, <1>5 DEF BatonExclusive, Executing, InFlight, ExecutingAt

(* Hosts that leave the baton where it is. *)
LEMMA KeepBaton ==
  ASSUME NEW self \in Thread, Alone(self, host', allowed'), OwnPlaces(host'), current' = self
  PROVE  BatonExclusive' /\ OwnPlaces(host)'
BY DEF Alone, OwnPlaces, BatonExclusive, Executing, InFlight, ExecutingAt

LEMMA BlockCurrentBaton ==
  ASSUME TypeOK, BatonInv, NEW self \in Thread, NEW st, NEW w, NEW rd \in Seq(Thread),
         InGuest(self), BlockCurrent(self, st, w, rd)
  PROVE  BatonExclusive' /\ OwnPlaces(host)'
<1>1. self = current /\ Alone(self, host, allowed) /\ OwnPlaces(host) /\ ~destroying
  BY ExecutingIsAlone DEF BatonInv, InGuest, ExecutingAt
<1>2. CASE rd = <<>>
  BY <1>1, <1>2, KeepBaton DEF BlockCurrent
<1>3. CASE rd # <<>>
  <2>1. Head(rd) \in Thread
    BY <1>3, HeadTailProperties
  <2>2. SwitchTo(self, Head(rd), self, "switch", host, allowed) /\ current' = Head(rd)
    BY <1>1, <1>3 DEF BlockCurrent
  <2>3. host \in Hosts /\ allowed \in [Thread -> BOOLEAN]
    BY DEF TypeOK, Hosts
  <2> QED BY <1>1, <2>1, <2>2, <2>3, SwitchToBaton
<1> QED BY <1>2, <1>3

LEMMA MaybePreemptFromBaton ==
  ASSUME NEW self \in Thread, self = current, NEW st, NEW rd \in Seq(Thread),
         NEW hs \in Hosts, NEW al \in [Thread -> BOOLEAN],
         Alone(self, hs, al), OwnPlaces(hs), MaybePreemptFrom(self, st, rd, hs, al)
  PROVE  BatonExclusive' /\ OwnPlaces(host)'
<1> DEFINE stays == \/ destroying
                    \/ dispatchDisabled' > 0
                    \/ rd = <<>>
                    \/ prio'[Head(rd)] >= prio'[current]
<1>1. CASE stays
  BY <1>1, KeepBaton DEF MaybePreemptFrom
<1>2. CASE ~stays
  <2>1. Head(rd) \in Thread
    BY <1>2, HeadTailProperties
  <2>2. SwitchTo(self, Head(rd), self, "switch", hs, al) /\ current' = Head(rd)
    BY <1>2 DEF MaybePreemptFrom
  <2> QED BY <2>1, <2>2, SwitchToBaton
<1> QED BY <1>1, <1>2

LEMMA MaybePreemptBaton ==
  ASSUME TypeOK, BatonInv, NEW self \in Thread, NEW st, NEW rd \in Seq(Thread),
         InGuest(self), MaybePreempt(self, st, rd)
  PROVE  BatonExclusive' /\ OwnPlaces(host)'
<1>1. self = current /\ Alone(self, host, allowed) /\ OwnPlaces(host)
  BY ExecutingIsAlone DEF BatonInv, InGuest, ExecutingAt
<1>2. host \in Hosts /\ allowed \in [Thread -> BOOLEAN]
  BY DEF TypeOK, Hosts
<1> QED BY <1>1, <1>2, MaybePreemptFromBaton DEF MaybePreempt

(* Steps of a host that executes and goes on executing, in another place.  *)
LEMMA MoveBaton ==
  ASSUME TypeOK, BatonInv, NEW self \in Thread, host[self].at \in ExecutingAt,
         NEW place \in HostAt, NEW on \in Thread,
         place \in RefersToItself => on = self,
         host' = [host EXCEPT ![self] = At(place, on)],
         UNCHANGED <<current, allowed>>
  PROVE  BatonExclusive' /\ OwnPlaces(host)'
<1>1. self = current /\ Alone(self, host, allowed) /\ OwnPlaces(host)
  BY ExecutingIsAlone DEF BatonInv
<1>2. At(place, on).at = place /\ At(place, on).on = on
  BY DEF At
<1>3. Alone(self, host', allowed') /\ OwnPlaces(host')
  BY <1>1, <1>2 DEF Alone, OwnPlaces, TypeOK
<1> QED BY <1>1, <1>3, KeepBaton

(* Steps that leave the baton and the hosts alone. *)
LEMMA StillBaton ==
  ASSUME BatonInv, UNCHANGED <<host, allowed, current>>
  PROVE  BatonExclusive' /\ OwnPlaces(host)'
BY DEF BatonInv, BatonExclusive, OwnPlaces, Executing, InFlight

(* An ending thread's host gives the baton away, if anyone can take it. *)
LEMMA HandOffBaton ==
  ASSUME TypeOK, BatonInv, NEW self \in Thread, host[self].at \in ExecutingAt,
         NEW switching \in {"exitSwitch", "finSwitch"}, NEW parked \in {"exitPark", "finPark"},
         HandOffAndPark(self, self, switching, parked)
  PROVE  BatonExclusive' /\ OwnPlaces(host)'
<1>1. CASE ready = <<>>
  BY <1>1, MoveBaton DEF HandOffAndPark, HostAt, RefersToItself
<1>2. CASE ready # <<>>
  <2>1. Head(ready) \in Thread
    BY <1>2, HeadTailProperties DEF TypeOK
  <2>2. SwitchTo(self, Head(ready), self, switching, host, allowed) /\ current' = Head(ready)
    BY <1>2 DEF HandOffAndPark
  <2>3. host \in Hosts /\ allowed \in [Thread -> BOOLEAN] /\ Alone(self, host, allowed) /\ OwnPlaces(host)
    BY ExecutingIsAlone DEF TypeOK, Hosts, BatonInv
  <2> QED BY <2>1, <2>2, <2>3, SwitchToBaton
<1> QED BY <1>1, <1>2

(* The woken host was woken alone, by its own baton. *)
LEMMA TakeBatonBaton ==
  ASSUME TypeOK, BatonInv, NEW self \in Thread,
         host[self].at \in {"start", "switch", "exitSwitch", "finSwitch"},
         NEW place \in {"guest", "finPark"}, TakeBaton(self, place)
  PROVE  BatonExclusive' /\ OwnPlaces(host)'
<1>1. host[self].on = self
  BY DEF BatonInv, OwnPlaces, RefersToItself
<1>2. allowed[self]
  BY <1>1 DEF TakeBaton, Released, BatonInv, NoneToldToExit
<1>3. self = current /\ \A h \in Thread : ~(host[h].at \in ExecutingAt)
  BY <1>2 DEF BatonInv, BatonExclusive, Executing, InFlight, ExecutingAt
<1>4. \A t \in Thread : allowed[t] => t = self
  BY <1>3 DEF BatonInv, BatonExclusive, InFlight
<1>5. allowed' = [allowed EXCEPT ![self] = FALSE] /\ host' = [host EXCEPT ![self] = At(place, self)]
  BY <1>1 DEF TakeBaton
<1>6. At(place, self).at = place
  BY DEF At
<1>7. Alone(self, host', allowed')
  BY <1>3, <1>4, <1>5, <1>6 DEF Alone, TypeOK
<1>8. OwnPlaces(host')
  BY <1>5, <1>6 DEF OwnPlaces, BatonInv, TypeOK, RefersToItself
<1>9. current' = self
  BY <1>3 DEF TakeBaton, schedVars
<1> QED BY <1>7, <1>8, <1>9, KeepBaton

LEMMA InitBaton == Init => BatonInv
<1> SUFFICES ASSUME Init PROVE BatonInv
  OBVIOUS
<1>1. \A h \in Thread : host[h].at = IF h = Main THEN "guest" ELSE "none"
  BY DEF Init, At
<1> QED BY <1>1
        DEF Init, BatonInv, BatonExclusive, Executing, InFlight, OwnPlaces, RefersToItself, NoneToldToExit

(* What every call but StartThread leaves alone. *)
LEMMA ToldUnchanged ==
  ASSUME BatonInv, UNCHANGED <<destroying, exitReq>>, BatonExclusive', OwnPlaces(host)'
  PROVE  BatonInv'
BY DEF BatonInv, NoneToldToExit

LEMMA ThreadCallBaton ==
  ASSUME TypeOK, BatonInv, NEW self \in Thread, ThreadCall(self)
  PROVE  BatonInv'
<1> USE MainIsThread
<1>0. /\ ready \in Seq(Thread) /\ \A t \in Thread : ReadyRemove(ready, t) \in Seq(Thread)
      /\ \A t \in Thread, rd \in Seq(Thread) : \A pr : ReadyInsert(rd, pr, t) \in Seq(Thread)
  BY ReadyRemoveType, ReadyInsertType DEF TypeOK
<1>1. ASSUME NEW t \in Thread, NEW p \in Priority, CreateThread(self, t, p) PROVE BatonInv'
  BY <1>1, StillBaton, ToldUnchanged DEF CreateThread, ctlVars, hostVars
<1>2. ASSUME NEW t \in Thread, StartThread(self, t) PROVE BatonInv'
  <2>1. CASE Joinable(t)
    <3>1. host' = [host EXCEPT ![self] = At("joinStart", t)] /\ UNCHANGED <<current, allowed>>
      BY <1>2, <2>1 DEF StartThread, schedVars
    <3>2. BatonExclusive' /\ OwnPlaces(host)'
      BY <1>2, <3>1, MoveBaton DEF StartThread, InGuest, ExecutingAt, HostAt, RefersToItself
    <3> QED BY <1>2, <2>1, <3>2, ToldUnchanged DEF StartThread, ctlVars
  <2>2. CASE ~Joinable(t)
    <3> DEFINE hs == [host EXCEPT ![self] = At("guest", self), ![t] = At("start", t)]
               al == [allowed EXCEPT ![t] = FALSE]
    <3>1. Launch(self, t) /\ InGuest(self) /\ host[t].at = "none"
      BY <1>2, <2>2 DEF StartThread, Joinable
    <3>2. self = current /\ Alone(self, host, allowed) /\ OwnPlaces(host)
      BY <3>1, ExecutingIsAlone DEF BatonInv, InGuest, ExecutingAt
    <3>3. /\ At("guest", self).at = "guest" /\ At("guest", self) \in [at : HostAt, on : Nat]
          /\ At("start", t).at = "start" /\ At("start", t).on = t
          /\ At("start", t) \in [at : HostAt, on : Nat]
      BY DEF At, HostAt
    <3>4. hs \in Hosts /\ al \in [Thread -> BOOLEAN]
      BY <3>3 DEF TypeOK, Hosts
    <3>5. Alone(self, hs, al)
      BY <3>2, <3>3 DEF Alone, TypeOK, ExecutingAt
    <3>6. OwnPlaces(hs)
      BY <3>2, <3>3 DEF OwnPlaces, TypeOK, RefersToItself
    <3>7. BatonExclusive' /\ OwnPlaces(host)'
      <4>1. MaybePreemptFrom(self, [status EXCEPT ![t] = "READY"], ReadyInsert(ready, prio, t), hs, al)
        BY <3>1 DEF Launch
      <4>2. ReadyInsert(ready, prio, t) \in Seq(Thread)
        BY <1>0
      <4> HIDE DEF hs, al
      <4> QED BY <3>2, <3>4, <3>5, <3>6, <4>1, <4>2, MaybePreemptFromBaton
    <3>8. ~destroying' /\ NoneToldToExit'
      BY <3>1 DEF Launch, BatonInv, NoneToldToExit, ctlVars, TypeOK
    <3> QED BY <3>7, <3>8 DEF BatonInv
  <2> QED BY <2>1, <2>2
<1>3. ASSUME ExitThread(self) PROVE BatonInv'
  <2>1. self = current
    BY <1>3, ExecutingIsAlone DEF ExitThread, InGuest, ExecutingAt, BatonInv
  <2>2. CASE current = Main
    BY <1>3, <2>2, StillBaton, ToldUnchanged DEF ExitThread, schedVars, hostVars
  <2>3. CASE current # Main
    <3>1. BatonExclusive' /\ OwnPlaces(host)'
      BY <1>3, <2>1, <2>3, MoveBaton DEF ExitThread, InGuest, ExecutingAt, HostAt
    <3> QED BY <1>3, <2>3, <3>1, ToldUnchanged DEF ExitThread, ctlVars
  <2> QED BY <2>2, <2>3
<1>4. ASSUME FinishThread(self) PROVE BatonInv'
  <2>1. BatonExclusive' /\ OwnPlaces(host)'
    BY <1>4, MoveBaton DEF FinishThread, InGuest, ExecutingAt, HostAt
  <2> QED BY <1>4, <2>1, ToldUnchanged DEF FinishThread, ctlVars
<1>5. ASSUME NEW t \in Thread, NEW p \in Priority, ChangeThreadPriority(self, t, p) PROVE BatonInv'
  <2>1. BatonExclusive' /\ OwnPlaces(host)'
    <3>1. CASE status[t] = "READY"
      BY <1>0, <1>5, <3>1, MaybePreemptBaton DEF ChangeThreadPriority
    <3>2. CASE status[t] # "READY"
      BY <1>0, <1>5, <3>2, MaybePreemptBaton DEF ChangeThreadPriority
    <3> QED BY <3>1, <3>2
  <2> QED BY <1>5, <2>1, ToldUnchanged DEF ChangeThreadPriority, ctlVars
<1>6. ASSUME NEW p \in Priority, RotateThreadReadyQueue(self, p) PROVE BatonInv'
  <2>1. self = current /\ Alone(self, host, allowed) /\ OwnPlaces(host)
    BY <1>6, ExecutingIsAlone DEF RotateThreadReadyQueue, InGuest, ExecutingAt, BatonInv
  <2>2. PICK i \in 1..Len(ready) :
          current' = ready[i] /\ SwitchTo(self, ready[i], current, "switch", host, allowed)
    BY <1>6 DEF RotateThreadReadyQueue
  <2>3. ready[i] \in Thread /\ host \in Hosts /\ allowed \in [Thread -> BOOLEAN]
    BY ElementOfSeq DEF TypeOK, Hosts
  <2>4. BatonExclusive' /\ OwnPlaces(host)'
    BY <2>1, <2>2, <2>3, SwitchToBaton
  <2> QED BY <1>6, <2>4, ToldUnchanged DEF RotateThreadReadyQueue, ctlVars
<1>7. ASSUME SleepThread(self) PROVE BatonInv'
  <2>1. BatonExclusive' /\ OwnPlaces(host)'
    <3>1. CASE wakeups[current] > 0
      BY <1>7, <3>1, StillBaton DEF SleepThread, schedVars
    <3>2. CASE ~(wakeups[current] > 0)
      BY <1>0, <1>7, <3>2, BlockCurrentBaton DEF SleepThread
    <3> QED BY <3>1, <3>2
  <2> QED BY <1>7, <2>1, ToldUnchanged DEF SleepThread
<1>8. ASSUME NEW t \in Thread, WakeupThread(self, t) PROVE BatonInv'
  <2>1. BatonExclusive' /\ OwnPlaces(host)'
    BY <1>0, <1>8, MaybePreemptBaton DEF WakeupThread
  <2> QED BY <1>8, <2>1, ToldUnchanged DEF WakeupThread, ctlVars
<1>9. ASSUME NEW t \in Thread, CancelWakeupThread(self, t) PROVE BatonInv'
  BY <1>9, StillBaton, ToldUnchanged DEF CancelWakeupThread, schedVars, ctlVars, hostVars
<1>10. ASSUME NEW t \in Thread, SuspendThread(self, t) PROVE BatonInv'
  <2> DEFINE rd == IF status[t] = "READY" THEN ReadyRemove(ready, t) ELSE ready
  <2>1. BatonExclusive' /\ OwnPlaces(host)'
    <3>1. CASE t = current /\ suspends[t] = 0
      <4>1. BlockCurrent(self, "SUSPEND", WaitSleep, rd)
        BY <1>10, <3>1 DEF SuspendThread
      <4>2. rd \in Seq(Thread) /\ InGuest(self)
        BY <1>0, <1>10 DEF SuspendThread
      <4> HIDE DEF rd
      <4> QED BY <4>1, <4>2, BlockCurrentBaton
    <3>2. CASE ~(t = current /\ suspends[t] = 0)
      BY <1>10, <3>2, StillBaton DEF SuspendThread
    <3> QED BY <3>1, <3>2
  <2> QED BY <1>10, <2>1, ToldUnchanged DEF SuspendThread
<1>11. ASSUME NEW t \in Thread, ResumeThread(self, t) PROVE BatonInv'
  <2>1. BatonExclusive' /\ OwnPlaces(host)'
    BY <1>0, <1>11, MaybePreemptBaton DEF ResumeThread
  <2> QED BY <1>11, <2>1, ToldUnchanged DEF ResumeThread, ctlVars
<1>12. ASSUME NEW t \in Thread, JoinThread(self, t) PROVE BatonInv'
  <2>1. BatonExclusive' /\ OwnPlaces(host)'
    BY <1>0, <1>12, BlockCurrentBaton DEF JoinThread
  <2> QED BY <1>12, <2>1, ToldUnchanged DEF JoinThread
<1>13. ASSUME DisableDispatchThread(self) PROVE BatonInv'
  BY <1>13, StillBaton, ToldUnchanged DEF DisableDispatchThread, schedVars, hostVars
<1>14. ASSUME EnableDispatchThread(self) PROVE BatonInv'
  <2>1. BatonExclusive' /\ OwnPlaces(host)'
    BY <1>0, <1>14, MaybePreemptBaton DEF EnableDispatchThread
  <2> QED BY <1>14, <2>1, ToldUnchanged DEF EnableDispatchThread
<1>15. ASSUME KExit(self) PROVE BatonInv'
  BY <1>15, StillBaton, ToldUnchanged DEF KExit, schedVars, hostVars
<1> QED BY <1>1, <1>2, <1>3, <1>4, <1>5, <1>6, <1>7, <1>8, <1>9, <1>10, <1>11, <1>12, <1>13, <1>14, <1>15
        DEF ThreadCall

LEMMA SemaCallBaton ==
  ASSUME TypeOK, BatonInv, NEW self \in Thread, SemaCall(self)
  PROVE  BatonInv'
<1>0. ready \in Seq(Thread) /\ \A t, rd, pr : rd \in Seq(Thread) /\ t \in Thread => ReadyInsert(rd, pr, t) \in Seq(Thread)
  BY ReadyInsertType DEF TypeOK
<1>1. ASSUME NEW s \in Sema, NEW p \in SemaInit, CreateSema(self, s, p) PROVE BatonInv'
  BY <1>1, StillBaton, ToldUnchanged DEF CreateSema, schedVars, ctlVars, hostVars
<1>2. ASSUME NEW s \in Sema, SignalSema(self, s) PROVE BatonInv'
  <2>1. BatonExclusive' /\ OwnPlaces(host)'
    <3>1. CASE waiters[s] # <<>>
      <4>1. FirstWaiter(s) \in Thread
        <5>1. waiters[s] \in Seq(Thread)
          BY DEF TypeOK
        <5> QED BY <3>1, <5>1, HeadTailProperties DEF FirstWaiter
      <4> QED BY <1>0, <1>2, <3>1, <4>1, MaybePreemptBaton DEF SignalSema
    <3>2. CASE waiters[s] = <<>>
      BY <1>0, <1>2, <3>2, MaybePreemptBaton DEF SignalSema
    <3> QED BY <3>1, <3>2
  <2> QED BY <1>2, <2>1, ToldUnchanged DEF SignalSema, ctlVars
<1>3. ASSUME NEW s \in Sema, WaitSema(self, s) PROVE BatonInv'
  <2>1. BatonExclusive' /\ OwnPlaces(host)'
    <3>1. CASE HasToken(s)
      BY <1>3, <3>1, StillBaton DEF WaitSema, schedVars
    <3>2. CASE ~HasToken(s)
      BY <1>0, <1>3, <3>2, BlockCurrentBaton DEF WaitSema
    <3> QED BY <3>1, <3>2
  <2> QED BY <1>3, <2>1, ToldUnchanged DEF WaitSema
<1>4. ASSUME NEW s \in Sema, PollSema(self, s) PROVE BatonInv'
  BY <1>4, StillBaton, ToldUnchanged DEF PollSema, schedVars, ctlVars, hostVars
<1> QED BY <1>1, <1>2, <1>3, <1>4 DEF SemaCall

LEMMA HostStepBaton ==
  ASSUME TypeOK, BatonInv, NEW self \in Thread, HostStep(self)
  PROVE  BatonInv'
<1>1. ASSUME NEW place \in {"guest", "finPark"}, TakeBaton(self, place),
             host[self].at \in {"start", "switch", "exitSwitch", "finSwitch"}
      PROVE  BatonInv'
  BY <1>1, TakeBatonBaton, ToldUnchanged DEF TakeBaton, ctlVars
<1>2. ASSUME WakeJoiner(self) PROVE BatonInv'
  BY <1>2, StillBaton, ToldUnchanged DEF WakeJoiner, ctlVars, hostVars
<1>3. ASSUME ExitHandOff(self) PROVE BatonInv'
  <2>1. host[self].at \in ExecutingAt /\ host[self].on = self
    BY <1>3 DEF ExitHandOff, BatonInv, OwnPlaces, ExecutingAt, RefersToItself
  <2>2. BatonExclusive' /\ OwnPlaces(host)'
    BY <1>3, <2>1, HandOffBaton DEF ExitHandOff
  <2> QED BY <1>3, <2>2, ToldUnchanged DEF ExitHandOff, ctlVars
<1>4. ASSUME FinishHandOff(self) PROVE BatonInv'
  <2>1. host[self].at \in ExecutingAt
    BY <1>4 DEF FinishHandOff, ExecutingAt
  <2>2. current = self
    BY <2>1, ExecutingIsAlone DEF BatonInv
  <2>3. BatonExclusive' /\ OwnPlaces(host)'
    BY <1>4, <2>1, <2>2, HandOffBaton DEF FinishHandOff
  <2> QED BY <1>4, <2>3, ToldUnchanged DEF FinishHandOff, ctlVars
<1> QED BY <1>1, <1>2, <1>3, <1>4
        DEF HostStep, ReturnFromSwitch, BeginThread, ReturnToPark

LEMMA NextBaton == TypeOK /\ BatonInv /\ [Next]_vars => BatonInv'
<1> SUFFICES ASSUME TypeOK, BatonInv, [Next]_vars PROVE BatonInv'
  OBVIOUS
<1>1. ASSUME NEW self \in Thread, ThreadCall(self) \/ SemaCall(self) \/ HostStep(self) PROVE BatonInv'
  BY <1>1, ThreadCallBaton, SemaCallBaton, HostStepBaton
<1>2. CASE UNCHANGED vars
  BY <1>2, StillBaton, ToldUnchanged DEF vars, schedVars, ctlVars, hostVars
<1> QED BY <1>1, <1>2 DEF Next

(* kernel.hpp's promise: the baton lets one EE thread run at a time, the   *)
(* current one, and while it runs no other host is being woken, even after *)
(* the kernel has asked the runner to quit.                                *)
THEOREM OneThreadRuns == Spec => []BatonExclusive
<1>1. BatonInv => BatonExclusive
  BY DEF BatonInv
<1> QED BY <1>1, InitBaton, NextBaton, TypeCorrect, PTL DEF Spec

-----------------------------------------------------------------------------
(* Semaphore tokens. *)

(* A semaphore not yet created has no waiter, so the count it is created   *)
(* with is not idle.                                                       *)
TokenInv == NoIdleToken /\ \A s \in Sema : semaState[s] = "none" => waiters[s] = <<>>

LEMMA TokensUnchanged ==
  ASSUME TokenInv, UNCHANGED semaVars
  PROVE  TokenInv'
BY DEF TokenInv, NoIdleToken, semaVars

LEMMA ThreadCallTokens ==
  ASSUME NEW self \in Thread, ThreadCall(self)
  PROVE  UNCHANGED semaVars
BY DEF ThreadCall, CreateThread, StartThread, Launch, ExitThread, FinishThread,
       ChangeThreadPriority, RotateThreadReadyQueue, SleepThread, WakeupThread,
       CancelWakeupThread, SuspendThread, ResumeThread, JoinThread,
       DisableDispatchThread, EnableDispatchThread, KExit, semaVars

LEMMA HostStepTokens ==
  ASSUME NEW self \in Thread, HostStep(self)
  PROVE  UNCHANGED semaVars
BY DEF HostStep, ReturnFromSwitch, BeginThread, ReturnToPark, TakeBaton, WakeJoiner,
       ExitHandOff, FinishHandOff, semaVars

LEMMA SemaCallTokens ==
  ASSUME TypeOK, TokenInv, NEW self \in Thread, SemaCall(self)
  PROVE  TokenInv'
<1>1. ASSUME NEW s \in Sema, NEW p \in SemaInit, CreateSema(self, s, p) PROVE TokenInv'
  BY <1>1 DEF CreateSema, TokenInv, NoIdleToken, TypeOK
<1>2. ASSUME NEW s \in Sema, SignalSema(self, s) PROVE TokenInv'
  <2>1. CASE waiters[s] # <<>>
    <3>1. /\ waiters' = [waiters EXCEPT ![s] = OtherWaiters(s)]
          /\ count' = count /\ semaState' = semaState /\ semaState[s] # "none"
      BY <1>2, <2>1 DEF SignalSema, Live
    <3>2. ~(count[s] > 0)
      BY <2>1 DEF TokenInv, NoIdleToken
    <3> QED BY <3>1, <3>2 DEF TokenInv, NoIdleToken, TypeOK
  <2>2. CASE waiters[s] = <<>>
    <3>1. /\ waiters' = waiters /\ semaState' = semaState
          /\ \A r \in Sema : r # s => count'[r] = count[r]
      BY <1>2, <2>2 DEF SignalSema, TypeOK
    <3> QED BY <2>2, <3>1 DEF TokenInv, NoIdleToken
  <2> QED BY <2>1, <2>2
<1>3. ASSUME NEW s \in Sema, WaitSema(self, s) PROVE TokenInv'
  <2>1. CASE HasToken(s)
    <3>1. waiters' = waiters /\ semaState' = semaState /\ count' = [count EXCEPT ![s] = @ - 1]
      BY <1>3, <2>1 DEF WaitSema
    <3>2. count[s] > 0
      BY <2>1 DEF HasToken
    <3> QED BY <3>1, <3>2 DEF TokenInv, NoIdleToken, TypeOK
  <2>2. CASE ~HasToken(s)
    <3>1. /\ waiters' = [waiters EXCEPT ![s] = Append(@, current)]
          /\ count' = count /\ semaState' = semaState /\ semaState[s] # "none"
      BY <1>3, <2>2 DEF WaitSema, Live
    <3>2. ~(count[s] > 0)
      BY <2>2 DEF HasToken
    <3> QED BY <3>1, <3>2 DEF TokenInv, NoIdleToken, TypeOK
  <2> QED BY <2>1, <2>2
<1>4. ASSUME NEW s \in Sema, PollSema(self, s) PROVE TokenInv'
  <2>1. waiters' = waiters /\ semaState' = semaState /\ count' = [count EXCEPT ![s] = @ - 1]
    BY <1>4 DEF PollSema
  <2>2. count[s] > 0
    BY <1>4 DEF PollSema, HasToken
  <2> QED BY <2>1, <2>2 DEF TokenInv, NoIdleToken, TypeOK
<1> QED BY <1>1, <1>2, <1>3, <1>4 DEF SemaCall

(* A token is never left on a semaphore that has a waiter: SignalSema      *)
(* counts it only when nobody waits, and WaitSema queues only when none is *)
(* left, whatever counts the guest creates semaphores with.                *)
THEOREM TokensNotIdle == Spec => []NoIdleToken
<1>1. Init => TokenInv
  BY DEF Init, TokenInv, NoIdleToken
<1>2. TypeOK /\ TokenInv /\ [Next]_vars => TokenInv'
  <2> SUFFICES ASSUME TypeOK, TokenInv, [Next]_vars PROVE TokenInv'
    OBVIOUS
  <2>1. ASSUME NEW self \in Thread, ThreadCall(self) \/ SemaCall(self) \/ HostStep(self) PROVE TokenInv'
    BY <2>1, ThreadCallTokens, HostStepTokens, SemaCallTokens, TokensUnchanged
  <2>2. CASE UNCHANGED vars
    BY <2>2, TokensUnchanged DEF vars
  <2> QED BY <2>1, <2>2 DEF Next
<1>3. TokenInv => NoIdleToken
  BY DEF TokenInv
<1> QED BY <1>1, <1>2, <1>3, TypeCorrect, PTL DEF Spec

-----------------------------------------------------------------------------
(* Wakeups and suspensions. *)

Asleep(t) == status[t] = "WAIT" /\ wait[t] = WaitSleep
WakeupInv == \A t \in Thread : Asleep(t) => wakeups[t] = 0
CountInv == WakeupInv /\ SuspensionsBalance

(* The scheduler stops no thread but the one that calls, and as it asks.   *)
LEMMA BlockCurrentStatus ==
  ASSUME TypeOK, NEW self \in Thread, NEW st, NEW w, NEW rd \in Seq(Thread),
         BlockCurrent(self, st, w, rd)
  PROVE  /\ \A t \in Thread : status'[t] = "RUN" \/ (t # current /\ status'[t] = status[t])
                              \/ (t = current /\ status'[t] = st)
         /\ wait' = [wait EXCEPT ![current] = w]
<1>1. CASE rd = <<>>
  BY <1>1 DEF BlockCurrent, TypeOK
<1>2. CASE rd # <<>>
  BY <1>2, HeadTailProperties DEF BlockCurrent, TypeOK
<1> QED BY <1>1, <1>2 DEF BlockCurrent

LEMMA MaybePreemptFromStatus ==
  ASSUME TypeOK, NEW self \in Thread, NEW st \in [Thread -> Status], NEW rd \in Seq(Thread),
         NEW hs, NEW al, MaybePreemptFrom(self, st, rd, hs, al)
  PROVE  \A t \in Thread : status'[t] \in {"READY", "RUN"} \/ status'[t] = st[t]
<1>1. \/ status' = st
      \/ rd # <<>> /\ status' = [st EXCEPT ![current] = "READY", ![Head(rd)] = "RUN"]
  BY DEF MaybePreemptFrom
<1> QED BY <1>1, HeadTailProperties DEF TypeOK

LEMMA MaybePreemptStatus ==
  ASSUME TypeOK, NEW self \in Thread, NEW st \in [Thread -> Status], NEW rd \in Seq(Thread),
         MaybePreempt(self, st, rd)
  PROVE  \A t \in Thread : status'[t] \in {"READY", "RUN"} \/ status'[t] = st[t]
BY MaybePreemptFromStatus DEF MaybePreempt

(* A step in which threads only become runnable or dormant. *)
LEMMA RousingKeepsCounts ==
  ASSUME CountInv, UNCHANGED <<wakeups, suspends>>,
         \A t \in Thread : status'[t] \in {"READY", "RUN", "DORMANT"}
                           \/ (status'[t] = status[t] /\ (wait'[t] = wait[t] \/ wait'[t] # WaitSleep))
  PROVE  CountInv'
BY DEF CountInv, WakeupInv, Asleep, SuspensionsBalance

LEMMA WaitsDiffer ==
  /\ NotWaiting # WaitSleep
  /\ \A s : WaitOnSema(s) # WaitSleep
  /\ \A t : WaitOnJoin(t) # WaitSleep
<1>1. /\ NotWaiting.why = "NONE" /\ WaitSleep.why = "SLEEP"
      /\ \A s : WaitOnSema(s).why = "SEMA" /\ WaitOnJoin(s).why = "JOIN"
  BY DEF NotWaiting, WaitSleep, WaitOnSema, WaitOnJoin
<1> QED BY <1>1

(* A thread that waits for anything but a wakeup disturbs no count. *)
LEMMA WaitingKeepsCounts ==
  ASSUME TypeOK, CountInv, NEW self \in Thread, NEW w, w # WaitSleep,
         BlockCurrent(self, "WAIT", w, ready), UNCHANGED <<wakeups, suspends>>
  PROVE  CountInv'
<1>1. /\ \A t \in Thread : status'[t] = "RUN" \/ (t # current /\ status'[t] = status[t])
                              \/ (t = current /\ status'[t] = "WAIT")
      /\ wait' = [wait EXCEPT ![current] = w]
  BY BlockCurrentStatus DEF TypeOK
<1> QED BY <1>1 DEF CountInv, WakeupInv, Asleep, SuspensionsBalance, TypeOK

LEMMA PreemptingKeepsCounts ==
  ASSUME TypeOK, CountInv, NEW self \in Thread, NEW st \in [Thread -> Status],
         NEW rd \in Seq(Thread), MaybePreempt(self, st, rd),
         \A t \in Thread : st[t] \in {"READY", "RUN"} \/ st[t] = status[t],
         \A t \in Thread : wait'[t] = wait[t] \/ wait'[t] = NotWaiting,
         UNCHANGED <<wakeups, suspends>>
  PROVE  CountInv'
<1>1. \A t \in Thread : status'[t] \in {"READY", "RUN"} \/ status'[t] = st[t]
  BY MaybePreemptStatus
<1> QED BY <1>1, RousingKeepsCounts, WaitsDiffer

LEMMA HandOffKeepsCounts ==
  ASSUME TypeOK, CountInv, NEW self \in Thread, NEW t, NEW switching, NEW parked,
         HandOffAndPark(self, t, switching, parked), UNCHANGED <<wait, wakeups, suspends>>
  PROVE  CountInv'
<1>1. CASE ready = <<>>
  BY <1>1, RousingKeepsCounts DEF HandOffAndPark
<1>2. CASE ready # <<>>
  <2>1. \A u \in Thread : status'[u] = "RUN" \/ status'[u] = status[u]
    BY <1>2, HeadTailProperties DEF HandOffAndPark, TypeOK
  <2> QED BY <2>1, RousingKeepsCounts
<1> QED BY <1>1, <1>2

LEMMA ThreadCallCounts ==
  ASSUME TypeOK, CountInv, NEW self \in Thread, ThreadCall(self)
  PROVE  CountInv'
<1>0. /\ status \in [Thread -> Status] /\ ready \in Seq(Thread)
      /\ \A t \in Thread : ReadyRemove(ready, t) \in Seq(Thread)
      /\ \A t \in Thread, rd \in Seq(Thread) : \A pr : ReadyInsert(rd, pr, t) \in Seq(Thread)
      /\ \A t \in Thread : [status EXCEPT ![t] = "READY"] \in [Thread -> Status]
  BY ReadyRemoveType, ReadyInsertType DEF TypeOK, Status
<1>1. ASSUME NEW t \in Thread, NEW p \in Priority, CreateThread(self, t, p) PROVE CountInv'
  BY <1>1, RousingKeepsCounts DEF CreateThread, TypeOK
<1>2. ASSUME NEW t \in Thread, StartThread(self, t) PROVE CountInv'
  <2>1. CASE Joinable(t)
    BY <1>2, <2>1, RousingKeepsCounts DEF StartThread, schedVars, attrVars
  <2>2. CASE ~Joinable(t)
    <3> DEFINE hs == [host EXCEPT ![self] = At("guest", self), ![t] = At("start", t)]
               al == [allowed EXCEPT ![t] = FALSE]
    <3>1. Launch(self, t)
      BY <1>2, <2>2 DEF StartThread
    <3>2. MaybePreemptFrom(self, [status EXCEPT ![t] = "READY"], ReadyInsert(ready, prio, t), hs, al)
      BY <3>1 DEF Launch
    <3>3. \A u \in Thread : status'[u] \in {"READY", "RUN"} \/ status'[u] = [status EXCEPT ![t] = "READY"][u]
      <4> HIDE DEF hs, al
      <4> QED BY <1>0, <3>2, MaybePreemptFromStatus
    <3>4. \A u \in Thread : status'[u] \in {"READY", "RUN"} \/ status'[u] = status[u]
      BY <1>0, <3>3
    <3>5. \A u \in Thread : wait'[u] = wait[u] \/ wait'[u] # WaitSleep
      BY <3>1, WaitsDiffer DEF Launch, TypeOK
    <3> QED BY <3>1, <3>4, <3>5, RousingKeepsCounts DEF Launch, attrVars
  <2> QED BY <2>1, <2>2
<1>3. ASSUME ExitThread(self) PROVE CountInv'
  <2>1. CASE current = Main
    BY <1>3, <2>1, RousingKeepsCounts DEF ExitThread, schedVars, attrVars
  <2>2. CASE current # Main
    BY <1>3, <2>2, RousingKeepsCounts DEF ExitThread, attrVars, TypeOK
  <2> QED BY <2>1, <2>2
<1>4. ASSUME FinishThread(self) PROVE CountInv'
  BY <1>4, RousingKeepsCounts DEF FinishThread, attrVars, TypeOK
<1>5. ASSUME NEW t \in Thread, NEW p \in Priority, ChangeThreadPriority(self, t, p) PROVE CountInv'
  <2>1. CASE status[t] = "READY"
    BY <1>0, <1>5, <2>1, PreemptingKeepsCounts DEF ChangeThreadPriority
  <2>2. CASE status[t] # "READY"
    BY <1>0, <1>5, <2>2, PreemptingKeepsCounts DEF ChangeThreadPriority
  <2> QED BY <2>1, <2>2
<1>6. ASSUME NEW p \in Priority, RotateThreadReadyQueue(self, p) PROVE CountInv'
  <2>1. PICK i \in 1..Len(ready) :
          status' = [status EXCEPT ![current] = "READY", ![ready[i]] = "RUN"]
    BY <1>6 DEF RotateThreadReadyQueue
  <2>2. \A t \in Thread : status'[t] \in {"READY", "RUN"} \/ status'[t] = status[t]
    BY <2>1, ElementOfSeq DEF TypeOK
  <2> QED BY <1>6, <2>2, RousingKeepsCounts DEF RotateThreadReadyQueue, attrVars
<1>7. ASSUME SleepThread(self) PROVE CountInv'
  <2>1. CASE wakeups[current] > 0
    <3>1. wakeups' = [wakeups EXCEPT ![current] = @ - 1] /\ status' = status /\ wait' = wait
      BY <1>7, <2>1 DEF SleepThread, schedVars
    <3>2. ~Asleep(current)
      BY <2>1 DEF CountInv, WakeupInv, TypeOK
    <3> QED BY <1>7, <3>1, <3>2 DEF SleepThread, CountInv, WakeupInv, Asleep, SuspensionsBalance, TypeOK
  <2>2. CASE ~(wakeups[current] > 0)
    <3>1. BlockCurrent(self, "WAIT", WaitSleep, ready) /\ UNCHANGED <<wakeups, suspends>>
      BY <1>7, <2>2 DEF SleepThread
    <3>2. /\ \A t \in Thread : status'[t] = "RUN" \/ (t # current /\ status'[t] = status[t])
                                \/ (t = current /\ status'[t] = "WAIT")
          /\ wait' = [wait EXCEPT ![current] = WaitSleep]
      BY <1>0, <3>1, BlockCurrentStatus
    <3>3. wakeups[current] = 0
      BY <2>2 DEF TypeOK
    <3> QED BY <3>1, <3>2, <3>3 DEF CountInv, WakeupInv, Asleep, SuspensionsBalance, TypeOK
  <2> QED BY <2>1, <2>2
<1>8. ASSUME NEW t \in Thread, WakeupThread(self, t) PROVE CountInv'
  <2>1. CASE Asleep(t)
    <3>1. /\ MaybePreempt(self, [status EXCEPT ![t] = "READY"], ReadyInsert(ready, prio, t))
          /\ wait' = [wait EXCEPT ![t] = NotWaiting] /\ UNCHANGED <<wakeups, suspends>>
      BY <1>8, <2>1 DEF WakeupThread, Asleep
    <3>2. \A u \in Thread : wait'[u] = wait[u] \/ wait'[u] = NotWaiting
      BY <3>1 DEF TypeOK
    <3>3. \A u \in Thread : [status EXCEPT ![t] = "READY"][u] \in {"READY", "RUN"}
                            \/ [status EXCEPT ![t] = "READY"][u] = status[u]
      BY <1>0
    <3> QED BY <1>0, <3>1, <3>2, <3>3, PreemptingKeepsCounts
  <2>2. CASE ~Asleep(t)
    <3>1. /\ MaybePreempt(self, status, ready) /\ wakeups' = [wakeups EXCEPT ![t] = @ + 1]
          /\ UNCHANGED <<wait, suspends>>
      BY <1>8, <2>2 DEF WakeupThread, Asleep
    <3>2. \A u \in Thread : status'[u] \in {"READY", "RUN"} \/ status'[u] = status[u]
      BY <1>0, <3>1, MaybePreemptStatus
    <3> QED BY <2>2, <3>1, <3>2 DEF CountInv, WakeupInv, Asleep, SuspensionsBalance, TypeOK
  <2> QED BY <2>1, <2>2
<1>9. ASSUME NEW t \in Thread, CancelWakeupThread(self, t) PROVE CountInv'
  BY <1>9 DEF CancelWakeupThread, CountInv, WakeupInv, Asleep, SuspensionsBalance, TypeOK, schedVars
<1>10. ASSUME NEW t \in Thread, SuspendThread(self, t) PROVE CountInv'
  <2> DEFINE rd == IF status[t] = "READY" THEN ReadyRemove(ready, t) ELSE ready
  <2>1. suspends' = [suspends EXCEPT ![t] = @ + 1] /\ wakeups' = wakeups /\ suspends[t] \in Nat
    BY <1>10 DEF SuspendThread, TypeOK
  <2>2. suspends'[t] > 0 /\ \A u \in Thread : suspends[u] > 0 => suspends'[u] > 0
    BY <2>1 DEF TypeOK
  <2>3. CASE t = current /\ suspends[t] = 0
    <3>1. BlockCurrent(self, "SUSPEND", WaitSleep, rd)
      BY <1>10, <2>3 DEF SuspendThread
    <3>2. rd \in Seq(Thread)
      BY <1>0
    <3>3. /\ \A u \in Thread : status'[u] = "RUN" \/ (u # current /\ status'[u] = status[u])
                                \/ (u = current /\ status'[u] = "SUSPEND")
          /\ wait' = [wait EXCEPT ![current] = WaitSleep]
      <4> HIDE DEF rd
      <4> QED BY <3>1, <3>2, BlockCurrentStatus
    <3> QED BY <2>1, <2>2, <2>3, <3>3 DEF CountInv, WakeupInv, Asleep, SuspensionsBalance, TypeOK
  <2>4. CASE ~(t = current /\ suspends[t] = 0)
    <3>1. \A u \in Thread : status'[u] = status[u] \/ (u = t /\ status'[u] = "SUSPEND")
      BY <1>10, <2>4 DEF SuspendThread, TypeOK
    <3>2. wait' = wait
      BY <1>10, <2>4 DEF SuspendThread
    <3> QED BY <2>1, <2>2, <3>1, <3>2 DEF CountInv, WakeupInv, Asleep, SuspensionsBalance
  <2> QED BY <2>3, <2>4
<1>11. ASSUME NEW t \in Thread, ResumeThread(self, t) PROVE CountInv'
  <2>1. suspends' = [suspends EXCEPT ![t] = Decremented(@)] /\ UNCHANGED <<wait, wakeups>>
    BY <1>11 DEF ResumeThread
  <2>2. \A u \in Thread : u # t => suspends'[u] = suspends[u]
    BY <2>1 DEF TypeOK
  <2>3. suspends'[t] \in Nat
    BY <2>1, DecrementedType DEF TypeOK
  <2>4. CASE suspends'[t] = 0 /\ status[t] = "SUSPEND"
    <3>1. MaybePreempt(self, [status EXCEPT ![t] = "READY"], ReadyInsert(ready, prio, t))
      BY <1>11, <2>4 DEF ResumeThread
    <3>2. \A u \in Thread : status'[u] \in {"READY", "RUN"} \/ status'[u] = [status EXCEPT ![t] = "READY"][u]
      BY <1>0, <3>1, MaybePreemptStatus
    <3>3. \A u \in Thread : status'[u] \in {"READY", "RUN"} \/ (u # t /\ status'[u] = status[u])
      BY <1>0, <3>2
    <3> QED BY <2>1, <2>2, <3>3 DEF CountInv, WakeupInv, Asleep, SuspensionsBalance
  <2>5. CASE ~(suspends'[t] = 0 /\ status[t] = "SUSPEND")
    <3>1. MaybePreempt(self, status, ready)
      BY <1>11, <2>5 DEF ResumeThread
    <3>2. \A u \in Thread : status'[u] \in {"READY", "RUN"} \/ status'[u] = status[u]
      BY <1>0, <3>1, MaybePreemptStatus
    <3>3. status[t] = "SUSPEND" => suspends'[t] > 0
      BY <2>3, <2>5
    <3> QED BY <2>1, <2>2, <3>2, <3>3 DEF CountInv, WakeupInv, Asleep, SuspensionsBalance
  <2> QED BY <2>4, <2>5
<1>12. ASSUME NEW t \in Thread, JoinThread(self, t) PROVE CountInv'
  BY <1>12, WaitsDiffer, WaitingKeepsCounts DEF JoinThread, attrVars
<1>13. ASSUME DisableDispatchThread(self) PROVE CountInv'
  BY <1>13, RousingKeepsCounts DEF DisableDispatchThread, schedVars, attrVars
<1>14. ASSUME EnableDispatchThread(self) PROVE CountInv'
  BY <1>0, <1>14, PreemptingKeepsCounts DEF EnableDispatchThread, attrVars
<1>15. ASSUME KExit(self) PROVE CountInv'
  BY <1>15, RousingKeepsCounts DEF KExit, schedVars, attrVars
<1> QED BY <1>1, <1>2, <1>3, <1>4, <1>5, <1>6, <1>7, <1>8, <1>9, <1>10, <1>11, <1>12, <1>13, <1>14, <1>15
        DEF ThreadCall

LEMMA SemaCallCounts ==
  ASSUME TypeOK, CountInv, NEW self \in Thread, SemaCall(self)
  PROVE  CountInv'
<1>0. status \in [Thread -> Status] /\ ready \in Seq(Thread)
  BY DEF TypeOK
<1>1. ASSUME NEW s \in Sema, NEW p \in SemaInit, CreateSema(self, s, p) PROVE CountInv'
  BY <1>1, RousingKeepsCounts DEF CreateSema, schedVars, attrVars
<1>2. ASSUME NEW s \in Sema, SignalSema(self, s) PROVE CountInv'
  <2>1. CASE waiters[s] # <<>>
    <3> DEFINE t == FirstWaiter(s)
    <3>1. t \in Thread
      <4>1. waiters[s] \in Seq(Thread)
        BY DEF TypeOK
      <4> QED BY <2>1, <4>1, HeadTailProperties DEF FirstWaiter
    <3>2. /\ MaybePreempt(self, [status EXCEPT ![t] = "READY"], ReadyInsert(ready, prio, t))
          /\ wait' = [wait EXCEPT ![t] = NotWaiting] /\ UNCHANGED <<wakeups, suspends>>
      BY <1>2, <2>1 DEF SignalSema, attrVars
    <3> HIDE DEF t
    <3>3. [status EXCEPT ![t] = "READY"] \in [Thread -> Status] /\ ReadyInsert(ready, prio, t) \in Seq(Thread)
      BY <1>0, <3>1, MakeReadyType
    <3>4. \A u \in Thread : wait'[u] = wait[u] \/ wait'[u] = NotWaiting
      BY <3>1, <3>2 DEF TypeOK
    <3>5. \A u \in Thread : [status EXCEPT ![t] = "READY"][u] \in {"READY", "RUN"}
                            \/ [status EXCEPT ![t] = "READY"][u] = status[u]
      BY <1>0, <3>1
    <3> QED BY <3>2, <3>3, <3>4, <3>5, PreemptingKeepsCounts
  <2>2. CASE waiters[s] = <<>>
    BY <1>0, <1>2, <2>2, PreemptingKeepsCounts DEF SignalSema, attrVars
  <2> QED BY <2>1, <2>2
<1>3. ASSUME NEW s \in Sema, WaitSema(self, s) PROVE CountInv'
  <2>1. CASE HasToken(s)
    BY <1>3, <2>1, RousingKeepsCounts DEF WaitSema, schedVars, attrVars
  <2>2. CASE ~HasToken(s)
    BY <1>3, <2>2, WaitsDiffer, WaitingKeepsCounts DEF WaitSema, attrVars
  <2> QED BY <2>1, <2>2
<1>4. ASSUME NEW s \in Sema, PollSema(self, s) PROVE CountInv'
  BY <1>4, RousingKeepsCounts DEF PollSema, schedVars, attrVars
<1> QED BY <1>1, <1>2, <1>3, <1>4 DEF SemaCall

LEMMA HostStepCounts ==
  ASSUME TypeOK, CountInv, NEW self \in Thread, HostStep(self)
  PROVE  CountInv'
<1>1. ASSUME NEW place, TakeBaton(self, place) PROVE CountInv'
  BY <1>1, RousingKeepsCounts DEF TakeBaton, schedVars, attrVars
<1>2. ASSUME WakeJoiner(self) PROVE CountInv'
  <2>1. PICK o \in Thread :
          /\ status' = [status EXCEPT ![o] = "READY"]
          /\ wait' = [wait EXCEPT ![o] = NotWaiting]
    BY <1>2 DEF WakeJoiner, Joiners
  <2>2. \A u \in Thread : status'[u] = "READY" \/ (status'[u] = status[u] /\ wait'[u] = wait[u])
    BY <2>1 DEF TypeOK
  <2> QED BY <1>2, <2>2, RousingKeepsCounts DEF WakeJoiner, attrVars
<1>3. ASSUME ExitHandOff(self) PROVE CountInv'
  BY <1>3, HandOffKeepsCounts DEF ExitHandOff, attrVars
<1>4. ASSUME FinishHandOff(self) PROVE CountInv'
  <2>1. CASE current = self
    BY <1>4, <2>1, HandOffKeepsCounts DEF FinishHandOff, attrVars
  <2>2. CASE current # self
    BY <1>4, <2>2, RousingKeepsCounts DEF FinishHandOff, attrVars
  <2> QED BY <2>1, <2>2
<1> QED BY <1>1, <1>2, <1>3, <1>4
        DEF HostStep, ReturnFromSwitch, BeginThread, ReturnToPark

LEMMA CountsInvariant == Spec => []CountInv
<1>1. Init => CountInv
  BY DEF Init, CountInv, WakeupInv, Asleep, SuspensionsBalance
<1>2. TypeOK /\ CountInv /\ [Next]_vars => CountInv'
  <2> SUFFICES ASSUME TypeOK, CountInv, [Next]_vars PROVE CountInv'
    OBVIOUS
  <2>1. ASSUME NEW self \in Thread, ThreadCall(self) \/ SemaCall(self) \/ HostStep(self) PROVE CountInv'
    BY <2>1, ThreadCallCounts, SemaCallCounts, HostStepCounts
  <2>2. CASE UNCHANGED vars
    BY <2>2, RousingKeepsCounts DEF vars, schedVars, attrVars
  <2> QED BY <2>1, <2>2 DEF Next
<1> QED BY <1>1, <1>2, TypeCorrect, PTL DEF Spec

(* WakeupThread before SleepThread is never lost: a thread asleep has no   *)
(* wakeup outstanding, whatever calls came in between.                     *)
THEOREM WakeupsNotLost == Spec => []NoLostWakeup
<1>1. CountInv => NoLostWakeup
  BY DEF CountInv, WakeupInv, Asleep, NoLostWakeup
<1> QED BY <1>1, CountsInvariant, PTL

(* A thread that SuspendThread stopped has a suspension outstanding for    *)
(* ResumeThread to lift: it is never stopped with nothing left to undo.    *)
THEOREM SuspensionsBalanced == Spec => []SuspensionsBalance
<1>1. CountInv => SuspensionsBalance
  BY DEF CountInv
<1> QED BY <1>1, CountsInvariant, PTL
=============================================================================
