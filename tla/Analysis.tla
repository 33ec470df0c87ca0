------------------------------ MODULE Analysis ------------------------------
(***************************************************************************)
(* Function discovery: analyze and Walker of libs/analysis/src/analysis.cpp.*)
(*                                                                         *)
(* Functions are seeded from the entry point, the symbols and the imports; *)
(* each is walked from its start along every path, which claims the words  *)
(* reached and adds the functions called; a scan of what is left over adds *)
(* the words that look like a prologue.  The end of a walked function is   *)
(* the furthest word it claimed.  In the end the ranges are cut to be      *)
(* disjoint, and the words that this leaves outside are rescued.           *)
(*                                                                         *)
(* One action visits one instruction.  The user may cancel meanwhile.      *)
(***************************************************************************)
EXTENDS GuestCode, FiniteSets, SequencesExt

CONSTANTS
  Entry,      \* the entry point of the image
  Window,     \* words that an imported start outside the sections makes code: 0x1000 bytes
  Span        \* words that the targets of a jump table may be apart: 0x10000 bytes

ASSUME AnalysisAssumption == {Entry, Window, Span} \subseteq Nat

VARIABLES
  symbols,    \* the starts of the functions in the symbol table
  imports,    \* the starts that a CSV or JSON file names
  phase,      \* "seed", "walk", "scan", "rewalk", "finalize", then "run" and "ended"
  functions,  \* Result::functions, in the order of discovery, then of their starts
  claimed,    \* Walker::claimed: the start of the function that owns each word, 0 for none
  fi, queue,  \* process_pending and walk: the function walked, the targets to visit,
  at, maxEnd, \*   the address visited (0: take one from the queue), the end so far
  tables,     \* Result::jump_tables: the jr instructions whose table was found
  cancelled   \* ProgressCtl::cancelled

imageVars == <<code, replaced, symbols, imports>>
walkVars == <<fi, queue, at, maxEnd>>
analysisVars == <<phase, functions, claimed, walkVars, tables, cancelled>>

AddrOk(a) == a \in Exec \/ \E f \in imports : f <= a /\ a < f + Window

(* The functions of a set, no two with one start, in the order of these.   *)
ByStart(set) ==
  [n \in 1..Cardinality(set) |->
     CHOOSE f \in set : Cardinality({g \in set : g.start <= f.start}) = n]

Known(fs) == {fs[n].start : n \in DOMAIN fs}
Found(a, source) == [start |-> a, end |-> 0, source |-> source]
Added(fs, a, source) ==
  IF ~AddrOk(a) \/ a \in Known(fs) THEN fs ELSE Append(fs, Found(a, source))
AddedAll(fs, as, source) ==
  fs \o ByStart({Found(a, source) : a \in {b \in as : AddrOk(b) /\ b \notin Known(fs)}})

(* The targets that resolve_jump_table reads: up to the first word that is *)
(* no code, or too far from the first.                                     *)
JumpTable(i) ==
  LET Fits(n) == \A k \in 1..n : /\ i.table[k] \in Exec
                                 /\ i.table[k] <= i.table[1] + Span
                                 /\ i.table[1] <= i.table[k] + Span
      entries == CHOOSE n \in 0..Len(i.table) : Fits(n) /\ (n = Len(i.table) \/ ~Fits(n + 1))
  IN  SubSeq(i.table, 1, entries)

-----------------------------------------------------------------------------
AnalysisInit ==
  /\ phase = "seed"
  /\ functions = <<>>
  /\ claimed = [a \in Addr |-> 0]
  /\ fi = 0 /\ queue = <<>> /\ at = 0 /\ maxEnd = 0
  /\ tables = {}
  /\ cancelled = FALSE

Seed ==
  /\ phase = "seed"
  /\ functions' =
       AddedAll(AddedAll(AddedAll(<<>>, {Entry}, "Entry"), symbols \cap Exec, "Symbol"), imports, "Import")
  /\ phase' = IF cancelled THEN "finalize" ELSE "walk"
  /\ UNCHANGED <<claimed, walkVars, tables, cancelled>>

Walking == phase \in {"walk", "rewalk"} /\ ~cancelled

(* walk writes its result back, and process_pending goes on to the next    *)
(* function without an end.                                                *)
WalkEnds ==
  /\ Walking
  /\ at = 0 /\ queue = <<>>
  /\ LET fs == IF fi = 0 THEN functions ELSE [functions EXCEPT ![fi].end = maxEnd]
         pending == {n \in DOMAIN fs : n > fi /\ fs[n].end = 0}
     IN  /\ functions' = fs
         /\ IF pending = {}
            THEN /\ phase' = IF phase = "walk" THEN "scan" ELSE "finalize"
                 /\ fi' = 0 /\ queue' = <<>> /\ maxEnd' = 0
            ELSE LET next == CHOOSE n \in pending : \A k \in pending : n <= k
                 IN  /\ fi' = next
                     /\ queue' = <<fs[next].start>>
                     /\ maxEnd' = fs[next].start
                     /\ UNCHANGED phase
  /\ UNCHANGED <<claimed, at, tables, cancelled>>

TakeTarget ==
  /\ Walking
  /\ at = 0 /\ queue # <<>>
  /\ at' = Last(queue)
  /\ queue' = Front(queue)
  /\ UNCHANGED <<phase, functions, claimed, fi, maxEnd, tables, cancelled>>

(* Mutant of Stops: what was reached before is walked again.               *)
StopsNotAtClaimed(a) == a \notin Addr \/ ~AddrOk(a) \/ code[a].op = "data"
Stops(a) == a \notin Addr \/ claimed[a] # 0 \/ ~AddrOk(a) \/ code[a].op = "data"

FnStart == functions[fi].start
Cover(as) ==
  /\ claimed' = [a \in Addr |-> IF a \in as THEN FnStart ELSE claimed[a]]
  /\ maxEnd' = LET ends == {maxEnd} \union {a + 1 : a \in as} IN CHOOSE e \in ends : \A f \in ends : f <= e
Slot(a) == {s \in {a + 1} : s \in Addr /\ AddrOk(s) /\ claimed[s] = 0}

(* The path goes on to the next word, or ends.                             *)
VisitNothing ==
  /\ Stops(at)
  /\ at' = 0
  /\ UNCHANGED <<functions, claimed, maxEnd, queue, tables>>
VisitStep ==
  /\ code[at].op \in {"step", "flip", "frame", "jalr"}
  /\ Cover({at})
  /\ at' = at + 1
  /\ UNCHANGED <<functions, queue, tables>>
VisitBranch ==
  /\ IsBranch(code[at])
  /\ Cover({at})
  /\ queue' = IF code[at].to \in Exec THEN Append(queue, code[at].to) ELSE queue
  /\ at' = at + 1
  /\ UNCHANGED <<functions, tables>>
VisitCall ==
  /\ code[at].op = "jal"
  /\ Cover({at})
  /\ functions' = Added(functions, code[at].to, "Call")
  /\ at' = at + 1
  /\ UNCHANGED <<queue, tables>>
(* A jump to a known function, or back over the start, is a tail call.     *)
VisitJump ==
  LET t == code[at].to
      tail == t \in Known(functions) \/ t < FnStart
  IN  /\ code[at].op = "j"
      /\ Cover({at} \union Slot(at))
      /\ functions' = IF AddrOk(t) /\ tail THEN Added(functions, t, "Call") ELSE functions
      /\ queue' = IF AddrOk(t) /\ ~tail THEN Append(queue, t) ELSE queue
      /\ at' = 0
      /\ UNCHANGED tables
VisitRegisterJump ==
  /\ code[at].op \in {"jr", "ret"}
  /\ Cover({at} \union Slot(at))
  /\ LET found == code[at].op = "jr" /\ JumpTable(code[at]) # <<>>
     IN  /\ queue' = IF found THEN queue \o JumpTable(code[at]) ELSE queue
         /\ tables' = IF found THEN tables \union {at} ELSE tables
  /\ at' = 0
  /\ UNCHANGED functions

Visit ==
  /\ Walking
  /\ at # 0
  /\ \/ VisitNothing
     \/ ~Stops(at) /\ (VisitStep \/ VisitBranch \/ VisitCall \/ VisitJump \/ VisitRegisterJump)
  /\ UNCHANGED <<phase, fi, cancelled>>

Prologues == {a \in Exec : claimed[a] = 0 /\ code[a].op = "frame"}
PrologueScan ==
  /\ phase = "scan"
  /\ functions' = AddedAll(functions, Prologues, "Prologue")
  /\ phase' = "rewalk"
  /\ UNCHANGED <<claimed, walkVars, tables, cancelled>>

(* The progress callback asks to stop: walk leaves its loops and writes    *)
(* the end it has got to, and the scan stops where it is.                  *)
Cancel ==
  /\ ~cancelled
  /\ cancelled' = TRUE
  /\ \/ phase = "seed" /\ UNCHANGED <<phase, functions>>
     \/ /\ Walking /\ fi # 0
        /\ functions' = [functions EXCEPT ![fi].end = maxEnd]
        /\ phase' = "finalize"
     \/ /\ phase = "scan"
        /\ \E a \in Addr : functions' = AddedAll(functions, {b \in Prologues : b < a}, "Prologue")
        /\ phase' = "finalize"
  /\ UNCHANGED <<claimed, walkVars, tables>>

-----------------------------------------------------------------------------
(* The end of analyze, on sets of functions, no two with one start.        *)

(* Where f ends: at the next start, if its walk came further than that.    *)
EndAmong(fs, f) ==
  LET inside == {g.start : g \in {h \in fs : f.start < h.start /\ h.start < f.end}}
  IN  IF inside = {} THEN f.end ELSE CHOOSE a \in inside : \A b \in inside : a <= b
(* Mutant of Truncated: a range may reach into the next function.          *)
TruncatedNot(fs) == fs
Truncated(fs) == {[f EXCEPT !.end = EndAmong(fs, f)] : f \in fs}

(* The claimed words that truncation leaves outside their owner's range,   *)
(* each as a function up to where the owner's walk had come.               *)
(* Mutant of Rescued: what truncation leaves outside is dropped.           *)
RescuedNot(walked) == {}
Rescued(walked) ==
  LET Owner(a) == CHOOSE f \in walked : f.start = claimed[a]
      lost == {a \in Addr : /\ claimed[a] # 0
                            /\ \A f \in walked : f.start # a
                            /\ a >= EndAmong(walked, Owner(a))}
  IN  {[Found(a, "Call") EXCEPT !.end = Owner(a).end] : a \in lost}

(* The code truncates before it looks for lost words, and again after it   *)
(* has rescued them; the second time alone comes to the same.              *)
Finalized ==
  LET walked == ToSet(functions)
  IN  Truncated(walked \union Rescued(walked))

AnalysisStep ==
  \/ Seed
  \/ WalkEnds
  \/ TakeTarget
  \/ Visit
  \/ PrologueScan
=============================================================================
