----------------------------- MODULE ReadyQueue -----------------------------
(***************************************************************************)
(* The EE kernel's ready queue (Kernel::m_ready), as operators on a        *)
(* sequence of thread ids and the priority of every thread.  A lower value *)
(* is a higher priority; threads of one priority are served first in,      *)
(* first out.  src/runtime/src/kernel.cpp, ready_insert, ready_remove and  *)
(* pick_next.                                                              *)
(***************************************************************************)
EXTENDS Integers, SequencesExt

(* Mutant of InsertStops: stop at an equal priority.                       *)
InsertStopsAtEqual(q, pr, t) == {i \in 1..Len(q) + 1 : i = Len(q) + 1 \/ pr[q[i]] >= pr[t]}

(* The loop of ready_insert stops at the end or at the first thread of     *)
(* strictly lower priority, wherever in the queue that is.                 *)
InsertStops(q, pr, t) ==
  {i \in 1..Len(q) + 1 : i = Len(q) + 1 \/ pr[q[i]] > pr[t]}

InsertPos(q, pr, t) ==
  CHOOSE i \in InsertStops(q, pr, t) :
    \A j \in InsertStops(q, pr, t) : i <= j

ReadyInsert(q, pr, t) == InsertAt(q, InsertPos(q, pr, t), t)

(* Mutant of ReadyRemove. *)
ReadyKeep(q, t) == q

(* ready_remove erases the first occurrence only, and does nothing when    *)
(* the thread is not queued.                                               *)
ReadyRemove(q, t) == RemoveFirst(q, t)

(* Sorted by priority: what makes pick_next's front() a highest-priority   *)
(* ready thread.                                                           *)
SortedByPriority(q, pr) == \A i, j \in 1..Len(q) : i < j => pr[q[i]] <= pr[q[j]]

NoRepeats(q) == \A i, j \in 1..Len(q) : i # j => q[i] # q[j]
=============================================================================
