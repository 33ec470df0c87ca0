------------------------- MODULE EEKernelSchedProofs -------------------------
(***************************************************************************)
(* Theorems about the scheduler of EEKernel until it asks the runner to    *)
(* quit: the ready queue and the semaphores' queues are exact, the highest *)
(* priority runs, queues are first in, first out, and the baton is never   *)
(* lost.                                                                   *)
(*                                                                         *)
(* These properties hold together or not at all: that a signalled thread   *)
(* is not yet in the ready queue follows from the semaphore's queue being  *)
(* exact, which follows from the caller of WaitSema being RUN, which       *)
(* follows from what its host is doing.  SchedInv is their conjunction     *)
(* with what ties a thread's status to the place of its host.              *)
(***************************************************************************)
EXTENDS EEKernelProofs

-----------------------------------------------------------------------------
(* The invariant. *)

QueueOK(q, pr, st) ==
  /\ NoRepeats(q)
  /\ SortedByPriority(q, pr)
  /\ \A t \in Thread : (st[t] = "READY") <=> Contains(q, t)

RunsOne(st, c) == \A t \in Thread : st[t] = "RUN" => t = c

(* What a host may be doing, by its thread's status and baton flag. *)
Ending == {"exitWake", "finWake", "exitSwitch", "finSwitch", "exitPark", "finPark"}
Fits(at, st, al) ==
  \/ at = "none" /\ st \in {"none", "DORMANT"} /\ ~al
  \/ at \in {"guest", "joinStart"} /\ st = "RUN" /\ ~al
  \/ at \in {"start", "switch"} /\ (IF al THEN st = "RUN" ELSE st \in {"READY", "WAIT", "SUSPEND"})
  \/ at \in Ending /\ st = "DORMANT" /\ ~al
HostsFit(hs, st, al) == \A t \in Thread : Fits(hs[t].at, st[t], al[t])

(* The current thread runs, or ends, or has ended with nothing to run. *)
CurrentOK ==
  \/ status[current] = "RUN"
  \/ host[current].at \in {"exitWake", "finWake"}
  \/ host[current].at \in {"exitPark", "finPark"} /\ ready = <<>>

(* Also while the thread that was given the processor is still waking up. *)
HighestOK ==
  (dispatchDisabled = 0 /\ status[current] = "RUN") =>
    \A t \in Thread : status[t] = "READY" => prio[current] <= prio[t]

OnSema(st, wt, t, s) == st[t] = "WAIT" /\ wt[t] = WaitOnSema(s)
WaitersOK ==
  \A s \in Sema :
    /\ NoRepeats(waiters[s])
    /\ \A t \in Thread : Contains(waiters[s], t) <=> OnSema(status, wait, t, s)

SchedOK ==
  /\ QueueOK(ready, prio, status)
  /\ RunsOne(status, current)
  /\ HostsFit(host, status, allowed)
  /\ CurrentOK
  /\ HighestOK

SchedInv == ~quit => SchedOK /\ WaitersOK

(* What a step does to the order of the queues. *)
ReadyNow == {t \in Thread : status[t] = "READY"}
FifoKept == OldAhead(ready', prio', ReadyNow)
TokenKept ==
  \A s \in Sema, t \in Thread :
    (OnSema(status, wait, t, s) /\ status'[t] # "WAIT") =>
      waiters[s] # <<>> /\ t = Head(waiters[s]) /\ waiters'[s] = Tail(waiters[s])

-----------------------------------------------------------------------------
(* The ready queue and the statuses. *)

LEMMA QueueSame ==
  ASSUME NEW q \in Seq(Thread), NEW pr, NEW pr2, NEW st, NEW st2, QueueOK(q, pr, st),
         \A t \in Thread : (st2[t] = "READY") <=> (st[t] = "READY"),
         \A t \in Thread : st[t] = "READY" => pr2[t] = pr[t]
  PROVE  QueueOK(q, pr2, st2)
<1>1. \A i \in 1..Len(q) : q[i] \in Thread /\ pr2[q[i]] = pr[q[i]]
  BY ElementOfSeq DEF QueueOK, Contains
<1> QED BY <1>1 DEF QueueOK, SortedByPriority

LEMMA QueueWith ==
  ASSUME NEW q \in Seq(Thread), NEW pr \in [Thread -> Int], NEW st, NEW st2, NEW x \in Thread,
         QueueOK(q, pr, st), st[x] # "READY",
         \A t \in Thread : (st2[t] = "READY") <=> (t = x \/ st[t] = "READY")
  PROVE  QueueOK(ReadyInsert(q, pr, x), pr, st2)
<1>1. ~Contains(q, x)
  BY DEF QueueOK
<1>2. NoRepeats(ReadyInsert(q, pr, x)) /\ SortedByPriority(ReadyInsert(q, pr, x), pr)
  BY <1>1, ReadyInsertNoRepeats, ReadyInsertSorted DEF QueueOK
<1>3. \A t \in Thread : Contains(ReadyInsert(q, pr, x), t) <=> (t = x \/ Contains(q, t))
  BY ReadyInsertContains
<1> QED BY <1>2, <1>3 DEF QueueOK

LEMMA QueueWithout ==
  ASSUME NEW q, NEW r, NEW k, Removed(r, q, k), NEW pr, NEW st, NEW st2, QueueOK(q, pr, st),
         \A t \in Thread : (st2[t] = "READY") <=> (t # q[k] /\ st[t] = "READY")
  PROVE  QueueOK(r, pr, st2)
<1>1. NoRepeats(r) /\ SortedByPriority(r, pr)
  BY RemovedNoRepeats, RemovedSorted DEF QueueOK
<1>2. \A t \in Thread : Contains(r, t) <=> (t # q[k] /\ Contains(q, t))
  BY RemovedContains DEF QueueOK
<1> QED BY <1>1, <1>2 DEF QueueOK

LEMMA OldAheadAll ==
  ASSUME NEW q \in Seq(Thread), NEW pr, NEW st, QueueOK(q, pr, st), NEW pr2
  PROVE  OldAhead(q, pr2, {t \in Thread : st[t] = "READY"})
<1>1. \A i \in 1..Len(q) : q[i] \in Thread /\ st[q[i]] = "READY"
  BY ElementOfSeq DEF QueueOK, Contains
<1> QED BY <1>1 DEF OldAhead

(* The thread at the head is ready, and none that is ready goes before it. *)
LEMMA HeadIsReady ==
  ASSUME NEW q \in Seq(Thread), q # <<>>, NEW pr \in [Thread -> Int], NEW st, QueueOK(q, pr, st)
  PROVE  /\ Head(q) \in Thread /\ st[Head(q)] = "READY" /\ Removed(Tail(q), q, 1) /\ Head(q) = q[1]
         /\ Tail(q) \in Seq(Thread)
         /\ \A t \in Thread : st[t] = "READY" => pr[Head(q)] <= pr[t]
<1>1. Head(q) \in Thread /\ Tail(q) \in Seq(Thread)
  BY HeadTailProperties
<1>2. Removed(Tail(q), q, 1) /\ Head(q) = q[1] /\ Contains(q, Head(q))
  BY TailRemoves
<1>3. \A t \in Thread : st[t] = "READY" => pr[Head(q)] <= pr[t]
  BY HeadIsFirst DEF QueueOK
<1> QED BY <1>1, <1>2, <1>3 DEF QueueOK

-----------------------------------------------------------------------------
(* What the scheduler's core does. *)

(* A running thread's host waits; another thread's host is woken. *)
LEMMA SwitchFits ==
  ASSUME NEW hs \in Hosts, NEW st \in [Thread -> Status], NEW al \in [Thread -> BOOLEAN],
         HostsFit(hs, st, al), NEW c \in Thread, NEW x \in Thread, c # x,
         st[x] = "READY", NEW s, NEW place,
         \/ place = "switch" /\ hs[c].at = "guest" /\ s \in {"READY", "WAIT", "SUSPEND"}
         \/ place \in {"exitSwitch", "finSwitch"} /\ hs[c].at \in {"exitWake", "finWake"} /\ s = "DORMANT"
  PROVE  HostsFit([hs EXCEPT ![c] = At(place, c)], [st EXCEPT ![c] = s, ![x] = "RUN"],
                  [al EXCEPT ![x] = TRUE])
<1> DEFINE hs2 == [hs EXCEPT ![c] = At(place, c)]
           st2 == [st EXCEPT ![c] = s, ![x] = "RUN"]
           al2 == [al EXCEPT ![x] = TRUE]
<1>1. Fits(hs[c].at, st[c], al[c]) /\ Fits(hs[x].at, st[x], al[x])
  BY DEF HostsFit
<1>2. At(place, c).at = place
  BY DEF At
<1>3. Fits(hs2[c].at, st2[c], al2[c])
  <2>1. hs2[c].at = place /\ st2[c] = s /\ al2[c] = al[c] /\ ~al[c]
    BY <1>1, <1>2 DEF Hosts, Fits, Ending
  <2> QED BY <2>1 DEF Fits, Ending
<1>4. Fits(hs2[x].at, st2[x], al2[x])
  BY <1>1 DEF Hosts, Fits, Ending
<1>5. \A t \in Thread : t # c /\ t # x => hs2[t] = hs[t] /\ st2[t] = st[t] /\ al2[t] = al[t]
  BY DEF Hosts
<1> QED BY <1>3, <1>4, <1>5 DEF HostsFit

(* maybe_preempt keeps the scheduler's invariant, and the queue's order. *)
LEMMA PreemptKeeps ==
  ASSUME NEW self \in Thread, self = current, ~destroying, prio' \in [Thread -> Int],
         NEW st \in [Thread -> Status], NEW rd \in Seq(Thread),
         NEW hs \in Hosts, NEW al \in [Thread -> BOOLEAN],
         QueueOK(rd, prio', st), RunsOne(st, current), st[current] = "RUN",
         HostsFit(hs, st, al), hs[current].at = "guest",
         NEW O, current \notin O, OldAhead(rd, prio', O),
         MaybePreemptFrom(self, st, rd, hs, al)
  PROVE  /\ SchedOK' /\ OldAhead(ready', prio', O)
         /\ \A t \in Thread : (status'[t] = "WAIT") <=> (st[t] = "WAIT")
<1> DEFINE x == Head(rd)
<1>1. CASE rd = <<>> \/ dispatchDisabled' > 0 \/ prio'[x] >= prio'[current]
  <2>1. status' = st /\ ready' = rd /\ host' = hs /\ allowed' = al /\ current' = current
    BY <1>1 DEF MaybePreemptFrom
  <2>2. ASSUME dispatchDisabled' = 0, NEW t \in Thread, st[t] = "READY"
        PROVE  prio'[current] <= prio'[t]
    <3>1. Contains(rd, t)
      BY <2>2 DEF QueueOK
    <3>2. CASE rd = <<>>
      <4>1. Len(rd) = 0
        BY <3>2
      <4> QED BY <3>1, <4>1 DEF Contains
    <3>3. CASE rd # <<>>
      <4>1. prio'[x] <= prio'[t] /\ x \in Thread
        BY <2>2, <3>3, HeadIsReady
      <4>2. prio'[x] >= prio'[current]
        BY <1>1, <2>2, <3>3
      <4> HIDE DEF x
      <4> QED BY <4>1, <4>2
    <3> QED BY <3>2, <3>3
  <2>3. HighestOK'
    BY <2>1, <2>2 DEF HighestOK
  <2> QED BY <2>1, <2>3 DEF SchedOK, CurrentOK
<1>2. CASE ~(rd = <<>> \/ dispatchDisabled' > 0 \/ prio'[x] >= prio'[current])
  <2>1. /\ status' = [st EXCEPT ![current] = "READY", ![x] = "RUN"]
        /\ ready' = ReadyInsert(Tail(rd), prio', current)
        /\ current' = x
        /\ allowed' = [al EXCEPT ![x] = TRUE]
        /\ host' = [hs EXCEPT ![current] = At("switch", current)]
    BY <1>2 DEF MaybePreemptFrom, SwitchTo
  <2>2. /\ x \in Thread /\ st[x] = "READY" /\ Removed(Tail(rd), rd, 1) /\ x = rd[1]
        /\ Tail(rd) \in Seq(Thread)
        /\ \A t \in Thread : st[t] = "READY" => prio'[x] <= prio'[t]
    BY <1>2, HeadIsReady
  <2> HIDE DEF x
  <2> DEFINE st1 == [st EXCEPT ![x] = "RUN"]
  <2>3. QueueOK(Tail(rd), prio', st1)
    <3>1. \A t \in Thread : (st1[t] = "READY") <=> (t # rd[1] /\ st[t] = "READY")
      BY <2>2
    <3> HIDE DEF st1
    <3> QED BY <2>2, <3>1, QueueWithout
  <2>4. QueueOK(ready', prio', status')
    <3>1. st1[current] # "READY" /\ \A t \in Thread : (status'[t] = "READY") <=> (t = current \/ st1[t] = "READY")
      BY <2>1, <2>2 DEF Status
    <3> HIDE DEF st1
    <3> QED BY <2>1, <2>2, <2>3, <3>1, QueueWith
  <2>5. RunsOne(status', current') /\ status'[current'] = "RUN"
    BY <2>1, <2>2 DEF RunsOne
  <2>6. HostsFit(host', status', allowed')
    <3>1. current \in Thread /\ current # x
      BY <2>2
    <3> QED BY <2>1, <2>2, <3>1, SwitchFits
  <2>7. HighestOK'
    <3>1. prio'[x] <= prio'[current]
      BY <1>2, <2>2
    <3>2. \A t \in Thread : status'[t] = "READY" => t = current \/ st[t] = "READY"
      BY <2>1, <2>2
    <3> QED BY <2>1, <2>2, <3>1, <3>2 DEF HighestOK
  <2>8. OldAhead(ready', prio', O)
    <3>1. OldAhead(Tail(rd), prio', O)
      BY <2>2, RemovedOldAhead
    <3>2. SortedByPriority(Tail(rd), prio')
      BY <2>3 DEF QueueOK
    <3> QED BY <2>1, <2>2, <3>1, <3>2, InsertedOldAhead
  <2>9. \A t \in Thread : (status'[t] = "WAIT") <=> (st[t] = "WAIT")
    BY <2>1, <2>2
  <2> QED BY <2>4, <2>5, <2>6, <2>7, <2>8, <2>9 DEF SchedOK, CurrentOK
<1> QED BY <1>1, <1>2

LEMMA SchedTypes ==
  TypeOK => /\ ready \in Seq(Thread) /\ prio \in [Thread -> Int] /\ status \in [Thread -> Status]
            /\ host \in Hosts /\ allowed \in [Thread -> BOOLEAN] /\ current \in Thread
<1>1. \A p \in Priority : p \in Int
  BY PriorityAssumption
<1> QED BY <1>1 DEF TypeOK, Hosts

(* block_current keeps the invariant, if there is a thread to switch to. *)
LEMMA BlockKeeps ==
  ASSUME TypeOK, SchedOK, ~destroying, NEW self \in Thread, self = current, InGuest(self),
         NEW s \in {"WAIT", "SUSPEND"}, NEW w, BlockCurrent(self, s, w, ready), prio' = prio,
         status[current] = "RUN", ready # <<>>
  PROVE  /\ SchedOK' /\ FifoKept /\ wait' = [wait EXCEPT ![current] = w]
         /\ \A t \in Thread : (status'[t] = "WAIT") <=> (IF t = current THEN s = "WAIT" ELSE status[t] = "WAIT")
<1> DEFINE x == Head(ready)
<1>1. /\ status' = [status EXCEPT ![current] = s, ![x] = "RUN"]
      /\ ready' = Tail(ready)
      /\ current' = x
      /\ host' = [host EXCEPT ![current] = At("switch", current)]
      /\ allowed' = [allowed EXCEPT ![x] = TRUE]
      /\ wait' = [wait EXCEPT ![current] = w]
  BY DEF BlockCurrent, SwitchTo
<1>2. /\ ready \in Seq(Thread) /\ prio \in [Thread -> Int] /\ status \in [Thread -> Status]
      /\ host \in Hosts /\ allowed \in [Thread -> BOOLEAN] /\ current \in Thread
  BY SchedTypes
<1>3. /\ x \in Thread /\ status[x] = "READY" /\ Removed(Tail(ready), ready, 1) /\ x = ready[1]
      /\ \A t \in Thread : status[t] = "READY" => prio[x] <= prio[t]
  BY <1>2, HeadIsReady DEF SchedOK
<1> HIDE DEF x
<1>4. QueueOK(ready', prio', status')
  <2>1. \A t \in Thread : (status'[t] = "READY") <=> (t # ready[1] /\ status[t] = "READY")
    BY <1>1, <1>2, <1>3
  <2>2. QueueOK(ready, prio, status) /\ Removed(ready', ready, 1)
    BY <1>1, <1>3 DEF SchedOK
  <2>3. QueueOK(ready', prio, status')
    BY <2>1, <2>2, QueueWithout
  <2> QED BY <2>3
<1>5. RunsOne(status', current') /\ status'[current'] = "RUN"
  BY <1>1, <1>2, <1>3 DEF RunsOne, SchedOK
<1>6. HostsFit(host', status', allowed')
  <2>1. current # x /\ host[current].at = "guest" /\ HostsFit(host, status, allowed)
    BY <1>3 DEF InGuest, SchedOK
  <2> QED BY <1>1, <1>2, <1>3, <2>1, SwitchFits
<1>7. HighestOK'
  <2>1. \A t \in Thread : status'[t] = "READY" => status[t] = "READY"
    BY <1>1, <1>2, <1>3
  <2> QED BY <1>1, <1>3, <2>1 DEF HighestOK
<1>8. FifoKept
  <2>1. OldAhead(ready, prio, ReadyNow)
    BY <1>2, OldAheadAll DEF SchedOK, ReadyNow
  <2> QED BY <1>1, <1>3, <2>1, RemovedOldAhead DEF FifoKept
<1>9. \A t \in Thread : (status'[t] = "WAIT") <=> (IF t = current THEN s = "WAIT" ELSE status[t] = "WAIT")
  BY <1>1, <1>2, <1>3
<1> QED BY <1>1, <1>4, <1>5, <1>6, <1>7, <1>8, <1>9 DEF SchedOK, CurrentOK

(* The hand-over of an ending thread does too, ready threads or none. *)
LEMMA HandOffKeeps ==
  ASSUME TypeOK, SchedOK, NEW self \in Thread, self = current,
         host[self].at \in {"exitWake", "finWake"}, prio' = prio,
         NEW switching \in {"exitSwitch", "finSwitch"}, NEW parked \in {"exitPark", "finPark"},
         HandOffAndPark(self, self, switching, parked)
  PROVE  SchedOK' /\ FifoKept /\ \A t \in Thread : (status'[t] = "WAIT") <=> (status[t] = "WAIT")
<1>1. /\ ready \in Seq(Thread) /\ prio \in [Thread -> Int] /\ status \in [Thread -> Status]
      /\ host \in Hosts /\ allowed \in [Thread -> BOOLEAN] /\ current \in Thread
  BY SchedTypes
<1>2. Fits(host[self].at, status[self], allowed[self]) /\ status[self] = "DORMANT" /\ ~allowed[self]
  BY DEF SchedOK, HostsFit, Fits, Ending
<1>3. OldAhead(ready, prio, ReadyNow)
  BY <1>1, OldAheadAll DEF SchedOK, ReadyNow
<1>4. CASE ready = <<>>
  <2>1. /\ host' = [host EXCEPT ![self] = At(parked, self)]
        /\ status' = status /\ ready' = ready /\ current' = current /\ allowed' = allowed
    BY <1>4 DEF HandOffAndPark
  <2>2. host'[self].at = parked /\ \A t \in Thread : t # self => host'[t] = host[t]
    BY <1>1, <2>1 DEF At, Hosts
  <2>3. Fits(host'[self].at, status'[self], allowed'[self])
    BY <1>2, <2>1, <2>2 DEF Fits, Ending
  <2>4. HostsFit(host', status', allowed')
    BY <2>1, <2>2, <2>3 DEF HostsFit, SchedOK
  <2>5. HighestOK'
    BY <1>2, <2>1 DEF HighestOK
  <2>6. CurrentOK'
    BY <1>4, <2>1, <2>2 DEF CurrentOK
  <2> QED BY <1>3, <2>1, <2>4, <2>5, <2>6 DEF SchedOK, FifoKept
<1>5. CASE ready # <<>>
  <2> DEFINE x == Head(ready)
  <2>1. /\ host' = [host EXCEPT ![self] = At(switching, self)]
        /\ status' = [status EXCEPT ![x] = "RUN"] /\ ready' = Tail(ready) /\ current' = x
        /\ allowed' = [allowed EXCEPT ![x] = TRUE]
    BY <1>5 DEF HandOffAndPark, SwitchTo
  <2>2. /\ x \in Thread /\ status[x] = "READY" /\ Removed(Tail(ready), ready, 1) /\ x = ready[1]
        /\ \A t \in Thread : status[t] = "READY" => prio[x] <= prio[t]
    BY <1>1, <1>5, HeadIsReady DEF SchedOK
  <2> HIDE DEF x
  <2>3. QueueOK(ready', prio', status')
    <3>1. \A t \in Thread : (status'[t] = "READY") <=> (t # ready[1] /\ status[t] = "READY")
      BY <1>1, <2>1, <2>2
    <3>2. QueueOK(ready, prio, status) /\ Removed(ready', ready, 1)
      BY <2>1, <2>2 DEF SchedOK
    <3>3. QueueOK(ready', prio, status')
      BY <3>1, <3>2, QueueWithout
    <3> QED BY <3>3
  <2>4. RunsOne(status', current') /\ status'[current'] = "RUN"
    BY <1>1, <1>2, <2>1, <2>2 DEF RunsOne, SchedOK
  <2>5. HostsFit(host', status', allowed')
    <3> DEFINE st2 == [status EXCEPT ![self] = "DORMANT", ![x] = "RUN"]
    <3>1. status' = st2
      BY <1>1, <1>2, <2>1, <2>2
    <3>2. self # x /\ HostsFit(host, status, allowed)
      BY <1>2, <2>2 DEF SchedOK
    <3>3. HostsFit([host EXCEPT ![self] = At(switching, self)], st2, [allowed EXCEPT ![x] = TRUE])
      BY <1>1, <2>2, <3>2, SwitchFits
    <3> QED BY <2>1, <3>1, <3>3
  <2>6. HighestOK'
    <3>1. \A t \in Thread : status'[t] = "READY" => status[t] = "READY"
      BY <1>1, <2>1, <2>2
    <3> QED BY <2>1, <2>2, <3>1 DEF HighestOK
  <2>7. FifoKept
    BY <1>3, <2>1, <2>2, RemovedOldAhead DEF FifoKept
  <2>8. \A t \in Thread : (status'[t] = "WAIT") <=> (status[t] = "WAIT")
    BY <1>1, <2>1, <2>2
  <2> QED BY <2>3, <2>4, <2>5, <2>6, <2>7, <2>8 DEF SchedOK, CurrentOK
<1> QED BY <1>4, <1>5

-----------------------------------------------------------------------------
(* The calls. *)

Kept == (~quit' => SchedOK' /\ WaitersOK') /\ FifoKept /\ TokenKept

(* Guest code runs on the current thread's host, which is RUN. *)
LEMMA GuestIsCurrent ==
  ASSUME BatonInv, SchedOK, NEW self \in Thread, InGuest(self)
  PROVE  self = current /\ status[self] = "RUN" /\ ~allowed[self] /\ ~destroying /\ self \notin ReadyNow
<1>1. self = current
  BY ExecutingIsAlone DEF BatonInv, InGuest, ExecutingAt
<1>2. Fits("guest", status[self], allowed[self])
  BY DEF SchedOK, HostsFit, InGuest
<1>3. status[self] = "RUN" /\ ~allowed[self]
  BY <1>2 DEF Fits, Ending
<1> QED BY <1>1, <1>3 DEF BatonInv, ReadyNow

(* Steps that leave the threads that wait on semaphores where they are. *)
LEMMA WaitersStay ==
  ASSUME WaitersOK, waiters' = waiters,
         \A t \in Thread : (status'[t] = "WAIT") <=> (status[t] = "WAIT"),
         \A t \in Thread : status[t] = "WAIT" => wait'[t] = wait[t]
  PROVE  WaitersOK' /\ TokenKept
BY DEF WaitersOK, OnSema, TokenKept

(* The same, if no thread that waits on a semaphore before or after is t.  *)
LEMMA WaitersStayBut ==
  ASSUME WaitersOK, waiters' = waiters, NEW t \in Thread,
         \A u \in Thread : u # t => /\ (status'[u] = "WAIT") <=> (status[u] = "WAIT")
                                   /\ wait'[u] = wait[u],
         \A s \in Sema : ~OnSema(status, wait, t, s) /\ ~OnSema(status', wait', t, s)
  PROVE  WaitersOK' /\ TokenKept
<1>1. \A u \in Thread, s \in Sema : OnSema(status', wait', u, s) <=> OnSema(status, wait, u, s)
  BY DEF OnSema
<1>2. \A u \in Thread, s \in Sema : OnSema(status', wait', u, s) => status'[u] = "WAIT"
  BY DEF OnSema
<1> QED BY <1>1, <1>2 DEF WaitersOK, TokenKept

(* Calls that leave the scheduler alone. *)
LEMMA StillKept ==
  ASSUME TypeOK, SchedOK, WaitersOK, UNCHANGED <<schedVars, prio, waiters, host, allowed>>,
         dispatchDisabled = 0 \/ dispatchDisabled' # 0
  PROVE  Kept
<1>1. SchedOK'
  BY DEF SchedOK, schedVars, CurrentOK, HighestOK
<1>2. WaitersOK' /\ TokenKept
  BY WaitersStay DEF schedVars
<1>3. FifoKept
  <2>1. OldAhead(ready, prio, ReadyNow)
    BY SchedTypes, OldAheadAll DEF SchedOK, ReadyNow
  <2> QED BY <2>1 DEF FifoKept, schedVars
<1> QED BY <1>1, <1>2, <1>3 DEF Kept

(* Calls that end in maybe_preempt: first any, then those that make a      *)
(* thread ready or none.                                                   *)
LEMMA PreemptCall ==
  ASSUME TypeOK, BatonInv, SchedOK, NEW self \in Thread, InGuest(self), prio' \in [Thread -> Int],
         NEW st \in [Thread -> Status], NEW rd \in Seq(Thread), MaybePreempt(self, st, rd),
         QueueOK(rd, prio', st), st[current] = "RUN", RunsOne(st, current),
         HostsFit(host, st, allowed), OldAhead(rd, prio', ReadyNow)
  PROVE  SchedOK' /\ FifoKept /\ \A t \in Thread : (status'[t] = "WAIT") <=> (st[t] = "WAIT")
<1>1. self = current /\ ~destroying /\ current \notin ReadyNow /\ host[current].at = "guest"
  BY GuestIsCurrent DEF InGuest
<1>2. MaybePreemptFrom(self, st, rd, host, allowed)
  BY DEF MaybePreempt
<1> QED BY <1>1, <1>2, SchedTypes, PreemptKeeps DEF FifoKept

LEMMA NoneReadied ==
  ASSUME TypeOK, BatonInv, SchedOK, NEW self \in Thread, InGuest(self), prio' \in [Thread -> Int],
         \A t \in Thread : status[t] = "READY" => prio'[t] = prio[t],
         MaybePreempt(self, status, ready)
  PROVE  SchedOK' /\ FifoKept /\ \A t \in Thread : (status'[t] = "WAIT") <=> (status[t] = "WAIT")
<1>1. OldAhead(ready, prio', ReadyNow)
  BY SchedTypes, OldAheadAll DEF SchedOK, ReadyNow
<1>2. QueueOK(ready, prio', status)
  BY SchedTypes, QueueSame DEF SchedOK
<1>3. status[current] = "RUN"
  BY GuestIsCurrent
<1> QED BY <1>1, <1>2, <1>3, SchedTypes, PreemptCall DEF SchedOK

LEMMA ThreadReadied ==
  ASSUME TypeOK, BatonInv, SchedOK, NEW self \in Thread, InGuest(self), prio' = prio,
         NEW t \in Thread, status[t] \in {"WAIT", "SUSPEND"},
         MaybePreempt(self, [status EXCEPT ![t] = "READY"], ReadyInsert(ready, prio, t))
  PROVE  /\ SchedOK' /\ FifoKept
         /\ \A u \in Thread : (status'[u] = "WAIT") <=> (u # t /\ status[u] = "WAIT")
<1> DEFINE st == [status EXCEPT ![t] = "READY"]
           rd == ReadyInsert(ready, prio, t)
<1>1. st \in [Thread -> Status] /\ rd \in Seq(Thread)
  BY MakeReadyType, SchedTypes
<1>2. /\ \A u \in Thread : (st[u] = "READY") <=> (u = t \/ status[u] = "READY")
      /\ \A u \in Thread : (st[u] = "WAIT") <=> (u # t /\ status[u] = "WAIT")
      /\ \A u \in Thread : u # t => st[u] = status[u]
      /\ st[t] = "READY"
  BY SchedTypes
<1>3. st[current] = "RUN" /\ RunsOne(st, current)
  <2>1. status[current] = "RUN"
    BY GuestIsCurrent
  <2> QED BY <2>1, <1>2 DEF RunsOne, SchedOK
<1>4. QueueOK(rd, prio', st)
  <2> HIDE DEF st
  <2> QED BY <1>2, SchedTypes, QueueWith DEF SchedOK
<1>5. HostsFit(host, st, allowed)
  <2>1. Fits(host[t].at, status[t], allowed[t])
    BY DEF SchedOK, HostsFit
  <2>2. Fits(host[t].at, st[t], allowed[t])
    BY <1>2, <2>1 DEF Fits, Ending
  <2> QED BY <1>2, <2>2 DEF SchedOK, HostsFit
<1>6. OldAhead(rd, prio', ReadyNow)
  <2>1. OldAhead(ready, prio, ReadyNow)
    BY SchedTypes, OldAheadAll DEF SchedOK, ReadyNow
  <2>2. t \notin ReadyNow /\ SortedByPriority(ready, prio)
    BY DEF ReadyNow, SchedOK, QueueOK
  <2> QED BY <2>1, <2>2, SchedTypes, InsertedOldAhead
<1>7. MaybePreempt(self, st, rd) /\ prio' \in [Thread -> Int]
  BY SchedTypes
<1> HIDE DEF st, rd
<1>8. SchedOK' /\ FifoKept /\ \A u \in Thread : (status'[u] = "WAIT") <=> (st[u] = "WAIT")
  BY <1>1, <1>3, <1>4, <1>5, <1>6, <1>7, PreemptCall
<1> QED BY <1>2, <1>8

(* Calls that block the current thread; with nothing ready they make the   *)
(* kernel ask the runner to quit.                                          *)
LEMMA BlockCall ==
  ASSUME TypeOK, BatonInv, SchedOK, WaitersOK, NEW self \in Thread, InGuest(self),
         NEW s \in {"WAIT", "SUSPEND"}, NEW w, BlockCurrent(self, s, w, ready), prio' = prio
  PROVE  /\ ready # <<>> => SchedOK'
         /\ ready = <<>> => quit'
         /\ FifoKept
         /\ status[current] = "RUN"
         /\ wait' = [wait EXCEPT ![current] = w]
         /\ \A t \in Thread : (status'[t] = "WAIT") <=> (IF t = current THEN s = "WAIT" ELSE status[t] = "WAIT")
<1>1. self = current /\ ~destroying /\ status[current] = "RUN"
  BY GuestIsCurrent
<1>2. CASE ready # <<>>
  BY <1>1, <1>2, SchedTypes, BlockKeeps
<1>3. CASE ready = <<>>
  <2>1. /\ status' = [status EXCEPT ![current] = s] /\ ready' = ready /\ quit'
        /\ wait' = [wait EXCEPT ![current] = w]
    BY <1>1, <1>3 DEF BlockCurrent
  <2>2. OldAhead(ready, prio, ReadyNow)
    BY SchedTypes, OldAheadAll DEF SchedOK, ReadyNow
  <2> QED BY <1>1, <1>3, <2>1, <2>2, SchedTypes DEF FifoKept
<1> QED BY <1>2, <1>3

(* The same, when the wait is not for a semaphore. *)
LEMMA BlockKept ==
  ASSUME TypeOK, BatonInv, SchedOK, WaitersOK, NEW self \in Thread, InGuest(self),
         NEW s \in {"WAIT", "SUSPEND"}, NEW w, BlockCurrent(self, s, w, ready), prio' = prio,
         waiters' = waiters, s = "WAIT" => \A r \in Sema : w # WaitOnSema(r)
  PROVE  Kept
<1>1. /\ ready # <<>> => SchedOK'
      /\ ready = <<>> => quit'
      /\ FifoKept
      /\ status[current] = "RUN"
      /\ wait' = [wait EXCEPT ![current] = w]
      /\ \A t \in Thread : (status'[t] = "WAIT") <=> (IF t = current THEN s = "WAIT" ELSE status[t] = "WAIT")
  BY BlockCall
<1>2. \A r \in Sema : ~OnSema(status, wait, current, r) /\ ~OnSema(status', wait', current, r)
  BY <1>1 DEF OnSema, TypeOK
<1>3. \A t \in Thread : t # current => wait'[t] = wait[t]
  BY <1>1 DEF TypeOK
<1>4. WaitersOK' /\ TokenKept
  BY <1>1, <1>2, <1>3, SchedTypes, WaitersStayBut
<1> QED BY <1>1, <1>4 DEF Kept

(* Making a thread ready that does not wait for a semaphore. *)
LEMMA ReadiedKept ==
  ASSUME TypeOK, BatonInv, SchedOK, WaitersOK, NEW self \in Thread, InGuest(self), prio' = prio,
         NEW t \in Thread, status[t] \in {"WAIT", "SUSPEND"},
         \A r \in Sema : ~OnSema(status, wait, t, r),
         MaybePreempt(self, [status EXCEPT ![t] = "READY"], ReadyInsert(ready, prio, t)),
         waiters' = waiters, \A u \in Thread : u # t => wait'[u] = wait[u]
  PROVE  Kept
<1>1. /\ SchedOK' /\ FifoKept
      /\ \A u \in Thread : (status'[u] = "WAIT") <=> (u # t /\ status[u] = "WAIT")
  BY ThreadReadied
<1>2. \A r \in Sema : ~OnSema(status', wait', t, r)
  BY <1>1 DEF OnSema
<1>3. WaitersOK' /\ TokenKept
  BY <1>1, <1>2, WaitersStayBut
<1> QED BY <1>1, <1>3 DEF Kept

(* ExitThread and the return from the entry function: the current thread   *)
(* ends, and its host goes on to wake the joiners.                         *)
LEMMA EndKept ==
  ASSUME TypeOK, BatonInv, SchedOK, WaitersOK, InGuest(current),
         NEW place \in {"exitWake", "finWake"},
         status' = [status EXCEPT ![current] = "DORMANT"],
         host' = [host EXCEPT ![current] = At(place, current)],
         \A t \in Thread : t # current => wait'[t] = wait[t],
         UNCHANGED <<ready, current, prio, allowed, waiters>>
  PROVE  Kept
<1>1. status[current] = "RUN" /\ ~allowed[current] /\ current \in Thread
  BY SchedTypes, GuestIsCurrent
<1>2. /\ status'[current] = "DORMANT" /\ host'[current].at = place
      /\ \A t \in Thread : t # current => status'[t] = status[t] /\ host'[t] = host[t]
  BY <1>1, SchedTypes DEF At, Hosts
<1>3. QueueOK(ready', prio', status')
  <2>1. \A t \in Thread : (status'[t] = "READY") <=> (status[t] = "READY")
    BY <1>1, <1>2
  <2>2. QueueOK(ready, prio, status')
    BY <2>1, SchedTypes, QueueSame DEF SchedOK
  <2> QED BY <2>2
<1>4. RunsOne(status', current') /\ CurrentOK' /\ HighestOK'
  BY <1>1, <1>2 DEF RunsOne, SchedOK, CurrentOK, HighestOK
<1>5. HostsFit(host', status', allowed')
  <2>1. Fits(host'[current].at, status'[current], allowed'[current])
    BY <1>1, <1>2 DEF Fits, Ending
  <2> QED BY <1>1, <1>2, <2>1 DEF HostsFit, SchedOK
<1>6. FifoKept
  <2>1. OldAhead(ready, prio, ReadyNow)
    BY SchedTypes, OldAheadAll DEF SchedOK, ReadyNow
  <2> QED BY <2>1 DEF FifoKept
<1>7. WaitersOK' /\ TokenKept
  <2>1. \A r \in Sema : ~OnSema(status, wait, current, r) /\ ~OnSema(status', wait', current, r)
    BY <1>1, <1>2 DEF OnSema
  <2> QED BY <1>1, <1>2, <2>1, WaitersStayBut
<1> QED BY <1>3, <1>4, <1>5, <1>6, <1>7 DEF Kept, SchedOK

LEMMA CreateKept ==
  ASSUME TypeOK, BatonInv, SchedOK, WaitersOK, NEW self \in Thread, NEW t \in Thread,
         NEW p \in Priority, CreateThread(self, t, p), prio' \in [Thread -> Int]
  PROVE  Kept
<1>1. /\ status' = [status EXCEPT ![t] = "DORMANT"] /\ prio' = [prio EXCEPT ![t] = p]
      /\ status[t] = "none" /\ InGuest(self)
      /\ UNCHANGED <<wait, ready, current, waiters, host, allowed, dispatchDisabled>>
  BY DEF CreateThread, Exists, semaVars, hostVars, ctlVars
<1>2. status[current] = "RUN" /\ current # t
  BY <1>1, GuestIsCurrent
<1>3. /\ status'[t] = "DORMANT"
      /\ \A u \in Thread : u # t => status'[u] = status[u] /\ prio'[u] = prio[u]
      /\ \A u \in Thread : (status'[u] = "READY") <=> (status[u] = "READY")
  BY <1>1, SchedTypes
<1>4. QueueOK(ready, prio', status')
  BY <1>1, <1>3, SchedTypes, QueueSame DEF SchedOK
<1>5. RunsOne(status', current') /\ CurrentOK' /\ HighestOK'
  BY <1>1, <1>2, <1>3, SchedTypes DEF RunsOne, SchedOK, CurrentOK, HighestOK
<1>6. HostsFit(host', status', allowed')
  <2>1. Fits(host[t].at, status[t], allowed[t])
    BY DEF SchedOK, HostsFit
  <2>2. Fits(host'[t].at, status'[t], allowed'[t])
    BY <1>1, <1>3, <2>1 DEF Fits, Ending
  <2> QED BY <1>1, <1>3, <2>2 DEF HostsFit, SchedOK
<1>7. FifoKept
  <2>1. OldAhead(ready, prio', ReadyNow)
    BY SchedTypes, OldAheadAll DEF SchedOK, ReadyNow
  <2> QED BY <1>1, <2>1 DEF FifoKept
<1>8. WaitersOK' /\ TokenKept
  <2>1. \A u \in Thread : (status'[u] = "WAIT") <=> (status[u] = "WAIT")
    BY <1>1, <1>3
  <2> QED BY <1>1, <2>1, WaitersStay
<1> QED BY <1>1, <1>4, <1>5, <1>6, <1>7, <1>8 DEF Kept, SchedOK

LEMMA StartKept ==
  ASSUME TypeOK, BatonInv, SchedOK, WaitersOK, NEW self \in Thread, NEW t \in Thread,
         StartThread(self, t)
  PROVE  Kept
<1>1. self = current /\ status[self] = "RUN" /\ ~allowed[self] /\ ~destroying /\ self \notin ReadyNow
  BY GuestIsCurrent DEF StartThread
<1>2. status[t] = "DORMANT" /\ t # self /\ prio' = prio /\ waiters' = waiters
  BY <1>1 DEF StartThread, Launch, attrVars, semaVars
<1>3. OldAhead(ready, prio, ReadyNow)
  BY SchedTypes, OldAheadAll DEF SchedOK, ReadyNow
<1>4. CASE Joinable(t)
  <2>1. host' = [host EXCEPT ![self] = At("joinStart", t)] /\ UNCHANGED <<schedVars, allowed, ctlVars>>
    BY <1>4 DEF StartThread
  <2>2. host'[self].at = "joinStart" /\ \A u \in Thread : u # self => host'[u] = host[u]
    BY <2>1, SchedTypes DEF At, Hosts
  <2>3. Fits(host'[self].at, status'[self], allowed'[self])
    BY <1>1, <2>1, <2>2 DEF Fits, schedVars
  <2>4. HostsFit(host', status', allowed')
    BY <2>1, <2>2, <2>3 DEF HostsFit, SchedOK, schedVars
  <2>5. SchedOK'
    BY <1>1, <1>2, <2>1, <2>4 DEF SchedOK, CurrentOK, HighestOK, schedVars, ctlVars
  <2>6. WaitersOK' /\ TokenKept
    BY <1>2, <2>1, WaitersStay DEF schedVars
  <2> QED BY <1>2, <1>3, <2>1, <2>5, <2>6 DEF Kept, FifoKept, schedVars
<1>5. CASE ~Joinable(t)
  <2> DEFINE st == [status EXCEPT ![t] = "READY"]
             rd == ReadyInsert(ready, prio, t)
             hs == [host EXCEPT ![self] = At("guest", self), ![t] = At("start", t)]
             al == [allowed EXCEPT ![t] = FALSE]
  <2>1. MaybePreemptFrom(self, st, rd, hs, al) /\ wait' = [wait EXCEPT ![t] = NotWaiting]
    BY <1>5 DEF StartThread, Launch
  <2>2. /\ st \in [Thread -> Status] /\ rd \in Seq(Thread) /\ al \in [Thread -> BOOLEAN]
        /\ st[t] = "READY" /\ al[t] = FALSE
        /\ \A u \in Thread : u # t => st[u] = status[u] /\ al[u] = allowed[u]
    BY MakeReadyType, SchedTypes
  <2>3. /\ At("guest", self) \in [at : HostAt, on : Nat] /\ At("start", t) \in [at : HostAt, on : Nat]
        /\ At("guest", self).at = "guest" /\ At("start", t).at = "start"
    BY AtType DEF HostAt, At
  <2>4. /\ hs \in Hosts /\ hs[self].at = "guest" /\ hs[t].at = "start"
        /\ \A u \in Thread : u # t /\ u # self => hs[u] = host[u]
    BY <1>2, <2>3, SchedTypes DEF Hosts
  <2>5. \A u \in Thread : /\ (st[u] = "READY") <=> (u = t \/ status[u] = "READY")
                          /\ (st[u] = "WAIT") <=> (status[u] = "WAIT")
    BY <1>2, <2>2
  <2> HIDE DEF st, rd, hs, al
  <2>6. QueueOK(rd, prio', st)
    BY <1>2, <2>5, SchedTypes, QueueWith DEF SchedOK, rd
  <2>7. RunsOne(st, current) /\ st[current] = "RUN"
    BY <1>1, <1>2, <2>2 DEF RunsOne, SchedOK
  <2>8. HostsFit(hs, st, al)
    <3>1. Fits(hs[self].at, st[self], al[self]) /\ Fits(hs[t].at, st[t], al[t])
      BY <1>1, <1>2, <2>2, <2>4 DEF Fits
    <3> QED BY <2>2, <2>4, <3>1 DEF HostsFit, SchedOK
  <2>9. OldAhead(rd, prio', ReadyNow)
    <3>1. t \notin ReadyNow /\ SortedByPriority(ready, prio)
      BY <1>2 DEF ReadyNow, SchedOK, QueueOK
    <3> QED BY <1>2, <1>3, <3>1, SchedTypes, InsertedOldAhead DEF rd
  <2>10. SchedOK' /\ OldAhead(ready', prio', ReadyNow) /\ \A u \in Thread : (status'[u] = "WAIT") <=> (st[u] = "WAIT")
    BY <1>1, <1>2, <2>1, <2>2, <2>4, <2>6, <2>7, <2>8, <2>9, SchedTypes, PreemptKeeps
  <2>11. WaitersOK' /\ TokenKept
    <3>1. \A u \in Thread : (status'[u] = "WAIT") <=> (status[u] = "WAIT")
      BY <2>5, <2>10
    <3>2. \A u \in Thread : status[u] = "WAIT" => wait'[u] = wait[u]
      BY <1>2, <2>1 DEF TypeOK
    <3> QED BY <1>2, <3>1, <3>2, WaitersStay
  <2> QED BY <2>10, <2>11 DEF Kept, FifoKept
<1> QED BY <1>4, <1>5

LEMMA QueueReordered ==
  ASSUME TypeOK, QueueOK(ready, prio, status), NEW t \in Thread, status[t] = "READY",
         prio' \in [Thread -> Int], \A u \in Thread : u # t => prio'[u] = prio[u]
  PROVE  LET rd == ReadyInsert(ReadyRemove(ready, t), prio', t)
         IN  rd \in Seq(Thread) /\ QueueOK(rd, prio', status)
<1> DEFINE rd == ReadyRemove(ready, t)
           st == [status EXCEPT ![t] = "RUN"]
<1>1. rd \in Seq(Thread)
  BY SchedTypes, ReadyRemoveType
<1>2. /\ st[t] = "RUN"
      /\ \A u \in Thread : (st[u] = "READY") <=> (u # t /\ status[u] = "READY")
      /\ \A u \in Thread : (status[u] = "READY") <=> (u = t \/ st[u] = "READY")
      /\ \A u \in Thread : st[u] = "READY" => prio'[u] = prio[u]
  BY SchedTypes
<1>3. Contains(ready, t)
  BY DEF QueueOK
<1>4. PICK k \in 1..Len(ready) : ready[k] = t /\ Removed(rd, ready, k)
  BY <1>3, SchedTypes, ReadyRemoveElements
<1> HIDE DEF rd, st
<1>5. QueueOK(rd, prio, st)
  BY <1>2, <1>4, QueueWithout
<1>6. QueueOK(rd, prio', st)
  BY <1>1, <1>2, <1>5, QueueSame
<1>7. QueueOK(ReadyInsert(rd, prio', t), prio', status)
  BY <1>1, <1>2, <1>6, QueueWith
<1>8. ReadyInsert(rd, prio', t) \in Seq(Thread)
  BY <1>1, ReadyInsertType
<1> QED BY <1>7, <1>8 DEF rd

LEMMA PriorityKept ==
  ASSUME TypeOK, BatonInv, SchedOK, WaitersOK, NEW self \in Thread, NEW t \in Thread,
         NEW p \in Priority, ChangeThreadPriority(self, t, p), prio' \in [Thread -> Int]
  PROVE  Kept
<1>1. /\ InGuest(self) /\ prio' = [prio EXCEPT ![t] = p] /\ wait' = wait /\ waiters' = waiters
      /\ MaybePreempt(self, status, IF status[t] = "READY"
                                    THEN ReadyInsert(ReadyRemove(ready, t), prio', t) ELSE ready)
  BY DEF ChangeThreadPriority, semaVars
<1>2. SchedOK' /\ FifoKept /\ \A u \in Thread : (status'[u] = "WAIT") <=> (status[u] = "WAIT")
  <2>1. CASE status[t] # "READY"
    <3>1. \A u \in Thread : status[u] = "READY" => prio'[u] = prio[u]
      BY <1>1, <2>1, SchedTypes
    <3> QED BY <1>1, <2>1, <3>1, NoneReadied
  <2>2. CASE status[t] = "READY"
    <3> DEFINE rd == ReadyInsert(ReadyRemove(ready, t), prio', t)
    <3>1. rd \in Seq(Thread) /\ QueueOK(rd, prio', status)
      BY <1>1, <2>2, SchedTypes, QueueReordered DEF SchedOK
    <3>2. status[current] = "RUN" /\ MaybePreempt(self, status, rd)
      BY <1>1, <2>2, GuestIsCurrent
    <3> HIDE DEF rd
    <3>3. OldAhead(rd, prio', ReadyNow)
      BY <3>1, OldAheadAll DEF ReadyNow
    <3> QED BY <1>1, <3>1, <3>2, <3>3, SchedTypes, PreemptCall DEF SchedOK
  <2> QED BY <2>1, <2>2
<1> QED BY <1>1, <1>2, WaitersStay DEF Kept

LEMMA RotateKept ==
  ASSUME TypeOK, BatonInv, SchedOK, WaitersOK, NEW self \in Thread,
         NEW p \in Priority, RotateThreadReadyQueue(self, p)
  PROVE  Kept
<1>1. /\ self = current /\ status[current] = "RUN" /\ host[current].at = "guest" /\ current \notin ReadyNow
      /\ UNCHANGED <<wait, waiters, prio, dispatchDisabled>> /\ prio[current] = p
  BY GuestIsCurrent DEF RotateThreadReadyQueue, InGuest, attrVars, ctlVars, semaVars
<1>2. PICK i \in 1..Len(ready) :
        /\ prio[ready[i]] = p
        /\ status' = [status EXCEPT ![current] = "READY", ![ready[i]] = "RUN"]
        /\ ready' = ReadyInsert(ReadyRemove(ready, ready[i]), prio, current)
        /\ current' = ready[i]
        /\ SwitchTo(self, ready[i], current, "switch", host, allowed)
  BY DEF RotateThreadReadyQueue
<1> DEFINE x == ready[i]
           rd == ReadyRemove(ready, x)
           st == [status EXCEPT ![x] = "RUN"]
<1>3. x \in Thread /\ Contains(ready, x) /\ rd \in Seq(Thread)
  BY SchedTypes, ElementOfSeq, ReadyRemoveType DEF Contains
<1>4. status[x] = "READY" /\ x # current
  BY <1>1, <1>3 DEF SchedOK, QueueOK
<1>5. PICK k \in 1..Len(ready) : ready[k] = x /\ Removed(rd, ready, k)
  BY <1>3, SchedTypes, ReadyRemoveElements
<1>6. /\ status' = [status EXCEPT ![current] = "READY", ![x] = "RUN"]
      /\ ready' = ReadyInsert(rd, prio, current) /\ current' = x /\ prio[x] = prio[current]
      /\ host' = [host EXCEPT ![current] = At("switch", current)]
      /\ allowed' = [allowed EXCEPT ![x] = TRUE]
  BY <1>1, <1>2 DEF SwitchTo
<1>7. /\ \A u \in Thread : (st[u] = "READY") <=> (u # x /\ status[u] = "READY")
      /\ \A u \in Thread : (status'[u] = "READY") <=> (u = current \/ st[u] = "READY")
      /\ \A u \in Thread : (status'[u] = "WAIT") <=> (status[u] = "WAIT")
      /\ \A u \in Thread : status'[u] = "RUN" => u = x
      /\ status'[x] = "RUN" /\ st[current] = "RUN"
  BY <1>1, <1>3, <1>4, <1>6, SchedTypes DEF SchedOK, RunsOne
<1> HIDE DEF x, rd, st
<1>8. QueueOK(rd, prio, st)
  BY <1>5, <1>7, QueueWithout DEF SchedOK
<1>9. QueueOK(ready', prio', status')
  <2>1. QueueOK(ReadyInsert(rd, prio, current), prio, status')
    BY <1>3, <1>7, <1>8, SchedTypes, QueueWith
  <2> QED BY <1>1, <1>6, <2>1
<1>10. HostsFit(host', status', allowed')
  BY <1>1, <1>3, <1>4, <1>6, SchedTypes, SwitchFits DEF SchedOK
<1>11. HighestOK'
  BY <1>1, <1>6, <1>7, SchedTypes DEF HighestOK, SchedOK
<1>12. FifoKept
  <2>1. OldAhead(ready, prio, ReadyNow)
    BY SchedTypes, OldAheadAll DEF SchedOK, ReadyNow
  <2>2. OldAhead(rd, prio, ReadyNow) /\ SortedByPriority(rd, prio)
    BY <1>5, <1>8, <2>1, RemovedOldAhead DEF QueueOK
  <2>3. OldAhead(ReadyInsert(rd, prio, current), prio, ReadyNow)
    BY <1>1, <1>3, <2>2, SchedTypes, InsertedOldAhead
  <2> QED BY <1>1, <1>6, <2>3 DEF FifoKept
<1>13. SchedOK'
  BY <1>6, <1>7, <1>9, <1>10, <1>11 DEF SchedOK, RunsOne, CurrentOK
<1> QED BY <1>1, <1>7, <1>12, <1>13, WaitersStay DEF Kept

LEMMA SuspendKept ==
  ASSUME TypeOK, BatonInv, SchedOK, WaitersOK, NEW self \in Thread, NEW t \in Thread,
         SuspendThread(self, t)
  PROVE  Kept
<1>1. InGuest(self) /\ status[current] = "RUN" /\ UNCHANGED <<prio, dispatchDisabled, waiters>>
  BY GuestIsCurrent DEF SuspendThread, semaVars
<1>2. CASE t = current /\ suspends[t] = 0
  <2>1. BlockCurrent(self, "SUSPEND", WaitSleep, ready)
    BY <1>1, <1>2 DEF SuspendThread
  <2> QED BY <1>1, <2>1, BlockKept
<1>3. CASE ~(t = current /\ suspends[t] = 0) /\ status[t] # "READY"
  BY <1>1, <1>3, StillKept DEF SuspendThread, schedVars
<1>4. CASE ~(t = current /\ suspends[t] = 0) /\ status[t] = "READY"
  <2>1. /\ ready' = ReadyRemove(ready, t) /\ status' = [status EXCEPT ![t] = "SUSPEND"]
        /\ UNCHANGED <<wait, current, host, allowed>>
    BY <1>4 DEF SuspendThread
  <2>2. /\ status'[t] = "SUSPEND" /\ \A u \in Thread : u # t => status'[u] = status[u]
        /\ \A u \in Thread : (status'[u] = "READY") <=> (u # t /\ status[u] = "READY")
        /\ \A u \in Thread : (status'[u] = "WAIT") <=> (status[u] = "WAIT")
    BY <1>4, <2>1, SchedTypes
  <2>3. Contains(ready, t)
    BY <1>4 DEF SchedOK, QueueOK
  <2>4. PICK k \in 1..Len(ready) : ready[k] = t /\ Removed(ready', ready, k)
    BY <2>1, <2>3, SchedTypes, ReadyRemoveElements
  <2>5. QueueOK(ready', prio, status')
    BY <2>2, <2>4, QueueWithout DEF SchedOK
  <2>6. RunsOne(status', current') /\ CurrentOK' /\ HighestOK'
    BY <1>1, <1>4, <2>1, <2>2 DEF RunsOne, SchedOK, CurrentOK, HighestOK
  <2>7. HostsFit(host', status', allowed')
    <3>1. Fits(host[t].at, "READY", allowed[t])
      BY <1>4 DEF SchedOK, HostsFit
    <3>2. Fits(host'[t].at, status'[t], allowed'[t])
      BY <2>1, <2>2, <3>1 DEF Fits, Ending
    <3> QED BY <2>1, <2>2, <3>2 DEF HostsFit, SchedOK
  <2>8. FifoKept
    <3>1. OldAhead(ready, prio, ReadyNow)
      BY SchedTypes, OldAheadAll DEF SchedOK, ReadyNow
    <3>2. OldAhead(ready', prio, ReadyNow)
      BY <2>4, <3>1, RemovedOldAhead
    <3> QED BY <1>1, <3>2 DEF FifoKept
  <2>9. WaitersOK' /\ TokenKept
    BY <1>1, <2>1, <2>2, WaitersStay
  <2> QED BY <1>1, <2>5, <2>6, <2>7, <2>8, <2>9 DEF Kept, SchedOK
<1> QED BY <1>2, <1>3, <1>4

LEMMA ThreadCallKept ==
  ASSUME TypeOK, TypeOK', BatonInv, SchedOK, WaitersOK, NEW self \in Thread, ThreadCall(self)
  PROVE  Kept
<1>0. prio' \in [Thread -> Int]
  <2>1. \A p \in Priority : p \in Int
    BY PriorityAssumption
  <2> QED BY <2>1 DEF TypeOK
<1>0a. \A s \in Sema, t \in Thread : WaitOnSema(s) # WaitSleep /\ WaitOnSema(s) # WaitOnJoin(t)
  BY DEF WaitOnSema, WaitSleep, WaitOnJoin
<1>1. ASSUME NEW t \in Thread, NEW p \in Priority, CreateThread(self, t, p) PROVE Kept
  BY <1>0, <1>1, CreateKept
<1>2. ASSUME NEW t \in Thread, StartThread(self, t) PROVE Kept
  BY <1>2, StartKept
<1>3. ASSUME ExitThread(self) PROVE Kept
  <2>1. CASE current = Main
    BY <1>3, <2>1, StillKept DEF ExitThread, attrVars, semaVars, hostVars
  <2>2. CASE current # Main
    <3>1. self = current /\ InGuest(self)
      BY <1>3, GuestIsCurrent DEF ExitThread
    <3> QED BY <1>3, <2>2, <3>1, EndKept DEF ExitThread, attrVars, semaVars
  <2> QED BY <2>1, <2>2
<1>4. ASSUME FinishThread(self) PROVE Kept
  <2>1. self = current /\ InGuest(self)
    BY <1>4, GuestIsCurrent DEF FinishThread
  <2>2. \A t \in Thread : t # current => wait'[t] = wait[t]
    BY <1>4, <2>1 DEF FinishThread, TypeOK
  <2> QED BY <1>4, <2>1, <2>2, EndKept DEF FinishThread, attrVars, semaVars
<1>5. ASSUME NEW t \in Thread, NEW p \in Priority, ChangeThreadPriority(self, t, p) PROVE Kept
  BY <1>0, <1>5, PriorityKept
<1>6. ASSUME NEW p \in Priority, RotateThreadReadyQueue(self, p) PROVE Kept
  BY <1>6, RotateKept
<1>7. ASSUME SleepThread(self) PROVE Kept
  <2>1. CASE wakeups[current] > 0
    BY <1>7, <2>1, StillKept DEF SleepThread, semaVars
  <2>2. CASE ~(wakeups[current] > 0)
    BY <1>0a, <1>7, <2>2, BlockKept DEF SleepThread, semaVars
  <2> QED BY <2>1, <2>2
<1>8. ASSUME NEW t \in Thread, WakeupThread(self, t) PROVE Kept
  <2>1. CASE status[t] = "WAIT" /\ wait[t] = WaitSleep
    <3>1. \A r \in Sema : ~OnSema(status, wait, t, r)
      BY <1>0a, <2>1 DEF OnSema
    <3>2. \A u \in Thread : u # t => wait'[u] = wait[u]
      BY <1>8, <2>1 DEF WakeupThread, TypeOK
    <3> QED BY <1>8, <2>1, <3>1, <3>2, ReadiedKept DEF WakeupThread, semaVars
  <2>2. CASE ~(status[t] = "WAIT" /\ wait[t] = WaitSleep)
    <3>1. SchedOK' /\ FifoKept /\ \A u \in Thread : (status'[u] = "WAIT") <=> (status[u] = "WAIT")
      BY <1>0, <1>8, <2>2, NoneReadied DEF WakeupThread
    <3> QED BY <1>8, <2>2, <3>1, WaitersStay DEF WakeupThread, Kept, semaVars
  <2> QED BY <2>1, <2>2
<1>9. ASSUME NEW t \in Thread, CancelWakeupThread(self, t) PROVE Kept
  BY <1>9, StillKept DEF CancelWakeupThread, ctlVars, semaVars, hostVars
<1>10. ASSUME NEW t \in Thread, SuspendThread(self, t) PROVE Kept
  BY <1>10, SuspendKept
<1>11. ASSUME NEW t \in Thread, ResumeThread(self, t) PROVE Kept
  <2>1. CASE suspends'[t] = 0 /\ status[t] = "SUSPEND"
    <3>1. \A r \in Sema : ~OnSema(status, wait, t, r)
      BY <2>1 DEF OnSema
    <3> QED BY <1>11, <2>1, <3>1, ReadiedKept DEF ResumeThread, semaVars
  <2>2. CASE ~(suspends'[t] = 0 /\ status[t] = "SUSPEND")
    <3>1. SchedOK' /\ FifoKept /\ \A u \in Thread : (status'[u] = "WAIT") <=> (status[u] = "WAIT")
      BY <1>0, <1>11, <2>2, NoneReadied DEF ResumeThread
    <3> QED BY <1>11, <3>1, WaitersStay DEF ResumeThread, Kept, semaVars
  <2> QED BY <2>1, <2>2
<1>12. ASSUME NEW t \in Thread, JoinThread(self, t) PROVE Kept
  BY <1>0a, <1>12, BlockKept DEF JoinThread, attrVars, semaVars
<1>13. ASSUME DisableDispatchThread(self) PROVE Kept
  <2>1. dispatchDisabled' # 0
    BY <1>13 DEF DisableDispatchThread, TypeOK
  <2> QED BY <1>13, <2>1, StillKept DEF DisableDispatchThread, attrVars, semaVars, hostVars
<1>14. ASSUME EnableDispatchThread(self) PROVE Kept
  <2>1. SchedOK' /\ FifoKept /\ \A u \in Thread : (status'[u] = "WAIT") <=> (status[u] = "WAIT")
    BY <1>0, <1>14, NoneReadied DEF EnableDispatchThread, attrVars
  <2> QED BY <1>14, <2>1, WaitersStay DEF EnableDispatchThread, Kept, semaVars
<1>15. ASSUME KExit(self) PROVE Kept
  BY <1>15, StillKept DEF KExit, attrVars, semaVars, hostVars
<1> QED BY <1>1, <1>2, <1>3, <1>4, <1>5, <1>6, <1>7, <1>8, <1>9, <1>10, <1>11, <1>12, <1>13, <1>14, <1>15
        DEF ThreadCall

(* The first waiter of a semaphore leaves its queue, and waits on no other. *)
LEMMA FirstWaits ==
  ASSUME TypeOK, WaitersOK, NEW s \in Sema, waiters[s] # <<>>
  PROVE  Head(waiters[s]) \in Thread /\ OnSema(status, wait, Head(waiters[s]), s)
<1>1. waiters[s] \in Seq(Thread)
  BY DEF TypeOK
<1>2. Head(waiters[s]) \in Thread /\ Contains(waiters[s], Head(waiters[s]))
  BY <1>1, HeadTailProperties, TailRemoves
<1> QED BY <1>2 DEF WaitersOK

LEMMA WaiterServed ==
  ASSUME TypeOK, WaitersOK, NEW s \in Sema, waiters[s] # <<>>, NEW t, t = Head(waiters[s]),
         waiters' = [waiters EXCEPT ![s] = Tail(waiters[s])],
         wait' = [wait EXCEPT ![t] = NotWaiting],
         \A u \in Thread : (status'[u] = "WAIT") <=> (u # t /\ status[u] = "WAIT")
  PROVE  WaitersOK' /\ TokenKept
<1>1. waiters[s] \in Seq(Thread) /\ t \in Thread /\ OnSema(status, wait, t, s)
  BY FirstWaits DEF TypeOK
<1>2. Removed(Tail(waiters[s]), waiters[s], 1) /\ t = waiters[s][1]
  BY <1>1, TailRemoves
<1>3. \A r \in Sema : OnSema(status, wait, t, r) => r = s
  BY <1>1 DEF OnSema, WaitOnSema
<1>4. \A u \in Thread, r \in Sema : OnSema(status', wait', u, r) <=> (u # t /\ OnSema(status, wait, u, r))
  BY <1>1 DEF OnSema, TypeOK
<1>5. ASSUME NEW r \in Sema
      PROVE  /\ NoRepeats(waiters'[r])
             /\ \A u \in Thread : Contains(waiters'[r], u) <=> OnSema(status', wait', u, r)
  <2>1. CASE r = s
    <3>1. waiters'[r] = Tail(waiters[s])
      BY <2>1 DEF TypeOK
    <3>2. NoRepeats(waiters'[r]) /\ \A u \in Thread : Contains(waiters'[r], u) <=> (u # t /\ Contains(waiters[s], u))
      BY <1>2, <3>1, RemovedNoRepeats, RemovedContains DEF WaitersOK
    <3> QED BY <1>4, <2>1, <3>2 DEF WaitersOK
  <2>2. CASE r # s
    <3>1. waiters'[r] = waiters[r]
      BY <2>2 DEF TypeOK
    <3> QED BY <1>3, <1>4, <2>2, <3>1 DEF WaitersOK
  <2> QED BY <2>1, <2>2
<1>6. WaitersOK'
  BY <1>5 DEF WaitersOK
<1>7. TokenKept
  <2> SUFFICES ASSUME NEW r \in Sema, NEW u \in Thread, OnSema(status, wait, u, r), status'[u] # "WAIT"
               PROVE  waiters[r] # <<>> /\ u = Head(waiters[r]) /\ waiters'[r] = Tail(waiters[r])
    BY DEF TokenKept
  <2>1. u = t /\ r = s
    BY <1>3 DEF OnSema
  <2> QED BY <2>1 DEF TypeOK
<1> QED BY <1>6, <1>7

(* SignalSema readies the first waiter. *)
LEMMA SignalKept ==
  ASSUME TypeOK, BatonInv, SchedOK, WaitersOK, NEW self \in Thread, NEW s \in Sema,
         SignalSema(self, s)
  PROVE  Kept
<1>1. InGuest(self) /\ prio' = prio /\ prio' \in [Thread -> Int]
  BY SchedTypes DEF SignalSema, attrVars
<1>2. CASE waiters[s] = <<>>
  <2>1. SchedOK' /\ FifoKept /\ \A u \in Thread : (status'[u] = "WAIT") <=> (status[u] = "WAIT")
    BY <1>1, <1>2, NoneReadied DEF SignalSema
  <2> QED BY <1>2, <2>1, WaitersStay DEF SignalSema, Kept
<1>3. CASE waiters[s] # <<>>
  <2> DEFINE t == Head(waiters[s])
  <2>1. /\ waiters' = [waiters EXCEPT ![s] = Tail(waiters[s])]
        /\ wait' = [wait EXCEPT ![t] = NotWaiting]
        /\ MaybePreempt(self, [status EXCEPT ![t] = "READY"], ReadyInsert(ready, prio, t))
    BY <1>3 DEF SignalSema, FirstWaiter, OtherWaiters
  <2>2. t \in Thread /\ status[t] = "WAIT"
    BY <1>3, FirstWaits DEF OnSema
  <2>3. SchedOK' /\ FifoKept /\ \A u \in Thread : (status'[u] = "WAIT") <=> (u # t /\ status[u] = "WAIT")
    <3> HIDE DEF t
    <3> QED BY <1>1, <2>1, <2>2, ThreadReadied
  <2>4. WaitersOK' /\ TokenKept
    BY <1>3, <2>1, <2>3, WaiterServed
  <2> QED BY <2>3, <2>4 DEF Kept
<1> QED BY <1>2, <1>3

(* WaitSema without a token queues the caller, who waits on nothing yet. *)
LEMMA WaiterQueued ==
  ASSUME TypeOK, WaitersOK, NEW s \in Sema, status[current] = "RUN",
         waiters' = [waiters EXCEPT ![s] = Append(waiters[s], current)],
         wait' = [wait EXCEPT ![current] = WaitOnSema(s)],
         \A t \in Thread : (status'[t] = "WAIT") <=> (t = current \/ status[t] = "WAIT")
  PROVE  WaitersOK' /\ TokenKept
<1>1. waiters[s] \in Seq(Thread) /\ current \in Thread
  BY DEF TypeOK
<1>2. \A t \in Thread, r \in Sema :
        OnSema(status', wait', t, r) <=> (IF t = current THEN r = s ELSE OnSema(status, wait, t, r))
  <2>1. \A r \in Sema : (WaitOnSema(s) = WaitOnSema(r)) <=> (r = s)
    BY DEF WaitOnSema
  <2> QED BY <1>1, <2>1 DEF OnSema, TypeOK
<1>3. \A r \in Sema : ~OnSema(status, wait, current, r)
  BY DEF OnSema
<1>4. ASSUME NEW r \in Sema
      PROVE  /\ NoRepeats(waiters'[r])
             /\ \A u \in Thread : Contains(waiters'[r], u) <=> OnSema(status', wait', u, r)
  <2>1. CASE r = s
    <3>1. waiters'[r] = Append(waiters[s], current)
      BY <2>1 DEF TypeOK
    <3>2. NoRepeats(waiters[s]) /\ ~Contains(waiters[s], current)
      BY <1>1, <1>3 DEF WaitersOK
    <3>3. NoRepeats(Append(waiters[s], current))
      BY <1>1, <3>2, AppendNoRepeats, Zenon
    <3>4. \A u \in Thread : Contains(Append(waiters[s], current), u) <=> (u = current \/ Contains(waiters[s], u))
      <4> DEFINE q == waiters[s]
      <4>1. q \in Seq(Thread)
        BY <1>1
      <4> HIDE DEF q
      <4>2. \A u \in Thread : Contains(Append(q, current), u) <=> (u = current \/ Contains(q, u))
        BY <1>1, <4>1, AppendContains
      <4> QED BY <4>2, Zenon DEF q
    <3>5. NoRepeats(waiters'[r]) /\ \A u \in Thread : Contains(waiters'[r], u) <=> (u = current \/ Contains(waiters[s], u))
      BY <3>1, <3>3, <3>4, Zenon
    <3> QED BY <1>2, <2>1, <3>2, <3>5 DEF WaitersOK
  <2>2. CASE r # s
    <3>1. waiters'[r] = waiters[r]
      BY <2>2 DEF TypeOK
    <3> QED BY <1>2, <1>3, <2>2, <3>1 DEF WaitersOK
  <2> QED BY <2>1, <2>2
<1>5. WaitersOK'
  BY <1>4 DEF WaitersOK
<1>6. TokenKept
  BY DEF TokenKept, OnSema
<1> QED BY <1>5, <1>6

LEMMA WaitSemaKept ==
  ASSUME TypeOK, BatonInv, SchedOK, WaitersOK, NEW self \in Thread, NEW s \in Sema,
         WaitSema(self, s)
  PROVE  Kept
<1>1. CASE HasToken(s)
  BY <1>1, StillKept DEF WaitSema, attrVars
<1>2. CASE ~HasToken(s)
  <2>1. /\ InGuest(self) /\ prio' = prio /\ BlockCurrent(self, "WAIT", WaitOnSema(s), ready)
        /\ waiters' = [waiters EXCEPT ![s] = Append(waiters[s], current)]
    BY <1>2 DEF WaitSema, attrVars
  <2>2. /\ ready # <<>> => SchedOK'
        /\ ready = <<>> => quit'
        /\ FifoKept
        /\ status[current] = "RUN"
        /\ wait' = [wait EXCEPT ![current] = WaitOnSema(s)]
        /\ \A t \in Thread : (status'[t] = "WAIT") <=> (IF t = current THEN "WAIT" = "WAIT" ELSE status[t] = "WAIT")
    BY <2>1, BlockCall
  <2>3. WaitersOK' /\ TokenKept
    BY <2>1, <2>2, WaiterQueued
  <2> QED BY <2>2, <2>3 DEF Kept
<1> QED BY <1>1, <1>2

LEMMA SemaCallKept ==
  ASSUME TypeOK, BatonInv, SchedOK, WaitersOK, NEW self \in Thread, SemaCall(self)
  PROVE  Kept
<1>1. ASSUME NEW s \in Sema, NEW p \in SemaInit, CreateSema(self, s, p) PROVE Kept
  BY <1>1, StillKept DEF CreateSema, attrVars, ctlVars, hostVars
<1>2. ASSUME NEW s \in Sema, PollSema(self, s) PROVE Kept
  BY <1>2, StillKept DEF PollSema, attrVars, ctlVars, hostVars
<1> QED BY <1>1, <1>2, SignalKept, WaitSemaKept DEF SemaCall

(* A woken host takes the baton only if it is its own. *)
LEMMA TakeBatonKept ==
  ASSUME TypeOK, BatonInv, SchedOK, WaitersOK, NEW self \in Thread,
         host[self].at \in {"start", "switch", "exitSwitch", "finSwitch"},
         NEW place \in HostAt, TakeBaton(self, place), host[self].at \in {"start", "switch"} => place = "guest"
  PROVE  Kept
<1>1. host[self].on = self
  BY DEF BatonInv, OwnPlaces, RefersToItself
<1>2. allowed[self]
  BY <1>1 DEF TakeBaton, Released, BatonInv, NoneToldToExit
<1>3. host[self].at \in {"start", "switch"} /\ status[self] = "RUN" /\ self = current
  <2>1. Fits(host[self].at, status[self], allowed[self])
    BY DEF SchedOK, HostsFit
  <2> QED BY <1>2, <2>1 DEF Fits, Ending, SchedOK, RunsOne
<1>4. /\ allowed' = [allowed EXCEPT ![self] = FALSE] /\ host' = [host EXCEPT ![self] = At("guest", self)]
      /\ UNCHANGED <<schedVars, prio, waiters, dispatchDisabled>>
  BY <1>1, <1>3 DEF TakeBaton, attrVars, ctlVars, semaVars
<1>5. /\ host'[self].at = "guest" /\ allowed'[self] = FALSE
      /\ \A u \in Thread : u # self => host'[u] = host[u] /\ allowed'[u] = allowed[u]
  BY <1>4, SchedTypes DEF At, Hosts
<1>6. HostsFit(host', status', allowed')
  <2>1. Fits(host'[self].at, status'[self], allowed'[self])
    BY <1>3, <1>4, <1>5 DEF Fits, schedVars
  <2> QED BY <1>4, <1>5, <2>1 DEF HostsFit, SchedOK, schedVars
<1>7. SchedOK'
  BY <1>3, <1>4, <1>6 DEF SchedOK, CurrentOK, HighestOK, schedVars
<1>8. FifoKept
  <2>1. OldAhead(ready, prio, ReadyNow)
    BY SchedTypes, OldAheadAll DEF SchedOK, ReadyNow
  <2> QED BY <1>4, <2>1 DEF FifoKept, schedVars
<1>9. WaitersOK' /\ TokenKept
  BY <1>4, WaitersStay DEF schedVars
<1> QED BY <1>7, <1>8, <1>9 DEF Kept

LEMMA WakeJoinerKept ==
  ASSUME TypeOK, BatonInv, SchedOK, WaitersOK, NEW self \in Thread, WakeJoiner(self)
  PROVE  Kept
<1>1. /\ host[self].at \in {"exitWake", "finWake"}
      /\ UNCHANGED <<current, prio, dispatchDisabled, waiters, host, allowed>>
  BY DEF WakeJoiner, attrVars, ctlVars, semaVars, hostVars
<1>2. self = current /\ status[current] = "DORMANT"
  <2>1. self = current
    BY <1>1, ExecutingIsAlone DEF BatonInv, ExecutingAt
  <2>2. Fits(host[self].at, status[self], allowed[self])
    BY DEF SchedOK, HostsFit
  <2> QED BY <1>1, <2>1, <2>2 DEF Fits, Ending
<1>3. PICK o \in Thread :
        /\ status[o] = "WAIT" /\ wait[o] = WaitOnJoin(host[self].on)
        /\ status' = [status EXCEPT ![o] = "READY"]
        /\ wait' = [wait EXCEPT ![o] = NotWaiting]
        /\ ready' = ReadyInsert(ready, prio, o)
  BY DEF WakeJoiner, Joiners
<1>4. /\ status'[o] = "READY" /\ \A u \in Thread : u # o => status'[u] = status[u] /\ wait'[u] = wait[u]
      /\ \A u \in Thread : (status'[u] = "READY") <=> (u = o \/ status[u] = "READY")
  BY <1>3, SchedTypes DEF TypeOK
<1>5. QueueOK(ready', prio', status')
  <2>1. QueueOK(ReadyInsert(ready, prio, o), prio, status')
    BY <1>3, <1>4, SchedTypes, QueueWith DEF SchedOK
  <2> QED BY <1>1, <1>3, <2>1
<1>6. RunsOne(status', current') /\ CurrentOK' /\ HighestOK'
  BY <1>1, <1>2, <1>3, <1>4 DEF RunsOne, SchedOK, CurrentOK, HighestOK
<1>7. HostsFit(host', status', allowed')
  <2>1. Fits(host[o].at, "WAIT", allowed[o])
    BY <1>3 DEF SchedOK, HostsFit
  <2>2. Fits(host'[o].at, status'[o], allowed'[o])
    BY <1>1, <1>4, <2>1 DEF Fits, Ending
  <2> QED BY <1>1, <1>4, <2>2 DEF HostsFit, SchedOK
<1>8. FifoKept
  <2>1. OldAhead(ready, prio, ReadyNow)
    BY SchedTypes, OldAheadAll DEF SchedOK, ReadyNow
  <2>2. o \notin ReadyNow /\ SortedByPriority(ready, prio)
    BY <1>3 DEF ReadyNow, SchedOK, QueueOK
  <2>3. OldAhead(ReadyInsert(ready, prio, o), prio, ReadyNow)
    BY <2>1, <2>2, SchedTypes, InsertedOldAhead
  <2> QED BY <1>1, <1>3, <2>3 DEF FifoKept
<1>9. WaitersOK' /\ TokenKept
  <2>1. \A r \in Sema : ~OnSema(status, wait, o, r) /\ ~OnSema(status', wait', o, r)
    BY <1>3, <1>4 DEF OnSema, WaitOnSema, WaitOnJoin
  <2> QED BY <1>1, <1>4, <2>1, WaitersStayBut
<1> QED BY <1>5, <1>6, <1>7, <1>8, <1>9 DEF Kept, SchedOK

LEMMA HostStepKept ==
  ASSUME TypeOK, BatonInv, SchedOK, WaitersOK, NEW self \in Thread, HostStep(self)
  PROVE  Kept
<1>1. ASSUME NEW parked \in {"exitPark", "finPark"}, NEW switching \in {"exitSwitch", "finSwitch"},
             host[self].at \in {"exitWake", "finWake"}, HandOffAndPark(self, self, switching, parked),
             UNCHANGED <<wait, prio, waiters>>
      PROVE  Kept
  <2>1. self = current
    BY <1>1, ExecutingIsAlone DEF BatonInv, ExecutingAt
  <2>2. SchedOK' /\ FifoKept /\ \A t \in Thread : (status'[t] = "WAIT") <=> (status[t] = "WAIT")
    BY <1>1, <2>1, HandOffKeeps
  <2> QED BY <1>1, <2>2, WaitersStay DEF Kept
<1>2. ASSUME ExitHandOff(self) PROVE Kept
  <2>1. host[self].on = self
    BY <1>2 DEF ExitHandOff, BatonInv, OwnPlaces, RefersToItself
  <2> QED BY <1>1, <1>2, <2>1 DEF ExitHandOff, attrVars, semaVars
<1>3. ASSUME FinishHandOff(self) PROVE Kept
  <2>1. current = self
    BY <1>3, ExecutingIsAlone DEF FinishHandOff, BatonInv, ExecutingAt
  <2> QED BY <1>1, <1>3, <2>1 DEF FinishHandOff, attrVars, semaVars
<1>4. ASSUME ReturnFromSwitch(self) PROVE Kept
  BY <1>4, TakeBatonKept DEF ReturnFromSwitch, HostAt
<1>5. ASSUME BeginThread(self) PROVE Kept
  BY <1>5, TakeBatonKept DEF BeginThread, HostAt
<1>6. ASSUME ReturnToPark(self) PROVE Kept
  BY <1>6, TakeBatonKept DEF ReturnToPark, HostAt
<1> QED BY <1>2, <1>3, <1>4, <1>5, <1>6, WakeJoinerKept DEF HostStep

-----------------------------------------------------------------------------
(* The invariant, and the theorems. *)

(* The kernel asks the runner to quit once; it never takes that back. *)
LEMMA QuitStays ==
  ASSUME [Next]_vars, quit
  PROVE  quit'
<1>1. ASSUME NEW self \in Thread, ThreadCall(self) PROVE quit'
  BY <1>1 DEF ThreadCall, CreateThread, StartThread, Launch, ExitThread, FinishThread,
       ChangeThreadPriority, RotateThreadReadyQueue, SleepThread, WakeupThread, CancelWakeupThread,
       SuspendThread, ResumeThread, JoinThread, DisableDispatchThread, EnableDispatchThread, KExit,
       BlockCurrent, ctlVars
<1>2. ASSUME NEW self \in Thread, SemaCall(self) PROVE quit'
  BY <1>2 DEF SemaCall, CreateSema, SignalSema, WaitSema, PollSema, BlockCurrent, ctlVars
<1>3. ASSUME NEW self \in Thread, HostStep(self) PROVE quit'
  BY <1>3 DEF HostStep, ReturnFromSwitch, BeginThread, ReturnToPark, TakeBaton, WakeJoiner,
       ExitHandOff, FinishHandOff, ctlVars
<1> QED BY <1>1, <1>2, <1>3 DEF Next, vars, ctlVars

LEMMA InitSched == Init => SchedInv
<1> SUFFICES ASSUME Init PROVE SchedOK /\ WaitersOK
  BY DEF SchedInv
<1>1. /\ status = [t \in Thread |-> IF t = Main THEN "RUN" ELSE "none"]
      /\ ready = <<>> /\ current = Main /\ waiters = [s \in Sema |-> <<>>]
      /\ host = [t \in Thread |-> IF t = Main THEN At("guest", t) ELSE At("none", t)]
      /\ allowed = [t \in Thread |-> FALSE]
  BY DEF Init
<1>2. Len(<<>>) = 0 /\ \A x : ~Contains(<<>>, x)
  BY DEF Contains
<1>3. \A t \in Thread : /\ status[t] = IF t = Main THEN "RUN" ELSE "none"
                        /\ host[t].at = IF t = Main THEN "guest" ELSE "none"
                        /\ ~allowed[t]
  BY <1>1 DEF At
<1>4. QueueOK(ready, prio, status)
  BY <1>1, <1>2, <1>3 DEF QueueOK, NoRepeats, SortedByPriority
<1>5. RunsOne(status, current) /\ CurrentOK /\ HighestOK
  BY <1>1, <1>3, MainIsThread DEF RunsOne, CurrentOK, HighestOK
<1>6. HostsFit(host, status, allowed)
  BY <1>3 DEF HostsFit, Fits
<1>7. WaitersOK
  BY <1>1, <1>2, <1>3 DEF WaitersOK, NoRepeats, OnSema
<1> QED BY <1>4, <1>5, <1>6, <1>7 DEF SchedOK

(* Every step before the kernel asks to quit keeps the order of the queues. *)
LEMMA NextKept ==
  ASSUME TypeOK, TypeOK', BatonInv, SchedInv, ~quit, [Next]_vars
  PROVE  Kept
<1>1. SchedOK /\ WaitersOK
  BY DEF SchedInv
<1>2. ASSUME NEW self \in Thread, ThreadCall(self) \/ SemaCall(self) \/ HostStep(self) PROVE Kept
  BY <1>1, <1>2, ThreadCallKept, SemaCallKept, HostStepKept
<1>3. CASE UNCHANGED vars
  BY <1>1, <1>3, StillKept DEF vars, attrVars, ctlVars, semaVars, hostVars
<1> QED BY <1>2, <1>3 DEF Next

LEMMA NextSched == TypeOK /\ TypeOK' /\ BatonInv /\ SchedInv /\ [Next]_vars => SchedInv'
<1> SUFFICES ASSUME TypeOK, TypeOK', BatonInv, SchedInv, [Next]_vars, ~quit' PROVE SchedOK' /\ WaitersOK'
  BY DEF SchedInv
<1>1. ~quit
  BY QuitStays
<1> QED BY <1>1, NextKept DEF Kept

(* What is true in every state, and of every step. *)
LEMMA SchedCorrect == Spec => []TypeOK /\ []BatonInv /\ []SchedInv
BY TypeCorrect, InitBaton, NextBaton, InitSched, NextSched, PTL DEF Spec

(* m_ready holds exactly the READY threads, each once and by priority, and *)
(* one thread at most is RUN: none is runnable and forgotten, or queued    *)
(* twice, whatever was suspended, woken or given another priority.         *)
THEOREM ReadyQueueExact == Spec => []ReadyExact
<1>1. SchedInv => ReadyExact
  BY DEF SchedInv, SchedOK, QueueOK, RunsOne, ReadyExact
<1> QED BY <1>1, SchedCorrect, PTL

(* A semaphore's queue holds exactly the threads that wait on it, so a     *)
(* signal never goes to a thread that is doing something else.             *)
THEOREM WaitQueuesExact == Spec => []WaitersExact
<1>1. SchedInv => WaitersExact
  BY DEF SchedInv, WaitersOK, OnSema, WaitersExact
<1> QED BY <1>1, SchedCorrect, PTL

(* kernel.hpp's "priority-based preemption at syscall boundaries": guest   *)
(* code never runs below a ready thread's priority while dispatching is    *)
(* enabled.                                                                *)
THEOREM HighestPriorityRuns == Spec => []RunsHighestPriority
<1>1. BatonInv /\ SchedInv => RunsHighestPriority
  <2> SUFFICES ASSUME BatonInv, SchedOK, dispatchDisabled = 0, NEW h \in Thread, InGuest(h)
               PROVE  \A t \in Thread : status[t] = "READY" => prio[current] <= prio[t]
    BY DEF SchedInv, RunsHighestPriority
  <2>1. status[current] = "RUN"
    BY GuestIsCurrent
  <2> QED BY <2>1 DEF SchedOK, HighestOK
<1> QED BY <1>1, SchedCorrect, PTL

(* No wake-up is lost: switch_to wakes a host that waits for it, and the   *)
(* processor idles only once the last runnable thread has exited, or in    *)
(* StartThread's join.                                                     *)
THEOREM BatonIsNotLost == Spec => []BatonNotLost
<1>1. TypeOK /\ BatonInv /\ SchedInv => BatonNotLost
  <2> SUFFICES ASSUME TypeOK, BatonInv, SchedOK
               PROVE  /\ \A t \in InFlight : host[t].at \in {"start", "switch"} /\ host[t].on = t
                      /\ (Executing = {} /\ InFlight = {}) =>
                           \/ host[current].at \in {"exitPark", "finPark"} /\ ready = <<>>
                           \/ host[current].at = "joinStart"
    BY DEF SchedInv, BatonNotLost
  <2>1. \A t \in Thread : Fits(host[t].at, status[t], allowed[t])
    BY DEF SchedOK, HostsFit
  <2>2. ASSUME NEW t \in InFlight PROVE host[t].at \in {"start", "switch"} /\ host[t].on = t
    <3>1. t \in Thread /\ allowed[t]
      BY DEF InFlight
    <3>2. host[t].at \in {"start", "switch"}
      BY <2>1, <3>1 DEF Fits, Ending
    <3> QED BY <3>1, <3>2 DEF BatonInv, OwnPlaces, RefersToItself
  <2>3. ASSUME Executing = {}, InFlight = {}
        PROVE  \/ host[current].at \in {"exitPark", "finPark"} /\ ready = <<>>
               \/ host[current].at = "joinStart"
    <3>1. current \in Thread /\ ~allowed[current] /\ ~(host[current].at \in ExecutingAt)
      BY <2>3, SchedTypes DEF Executing, InFlight, ExecutingAt
    <3>2. CASE status[current] = "RUN"
      BY <2>1, <3>1, <3>2 DEF Fits, Ending, ExecutingAt
    <3>3. CASE status[current] # "RUN"
      BY <3>1, <3>3 DEF SchedOK, CurrentOK, ExecutingAt
    <3> QED BY <3>2, <3>3
  <2> QED BY <2>2, <2>3
<1> QED BY <1>1, SchedCorrect, PTL

(* First in, first out within a priority: no call lets a thread that only  *)
(* now becomes ready go before one of its priority that was ready already. *)
THEOREM Fifo == Spec => FifoWithinPriority
<1>1. TypeOK /\ TypeOK' /\ BatonInv /\ SchedInv /\ [Next]_vars =>
        [~quit =>
           \A i, j \in 1..Len(ready') :
             (/\ prio'[ready'[i]] = prio'[ready'[j]]
              /\ Contains(ready, ready'[i])
              /\ ~Contains(ready, ready'[j])) => i < j]_vars
  <2> SUFFICES ASSUME TypeOK, TypeOK', BatonInv, SchedInv, [Next]_vars, ~quit,
                      NEW i \in 1..Len(ready'), NEW j \in 1..Len(ready'),
                      prio'[ready'[i]] = prio'[ready'[j]],
                      Contains(ready, ready'[i]), ~Contains(ready, ready'[j])
               PROVE  i < j
    OBVIOUS
  <2>1. FifoKept /\ SchedOK
    BY NextKept DEF Kept, SchedInv
  <2>2. ready'[i] \in Thread /\ ready'[j] \in Thread
    <3>1. ready' \in Seq(Thread)
      BY DEF TypeOK
    <3> QED BY <3>1, ElementOfSeq
  <2>3. ready'[i] \in ReadyNow /\ ready'[j] \notin ReadyNow
    BY <2>1, <2>2 DEF ReadyNow, SchedOK, QueueOK
  <2> QED BY <2>1, <2>3 DEF FifoKept, OldAhead
<1> QED BY <1>1, SchedCorrect, PTL DEF Spec, FifoWithinPriority

(* WaitSema returns only to the first waiter, with the signal that took it *)
(* off the queue.                                                          *)
THEOREM TokensEndWaits == Spec => WaitEndsWithToken
<1>1. TypeOK /\ TypeOK' /\ BatonInv /\ SchedInv /\ [Next]_vars =>
        [~quit =>
           \A s \in Sema, t \in Thread :
             (status[t] = "WAIT" /\ wait[t] = WaitOnSema(s) /\ status'[t] \in {"READY", "RUN"}) =>
               /\ waiters[s] # <<>>
               /\ t = Head(waiters[s])
               /\ waiters'[s] = Tail(waiters[s])
               /\ \A h \in Thread : host[h] # At("semaWake", s)]_vars
  <2> SUFFICES ASSUME TypeOK, TypeOK', BatonInv, SchedInv, [Next]_vars, ~quit,
                      NEW s \in Sema, NEW t \in Thread,
                      status[t] = "WAIT", wait[t] = WaitOnSema(s), status'[t] \in {"READY", "RUN"}
               PROVE  /\ waiters[s] # <<>>
                      /\ t = Head(waiters[s])
                      /\ waiters'[s] = Tail(waiters[s])
                      /\ \A h \in Thread : host[h] # At("semaWake", s)
    OBVIOUS
  <2>1. TokenKept /\ SchedOK
    BY NextKept DEF Kept, SchedInv
  <2>2. waiters[s] # <<>> /\ t = Head(waiters[s]) /\ waiters'[s] = Tail(waiters[s])
    BY <2>1 DEF TokenKept, OnSema
  <2>3. \A h \in Thread : host[h].at # "semaWake"
    BY <2>1 DEF SchedOK, HostsFit, Fits, Ending
  <2> QED BY <2>2, <2>3 DEF At
<1> QED BY <1>1, SchedCorrect, PTL DEF Spec, WaitEndsWithToken
=============================================================================
