------------------------------ MODULE EEKernel ------------------------------
(***************************************************************************)
(* The EE kernel of the runtime: src/runtime/src/kernel.cpp.               *)
(*                                                                         *)
(* Every guest thread runs on a host thread of its own; a baton (the flag  *)
(* `allowed' and a condition variable of each thread) lets one of them     *)
(* execute at a time.  A syscall runs on the host that holds the baton, up *)
(* to the point where that host hands the baton over (switch_to) or parks; *)
(* so one action is one syscall up to that point, and the end of the wait  *)
(* is an action of the woken host.  A loop over other threads inside a     *)
(* syscall (waking joiners) takes one action per thread.                   *)
(*                                                                         *)
(* `status', `wait', `prio', `wakeups' and `suspends' are the fields of    *)
(* Kernel::Thread; `host' is the program counter of the thread's host:     *)
(* where it is and the thread or semaphore that place refers to.           *)
(*                                                                         *)
(* This module holds the calls a well-behaved guest schedules with.  The   *)
(* calls that reach into another thread's wait or take a thread away, and  *)
(* the destructor, are in EEKernelAdmin, on the same state.                *)
(***************************************************************************)
EXTENDS ReadyQueue, FiniteSets

CONSTANTS
  Thread,        \* thread ids: m_threads is indexed by them, 0 is the main thread
  Sema,          \* semaphore ids
  Priority,      \* the priorities the guest uses (u32)
  SemaInit,      \* the <<count, max_count>> pairs the guest creates semaphores with
  MaxWakeups,    \* bound: WakeupThread calls a thread can have outstanding
  MaxSuspends,   \* bound: SuspendThread calls a thread can have outstanding
  MaxDisables    \* bound: nesting of DisableDispatchThread

Main == 0

ASSUME ThreadAssumption == Thread \subseteq Nat /\ Main \in Thread
ASSUME SemaAssumption == Sema \subseteq Nat
ASSUME PriorityAssumption == Priority \subseteq Nat /\ 0 \in Priority
ASSUME SemaInitAssumption == SemaInit \subseteq Int \X Int
ASSUME BoundAssumption ==
  MaxWakeups \in Nat /\ MaxSuspends \in Nat /\ MaxDisables \in Nat

VARIABLES
  status, wait, ready, current,            \* scheduler
  prio, wakeups, suspends,                 \* per-thread attributes
  dispatchDisabled, quit, destroying,      \* m_dispatch_disabled, m_quit, m_destroying
  semaState, count, maxCount, waiters,     \* m_semas
  host, allowed, exitReq                   \* host threads and the baton

schedVars == <<status, wait, ready, current>>
attrVars == <<prio, wakeups, suspends>>
ctlVars == <<dispatchDisabled, quit, destroying>>
semaVars == <<semaState, count, maxCount, waiters>>
hostVars == <<host, allowed, exitReq>>
vars == <<schedVars, attrVars, ctlVars, semaVars, hostVars>>

Status == {"none", "RUN", "READY", "WAIT", "SUSPEND", "DORMANT"}

(* wait_reason and wait_id; wait_id is read only for a joiner. *)
NotWaiting == [why |-> "NONE", on |-> 0]
WaitSleep == [why |-> "SLEEP", on |-> 0]
WaitOnSema(s) == [why |-> "SEMA", on |-> s]
WaitOnJoin(t) == [why |-> "JOIN", on |-> t]
Wait == [why : {"NONE", "SLEEP", "SEMA", "JOIN"}, on : Nat]

(* Where a host is.  "none": no host thread (never started, or joined).    *)
(* "guest": it runs guest code.  Waits on a condition variable: "start"    *)
(* (thread_main, for its first turn), "switch" (switch_to, in a blocking   *)
(* or preempting call), "exitSwitch" and "finSwitch" (switch_to, in        *)
(* ExitThread and in finish_thread), "exitPark" and "finPark"              *)
(* (park_forever in the same two).  Waits in host.join(): "joinStart",     *)
(* "joinDelete", "dtorJoin".  Loops over other threads: "exitWake",        *)
(* "finWake", "semaWake", "dtor".  "exited": thread_main has returned;     *)
(* "gone": the main thread's host is past ~Kernel.                         *)
HostAt == {"none", "guest", "start", "switch", "exitSwitch", "finSwitch",
           "exitPark", "finPark", "joinStart", "joinDelete", "dtorJoin",
           "exitWake", "finWake", "semaWake", "dtor", "exited", "gone"}

At(place, on) == [at |-> place, on |-> on]

TypeOK ==
  /\ status \in [Thread -> Status]
  /\ wait \in [Thread -> Wait]
  /\ ready \in Seq(Thread)
  /\ current \in Thread
  /\ prio \in [Thread -> Priority]
  /\ wakeups \in [Thread -> Nat]
  /\ suspends \in [Thread -> Nat]
  /\ dispatchDisabled \in Nat
  /\ quit \in BOOLEAN
  /\ destroying \in BOOLEAN
  /\ semaState \in [Sema -> {"none", "live", "deleted"}]
  /\ count \in [Sema -> Int]
  /\ maxCount \in [Sema -> Int]
  /\ waiters \in [Sema -> Seq(Thread)]
  /\ host \in [Thread -> [at : HostAt, on : Nat]]
  /\ allowed \in [Thread -> BOOLEAN]
  /\ exitReq \in [Thread -> BOOLEAN]

(* ensure_main_thread: the first syscall adopts the runner's thread.       *)
Init ==
  /\ status = [t \in Thread |-> IF t = Main THEN "RUN" ELSE "none"]
  /\ wait = [t \in Thread |-> NotWaiting]
  /\ ready = <<>>
  /\ current = Main
  /\ prio = [t \in Thread |-> 0]
  /\ wakeups = [t \in Thread |-> 0]
  /\ suspends = [t \in Thread |-> 0]
  /\ dispatchDisabled = 0
  /\ quit = FALSE
  /\ destroying = FALSE
  /\ semaState = [s \in Sema |-> "none"]
  /\ count = [s \in Sema |-> 0]
  /\ maxCount = [s \in Sema |-> 0]
  /\ waiters = [s \in Sema |-> <<>>]
  /\ host = [t \in Thread |-> IF t = Main THEN At("guest", t) ELSE At("none", t)]
  /\ allowed = [t \in Thread |-> FALSE]
  /\ exitReq = [t \in Thread |-> FALSE]

(* Mutant of Decremented: an unsigned counter that wraps. *)
DecrementedUnchecked(n) == n - 1

(* `if (n > 0) --n', of the suspend count and of the dispatch nesting. *)
Decremented(n) == IF n > 0 THEN n - 1 ELSE 0

InGuest(self) == host[self].at = "guest"
Exists(t) == status[t] # "none"
Joinable(t) == t # Main /\ host[t].at # "none"

-----------------------------------------------------------------------------
(* The scheduler core. *)

(* Mutants of SwitchTo: the target is not woken; the caller does not wait. *)
SwitchToUnwoken(self, target, prev, place, hs, al) ==
  allowed' = al /\ host' = [hs EXCEPT ![self] = At(place, prev)]
SwitchToRunningOn(self, target, prev, place, hs, al) ==
  allowed' = [al EXCEPT ![target] = TRUE] /\ host' = hs

(* switch_to: give `target' the baton and wait on prev's condition         *)
(* variable; `place' says which caller waits.  hs and al are the hosts and *)
(* the baton flags as the caller left them.                                *)
SwitchTo(self, target, prev, place, hs, al) ==
  /\ allowed' = [al EXCEPT ![target] = TRUE]
  /\ host' = [hs EXCEPT ![self] = At(place, prev)]

(* block_current, the ready queue being rd: the current thread leaves the  *)
(* processor.  With nothing ready the kernel asks the runner to quit and    *)
(* the caller goes on; during teardown nobody parks.                       *)
BlockCurrent(self, st, w, rd) ==
  /\ wait' = [wait EXCEPT ![current] = w]
  /\ IF rd = <<>>
     THEN /\ status' = [status EXCEPT ![current] = st]
          /\ ready' = rd
          /\ quit' = (quit \/ ~destroying)
          /\ UNCHANGED <<current, host, allowed>>
     ELSE /\ status' = [status EXCEPT ![current] = st, ![Head(rd)] = "RUN"]
          /\ ready' = Tail(rd)
          /\ current' = Head(rd)
          /\ UNCHANGED quit
          /\ IF destroying
             THEN UNCHANGED <<host, allowed>>
             ELSE SwitchTo(self, Head(rd), current, "switch", host, allowed)

(* maybe_preempt, after a call that left the statuses st, the ready queue  *)
(* rd, the hosts hs and the baton flags al.                                *)
MaybePreemptFrom(self, st, rd, hs, al) ==
  IF \/ destroying
     \/ dispatchDisabled' > 0
     \/ rd = <<>>
     \/ prio'[Head(rd)] >= prio'[current]
  THEN /\ status' = st
       /\ ready' = rd
       /\ host' = hs
       /\ allowed' = al
       /\ UNCHANGED current
  ELSE /\ status' = [st EXCEPT ![current] = "READY", ![Head(rd)] = "RUN"]
       /\ ready' = ReadyInsert(Tail(rd), prio', current)
       /\ current' = Head(rd)
       /\ SwitchTo(self, Head(rd), current, "switch", hs, al)

(* Mutant of MaybePreempt. *)
MaybePreemptNever(self, st, rd) ==
  status' = st /\ ready' = rd /\ UNCHANGED <<current, host, allowed>>

MaybePreempt(self, st, rd) == MaybePreemptFrom(self, st, rd, host, allowed)

(* Mutants of Released: a wait without a predicate; one that misses the    *)
(* baton.                                                                  *)
ReleasedSpuriously(self) == TRUE
ReleasedOnlyToExit(self) == exitReq[host[self].on]

(* A wait in switch_to ends: the thread whose condition variable the host  *)
(* waits on has the baton, or was told to exit.  The host takes the baton. *)
Released(self) == allowed[host[self].on] \/ exitReq[host[self].on]

TakeBaton(self, place) ==
  /\ Released(self)
  /\ allowed' = [allowed EXCEPT ![host[self].on] = FALSE]
  /\ host' = [host EXCEPT ![self] = At(place, host[self].on)]
  /\ UNCHANGED <<schedVars, attrVars, ctlVars, semaVars, exitReq>>

(* The end of switch_to in a blocking or preempting call, and in           *)
(* ExitThread: the host is back in guest code.                             *)
ReturnFromSwitch(self) ==
  /\ host[self].at \in {"switch", "exitSwitch"}
  /\ TakeBaton(self, "guest")

(* thread_main gets its first turn and calls the entry point. *)
BeginThread(self) ==
  /\ host[self].at = "start"
  /\ ~exitReq[self]
  /\ TakeBaton(self, "guest")

(* finish_thread's switch_to ends: only park_forever is left. *)
ReturnToPark(self) ==
  /\ host[self].at = "finSwitch"
  /\ TakeBaton(self, "finPark")

-----------------------------------------------------------------------------
(* Threads: creation, start, exit. *)

(* A thread's id is its index in m_threads, so ids are given in order. *)
CreateThread(self, t, p) ==
  /\ InGuest(self)
  /\ ~Exists(t)
  /\ \A u \in Thread : u < t => Exists(u)
  /\ status' = [status EXCEPT ![t] = "DORMANT"]
  /\ prio' = [prio EXCEPT ![t] = p]
  /\ UNCHANGED <<wait, ready, current, wakeups, suspends, ctlVars, semaVars, hostVars>>

(* StartThread once the thread has no host: a fresh host, waiting for its  *)
(* first turn.  The thread's priority and its wakeup and suspend counts    *)
(* are whatever an earlier run left.                                       *)
Launch(self, t) ==
  /\ wait' = [wait EXCEPT ![t] = NotWaiting]
  /\ exitReq' = [exitReq EXCEPT ![t] = FALSE]
  /\ UNCHANGED <<attrVars, ctlVars, semaVars>>
  /\ MaybePreemptFrom(self,
                      [status EXCEPT ![t] = "READY"],
                      ReadyInsert(ready, prio, t),
                      [host EXCEPT ![self] = At("guest", self), ![t] = At("start", t)],
                      [allowed EXCEPT ![t] = FALSE])

(* StartThread.  A thread that has run before still has a host: the call   *)
(* joins it first.  The main thread is the runner's own and is never       *)
(* started.                                                                *)
StartThread(self, t) ==
  /\ InGuest(self)
  /\ t # Main
  /\ status[t] = "DORMANT"
  /\ IF Joinable(t)
     THEN /\ host' = [host EXCEPT ![self] = At("joinStart", t)]
          /\ UNCHANGED <<schedVars, attrVars, ctlVars, semaVars, allowed, exitReq>>
     ELSE Launch(self, t)

(* ExitThread, and TerminateThread of the caller.  The main thread only    *)
(* asks the runner to quit, and goes on.                                   *)
ExitThread(self) ==
  /\ InGuest(self)
  /\ IF current = Main
     THEN /\ quit' = TRUE
          /\ UNCHANGED <<schedVars, attrVars, dispatchDisabled, destroying, semaVars, hostVars>>
     ELSE /\ status' = [status EXCEPT ![current] = "DORMANT"]
          /\ host' = [host EXCEPT ![self] = At("exitWake", current)]
          /\ UNCHANGED <<wait, ready, current, attrVars, ctlVars, semaVars, allowed, exitReq>>

(* The thread's entry function returns to thread_main: finish_thread. *)
FinishThread(self) ==
  /\ InGuest(self)
  /\ self # Main
  /\ status' = [status EXCEPT ![self] = "DORMANT"]
  /\ wait' = [wait EXCEPT ![self] = NotWaiting]
  /\ host' = [host EXCEPT ![self] = At("finWake", self)]
  /\ UNCHANGED <<ready, current, attrVars, ctlVars, semaVars, allowed, exitReq>>

Joiners(t) == {o \in Thread : status[o] = "WAIT" /\ wait[o] = WaitOnJoin(t)}

(* The loop over m_threads of both: each joiner becomes ready, by id. *)
WakeJoiner(self) ==
  /\ host[self].at \in {"exitWake", "finWake"}
  /\ \E o \in Joiners(host[self].on) :
       /\ \A x \in Joiners(host[self].on) : o <= x
       /\ status' = [status EXCEPT ![o] = "READY"]
       /\ wait' = [wait EXCEPT ![o] = NotWaiting]
       /\ ready' = ReadyInsert(ready, prio, o)
  /\ UNCHANGED <<current, attrVars, ctlVars, semaVars, hostVars>>

(* The rest of both: the next ready thread gets the baton and this host    *)
(* waits; with nothing ready it parks for good.                            *)
HandOffAndPark(self, t, switching, parked) ==
  IF ready = <<>>
  THEN /\ host' = [host EXCEPT ![self] = At(parked, t)]
       /\ UNCHANGED <<status, ready, current, allowed>>
  ELSE /\ status' = [status EXCEPT ![Head(ready)] = "RUN"]
       /\ ready' = Tail(ready)
       /\ current' = Head(ready)
       /\ SwitchTo(self, Head(ready), t, switching, host, allowed)

(* Mutant of ExitHandOff: the joiners are forgotten. *)
ExitHandOffAlone(self) ==
  /\ host[self].at = "exitWake"
  /\ HandOffAndPark(self, host[self].on, "exitSwitch", "exitPark")
  /\ UNCHANGED <<wait, attrVars, ctlVars, semaVars, exitReq>>

ExitHandOff(self) ==
  /\ host[self].at = "exitWake"
  /\ Joiners(host[self].on) = {}
  /\ HandOffAndPark(self, host[self].on, "exitSwitch", "exitPark")
  /\ UNCHANGED <<wait, attrVars, ctlVars, semaVars, exitReq>>

(* finish_thread leaves the scheduler alone unless the thread is current. *)
FinishHandOff(self) ==
  /\ host[self].at = "finWake"
  /\ Joiners(self) = {}
  /\ IF current = self
     THEN HandOffAndPark(self, self, "finSwitch", "finPark")
     ELSE /\ host' = [host EXCEPT ![self] = At("finPark", self)]
          /\ UNCHANGED <<status, ready, current, allowed>>
  /\ UNCHANGED <<wait, attrVars, ctlVars, semaVars, exitReq>>

-----------------------------------------------------------------------------
(* Threads: priorities, sleeping, suspension, joining. *)

ChangeThreadPriority(self, t, p) ==
  /\ InGuest(self)
  /\ Exists(t)
  /\ prio' = [prio EXCEPT ![t] = p]
  /\ UNCHANGED <<wait, wakeups, suspends, ctlVars, semaVars, exitReq>>
  /\ MaybePreempt(self, status,
                  IF status[t] = "READY"
                  THEN ReadyInsert(ReadyRemove(ready, t), prio', t)
                  ELSE ready)

(* RotateThreadReadyQueue: the first ready thread of priority p takes over *)
(* from a current thread of that priority, dispatching disabled or not.    *)
RotateThreadReadyQueue(self, p) ==
  /\ InGuest(self)
  /\ prio[current] = p
  /\ \E i \in 1..Len(ready) :
       /\ prio[ready[i]] = p
       /\ \A j \in 1..(i - 1) : prio[ready[j]] # p
       /\ status' = [status EXCEPT ![current] = "READY", ![ready[i]] = "RUN"]
       /\ ready' = ReadyInsert(ReadyRemove(ready, ready[i]), prio, current)
       /\ current' = ready[i]
       /\ SwitchTo(self, ready[i], current, "switch", host, allowed)
  /\ UNCHANGED <<wait, attrVars, ctlVars, semaVars, exitReq>>

(* Mutant of SleepThread: an early WakeupThread is ignored. *)
SleepThreadAnyway(self) ==
  /\ InGuest(self)
  /\ BlockCurrent(self, "WAIT", WaitSleep, ready)
  /\ UNCHANGED <<attrVars, dispatchDisabled, destroying, semaVars, exitReq>>

SleepThread(self) ==
  /\ InGuest(self)
  /\ UNCHANGED <<prio, suspends, dispatchDisabled, destroying, semaVars, exitReq>>
  /\ IF wakeups[current] > 0
     THEN /\ wakeups' = [wakeups EXCEPT ![current] = @ - 1]
          /\ UNCHANGED <<schedVars, quit, host, allowed>>
     ELSE /\ BlockCurrent(self, "WAIT", WaitSleep, ready)
          /\ UNCHANGED wakeups

WakeupThread(self, t) ==
  /\ InGuest(self)
  /\ Exists(t)
  /\ UNCHANGED <<prio, suspends, ctlVars, semaVars, exitReq>>
  /\ IF status[t] = "WAIT" /\ wait[t] = WaitSleep
     THEN /\ wait' = [wait EXCEPT ![t] = NotWaiting]
          /\ UNCHANGED wakeups
          /\ MaybePreempt(self, [status EXCEPT ![t] = "READY"], ReadyInsert(ready, prio, t))
     ELSE /\ wakeups[t] < MaxWakeups
          /\ wakeups' = [wakeups EXCEPT ![t] = @ + 1]
          /\ UNCHANGED wait
          /\ MaybePreempt(self, status, ready)

(* Mutant of CancelWakeupThread: the wrong counter. *)
CancelSuspends(self, t) ==
  /\ InGuest(self)
  /\ Exists(t)
  /\ suspends' = [suspends EXCEPT ![t] = 0]
  /\ UNCHANGED <<schedVars, prio, wakeups, ctlVars, semaVars, hostVars>>

CancelWakeupThread(self, t) ==
  /\ InGuest(self)
  /\ Exists(t)
  /\ wakeups' = [wakeups EXCEPT ![t] = 0]
  /\ UNCHANGED <<schedVars, prio, suspends, ctlVars, semaVars, hostVars>>

(* SuspendThread takes a ready thread off the queue and stops the caller   *)
(* on its first suspension; of a waiting thread only the count changes.    *)
SuspendThread(self, t) ==
  /\ InGuest(self)
  /\ Exists(t)
  /\ suspends[t] < MaxSuspends
  /\ suspends' = [suspends EXCEPT ![t] = @ + 1]
  /\ UNCHANGED <<prio, wakeups, dispatchDisabled, destroying, semaVars, exitReq>>
  /\ LET off == status[t] = "READY"
         rd == IF off THEN ReadyRemove(ready, t) ELSE ready
     IN  IF t = current /\ suspends[t] = 0
         THEN BlockCurrent(self, "SUSPEND", WaitSleep, rd)
         ELSE /\ ready' = rd
              /\ status' = IF off THEN [status EXCEPT ![t] = "SUSPEND"] ELSE status
              /\ UNCHANGED <<wait, current, quit, host, allowed>>

ResumeThread(self, t) ==
  /\ InGuest(self)
  /\ Exists(t)
  /\ suspends' = [suspends EXCEPT ![t] = Decremented(@)]
  /\ UNCHANGED <<wait, prio, wakeups, ctlVars, semaVars, exitReq>>
  /\ IF suspends'[t] = 0 /\ status[t] = "SUSPEND"
     THEN MaybePreempt(self, [status EXCEPT ![t] = "READY"], ReadyInsert(ready, prio, t))
     ELSE MaybePreempt(self, status, ready)

JoinThread(self, t) ==
  /\ InGuest(self)
  /\ Exists(t)
  /\ status[t] # "DORMANT"
  /\ BlockCurrent(self, "WAIT", WaitOnJoin(t), ready)
  /\ UNCHANGED <<attrVars, dispatchDisabled, destroying, semaVars, exitReq>>

DisableDispatchThread(self) ==
  /\ InGuest(self)
  /\ dispatchDisabled < MaxDisables
  /\ dispatchDisabled' = dispatchDisabled + 1
  /\ UNCHANGED <<schedVars, attrVars, quit, destroying, semaVars, hostVars>>

EnableDispatchThread(self) ==
  /\ InGuest(self)
  /\ dispatchDisabled' = Decremented(dispatchDisabled)
  /\ UNCHANGED <<wait, attrVars, quit, destroying, semaVars, exitReq>>
  /\ MaybePreempt(self, status, ready)

(* KExit: the runner's loop will see the flag; the guest goes on. *)
KExit(self) ==
  /\ InGuest(self)
  /\ quit' = TRUE
  /\ UNCHANGED <<schedVars, attrVars, dispatchDisabled, destroying, semaVars, hostVars>>

-----------------------------------------------------------------------------
(* Semaphores. *)

Live(s) == semaState[s] = "live"

(* Mutants: the newest waiter is served; it stays queued; a token is kept  *)
(* back.                                                                   *)
LastWaiter(s) == Last(waiters[s])
AllWaiters(s) == waiters[s]
HasSpareToken(s) == count[s] > 1

FirstWaiter(s) == Head(waiters[s])
OtherWaiters(s) == Tail(waiters[s])
HasToken(s) == count[s] > 0

(* The count is the guest's, below zero or above the maximum as it likes. *)
CreateSema(self, s, p) ==
  /\ InGuest(self)
  /\ semaState[s] = "none"
  /\ \A r \in Sema : r < s => semaState[r] # "none"
  /\ semaState' = [semaState EXCEPT ![s] = "live"]
  /\ count' = [count EXCEPT ![s] = p[1]]
  /\ maxCount' = [maxCount EXCEPT ![s] = p[2]]
  /\ UNCHANGED <<schedVars, attrVars, ctlVars, waiters, hostVars>>

(* SignalSema hands the token to the first waiter, or counts it. *)
SignalSema(self, s) ==
  /\ InGuest(self)
  /\ Live(s)
  /\ UNCHANGED <<attrVars, ctlVars, semaState, maxCount, exitReq>>
  /\ IF waiters[s] # <<>>
     THEN LET t == FirstWaiter(s)
          IN  /\ waiters' = [waiters EXCEPT ![s] = OtherWaiters(s)]
              /\ wait' = [wait EXCEPT ![t] = NotWaiting]
              /\ UNCHANGED count
              /\ MaybePreempt(self, [status EXCEPT ![t] = "READY"], ReadyInsert(ready, prio, t))
     ELSE /\ count' = [count EXCEPT ![s] = IF @ < maxCount[s] THEN @ + 1 ELSE @]
          /\ UNCHANGED <<wait, waiters>>
          /\ MaybePreempt(self, status, ready)

WaitSema(self, s) ==
  /\ InGuest(self)
  /\ Live(s)
  /\ UNCHANGED <<attrVars, dispatchDisabled, destroying, semaState, maxCount, exitReq>>
  /\ IF HasToken(s)
     THEN /\ count' = [count EXCEPT ![s] = @ - 1]
          /\ UNCHANGED <<schedVars, quit, waiters, host, allowed>>
     ELSE /\ waiters' = [waiters EXCEPT ![s] = Append(@, current)]
          /\ BlockCurrent(self, "WAIT", WaitOnSema(s), ready)
          /\ UNCHANGED count

PollSema(self, s) ==
  /\ InGuest(self)
  /\ Live(s)
  /\ HasToken(s)
  /\ count' = [count EXCEPT ![s] = @ - 1]
  /\ UNCHANGED <<schedVars, attrVars, ctlVars, semaState, maxCount, waiters, hostVars>>

-----------------------------------------------------------------------------
ThreadCall(self) ==
  \/ \E t \in Thread, p \in Priority : CreateThread(self, t, p)
  \/ \E t \in Thread : StartThread(self, t)
  \/ ExitThread(self)
  \/ FinishThread(self)
  \/ \E t \in Thread, p \in Priority : ChangeThreadPriority(self, t, p)
  \/ \E p \in Priority : RotateThreadReadyQueue(self, p)
  \/ SleepThread(self)
  \/ \E t \in Thread : WakeupThread(self, t)
  \/ \E t \in Thread : CancelWakeupThread(self, t)
  \/ \E t \in Thread : SuspendThread(self, t)
  \/ \E t \in Thread : ResumeThread(self, t)
  \/ \E t \in Thread : JoinThread(self, t)
  \/ DisableDispatchThread(self)
  \/ EnableDispatchThread(self)
  \/ KExit(self)

SemaCall(self) ==
  \/ \E s \in Sema, p \in SemaInit : CreateSema(self, s, p)
  \/ \E s \in Sema : SignalSema(self, s)
  \/ \E s \in Sema : WaitSema(self, s)
  \/ \E s \in Sema : PollSema(self, s)

(* What a host does on its own, inside a call or on its way out of one. *)
HostStep(self) ==
  \/ ReturnFromSwitch(self)
  \/ BeginThread(self)
  \/ ReturnToPark(self)
  \/ WakeJoiner(self)
  \/ ExitHandOff(self)
  \/ FinishHandOff(self)

Next == \E self \in Thread : ThreadCall(self) \/ SemaCall(self) \/ HostStep(self)

Spec == Init /\ [][Next]_vars

(* A host that can go on does: the operating system schedules every        *)
(* runnable host thread, and nothing in the kernel polls.  What the guest  *)
(* calls, and whether it calls anything, is left open.                     *)
HostFairness == \A self \in Thread : WF_vars(HostStep(self))

FairSpec == Spec /\ HostFairness

-----------------------------------------------------------------------------
(* Properties. *)

(* A host that executes: guest code, or kernel code on its behalf. *)
Executing == {h \in Thread : host[h].at \in {"guest", "exitWake", "finWake", "semaWake", "dtor"}}
InFlight == {t \in Thread : allowed[t]}

(* kernel.hpp: "a global baton ensures exactly one EE thread runs at a     *)
(* time".  At most one host executes, it is the current thread's, and      *)
(* while it does no wake-up is on its way to another; a wake-up on its way *)
(* is on its way to the current thread.                                    *)
BatonExclusive ==
  /\ \A h \in Executing : h = current /\ InFlight = {}
  /\ \A t \in InFlight : t = current

(* No wake-up is lost: the host that switch_to wakes is waiting for        *)
(* exactly that wake-up; and when no host executes and none is being woken *)
(* then the current thread has exited with nothing left to run, or hangs   *)
(* in the join of StartThread.                                             *)
BatonNotLost ==
  ~quit =>
    /\ \A t \in InFlight : host[t].at \in {"start", "switch"} /\ host[t].on = t
    /\ (Executing = {} /\ InFlight = {}) =>
         \/ host[current].at \in {"exitPark", "finPark"} /\ ready = <<>>
         \/ host[current].at = "joinStart"

(* The ready queue holds the threads marked READY, each once and sorted by *)
(* priority, and a thread marked RUN is the current one: whatever was      *)
(* suspended, released or given another priority, no thread is runnable    *)
(* and forgotten, or queued twice and so run after it blocked.             *)
ReadyExact ==
  ~quit =>
    /\ NoRepeats(ready)
    /\ SortedByPriority(ready, prio)
    /\ \A t \in Thread : (status[t] = "READY") <=> Contains(ready, t)
    /\ \A t \in Thread : status[t] = "RUN" => t = current

(* A semaphore's queue holds the threads that wait on it, each once.       *)
WaitersExact ==
  ~quit =>
    \A s \in Sema :
      /\ NoRepeats(waiters[s])
      /\ \A t \in Thread :
           Contains(waiters[s], t) <=> (status[t] = "WAIT" /\ wait[t] = WaitOnSema(s))

(* kernel.hpp: "priority-based preemption at syscall boundaries".  While   *)
(* guest code runs with dispatching enabled, no ready thread has a         *)
(* strictly higher priority than the running one.                          *)
RunsHighestPriority ==
  (~quit /\ dispatchDisabled = 0 /\ \E h \in Thread : InGuest(h)) =>
    \A t \in Thread : status[t] = "READY" => prio[current] <= prio[t]

(* A semaphore with a token left has no waiter: a signal is never counted  *)
(* while a thread that could take it sleeps.                               *)
NoIdleToken == \A s \in Sema : count[s] > 0 => waiters[s] = <<>>

(* A thread asleep has no wakeup outstanding: WakeupThread before          *)
(* SleepThread is not lost.                                                *)
NoLostWakeup ==
  ~quit => \A t \in Thread : (status[t] = "WAIT" /\ wait[t] = WaitSleep) => wakeups[t] = 0

(* A thread off the queue as SUSPEND has a suspension outstanding, so the  *)
(* ResumeThread calls that balance it make it ready.                       *)
SuspensionsBalance == \A t \in Thread : status[t] = "SUSPEND" => suspends[t] > 0

(* First in, first out within a priority: a thread that becomes ready      *)
(* queues behind every ready thread of its priority.                       *)
FifoWithinPriority ==
  [][~quit =>
     \A i, j \in 1..Len(ready') :
       (/\ prio'[ready'[i]] = prio'[ready'[j]]
        /\ Contains(ready, ready'[i])
        /\ ~Contains(ready, ready'[j])) => i < j]_vars

(* WaitSema: "return value once acquired".  A thread leaves the wait on a  *)
(* semaphore, for guest code to see success, only as its first waiter, by  *)
(* a step that takes it off that semaphore's queue and is not part of the  *)
(* semaphore's deletion.  (Once the kernel has asked to quit, a caller     *)
(* with nothing to switch to goes on without one: block_current.)          *)
WaitEndsWithToken ==
  [][~quit =>
     \A s \in Sema, t \in Thread :
       (status[t] = "WAIT" /\ wait[t] = WaitOnSema(s) /\ status'[t] \in {"READY", "RUN"}) =>
         /\ waiters[s] # <<>>
         /\ t = Head(waiters[s])
         /\ waiters'[s] = Tail(waiters[s])
         /\ \A h \in Thread : host[h] # At("semaWake", s)]_vars

(* A thread that was given the baton gets to run. *)
BatonDelivered == \A t \in Thread : (t \in InFlight /\ ~quit) ~> (InGuest(t) \/ quit)

(* A join ends when its target has ended. *)
JoinersReleased ==
  \A t, o \in Thread :
    (status[t] = "DORMANT" /\ o \in Joiners(t)) ~> (o \notin Joiners(t) \/ quit)
=============================================================================
