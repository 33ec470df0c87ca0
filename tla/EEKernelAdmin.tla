--------------------------- MODULE EEKernelAdmin ----------------------------
(***************************************************************************)
(* The calls of src/runtime/src/kernel.cpp that reach into another         *)
(* thread's wait or take a thread or a semaphore away (DeleteThread,       *)
(* TerminateThread, ReleaseWaitThread, DeleteSema), and the destructor of  *)
(* Kernel, on the state of EEKernel.                                       *)
(*                                                                         *)
(* Only here is a host ever told to exit, so the ends of park_forever and  *)
(* of host.join() are here too.  Once the destructor runs, every host it   *)
(* has woken executes at once: their steps interleave one syscall at a     *)
(* time, as if the lock covered a whole call (it covers parts of it).      *)
(***************************************************************************)
EXTENDS EEKernel

(* q without any occurrence of t (a thread whose wait was released can be  *)
(* in a semaphore's queue twice).                                          *)
Erased(q, t) ==
  LET left[i \in 0..Len(q)] ==
        IF i = 0 THEN <<>> ELSE IF q[i] = t THEN left[i - 1] ELSE Append(left[i - 1], q[i])
  IN  left[Len(q)]

WaitersWithout(t) == [s \in Sema |-> Erased(waiters[s], t)]

(* Mutant of TellToExit: the host is woken but not told to exit. *)
WakeOnly(t) == allowed' = [allowed EXCEPT ![t] = TRUE] /\ UNCHANGED exitReq

TellToExit(t) ==
  /\ exitReq' = [exitReq EXCEPT ![t] = TRUE]
  /\ allowed' = [allowed EXCEPT ![t] = TRUE]

-----------------------------------------------------------------------------
(* DeleteThread: not the current or a running thread.  The host, wherever  *)
(* it is parked, is told to exit and joined; the thread keeps its id.  (A  *)
(* host deleting its own thread would throw out of host.join().)           *)
DeleteThread(self, t) ==
  /\ InGuest(self)
  /\ t # self
  /\ t # current
  /\ status[t] \notin {"none", "RUN"}
  /\ ready' = ReadyRemove(ready, t)
  /\ waiters' = WaitersWithout(t)
  /\ status' = [status EXCEPT ![t] = "DORMANT"]
  /\ UNCHANGED <<wait, current, attrVars, ctlVars, semaState, count, maxCount>>
  /\ IF Joinable(t)
     THEN /\ TellToExit(t)
          /\ host' = [host EXCEPT ![self] = At("joinDelete", t)]
     ELSE UNCHANGED hostVars

(* TerminateThread of another thread (of the caller it is ExitThread): the *)
(* scheduler forgets the thread, its host stays parked, and nobody waiting *)
(* in JoinThread is told.                                                  *)
TerminateThread(self, t) ==
  /\ InGuest(self)
  /\ Exists(t)
  /\ t # current
  /\ ready' = ReadyRemove(ready, t)
  /\ waiters' = WaitersWithout(t)
  /\ status' = [status EXCEPT ![t] = "DORMANT"]
  /\ UNCHANGED <<wait, current, attrVars, ctlVars, semaState, count, maxCount, hostVars>>

(* ReleaseWaitThread: any wait ends; a semaphore keeps its waiter. *)
ReleaseWaitThread(self, t) ==
  /\ InGuest(self)
  /\ status[t] = "WAIT"
  /\ wait' = [wait EXCEPT ![t] = NotWaiting]
  /\ UNCHANGED <<attrVars, ctlVars, semaVars, exitReq>>
  /\ MaybePreempt(self, [status EXCEPT ![t] = "READY"], ReadyInsert(ready, prio, t))

(* DeleteSema wakes its waiters in their order (the host is in "semaWake"  *)
(* meanwhile) and then marks the semaphore; the caller is not preempted.   *)
DeleteSema(self, s) ==
  /\ InGuest(self)
  /\ Live(s)
  /\ host' = [host EXCEPT ![self] = At("semaWake", s)]
  /\ UNCHANGED <<schedVars, attrVars, ctlVars, semaVars, allowed, exitReq>>

DeleteSemaWake(self) ==
  LET s == host[self].on
      t == FirstWaiter(s)
  IN  /\ host[self].at = "semaWake"
      /\ waiters[s] # <<>>
      /\ waiters' = [waiters EXCEPT ![s] = OtherWaiters(s)]
      /\ status' = [status EXCEPT ![t] = "READY"]
      /\ wait' = [wait EXCEPT ![t] = NotWaiting]
      /\ ready' = ReadyInsert(ready, prio, t)
      /\ UNCHANGED <<current, attrVars, ctlVars, semaState, count, maxCount, hostVars>>

DeleteSemaEnd(self) ==
  LET s == host[self].on
  IN  /\ host[self].at = "semaWake"
      /\ waiters[s] = <<>>
      /\ semaState' = [semaState EXCEPT ![s] = "deleted"]
      /\ host' = [host EXCEPT ![self] = At("guest", self)]
      /\ UNCHANGED <<schedVars, attrVars, ctlVars, count, maxCount, waiters, allowed, exitReq>>

-----------------------------------------------------------------------------
(* Hosts that were told to exit. *)

(* Mutant of BeginExiting: finish_thread is skipped. *)
BeginExitingUnfinished(self) ==
  /\ host[self].at = "start"
  /\ exitReq[self]
  /\ host' = [host EXCEPT ![self] = At("finPark", self)]
  /\ UNCHANGED <<schedVars, attrVars, ctlVars, semaVars, allowed, exitReq>>

(* thread_main: told to exit before its first turn, the thread skips its   *)
(* entry point.                                                            *)
BeginExiting(self) ==
  /\ host[self].at = "start"
  /\ exitReq[self]
  /\ allowed' = [allowed EXCEPT ![self] = FALSE]
  /\ status' = [status EXCEPT ![self] = "DORMANT"]
  /\ wait' = [wait EXCEPT ![self] = NotWaiting]
  /\ host' = [host EXCEPT ![self] = At("finWake", self)]
  /\ UNCHANGED <<ready, current, attrVars, ctlVars, semaVars, exitReq>>

(* park_forever returns: into the guest code after ExitThread, or out of   *)
(* thread_main.                                                            *)
LeavePark(self) ==
  /\ host[self].at \in {"exitPark", "finPark"}
  /\ exitReq[host[self].on]
  /\ host' = [host EXCEPT ![self].at = IF @ = "exitPark" THEN "guest" ELSE "exited"]
  /\ UNCHANGED <<schedVars, attrVars, ctlVars, semaVars, allowed, exitReq>>

(* host.join() returns: the deleter goes on, and StartThread launches its  *)
(* thread anew.  (During the teardown ~Kernel joins the same hosts, which  *)
(* std::thread leaves undefined; here both joins return.)                  *)
JoinReturns(self) ==
  LET t == host[self].on
  IN  /\ host[self].at \in {"joinStart", "joinDelete"}
      /\ host[t].at = "exited"
      /\ IF host[self].at = "joinStart" THEN Launch(self, t)
         ELSE /\ host' = [host EXCEPT ![self] = At("guest", self), ![t] = At("none", t)]
              /\ UNCHANGED <<schedVars, attrVars, ctlVars, semaVars, allowed, exitReq>>

-----------------------------------------------------------------------------
(* ~Kernel, once the runner's loop has seen quit_requested(): every host   *)
(* is told to exit, in the order of the ids, and then they are joined.     *)
(* The hosts already told to exit run meanwhile.                           *)

Destroy ==
  /\ InGuest(Main)
  /\ quit
  /\ destroying' = TRUE
  /\ host' = [host EXCEPT ![Main] = At("dtor", Main)]
  /\ UNCHANGED <<schedVars, attrVars, dispatchDisabled, quit, semaVars, allowed, exitReq>>

LeftToSignal == {t \in Thread : t > host[Main].on /\ Joinable(t)}

DestroySignal(t) ==
  /\ host[Main].at = "dtor"
  /\ t \in LeftToSignal
  /\ \A u \in LeftToSignal : t <= u
  /\ TellToExit(t)
  /\ host' = [host EXCEPT ![Main] = At("dtor", t)]
  /\ UNCHANGED <<schedVars, attrVars, ctlVars, semaVars>>

DestroyJoin ==
  /\ host[Main].at = "dtor"
  /\ LeftToSignal = {}
  /\ host' = [host EXCEPT ![Main] = At("dtorJoin", Main)]
  /\ UNCHANGED <<schedVars, attrVars, ctlVars, semaVars, allowed, exitReq>>

DestroyEnd ==
  /\ host[Main].at = "dtorJoin"
  /\ \A t \in Thread : Joinable(t) => host[t].at = "exited"
  /\ host' = [t \in Thread |-> At(IF t = Main THEN "gone" ELSE "none", t)]
  /\ UNCHANGED <<schedVars, attrVars, ctlVars, semaVars, allowed, exitReq>>

-----------------------------------------------------------------------------
RemovalCall(self) ==
  \/ \E t \in Thread : DeleteThread(self, t)
  \/ \E t \in Thread : TerminateThread(self, t)
  \/ \E s \in Sema : DeleteSema(self, s)

AdminCall(self) ==
  \/ RemovalCall(self)
  \/ \E t \in Thread : ReleaseWaitThread(self, t)

AdminHostStep(self) ==
  \/ HostStep(self)
  \/ DeleteSemaWake(self)
  \/ DeleteSemaEnd(self)
  \/ BeginExiting(self)
  \/ LeavePark(self)
  \/ JoinReturns(self)

DestroyStep ==
  \/ \E t \in Thread : DestroySignal(t)
  \/ DestroyJoin
  \/ DestroyEnd

AdminNext ==
  \/ \E self \in Thread :
       ThreadCall(self) \/ SemaCall(self) \/ AdminCall(self) \/ AdminHostStep(self)
  \/ Destroy
  \/ DestroyStep

AdminSpec == Init /\ [][AdminNext]_vars

(* Guests that make every call but ReleaseWaitThread, which leaves a       *)
(* thread queued at a semaphore that it no longer waits for.               *)
UnreleasedNext ==
  \/ \E self \in Thread :
       ThreadCall(self) \/ SemaCall(self) \/ RemovalCall(self) \/ AdminHostStep(self)
  \/ Destroy
  \/ DestroyStep

UnreleasedSpec == Init /\ [][UnreleasedNext]_vars

-----------------------------------------------------------------------------
(* Properties. *)

(* A host that can take a step of its own takes it, and the destructor's   *)
(* host goes on (see HostFairness in EEKernel).                            *)
AdminFairness ==
  /\ \A self \in Thread : WF_vars(AdminHostStep(self))
  /\ WF_vars(DestroyStep)

(* kernel.hpp: the baton "ensures exactly one EE thread runs at a time",   *)
(* whatever is deleted, terminated or released, up to the destructor.      *)
OneHostExecutes == ~destroying => Cardinality(Executing) <= 1

(* kernel.hpp, of ~Kernel: "stops and joins all threads". *)
DestructorReturns == destroying ~> (host[Main].at = "gone")

(* kernel.cpp, where StartThread joins the host of a thread that has run:  *)
(* "previous run finished; reclaim".                                       *)
RestartReturns == \A h \in Thread : (host[h].at = "joinStart") ~> (host[h].at # "joinStart")

(* In fact, up to the destructor, StartThread never returns then: the host *)
(* it waits for is parked, no other host executes and none is released, so *)
(* nobody is left who could end the wait or begin the destructor.          *)
StuckForever ==
  (~destroying /\ \E h \in Thread : host[h].at = "joinStart") =>
    /\ Executing = {}
    /\ \A h \in Thread : host[h].at # "exited"
    /\ \A h \in Thread : host[h].at \in {"start", "switch", "exitSwitch", "finSwitch"} => ~Released(h)

(* JoinThread returns when its target was deleted, even though the kernel  *)
(* wakes joiners only from the target's own host: the deleted thread's     *)
(* host gets to wake them before DeleteThread returns.                     *)
DeletedThreadHasNoJoiner ==
  (~quit /\ \E h \in Thread : InGuest(h) /\ h = current) =>
    \A t \in Thread : (status[t] = "DORMANT" /\ host[t].at = "none") => Joiners(t) = {}
=============================================================================
