--------------------------- MODULE MCEEInterrupts ---------------------------
(* Instances of EEInterrupts for TLC. *)
EXTENDS EEInterrupts

MCSemaInit == {<<0, 1>>}
BeforeQuit == ~quit
ShortQueues == Len(ready) <= 2 /\ \A s \in Sema : Len(waiters[s]) <= 1
WorkerSema == 1

(* The guest of a program with a vblank worker.  The main thread sets up a *)
(* semaphore, a worker of higher priority and its handlers, and then runs  *)
(* on; the worker waits for the semaphore, again and again; handlers       *)
(* signal it.                                                              *)
MainCall ==
  /\ handling[Main] = <<>>
  /\ \/ CreateSema(Main, WorkerSema, <<0, 1>>)
     \/ CreateThread(Main, 1, 0)
     \/ StartThread(Main, 1)
     \/ ChangeThreadPriority(Main, Main, 1)
WorkerCall(self) == self # Main /\ handling[self] = <<>> /\ WaitSema(self, WorkerSema)
HandlerCall(self) == handling[self] # <<>> /\ SignalSema(self, WorkerSema)

WorkerStep(mainCall) ==
  \/ ClockTick
  \/ \E self \in Thread :
       \/ Deliver(self) \/ HandlerReturn(self) \/ IntHostStep(self)
       \/ WorkerCall(self) /\ UNCHANGED intVars
       \/ HandlerCall(self) /\ UNCHANGED intVars
  \/ MainCall /\ UNCHANGED intVars
  \/ handling[Main] = <<>> /\ mainCall

(* The main thread installs handlers, takes them away again, and sets      *)
(* alarms that all get to their deadline.                                  *)
KeptCall ==
  \/ \E c \in Cause, h \in Handler : AddIntcHandler(Main, c, h)
  \/ \E c \in Cause : RemoveIntcHandler(Main, c) \/ EnableIntc(Main, c) \/ DisableIntc(Main, c)
  \/ \E h \in Handler, d \in 1..MaxDelay : SetAlarm(Main, h, d)

(* The clock thread and runnable hosts go on; guest code polls, a handler  *)
(* makes finitely many calls, and the worker returns to its semaphore.     *)
WorkerFairness ==
  /\ WF_allVars(ClockTick)
  /\ SF_allVars(\E self \in Thread : Deliver(self))
  /\ \A self \in Thread :
       /\ WF_allVars(IntHostStep(self))
       /\ SF_allVars(HandlerReturn(self))
       /\ WF_allVars(WorkerCall(self) /\ UNCHANGED intVars)

KeptSpec == IntInit /\ [][WorkerStep(KeptCall)]_allVars /\ WorkerFairness
=============================================================================
