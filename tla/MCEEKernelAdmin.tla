--------------------------- MODULE MCEEKernelAdmin --------------------------
(* Instances of EEKernelAdmin for TLC. *)
EXTENDS EEKernelAdmin

MCSemaInit == {<<0, 1>>}

(* The bounds: a program has two threads and the main one, or one thread   *)
(* and a semaphore, and a thread whose wait was released is queued a       *)
(* second time only while the ready queue is short.                        *)
NoSema == \A s \in Sema : semaState[s] = "none"
OneThread == \A t \in Thread : t > 1 => ~Exists(t)
OnSema(t) == wait[t].why = "SEMA"
ShortReady == Len(ready) < 2

(* The guests of a program that is destroyed.  At any time, also while the *)
(* destructor waits for them, they exit, sleep, wait, wake, join and use a *)
(* semaphore.  (In the teardown only the current thread's own host calls   *)
(* ExitThread: another host would wait beside that thread's own host on    *)
(* one condition variable, where notify_one wakes one of the two.)         *)
OwnTurn(self) == destroying => current = self
AnyTimeCall(self) ==
  \/ OwnTurn(self) /\ ExitThread(self)
  \/ OwnTurn(self) /\ \E t \in Thread : JoinThread(self, t)
  \/ SleepThread(self)
  \/ KExit(self)
  \/ \E t \in Thread : WakeupThread(self, t)
  \/ ShortReady /\ \E s \in Sema : SignalSema(self, s)
  \/ \E s \in Sema : PollSema(self, s)
  \/ \E s \in Sema : Len(waiters[s]) < 2 /\ WaitSema(self, s)

(* Until the program quits they also create, start, delete, terminate,     *)
(* release and rotate threads, and create and delete the semaphore.        *)
EarlyCall(self) ==
  \/ \E t \in Thread, p \in Priority : (t = 1 \/ NoSema) /\ CreateThread(self, t, p)
  \/ \E t \in Thread : ~Joinable(t) /\ StartThread(self, t)
  \/ \E t \in Thread : DeleteThread(self, t)
  \/ \E t \in Thread : TerminateThread(self, t)
  \/ \E t \in Thread : (OnSema(t) => ShortReady) /\ ReleaseWaitThread(self, t)
  \/ \E p \in Priority : RotateThreadReadyQueue(self, p)
  \/ \E s \in Sema, p \in SemaInit : OneThread /\ CreateSema(self, s, p)
  \/ \E s \in Sema : DeleteSema(self, s)

LifeStep ==
  \/ \E self \in Thread :
       \/ AnyTimeCall(self)
       \/ ~quit /\ EarlyCall(self)
       \/ FinishThread(self)
       \/ AdminHostStep(self)
  \/ Destroy
  \/ DestroyStep

(* A thread that the destructor released makes finitely many calls: it     *)
(* returns from its entry function if it executes again and again.         *)
ReleasedFinish == \A self \in Thread \ {Main} : SF_vars(destroying /\ FinishThread(self))
LifeSpec == Init /\ [][LifeStep]_vars /\ AdminFairness /\ ReleasedFinish

(* Guests that still rotate the ready queue then. *)
RotateStep ==
  \/ LifeStep
  \/ destroying /\ \E self \in Thread, p \in Priority : RotateThreadReadyQueue(self, p)
RotateSpec == Init /\ [][RotateStep]_vars /\ AdminFairness /\ ReleasedFinish

(* Guests that start a thread again, in a program that does not quit. *)
RestartStep == \E self \in Thread : (~quit /\ ThreadCall(self)) \/ AdminHostStep(self)
RestartSpec == Init /\ [][RestartStep]_vars /\ AdminFairness
=============================================================================
