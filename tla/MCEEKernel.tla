----------------------------- MODULE MCEEKernel -----------------------------
(* Instances of EEKernel for TLC. *)
EXTENDS EEKernel

MCSemaInit == {<<0, 1>>, <<1, 2>>}

(* The states up to the first one in which the runner is asked to quit. *)
BeforeQuit == ~quit

(* After that a thread can wait, or be queued, more than once. *)
ShortQueues == Len(ready) <= 2 /\ \A s \in Sema : Len(waiters[s]) <= 2
=============================================================================
