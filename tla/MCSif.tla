-------------------------------- MODULE MCSif -------------------------------
(* Instances of Sif for TLC. *)
EXTENDS Sif

MCSemaInit == {<<0, 1>>}

(* The main thread sets a program up. *)
Setup ==
  \/ /\ \/ \E c \in Client : CreateSema(Main, SemaOf(c), <<0, 1>>)
        \/ \E t \in Thread : CreateThread(Main, t, 0)
        \/ \E t \in Thread : StartThread(Main, t)
     /\ UNCHANGED <<intVars, rpcVars>>
  \/ AddDmacHandler(Main, SifChannel, 1) /\ UNCHANGED rpcVars
  \/ RegisterBuffer(Main)
  \/ ~registered /\ SendCommand(Main)
  \/ /\ registered
     /\ AddIntcHandler(Main, VblankStart, 1) \/ EnableIntc(Main, VblankStart)
     /\ UNCHANGED rpcVars

(* A thread that has no request out, and a handler of the vertical blank,  *)
(* give the processor to the next thread.                                  *)
MayYield(self) ==
  IF handling[self] = <<>> THEN client[self].at = "idle" ELSE ~InSifHandler(self)
Yield(self) == MayYield(self) /\ Drained /\ RotateThreadReadyQueue(self, 0) /\ UNCHANGED <<intVars, rpcVars>>

SifNext ==
  \/ handling[Main] = <<>> /\ client[Main].at = "idle" /\ Drained /\ Setup
  \/ \E self \in Thread :
       \/ RpcStep(self)
       \/ Yield(self)
       \/ (Deliver(self) \/ IntHostStep(self)) /\ UNCHANGED rpcVars
  \/ ClockTick /\ UNCHANGED rpcVars

SifSpec == SifInit /\ [][SifNext]_rpcAllVars

(* Runnable hosts go on; guest code polls and ends its handlers; a client  *)
(* that has sent a request comes to wait for the reply.                    *)
InterruptStep(self) ==
  \/ Deliver(self) /\ UNCHANGED rpcVars
  \/ ReadPacket(self)
  \/ SifHandlerReturn(self)

SifFairness ==
  /\ SF_rpcAllVars(\E self \in Thread : InterruptStep(self))
  /\ WF_rpcAllVars(\E self \in Thread : IntHostStep(self) /\ UNCHANGED rpcVars)
  /\ \A self \in Client : SF_rpcAllVars(AwaitReply(self))

FairSifSpec == SifSpec /\ SifFairness
=============================================================================
