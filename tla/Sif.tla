-------------------------------- MODULE Sif --------------------------------
(***************************************************************************)
(* The SIF and the RPC services of the IOP (src/runtime/src/iop.cpp), on   *)
(* top of the EE kernel and its interrupts.                                *)
(*                                                                         *)
(* A client thread on the EE sends a command packet to the IOP with the    *)
(* SifSetDma syscall (or by a write to a SIF register).  The IOP is not    *)
(* emulated: the command is processed, and its reply delivered, within     *)
(* that call.  Delivery overwrites the one packet buffer the EE registered *)
(* and queues a DMAC interrupt, whose handler, the game's sifcmd library,  *)
(* takes the packet out and signals the client's semaphore.                *)
(*                                                                         *)
(* A 32-bit word that names a server is modelled by its three top bits and *)
(* by what is in the rest of it; the routing of calls looks at no more.    *)
(***************************************************************************)
EXTENDS EEInterrupts

CONSTANTS
  Client,        \* the threads that use RPC, each with a semaphore of its own
  Server,        \* the service ids in m_sif_modules
  OtherServer,   \* service ids that are not
  MaxEarly       \* packets that m_pending_ee holds before it is cleared

ASSUME ClientAssumption == Client \subseteq Thread
ASSUME EarlyAssumption == MaxEarly \in Nat

VARIABLES
  registered,    \* m_ee_recv_addr is set
  announced,     \* m_bootend_sent
  early,         \* m_pending_ee
  inbox,         \* the packet in the EE's buffer
  client         \* per client: where it is, its request, its reply, its handle

sifVars == <<registered, announced, early, inbox>>
rpcVars == <<sifVars, client>>
rpcAllVars == <<allVars, rpcVars>>

SemaOf(c) == c + 1

-----------------------------------------------------------------------------
(* Server words. *)

Word == [top : SUBSET {29, 30, 31}, rest : {"zero", "address"} \union Server \union OtherServer, masked : BOOLEAN]

Zero == [top |-> {}, rest |-> "zero", masked |-> FALSE]
(* Every service id is 0x80000000 and a small number. *)
ServiceId(x) == [top |-> {31}, rest |-> x, masked |-> FALSE]
(* A server data structure in EE memory. *)
EEServer == [top |-> {}, rest |-> "address", masked |-> FALSE]

(* w ^ RPC_SERVERID_XOR, 0xACACACAC. *)
XorServerId(w) ==
  [w EXCEPT !.top = SymDiff(@, {31, 29}), !.masked = ~@]

(* sif_rpc_module_lookup *)
IsModule(w) == \E x \in Server : w = ServiceId(x)

(* Where sif_cmd_call sends a call with server data sd. *)
Route(sd) ==
  IF sd # Zero /\ sd.top = {} THEN "ee"
  ELSE IF 31 \in sd.top /\ IsModule(XorServerId(sd)) THEN "module"
  ELSE "none"

-----------------------------------------------------------------------------
(* Packets.  "from" stands for the fields a reply repeats (rec_id,         *)
(* pkt_addr, rpc_id, cd), "opt" for the header's field: the semaphore that *)
(* the reply's handler signals, by its client.                             *)

Nobody == -1
NoPacket == [cid |-> "none"]

Register(kind) == [cid |-> kind]                   \* CHANGE_SADDR, INIT_CMD
SetSreg == [cid |-> "SET_SREG"]                    \* SET_SREG(RPCINIT, 1)
Bind(c, x) == [cid |-> "RPC_BIND", from |-> c, opt |-> c, server |-> ServiceId(x)]
Call(c, sd) == [cid |-> "RPC_CALL", from |-> c, opt |-> c, server |-> sd]
OtherData(c) == [cid |-> "RPC_RDATA", from |-> c, opt |-> c, server |-> Zero]
Inert(kind) == [cid |-> kind]                      \* RESET_CMD, RPC_END, unknown

(* Mutant of Rend: the reply does not repeat the header's field. *)
RendWithoutOpt(q, sd) == [cid |-> "RPC_END", from |-> q.from, opt |-> Nobody, of |-> q.cid, server |-> sd]

Rend(q, sd) == [cid |-> "RPC_END", from |-> q.from, opt |-> q.opt, of |-> q.cid, server |-> sd]

-----------------------------------------------------------------------------
(* The IOP, as a function on the state it shares with the EE.              *)

Shared ==
  [registered |-> registered, announced |-> announced, early |-> early,
   inbox |-> inbox, pending |-> pending]

Becomes(st) ==
  /\ registered' = st.registered
  /\ announced' = st.announced
  /\ early' = st.early
  /\ inbox' = st.inbox
  /\ pending' = st.pending

(* Both interrupts of a delivery; none once the destructor runs. *)
SifInterrupt == IF destroying THEN <<>> ELSE Dmac(SifChannel) \o Intc(SifCause)

(* sif_deliver_to_ee.  Nothing takes early packets out again. *)
DeliverToEE(st, packet) ==
  IF st.registered
  THEN [st EXCEPT !.inbox = packet, !.pending = @ \o SifInterrupt]
  ELSE [st EXCEPT !.early = IF Len(@) < MaxEarly THEN Append(@, packet) ELSE <<>>]

(* CHANGE_SADDR and INIT_CMD: the first of them is answered. *)
Registered(st) ==
  LET st2 == [st EXCEPT !.registered = TRUE, !.announced = TRUE]
  IN  IF st.announced THEN st2 ELSE DeliverToEE(st2, SetSreg)

(* sif_cmd_bind *)
BindReply(q) == IF IsModule(q.server) THEN XorServerId(q.server) ELSE Zero

(* sif_cmd_call.  A module's own reply is its data, already in the client's *)
(* memory, and some word; no call gets that far (see BoundCallServed).      *)
Called(st, q) ==
  CASE Route(q.server) = "ee" -> DeliverToEE(st, q)
    [] Route(q.server) = "module" -> DeliverToEE(st, Rend(q, q.server))
    [] Route(q.server) = "none" -> DeliverToEE(st, Rend(q, Zero))

(* sif_process_cmd *)
Process(st, q) ==
  CASE q.cid \in {"CHANGE_SADDR", "INIT_CMD"} -> Registered(st)
    [] q.cid = "RPC_BIND" -> DeliverToEE(st, Rend(q, BindReply(q)))
    [] q.cid = "RPC_CALL" -> Called(st, q)
    [] q.cid = "RPC_RDATA" -> DeliverToEE(st, Rend(q, Zero))
    [] q.cid \in {"SET_SREG", "RESET_CMD", "RPC_END", "unknown"} -> st

(* SifSetDma with a list of command packets. *)
SifSetDma(self, packets) ==
  /\ InGuest(self)
  /\ Becomes(FoldLeft(Process, Shared, packets))
  /\ Len(pending') <= MaxPending
  /\ UNCHANGED <<vars, cfgVars, clockVars, deliveryVars>>

(* A write to a control register of the SIF, with a packet's address in    *)
(* the tag register.                                                       *)
SifKickPacket(self, packet) ==
  /\ InGuest(self)
  /\ LET st == Process(Shared, packet)
     IN  Becomes([st EXCEPT !.pending = @ \o (IF destroying THEN <<>> ELSE Intc(SifCause))])
  /\ Len(pending') <= MaxPending
  /\ UNCHANGED <<vars, cfgVars, clockVars, deliveryVars>>

-----------------------------------------------------------------------------
(* The game's sifcmd and sifrpc libraries, which are not part of this      *)
(* repository, as the comments in iop.cpp describe them.                   *)

NoRequest == [cid |-> "none"]
NoReply == [cid |-> "none"]
IdleClient == [at |-> "idle", request |-> NoRequest, reply |-> NoReply, handle |-> Zero]

SifInit ==
  /\ IntInit
  /\ registered = FALSE
  /\ announced = FALSE
  /\ early = <<>>
  /\ inbox = NoPacket
  /\ client = [c \in Client |-> IdleClient]

Requests(c) ==
  {Bind(c, x) : x \in Server \union OtherServer}
    \union {Call(c, client[c].handle), OtherData(c)}

(* Guest code goes from one syscall to the next: each begins and ends with *)
(* fire_pending, which goes on until the queue is empty unless a handler   *)
(* has not returned.  (Its polls do the same in between.)                  *)
Drained == pending = <<>> \/ ~Unmasked

(* A client sends a request, with SifSetDma or through the registers. *)
SendRequest(self) ==
  /\ self \in Client
  /\ Drained
  /\ client[self].at = "idle"
  /\ handling[self] = <<>>
  /\ registered
  /\ Live(SemaOf(self))
  /\ \E q \in Requests(self) :
       /\ SifSetDma(self, <<q>>) \/ SifKickPacket(self, q)
       /\ client' = [client EXCEPT ![self].at = "sent", ![self].request = q]

(* It then waits for its semaphore. *)
AwaitReply(self) ==
  /\ self \in Client
  /\ client[self].at = "sent"
  /\ handling[self] = <<>>
  /\ Drained
  /\ WaitSema(self, SemaOf(self))
  /\ client' = [client EXCEPT ![self].at = "waiting"]
  /\ UNCHANGED <<intVars, sifVars>>

(* WaitSema has returned. *)
TakeReply(self) ==
  /\ self \in Client
  /\ client[self].at = "waiting"
  /\ InGuest(self)
  /\ status[self] = "RUN"
  /\ handling[self] = <<>>
  /\ client' = [client EXCEPT ![self].at = "idle",
                              ![self].request = NoRequest, ![self].reply = NoReply]
  /\ UNCHANGED <<allVars, sifVars>>

InSifHandler(self) ==
  /\ InGuest(self)
  /\ handling[self] # <<>>
  /\ Last(handling[self]).from = "dmac"

(* The handler of the DMAC channel takes the packet out of the buffer; a   *)
(* reply ends its client's request and signals its semaphore.              *)
ReadPacket(self) ==
  /\ InSifHandler(self)
  /\ inbox # NoPacket
  /\ inbox' = NoPacket
  /\ IF inbox.cid = "RPC_END" /\ inbox.opt # Nobody
     THEN /\ client' = [client EXCEPT
                          ![inbox.opt].reply = inbox,
                          ![inbox.opt].handle = IF inbox.of = "RPC_BIND" THEN inbox.server ELSE @]
          /\ SignalSema(self, SemaOf(inbox.opt))
     ELSE UNCHANGED <<client, vars>>
  /\ UNCHANGED <<intVars, registered, announced, early>>

(* A handler returns; the one of the DMAC channel has emptied the buffer. *)
SifHandlerReturn(self) ==
  /\ InSifHandler(self) => inbox = NoPacket
  /\ HandlerReturn(self)
  /\ UNCHANGED rpcVars

(* The game installs its handler and then hands over its packet buffer     *)
(* (sceSifInitCmd); it sends commands that get no reply of their own, and  *)
(* binds without waiting.                                                  *)
RegisterBuffer(self) ==
  /\ SifChannel \in DOMAIN dmacHandlers
  /\ \E kind \in {"CHANGE_SADDR", "INIT_CMD"} : SifSetDma(self, <<Register(kind)>>)
  /\ UNCHANGED client
SendCommand(self) ==
  /\ \/ \E kind \in {"SET_SREG", "RESET_CMD", "RPC_END", "unknown"} : SifSetDma(self, <<Inert(kind)>>)
     \/ \E x \in Server : SifSetDma(self, <<[Bind(self, x) EXCEPT !.opt = Nobody]>>)
  /\ UNCHANGED client

RpcStep(self) ==
  \/ SendRequest(self)
  \/ AwaitReply(self)
  \/ TakeReply(self)
  \/ ReadPacket(self)
  \/ SifHandlerReturn(self)

-----------------------------------------------------------------------------
(* Properties. *)

(* The words a client is given for a server. *)
Handles == {Zero} \union {XorServerId(ServiceId(x)) : x \in Server}

AllRequests ==
  UNION {{Bind(c, x) : x \in Server \union OtherServer} : c \in Client}
    \union {Call(c, sd) : c \in Client, sd \in Handles}
    \union {OtherData(c) : c \in Client}
AllReplies ==
  {[cid |-> "RPC_END", from |-> c, opt |-> c, of |-> kind, server |-> sd] :
     c \in Client, kind \in {"RPC_BIND", "RPC_CALL", "RPC_RDATA"}, sd \in Handles}

(* A reply is to the request that it repeats.  A bind of a service that is *)
(* registered gets a word to make the service id from again, and a bind of *)
(* another gets zero.                                                      *)
SuitableReply(q, r) ==
  /\ r.of = q.cid
  /\ r.from = q.from
  /\ q.cid = "RPC_BIND" =>
       IF q.server.rest \in Server THEN XorServerId(r.server) = q.server ELSE r.server = Zero

Rpc == INSTANCE RpcService WITH
  Request <- AllRequests,
  Reply <- AllReplies,
  Suits <- SuitableReply,
  None <- NoReply,
  call <- [c \in Client |-> [request |-> client[c].request, reply |-> client[c].reply]]

(* Each request gets one suitable reply, in the end, and its client goes   *)
(* on with that reply: sif_cmd_other_data answers "so the client's wait    *)
(* completes", and so does every command.                                  *)
RpcService == Rpc!Spec

(* sif_cmd_call: "fabricated sd (sid ^ XOR) -> HLE IOP module: handle it   *)
(* here".  A call with the server data that a bind returned is not failed. *)
BoundCallServed ==
  [][\A c \in Client :
       (client'[c].reply # NoReply /\ client[c].request.cid = "RPC_CALL"
          /\ client[c].request.server # Zero)
         => client'[c].reply.server # Zero]_rpcAllVars
=============================================================================
