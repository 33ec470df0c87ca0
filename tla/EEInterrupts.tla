---------------------------- MODULE EEInterrupts ----------------------------
(***************************************************************************)
(* Interrupts and alarms of the EE kernel (src/runtime/src/kernel.cpp,     *)
(* clock_thread_main to invoke_handler), composed with the scheduler.      *)
(*                                                                         *)
(* The clock thread, the SIF and the guest queue interrupts; the host that *)
(* executes guest code takes them off the queue at its syscalls and at the *)
(* polls the generated code makes at every basic block, and calls their    *)
(* handlers there, on top of the interrupted guest code.  A handler is     *)
(* guest code: it makes syscalls, so a call of it may hand the baton over. *)
(*                                                                         *)
(* Time passes in ticks of the clock thread.  The code's periods are 17    *)
(* ticks for VBlank and 10 for the timers; here they are constants.        *)
(***************************************************************************)
EXTENDS EEKernelAdmin

CONSTANTS
  Cause,         \* the INTC causes the guest or the hardware uses
  Channel,       \* the DMAC channels the guest uses
  Handler,       \* handler addresses
  Compiled,      \* those with a recompiled function (rt.functions)
  Alarm,         \* the ids SetAlarm gives out, in order
  MaxDelay,      \* bound: an alarm's delay, in ticks
  MaxPending,    \* bound: the length of the queue
  VblankTicks, TimerTicks

SifCause == 1
VblankStart == 2
VblankEnd == 3
TimerCauses == <<10, 11, 12>>
SifChannel == 5

ASSUME HandlerAssumption == Compiled \subseteq Handler
ASSUME AlarmAssumption == Alarm \subseteq Nat \ {0}
ASSUME TickAssumption ==
  {MaxDelay, VblankTicks, TimerTicks} \subseteq Nat \ {0} /\ MaxPending \in Nat

VARIABLES
  intcHandlers, intcMask,   \* m_intc_handlers (registered causes only), m_intc_mask
  dmacHandlers, dmacMask,
  alarms, nextAlarm,        \* m_alarms (armed ones only), m_next_alarm
  vblankIn, timerIn,        \* ticks until next_vblank and next_timer_tick
  pending,                  \* m_pending
  inHandler,                \* m_in_handler
  handling                  \* per host: the handlers on its stack, innermost last

cfgVars == <<intcHandlers, intcMask, dmacHandlers, dmacMask>>
clockVars == <<alarms, nextAlarm, vblankIn, timerIn>>
deliveryVars == <<inHandler, handling>>
intVars == <<cfgVars, clockVars, pending, deliveryVars>>
allVars == <<vars, intVars>>

(* The first tick pulses both: next_vblank and next_timer_tick start at 0. *)
IntInit ==
  /\ Init
  /\ intcHandlers = <<>> /\ intcMask = {}
  /\ dmacHandlers = <<>> /\ dmacMask = {}
  /\ alarms = <<>> /\ nextAlarm = 1
  /\ vblankIn = 1 /\ timerIn = 1
  /\ pending = <<>>
  /\ inHandler = 0
  /\ handling = [t \in Thread |-> <<>>]

With(f, x, v) == [y \in DOMAIN f \union {x} |-> IF y = x THEN v ELSE f[y]]
Without(f, x) == [y \in DOMAIN f \ {x} |-> f[y]]

-----------------------------------------------------------------------------
(* Queueing. *)

(* What raising INTC cause c queues: nothing without an enabled handler. *)
Intc(c) ==
  IF c \in DOMAIN intcHandlers /\ c \in intcMask
  THEN <<[from |-> "intc", n |-> c, handler |-> intcHandlers[c]]>>
  ELSE <<>>

(* raise_dmac delivers for a disabled channel too. *)
Dmac(ch) ==
  IF ch \in DOMAIN dmacHandlers
  THEN <<[from |-> "dmac", n |-> ch, handler |-> dmacHandlers[ch]]>>
  ELSE <<>>

DueAlarms == {a \in DOMAIN alarms : alarms[a].left = 1}

(* Mutants: only one of several due alarms is queued; a due alarm stays    *)
(* armed, to fire again, or for ever.                                      *)
QueuedFirst(order) ==
  IF order = <<>> THEN <<>>
  ELSE <<[from |-> "alarm", n |-> order[1], handler |-> alarms[order[1]].handler]>>
StillArmedAll(due) ==
  [a \in DOMAIN alarms |-> [alarms[a] EXCEPT !.left = IF a \in due THEN 1 ELSE @ - 1]]

Queued(order) ==
  [i \in 1..Len(order) |->
     [from |-> "alarm", n |-> order[i], handler |-> alarms[order[i]].handler]]
StillArmed(due) ==
  [a \in DOMAIN alarms \ due |-> [alarms[a] EXCEPT !.left = @ - 1]]

(* One pass of clock_thread_main's loop, under the scheduler's lock: the   *)
(* due alarms, in the order of a hash table, then VBlank start and end,    *)
(* then the timers.                                                        *)
ClockTick ==
  /\ ~destroying
  /\ \E order \in SetToSeqs(DueAlarms) :
       pending' = pending \o Queued(order)
                  \o (IF vblankIn = 1 THEN Intc(VblankStart) \o Intc(VblankEnd) ELSE <<>>)
                  \o (IF timerIn = 1
                      THEN Intc(TimerCauses[1]) \o Intc(TimerCauses[2]) \o Intc(TimerCauses[3])
                      ELSE <<>>)
  /\ Len(pending') <= MaxPending
  /\ alarms' = StillArmed(DueAlarms)
  /\ vblankIn' = IF vblankIn = 1 THEN VblankTicks ELSE vblankIn - 1
  /\ timerIn' = IF timerIn = 1 THEN TimerTicks ELSE timerIn - 1
  /\ UNCHANGED <<vars, cfgVars, nextAlarm, deliveryVars>>

(* A SIF packet reaches the guest's buffer during one of its syscalls      *)
(* (Iop::sif_deliver_to_ee): the DMAC channel, then the INTC cause.        *)
SifDeliver(self) ==
  /\ InGuest(self)
  /\ ~destroying
  /\ pending' = pending \o Dmac(SifChannel) \o Intc(SifCause)
  /\ Len(pending') <= MaxPending
  /\ UNCHANGED <<vars, cfgVars, clockVars, deliveryVars>>

(* The guest's own transfer towards the SIF is done. *)
SifKick(self) ==
  /\ InGuest(self)
  /\ ~destroying
  /\ pending' = pending \o Intc(SifCause)
  /\ Len(pending') <= MaxPending
  /\ UNCHANGED <<vars, cfgVars, clockVars, deliveryVars>>

-----------------------------------------------------------------------------
(* Delivery: fire_pending and invoke_handler. *)

(* Mutant of Unmasked: handlers nest. *)
AlwaysUnmasked == TRUE

(* fire_pending does nothing while any handler has not returned. *)
Unmasked == inHandler = 0

(* A handler that was not recompiled is dropped. *)
Deliver(self) ==
  /\ InGuest(self)
  /\ ~destroying
  /\ Unmasked
  /\ pending # <<>>
  /\ pending' = Tail(pending)
  /\ IF Head(pending).handler \in Compiled
     THEN /\ inHandler' = inHandler + 1
          /\ handling' = [handling EXCEPT ![self] = Append(@, Head(pending))]
     ELSE UNCHANGED deliveryVars
  /\ UNCHANGED <<vars, cfgVars, clockVars>>

(* Mutant of HandlerReturn: the mask stays. *)
HandlerReturnMasked(self) ==
  /\ InGuest(self)
  /\ handling[self] # <<>>
  /\ handling' = [handling EXCEPT ![self] = Front(@)]
  /\ UNCHANGED <<vars, cfgVars, clockVars, pending, inHandler>>

HandlerReturn(self) ==
  /\ InGuest(self)
  /\ handling[self] # <<>>
  /\ inHandler' = inHandler - 1
  /\ handling' = [handling EXCEPT ![self] = Front(@)]
  /\ UNCHANGED <<vars, cfgVars, clockVars, pending>>

-----------------------------------------------------------------------------
(* The guest's calls. *)

AddIntcHandler(self, c, h) ==
  /\ InGuest(self)
  /\ intcHandlers' = With(intcHandlers, c, h)
  /\ UNCHANGED <<vars, intcMask, dmacHandlers, dmacMask, clockVars, pending, deliveryVars>>

(* What is already queued for the handler stays queued. *)
RemoveIntcHandler(self, c) ==
  /\ InGuest(self)
  /\ intcHandlers' = Without(intcHandlers, c)
  /\ UNCHANGED <<vars, intcMask, dmacHandlers, dmacMask, clockVars, pending, deliveryVars>>

AddDmacHandler(self, ch, h) ==
  /\ InGuest(self)
  /\ dmacHandlers' = With(dmacHandlers, ch, h)
  /\ UNCHANGED <<vars, intcHandlers, intcMask, dmacMask, clockVars, pending, deliveryVars>>

RemoveDmacHandler(self, ch) ==
  /\ InGuest(self)
  /\ dmacHandlers' = Without(dmacHandlers, ch)
  /\ UNCHANGED <<vars, intcHandlers, intcMask, dmacMask, clockVars, pending, deliveryVars>>

SetIntcMask(self, mask) ==
  /\ InGuest(self)
  /\ intcMask' = mask
  /\ UNCHANGED <<vars, intcHandlers, dmacHandlers, dmacMask, clockVars, pending, deliveryVars>>

SetDmacMask(self, mask) ==
  /\ InGuest(self)
  /\ dmacMask' = mask
  /\ UNCHANGED <<vars, intcHandlers, intcMask, dmacHandlers, clockVars, pending, deliveryVars>>

EnableIntc(self, c) == SetIntcMask(self, intcMask \union {c})
DisableIntc(self, c) == SetIntcMask(self, intcMask \ {c})
EnableDmac(self, ch) == SetDmacMask(self, dmacMask \union {ch})
DisableDmac(self, ch) == SetDmacMask(self, dmacMask \ {ch})

(* An alarm set for the present tick is due at the next one. *)
SetAlarm(self, h, d) ==
  /\ InGuest(self)
  /\ nextAlarm \in Alarm
  /\ alarms' = With(alarms, nextAlarm, [left |-> d, handler |-> h])
  /\ nextAlarm' = nextAlarm + 1
  /\ UNCHANGED <<vars, cfgVars, vblankIn, timerIn, pending, deliveryVars>>

ReleaseAlarm(self, a) ==
  /\ InGuest(self)
  /\ alarms' = Without(alarms, a)
  /\ UNCHANGED <<vars, cfgVars, nextAlarm, vblankIn, timerIn, pending, deliveryVars>>

IntCall(self) ==
  \/ \E c \in Cause, h \in Handler : AddIntcHandler(self, c, h)
  \/ \E c \in Cause : RemoveIntcHandler(self, c) \/ EnableIntc(self, c) \/ DisableIntc(self, c)
  \/ \E ch \in Channel, h \in Handler : AddDmacHandler(self, ch, h)
  \/ \E ch \in Channel : RemoveDmacHandler(self, ch) \/ EnableDmac(self, ch) \/ DisableDmac(self, ch)
  \/ \E h \in Handler, d \in 1..MaxDelay : SetAlarm(self, h, d)
  \/ \E a \in Alarm : ReleaseAlarm(self, a)
  \/ SifDeliver(self) \/ SifKick(self)

(* A thread's entry function cannot return from under a handler. *)
SchedulerCall(self) ==
  /\ ThreadCall(self) \/ SemaCall(self) \/ AdminCall(self)
  /\ (host'[self].at = "finWake") => handling[self] = <<>>
  /\ UNCHANGED intVars

IntHostStep(self) == AdminHostStep(self) /\ UNCHANGED intVars

IntNext ==
  \/ ClockTick
  \/ \E self \in Thread :
       \/ Deliver(self) \/ HandlerReturn(self)
       \/ IntCall(self) \/ SchedulerCall(self) \/ IntHostStep(self)
  \/ (Destroy \/ DestroyStep) /\ UNCHANGED intVars

IntSpec == IntInit /\ [][IntNext]_allVars

-----------------------------------------------------------------------------
(* Properties. *)

Places(a) ==
  (IF a \in DOMAIN alarms THEN {<<"armed">>} ELSE {})
    \union {<<"queued", i>> : i \in {j \in 1..Len(pending) : pending[j].from = "alarm" /\ pending[j].n = a}}
    \union {<<"running", t>> : t \in {u \in Thread : \E k \in 1..Len(handling[u]) :
                                        handling[u][k].from = "alarm" /\ handling[u][k].n = a}}

(* An alarm fires at most once: it is armed, queued or being handled, one  *)
(* of them and once, and once it is past all three it does not come back   *)
(* (its id is not given out again).                                        *)
AlarmFiresOnce == \A a \in Alarm : Cardinality(Places(a)) <= IF a < nextAlarm THEN 1 ELSE 0

(* fire_pending: handlers do not nest, on one host or across the hosts of  *)
(* threads that handlers switched to, whatever is queued meanwhile; the    *)
(* mask counts exactly the handlers that have not returned.                *)
OneHandlerAtATime ==
  LET Handled == {t \in Thread : handling[t] # <<>>}
  IN  /\ Cardinality(Handled) <= 1
      /\ \A t \in Handled : Len(handling[t]) = 1
      /\ inHandler = Cardinality(Handled)

(* Every alarm the guest sets is delivered: its handler runs. *)
AlarmDelivered ==
  \A a \in Alarm :
    (a \in DOMAIN alarms) ~> (\E t \in Thread : \E k \in 1..Len(handling[t]) :
                                handling[t][k].from = "alarm" /\ handling[t][k].n = a)

(* A handler that wakes a thread of higher priority, and so is switched    *)
(* away from in the middle, gets to its end: interrupts are masked for a   *)
(* while only.                                                             *)
MaskEnds == (inHandler > 0) ~> (inHandler = 0)
=============================================================================
