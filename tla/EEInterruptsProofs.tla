------------------------ MODULE EEInterruptsProofs ------------------------
(***************************************************************************)
(* Proofs about interrupts and alarms, for every number of threads,        *)
(* causes, channels, handlers and alarms and every length of the queue.    *)
(*                                                                         *)
(* Handlers do not nest.  Only delivery and a handler's return change the  *)
(* handlers on the stacks and the mask.  The two are tied by an inductive  *)
(* invariant stronger than the property: no handler is on a stack and the  *)
(* mask is 0, or exactly one is and the mask is 1.  Every other action, of *)
(* the clock, the guest and the scheduler, leaves both alone, which is all *)
(* the proof asks of it.                                                   *)
(*                                                                         *)
(* The kernel's theorems hold under interrupts, since every step of        *)
(* IntSpec is one of AdminSpec or leaves the kernel's variables alone.     *)
(***************************************************************************)
EXTENDS EEInterrupts, EEKernelAdminProofs

AllIdle == [t \in Thread |-> <<>>]
Handles(t, p) == [AllIdle EXCEPT ![t] = <<p>>]

NoHandler == inHandler = 0 /\ handling = AllIdle
OneHandler == inHandler = 1 /\ \E t \in Thread : \E p : handling = Handles(t, p)

HandlerInv == NoHandler \/ OneHandler

(* Taking the last handler off a stack of one leaves an empty stack. *)
LEMMA FrontOfOne ==
  ASSUME NEW p
  PROVE  Front(<<p>>) = <<>>
  BY DEF Front

LEMMA HandlerInit == IntInit => HandlerInv
  BY DEF IntInit, HandlerInv, NoHandler, AllIdle

(* A delivery waits for the mask, and puts one handler on one stack. *)
LEMMA DeliverStep ==
  ASSUME HandlerInv, NEW self \in Thread, Deliver(self)
  PROVE  HandlerInv'
<1>1. NoHandler
  BY DEF HandlerInv, NoHandler, OneHandler, Deliver, Unmasked
<1>2. CASE Head(pending).handler \in Compiled
  <2>1. inHandler' = 1
    BY <1>1, <1>2 DEF Deliver, NoHandler
  <2>2. handling' = Handles(self, Head(pending))
    <3>1. handling' = [handling EXCEPT ![self] = Append(@, Head(pending))]
      BY <1>2 DEF Deliver
    <3>2. Append(<<>>, Head(pending)) = <<Head(pending)>>
      OBVIOUS
    <3>3. QED  BY <1>1, <3>1, <3>2 DEF NoHandler, AllIdle, Handles
  <2>3. OneHandler'
    BY <2>1, <2>2 DEF OneHandler, Handles, AllIdle
  <2>4. QED  BY <2>3 DEF HandlerInv
<1>3. CASE Head(pending).handler \notin Compiled
  BY <1>1, <1>3 DEF Deliver, deliveryVars, HandlerInv, NoHandler, AllIdle
<1>4. QED  BY <1>2, <1>3

(* The handler that returns is the only one, so the mask goes with it. *)
LEMMA ReturnStep ==
  ASSUME HandlerInv, NEW self \in Thread, HandlerReturn(self)
  PROVE  HandlerInv'
<1>1. OneHandler
  BY DEF HandlerInv, NoHandler, AllIdle, HandlerReturn
<1>2. PICK t \in Thread : \E p : handling = Handles(t, p)
  BY <1>1 DEF OneHandler
<1>3. PICK p : handling = Handles(t, p)
  BY <1>2
<1>4. t = self
  BY <1>3 DEF HandlerReturn, Handles, AllIdle
<1>5. handling' = AllIdle
  <2>1. handling' = [handling EXCEPT ![self] = Front(@)]
    BY DEF HandlerReturn
  <2>2. handling[self] = <<p>>
    BY <1>3, <1>4 DEF Handles, AllIdle
  <2>3. QED  BY <1>3, <1>4, <2>1, <2>2, FrontOfOne DEF Handles, AllIdle
<1>6. inHandler' = 0
  BY <1>1 DEF OneHandler, HandlerReturn
<1>7. NoHandler'
  BY <1>5, <1>6 DEF NoHandler, AllIdle
<1>8. QED  BY <1>7 DEF HandlerInv

(* Whatever else happens leaves the stacks and the mask alone. *)
LEMMA OtherStep ==
  ASSUME HandlerInv, UNCHANGED deliveryVars
  PROVE  HandlerInv'
  BY DEF HandlerInv, NoHandler, OneHandler, deliveryVars, AllIdle, Handles

LEMMA CallKeepsDelivery ==
  ASSUME NEW self \in Thread, IntCall(self)
  PROVE  UNCHANGED deliveryVars
  BY DEF IntCall, AddIntcHandler, RemoveIntcHandler, EnableIntc, DisableIntc, SetIntcMask,
         AddDmacHandler, RemoveDmacHandler, EnableDmac, DisableDmac, SetDmacMask,
         SetAlarm, ReleaseAlarm, SifDeliver, SifKick

LEMMA HandlerStep == HandlerInv /\ [IntNext]_allVars => HandlerInv'
<1>1. SUFFICES ASSUME HandlerInv, [IntNext]_allVars
      PROVE  HandlerInv'
  OBVIOUS
<1>2. CASE ClockTick
  <2>1. UNCHANGED deliveryVars
    BY <1>2 DEF ClockTick
  <2>2. QED  BY <1>1, <2>1, OtherStep
<1>3. ASSUME NEW self \in Thread, Deliver(self)
      PROVE  HandlerInv'
  BY <1>1, <1>3, DeliverStep
<1>4. ASSUME NEW self \in Thread, HandlerReturn(self)
      PROVE  HandlerInv'
  BY <1>1, <1>4, ReturnStep
<1>5. ASSUME NEW self \in Thread, IntCall(self)
      PROVE  HandlerInv'
  BY <1>1, <1>5, CallKeepsDelivery, OtherStep
<1>6. ASSUME NEW self \in Thread, SchedulerCall(self)
      PROVE  HandlerInv'
  <2>1. UNCHANGED deliveryVars
    BY <1>6 DEF SchedulerCall, intVars
  <2>2. QED  BY <1>1, <2>1, OtherStep
<1>7. ASSUME NEW self \in Thread, IntHostStep(self)
      PROVE  HandlerInv'
  <2>1. UNCHANGED deliveryVars
    BY <1>7 DEF IntHostStep, intVars
  <2>2. QED  BY <1>1, <2>1, OtherStep
<1>8. CASE (Destroy \/ DestroyStep) /\ UNCHANGED intVars
  <2>1. UNCHANGED deliveryVars
    BY <1>8 DEF intVars
  <2>2. QED  BY <1>1, <2>1, OtherStep
<1>9. CASE UNCHANGED allVars
  <2>1. UNCHANGED deliveryVars
    BY <1>9 DEF allVars, intVars
  <2>2. QED  BY <1>1, <2>1, OtherStep
<1>10. QED
  BY <1>1, <1>2, <1>3, <1>4, <1>5, <1>6, <1>7, <1>8, <1>9 DEF IntNext

LEMMA HandlerInvImplies == HandlerInv => OneHandlerAtATime
<1> DEFINE Handled == {t \in Thread : handling[t] # <<>>}
<1> SUFFICES ASSUME HandlerInv
             PROVE  /\ Cardinality(Handled) <= 1
                    /\ \A t \in Handled : Len(handling[t]) = 1
                    /\ inHandler = Cardinality(Handled)
  BY DEF OneHandlerAtATime
<1>1. CASE NoHandler
  <2>1. Handled = {}
    BY <1>1 DEF NoHandler, AllIdle
  <2>2. QED  BY <1>1, <2>1, FS_EmptySet DEF NoHandler
<1>2. CASE OneHandler
  <2>1. PICK t \in Thread : \E p : handling = Handles(t, p)
    BY <1>2 DEF OneHandler
  <2>2. PICK p : handling = Handles(t, p)
    BY <2>1
  <2>3. Handled = {t}
    BY <2>2 DEF Handles, AllIdle
  <2>4. Len(handling[t]) = 1
    BY <2>2 DEF Handles, AllIdle
  <2>5. Cardinality({t}) = 1
    BY FS_Singleton
  <2>6. Cardinality(Handled) = 1
    BY <2>3, <2>5
  <2>7. \A u \in Handled : Len(handling[u]) = 1
    BY <2>3, <2>4
  <2>8. QED  BY <1>2, <2>6, <2>7 DEF OneHandler
<1>3. QED  BY <1>1, <1>2 DEF HandlerInv

(* fire_pending and invoke_handler: at any time at most one handler has    *)
(* begun and not returned, whichever hosts its syscalls switch to, and     *)
(* m_in_handler is 1 exactly then.                                         *)
THEOREM HandlersDoNotNest == IntSpec => []OneHandlerAtATime
<1>1. IntSpec => []HandlerInv
  BY HandlerInit, HandlerStep, PTL DEF IntSpec
<1>2. QED  BY <1>1, HandlerInvImplies, PTL
-----------------------------------------------------------------------------
(* An alarm fires once.                                                    *)
(*                                                                         *)
(* The ids of the alarms that are armed, of those that are queued and of   *)
(* those being handled are three disjoint sets, and no id is twice in the  *)
(* queue.  A tick moves ids from the first set to the second, a delivery   *)
(* from the second to the third; an id enters the first once, since        *)
(* nextAlarm is beyond all three.                                          *)

FromAlarm(q, i) == q[i].from = "alarm"
AlarmsIn(q) == {a \in Nat : \E i \in 1..Len(q) : FromAlarm(q, i) /\ q[i].n = a}
NoneTwice(q) ==
  \A i, j \in 1..Len(q) :
    (FromAlarm(q, i) /\ FromAlarm(q, j) /\ q[i].n = q[j].n) => i = j

Interrupt == [from : {"intc", "dmac"}, n : Cause \union Channel, handler : Handler]
               \union [from : {"alarm"}, n : Nat, handler : Handler]

IntTypeOK ==
  /\ DOMAIN intcHandlers \subseteq Cause
  /\ \A c \in DOMAIN intcHandlers : intcHandlers[c] \in Handler
  /\ DOMAIN dmacHandlers \subseteq Channel
  /\ \A ch \in DOMAIN dmacHandlers : dmacHandlers[ch] \in Handler
  /\ IsFiniteSet(DOMAIN alarms) /\ DOMAIN alarms \subseteq Nat
  /\ \A a \in DOMAIN alarms : alarms[a] \in [left : Nat \ {0}, handler : Handler]
  /\ nextAlarm \in Nat
  /\ pending \in Seq(Interrupt)
  /\ handling \in [Thread -> Seq(Interrupt)]

Armed == DOMAIN alarms
Waiting == AlarmsIn(pending)
Running == UNION {AlarmsIn(handling[t]) : t \in Thread}

AlarmInv ==
  /\ NoneTwice(pending)
  /\ Armed \cap Waiting = {}
  /\ Armed \cap Running = {}
  /\ Waiting \cap Running = {}
  /\ \A a \in Armed \union Waiting \union Running : a < nextAlarm

(* The alarms of a queue that was added to, and of one that was taken from. *)
LEMMA ConcatAlarms ==
  ASSUME NEW q \in Seq(Interrupt), NEW r \in Seq(Interrupt)
  PROVE  /\ q \o r \in Seq(Interrupt)
         /\ AlarmsIn(q \o r) = AlarmsIn(q) \union AlarmsIn(r)
         /\ NoneTwice(q) /\ NoneTwice(r) /\ AlarmsIn(q) \cap AlarmsIn(r) = {}
              => NoneTwice(q \o r)
<1>1. q \o r \in Seq(Interrupt) /\ Len(q \o r) = Len(q) + Len(r)
  OBVIOUS
<1>2. \A i \in 1..Len(q) : (q \o r)[i] = q[i] /\ i \in 1..Len(q \o r)
  OBVIOUS
<1>3. \A i \in 1..Len(r) : (q \o r)[Len(q) + i] = r[i] /\ Len(q) + i \in 1..Len(q \o r)
  OBVIOUS
<1>4. \A i \in 1..Len(q \o r) : i \in 1..Len(q) \/ (i - Len(q) \in 1..Len(r) /\ i = Len(q) + (i - Len(q)))
  BY <1>1
<1>5. AlarmsIn(q \o r) = AlarmsIn(q) \union AlarmsIn(r)
  <2>1. AlarmsIn(q) \subseteq AlarmsIn(q \o r)
    BY <1>2 DEF AlarmsIn, FromAlarm
  <2>2. AlarmsIn(r) \subseteq AlarmsIn(q \o r)
    BY <1>3 DEF AlarmsIn, FromAlarm
  <2>3. ASSUME NEW a \in AlarmsIn(q \o r)
        PROVE  a \in AlarmsIn(q) \union AlarmsIn(r)
    <3>1. PICK i \in 1..Len(q \o r) : (q \o r)[i].from = "alarm" /\ (q \o r)[i].n = a
      BY DEF AlarmsIn, FromAlarm
    <3>2. CASE i \in 1..Len(q)
      BY <1>2, <3>1, <3>2 DEF AlarmsIn, FromAlarm
    <3>3. CASE i - Len(q) \in 1..Len(r)
      BY <1>3, <1>4, <3>1, <3>3 DEF AlarmsIn, FromAlarm
    <3> QED BY <1>4, <3>2, <3>3
  <2> QED BY <2>1, <2>2, <2>3
<1>6. ASSUME NoneTwice(q), NoneTwice(r), AlarmsIn(q) \cap AlarmsIn(r) = {}
      PROVE  NoneTwice(q \o r)
  <2> SUFFICES ASSUME NEW i \in 1..Len(q \o r), NEW j \in 1..Len(q \o r),
                      (q \o r)[i].from = "alarm", (q \o r)[j].from = "alarm",
                      (q \o r)[i].n = (q \o r)[j].n
               PROVE  i = j
    BY DEF NoneTwice, FromAlarm
  <2>1. CASE i \in 1..Len(q) /\ j \in 1..Len(q)
    BY <1>2, <1>6, <2>1 DEF NoneTwice, FromAlarm
  <2>2. CASE i - Len(q) \in 1..Len(r) /\ j - Len(q) \in 1..Len(r)
    <3>1. i - Len(q) = j - Len(q)
      BY <1>3, <1>4, <1>6, <2>2 DEF NoneTwice, FromAlarm
    <3> QED BY <3>1, <2>2
  <2>3. ASSUME NEW k \in 1..Len(q), NEW l \in 1..Len(r),
               q[k].from = "alarm", r[l].from = "alarm", q[k].n = r[l].n
        PROVE  FALSE
    <3>1. r[l].n \in Nat
      <4>1. r[l] \in Interrupt
        OBVIOUS
      <4> QED BY <4>1, <2>3 DEF Interrupt
    <3>2. q[k].n \in AlarmsIn(q) /\ r[l].n \in AlarmsIn(r)
      BY <2>3, <3>1 DEF AlarmsIn, FromAlarm
    <3> QED BY <1>6, <2>3, <3>2
  <2>4. CASE i \in 1..Len(q) /\ j - Len(q) \in 1..Len(r)
    BY <1>2, <1>3, <1>4, <2>3, <2>4
  <2>5. CASE i - Len(q) \in 1..Len(r) /\ j \in 1..Len(q)
    BY <1>2, <1>3, <1>4, <2>3, <2>5
  <2> QED BY <1>4, <2>1, <2>2, <2>4, <2>5
<1> QED BY <1>1, <1>5, <1>6

LEMMA TailAlarms ==
  ASSUME NEW q \in Seq(Interrupt), q # <<>>
  PROVE  /\ Tail(q) \in Seq(Interrupt) /\ Head(q) \in Interrupt
         /\ AlarmsIn(Tail(q)) \subseteq AlarmsIn(q)
         /\ AlarmsIn(<<Head(q)>>) \subseteq AlarmsIn(q)
         /\ NoneTwice(q) => /\ NoneTwice(Tail(q))
                            /\ AlarmsIn(<<Head(q)>>) \cap AlarmsIn(Tail(q)) = {}
<1>1. /\ Tail(q) \in Seq(Interrupt) /\ Len(Tail(q)) = Len(q) - 1
      /\ Head(q) \in Interrupt /\ Head(q) = q[1] /\ 1 \in 1..Len(q)
  OBVIOUS
<1>2. \A i \in 1..Len(Tail(q)) : Tail(q)[i] = q[i + 1] /\ i + 1 \in 1..Len(q) /\ i + 1 # 1
  OBVIOUS
<1>3. AlarmsIn(Tail(q)) \subseteq AlarmsIn(q)
  BY <1>2 DEF AlarmsIn, FromAlarm
<1>4. \A a \in AlarmsIn(<<Head(q)>>) : q[1].from = "alarm" /\ q[1].n = a /\ a \in Nat
  BY <1>1 DEF AlarmsIn, FromAlarm
<1>5. AlarmsIn(<<Head(q)>>) \subseteq AlarmsIn(q)
  BY <1>1, <1>4 DEF AlarmsIn, FromAlarm
<1>6. ASSUME NoneTwice(q)
      PROVE  NoneTwice(Tail(q)) /\ AlarmsIn(<<Head(q)>>) \cap AlarmsIn(Tail(q)) = {}
  <2>1. NoneTwice(Tail(q))
    <3> SUFFICES ASSUME NEW i \in 1..Len(Tail(q)), NEW j \in 1..Len(Tail(q)),
                        Tail(q)[i].from = "alarm", Tail(q)[j].from = "alarm",
                        Tail(q)[i].n = Tail(q)[j].n
                 PROVE  i = j
      BY DEF NoneTwice, FromAlarm
    <3>1. i + 1 = j + 1
      BY <1>2, <1>6 DEF NoneTwice, FromAlarm
    <3> QED BY <3>1
  <2>2. ASSUME NEW a \in AlarmsIn(<<Head(q)>>), a \in AlarmsIn(Tail(q))
        PROVE  FALSE
    <3>1. PICK i \in 1..Len(Tail(q)) : Tail(q)[i].from = "alarm" /\ Tail(q)[i].n = a
      BY <2>2 DEF AlarmsIn, FromAlarm
    <3>2. i + 1 = 1
      BY <1>1, <1>2, <1>4, <1>6, <3>1 DEF NoneTwice, FromAlarm
    <3> QED BY <1>2, <3>2
  <2> QED BY <2>1, <2>2
<1> QED BY <1>1, <1>3, <1>5, <1>6

(* A queue of interrupts of causes and channels holds no alarm. *)
LEMMA DeviceEntries ==
  ASSUME IntTypeOK
  PROVE  /\ \A c : /\ Intc(c) \in Seq(Interrupt)
                   /\ AlarmsIn(Intc(c)) = {} /\ NoneTwice(Intc(c))
         /\ \A ch : /\ Dmac(ch) \in Seq(Interrupt)
                    /\ AlarmsIn(Dmac(ch)) = {} /\ NoneTwice(Dmac(ch))
<1>1. ASSUME NEW e \in Interrupt, e.from # "alarm"
      PROVE  <<e>> \in Seq(Interrupt) /\ AlarmsIn(<<e>>) = {} /\ NoneTwice(<<e>>)
  BY <1>1 DEF AlarmsIn, NoneTwice, FromAlarm
<1>2. <<>> \in Seq(Interrupt) /\ AlarmsIn(<<>>) = {} /\ NoneTwice(<<>>)
  BY DEF AlarmsIn, NoneTwice, FromAlarm
<1>3. ASSUME NEW c
      PROVE  Intc(c) \in Seq(Interrupt) /\ AlarmsIn(Intc(c)) = {} /\ NoneTwice(Intc(c))
  <2>1. CASE c \in DOMAIN intcHandlers /\ c \in intcMask
    <3> DEFINE e == [from |-> "intc", n |-> c, handler |-> intcHandlers[c]]
    <3>1. e \in Interrupt /\ e.from # "alarm"
      BY <2>1 DEF IntTypeOK, Interrupt
    <3>2. Intc(c) = <<e>>
      BY <2>1 DEF Intc
    <3> QED BY <1>1, <3>1, <3>2
  <2>2. CASE ~(c \in DOMAIN intcHandlers /\ c \in intcMask)
    BY <1>2, <2>2 DEF Intc
  <2> QED BY <2>1, <2>2
<1>4. ASSUME NEW ch
      PROVE  Dmac(ch) \in Seq(Interrupt) /\ AlarmsIn(Dmac(ch)) = {} /\ NoneTwice(Dmac(ch))
  <2>1. CASE ch \in DOMAIN dmacHandlers
    <3> DEFINE e == [from |-> "dmac", n |-> ch, handler |-> dmacHandlers[ch]]
    <3>1. e \in Interrupt /\ e.from # "alarm"
      BY <2>1 DEF IntTypeOK, Interrupt
    <3>2. Dmac(ch) = <<e>>
      BY <2>1 DEF Dmac
    <3> QED BY <1>1, <3>1, <3>2
  <2>2. CASE ch \notin DOMAIN dmacHandlers
    BY <1>2, <2>2 DEF Dmac
  <2> QED BY <2>1, <2>2
<1> QED BY <1>3, <1>4

(* Devices queue behind what is queued, and no alarm. *)
LEMMA DevicesQueue ==
  ASSUME IntTypeOK, NEW q \in Seq(Interrupt), NEW r \in Seq(Interrupt),
         AlarmsIn(r) = {}, NoneTwice(r)
  PROVE  /\ q \o r \in Seq(Interrupt)
         /\ AlarmsIn(q \o r) = AlarmsIn(q)
         /\ NoneTwice(q) => NoneTwice(q \o r)
<1>1. AlarmsIn(q) \cap AlarmsIn(r) = {}
  OBVIOUS
<1>2. /\ q \o r \in Seq(Interrupt)
      /\ AlarmsIn(q \o r) = AlarmsIn(q) \union AlarmsIn(r)
      /\ NoneTwice(q) => NoneTwice(q \o r)
  BY <1>1, ConcatAlarms
<1> QED BY <1>2

(* The due alarms, in any order, each once. *)
LEMMA QueuedOnce ==
  ASSUME IntTypeOK, NEW order \in SetToSeqs(DueAlarms)
  PROVE  /\ Queued(order) \in Seq(Interrupt)
         /\ AlarmsIn(Queued(order)) \subseteq DueAlarms
         /\ NoneTwice(Queued(order))
<1> DEFINE N == Cardinality(DueAlarms)
<1>1. DueAlarms \subseteq DOMAIN alarms /\ IsFiniteSet(DueAlarms) /\ N \in Nat
  <2>1. DueAlarms \subseteq DOMAIN alarms
    BY DEF DueAlarms
  <2> QED BY <2>1, FS_Subset, FS_CardinalityType DEF IntTypeOK
<1>2. order \in [1..N -> DueAlarms] /\ \A i, j \in 1..N : i # j => order[i] # order[j]
  BY DEF SetToSeqs
<1> HIDE DEF N
<1>3. order \in Seq(DueAlarms) /\ Len(order) = N
  BY <1>1, <1>2
<1>4. \A i \in 1..N : /\ Queued(order)[i].from = "alarm" /\ Queued(order)[i].n = order[i]
                      /\ Queued(order)[i] \in Interrupt
  <2> SUFFICES ASSUME NEW i \in 1..N
               PROVE  /\ Queued(order)[i].from = "alarm" /\ Queued(order)[i].n = order[i]
                      /\ Queued(order)[i] \in Interrupt
    OBVIOUS
  <2>1. Queued(order)[i] = [from |-> "alarm", n |-> order[i], handler |-> alarms[order[i]].handler]
    BY <1>3 DEF Queued
  <2>2. order[i] \in DOMAIN alarms
    BY <1>1, <1>2
  <2>3. alarms[order[i]].handler \in Handler /\ order[i] \in Nat
    BY <2>2 DEF IntTypeOK
  <2> QED BY <2>1, <2>3 DEF Interrupt
<1>5. Queued(order) \in Seq(Interrupt) /\ Len(Queued(order)) = N
  <2>1. Queued(order) \in [1..N -> Interrupt]
    BY <1>3, <1>4 DEF Queued
  <2> QED BY <1>1, <2>1
<1>6. AlarmsIn(Queued(order)) \subseteq DueAlarms
  BY <1>2, <1>4, <1>5 DEF AlarmsIn, FromAlarm
<1>7. NoneTwice(Queued(order))
  BY <1>2, <1>4, <1>5 DEF NoneTwice, FromAlarm
<1> QED BY <1>5, <1>6, <1>7

-----------------------------------------------------------------------------
(* The steps. *)

AlarmOK == IntTypeOK /\ AlarmInv /\ HandlerInv

LEMMA AlarmInit == IntInit => AlarmOK
<1> SUFFICES ASSUME IntInit
             PROVE  AlarmOK
  OBVIOUS
<1>1. /\ DOMAIN intcHandlers = {} /\ DOMAIN dmacHandlers = {} /\ DOMAIN alarms = {}
      /\ pending = <<>> /\ nextAlarm = 1 /\ handling = AllIdle
  BY DEF IntInit, AllIdle
<1>2. IntTypeOK
  BY <1>1, FS_EmptySet DEF IntTypeOK, AllIdle
<1>3. Armed = {} /\ Waiting = {} /\ Running = {} /\ NoneTwice(pending)
  BY <1>1 DEF Armed, Waiting, Running, AlarmsIn, NoneTwice, FromAlarm, AllIdle
<1> QED BY <1>2, <1>3, HandlerInit DEF AlarmOK, AlarmInv

(* Nothing is armed, queued or begun that was not before. *)
LEMMA NoneAdded ==
  ASSUME AlarmInv, NoneTwice(pending'), nextAlarm' = nextAlarm,
         Armed' \subseteq Armed, Waiting' \subseteq Waiting, Running' \subseteq Running
  PROVE  AlarmInv'
BY DEF AlarmInv

LEMMA AlarmsUntouched ==
  ASSUME IntTypeOK, AlarmInv,
         UNCHANGED <<intcHandlers, dmacHandlers, alarms, nextAlarm, pending, handling>>
  PROVE  IntTypeOK' /\ AlarmInv'
<1>1. IntTypeOK'
  BY DEF IntTypeOK
<1>2. Armed' = Armed /\ Waiting' = Waiting /\ Running' = Running /\ NoneTwice(pending')
  BY DEF Armed, Waiting, Running, AlarmInv
<1> QED BY <1>1, <1>2, NoneAdded

(* clock_thread_main: an alarm that is due is no longer armed, and is     *)
(* queued once.                                                            *)
LEMMA TickStep ==
  ASSUME IntTypeOK, AlarmInv, ClockTick
  PROVE  IntTypeOK' /\ AlarmInv'
<1> DEFINE V == IF vblankIn = 1 THEN Intc(VblankStart) \o Intc(VblankEnd) ELSE <<>>
           T == IF timerIn = 1
                THEN Intc(TimerCauses[1]) \o Intc(TimerCauses[2]) \o Intc(TimerCauses[3])
                ELSE <<>>
           Q(o) == Queued(o)
<1>1. PICK order \in SetToSeqs(DueAlarms) : pending' = pending \o Q(order) \o V \o T
  BY DEF ClockTick
<1>2. <<>> \in Seq(Interrupt) /\ AlarmsIn(<<>>) = {} /\ NoneTwice(<<>>)
  BY DEF AlarmsIn, NoneTwice, FromAlarm
<1>3. V \in Seq(Interrupt) /\ AlarmsIn(V) = {} /\ NoneTwice(V)
  <2>1. CASE vblankIn = 1
    <3>1. /\ Intc(VblankStart) \in Seq(Interrupt) /\ AlarmsIn(Intc(VblankStart)) = {}
          /\ NoneTwice(Intc(VblankStart))
          /\ Intc(VblankEnd) \in Seq(Interrupt) /\ AlarmsIn(Intc(VblankEnd)) = {}
          /\ NoneTwice(Intc(VblankEnd))
      BY DeviceEntries
    <3>2. V = Intc(VblankStart) \o Intc(VblankEnd)
      BY <2>1
    <3> HIDE DEF V
    <3> QED BY <3>1, <3>2, DevicesQueue
  <2>2. CASE vblankIn # 1
    BY <1>2, <2>2
  <2> QED BY <2>1, <2>2
<1>4. T \in Seq(Interrupt) /\ AlarmsIn(T) = {} /\ NoneTwice(T)
  <2>1. CASE timerIn = 1
    <3> DEFINE A == Intc(TimerCauses[1])
               B == Intc(TimerCauses[2])
               C == Intc(TimerCauses[3])
    <3>1. /\ A \in Seq(Interrupt) /\ AlarmsIn(A) = {} /\ NoneTwice(A)
          /\ B \in Seq(Interrupt) /\ AlarmsIn(B) = {} /\ NoneTwice(B)
          /\ C \in Seq(Interrupt) /\ AlarmsIn(C) = {} /\ NoneTwice(C)
      BY DeviceEntries
    <3>2. T = (A \o B) \o C
      BY <2>1
    <3> HIDE DEF A, B, C, T
    <3>3. A \o B \in Seq(Interrupt) /\ AlarmsIn(A \o B) = {} /\ NoneTwice(A \o B)
      BY <3>1, DevicesQueue
    <3>4. /\ (A \o B) \o C \in Seq(Interrupt)
          /\ AlarmsIn((A \o B) \o C) = {} /\ NoneTwice((A \o B) \o C)
      BY <3>1, <3>3, DevicesQueue
    <3> QED BY <3>2, <3>4
  <2>2. CASE timerIn # 1
    BY <1>2, <2>2
  <2> QED BY <2>1, <2>2
<1>5. /\ Q(order) \in Seq(Interrupt) /\ AlarmsIn(Q(order)) \subseteq DueAlarms
      /\ NoneTwice(Q(order))
  BY QueuedOnce
<1>6. pending \in Seq(Interrupt) /\ NoneTwice(pending) /\ AlarmsIn(pending) \cap DueAlarms = {}
  BY DEF IntTypeOK, AlarmInv, Armed, Waiting, DueAlarms
<1> HIDE DEF V, T, Q
<1>7. /\ pending \o Q(order) \in Seq(Interrupt)
      /\ AlarmsIn(pending \o Q(order)) = AlarmsIn(pending) \union AlarmsIn(Q(order))
      /\ NoneTwice(pending \o Q(order))
  <2>1. AlarmsIn(pending) \cap AlarmsIn(Q(order)) = {}
    BY <1>5, <1>6
  <2> QED BY <1>5, <1>6, <2>1, ConcatAlarms
<1>8. /\ (pending \o Q(order)) \o V \in Seq(Interrupt)
      /\ AlarmsIn((pending \o Q(order)) \o V) = AlarmsIn(pending \o Q(order))
      /\ NoneTwice((pending \o Q(order)) \o V)
  BY <1>3, <1>7, DevicesQueue
<1>9. /\ ((pending \o Q(order)) \o V) \o T \in Seq(Interrupt)
      /\ AlarmsIn(((pending \o Q(order)) \o V) \o T) = AlarmsIn((pending \o Q(order)) \o V)
      /\ NoneTwice(((pending \o Q(order)) \o V) \o T)
  BY <1>4, <1>8, DevicesQueue
<1>10. /\ pending' \in Seq(Interrupt) /\ NoneTwice(pending')
       /\ AlarmsIn(pending') \subseteq AlarmsIn(pending) \union DueAlarms
  BY <1>1, <1>5, <1>7, <1>8, <1>9
<1>11. /\ DOMAIN alarms' = DOMAIN alarms \ DueAlarms
       /\ \A a \in DOMAIN alarms' : alarms'[a] = [alarms[a] EXCEPT !.left = @ - 1]
  BY DEF ClockTick, StillArmed
<1>12. IntTypeOK'
  <2>1. IsFiniteSet(DOMAIN alarms') /\ DOMAIN alarms' \subseteq Nat
    BY <1>11, FS_Subset DEF IntTypeOK
  <2>2. \A a \in DOMAIN alarms' : alarms'[a] \in [left : Nat \ {0}, handler : Handler]
    BY <1>11 DEF IntTypeOK, DueAlarms
  <2>3. UNCHANGED <<intcHandlers, dmacHandlers, nextAlarm, handling>>
    BY DEF ClockTick, cfgVars, deliveryVars
  <2> QED BY <1>10, <2>1, <2>2, <2>3 DEF IntTypeOK
<1>13. AlarmInv'
  <2>1. /\ Armed' = Armed \ DueAlarms
        /\ Waiting' \subseteq Waiting \union DueAlarms
        /\ DueAlarms \subseteq Armed
    BY <1>10, <1>11 DEF Armed, Waiting, DueAlarms
  <2>2. Running' = Running /\ nextAlarm' = nextAlarm
    BY DEF ClockTick, deliveryVars, Running
  <2> QED BY <1>10, <2>1, <2>2 DEF AlarmInv
<1> QED BY <1>12, <1>13

(* fire_pending: the first of the queue is begun, or dropped. *)
LEMMA DeliverAlarm ==
  ASSUME AlarmOK, NEW self \in Thread, Deliver(self)
  PROVE  IntTypeOK' /\ AlarmInv'
<1> DEFINE e == Head(pending)
<1>1. /\ pending \in Seq(Interrupt) /\ pending # <<>> /\ pending' = Tail(pending)
      /\ NoneTwice(pending)
  BY DEF AlarmOK, IntTypeOK, AlarmInv, Deliver
<1>2. /\ Tail(pending) \in Seq(Interrupt) /\ e \in Interrupt
      /\ AlarmsIn(Tail(pending)) \subseteq AlarmsIn(pending)
      /\ AlarmsIn(<<e>>) \subseteq AlarmsIn(pending)
      /\ NoneTwice(Tail(pending))
      /\ AlarmsIn(<<e>>) \cap AlarmsIn(Tail(pending)) = {}
  BY <1>1, TailAlarms
<1>3. handling = AllIdle
  BY DEF AlarmOK, HandlerInv, NoHandler, OneHandler, Deliver, Unmasked
<1>4. handling' = AllIdle \/ handling' = Handles(self, e)
  <2>1. CASE Head(pending).handler \in Compiled
    <3>1. handling' = [handling EXCEPT ![self] = Append(@, Head(pending))]
      BY <2>1 DEF Deliver
    <3>2. Append(<<>>, Head(pending)) = <<Head(pending)>>
      OBVIOUS
    <3> QED BY <1>3, <3>1, <3>2 DEF AllIdle, Handles
  <2>2. CASE Head(pending).handler \notin Compiled
    BY <1>3, <2>2 DEF Deliver, deliveryVars
  <2> QED BY <2>1, <2>2
<1> HIDE DEF e
<1>5. UNCHANGED <<intcHandlers, dmacHandlers, alarms, nextAlarm>>
  BY DEF Deliver, cfgVars, clockVars
<1>6. handling' \in [Thread -> Seq(Interrupt)]
  <2>1. <<>> \in Seq(Interrupt) /\ <<e>> \in Seq(Interrupt)
    BY <1>2
  <2> QED BY <1>4, <2>1 DEF AllIdle, Handles
<1>7. Running' \subseteq AlarmsIn(<<e>>)
  <2>1. AlarmsIn(<<>>) = {}
    BY DEF AlarmsIn, FromAlarm
  <2>2. \A t \in Thread : handling'[t] = <<>> \/ handling'[t] = <<e>>
    BY <1>4 DEF AllIdle, Handles
  <2>3. Running' = UNION {AlarmsIn(handling'[t]) : t \in Thread}
    BY DEF Running, AlarmsIn, FromAlarm
  <2> QED BY <2>1, <2>2, <2>3
<1>8. Waiting' = AlarmsIn(Tail(pending)) /\ Waiting = AlarmsIn(pending) /\ Armed' = Armed
  BY <1>1, <1>5 DEF Waiting, Armed, AlarmsIn, FromAlarm
<1>9. IntTypeOK'
  BY <1>1, <1>2, <1>5, <1>6 DEF AlarmOK, IntTypeOK
<1>10. AlarmInv'
  <2>1. Armed \cap Waiting = {} /\ \A a \in Armed \union Waiting : a < nextAlarm
    BY DEF AlarmOK, AlarmInv
  <2>2. NoneTwice(pending') /\ nextAlarm' = nextAlarm
    BY <1>1, <1>2, <1>5
  <2> QED BY <1>2, <1>7, <1>8, <2>1, <2>2 DEF AlarmInv
<1> QED BY <1>9, <1>10

(* invoke_handler returns: the only handler is done. *)
LEMMA ReturnAlarm ==
  ASSUME AlarmOK, NEW self \in Thread, HandlerReturn(self), HandlerInv'
  PROVE  IntTypeOK' /\ AlarmInv'
<1>1. handling' = AllIdle
  <2>1. inHandler = 1 /\ inHandler' = inHandler - 1
    BY DEF AlarmOK, HandlerInv, NoHandler, OneHandler, AllIdle, HandlerReturn
  <2> QED BY <2>1 DEF HandlerInv, NoHandler, OneHandler, AllIdle
<1>2. Running' = {}
  BY <1>1 DEF Running, AlarmsIn, FromAlarm, AllIdle
<1>3. UNCHANGED <<intcHandlers, dmacHandlers, alarms, nextAlarm, pending>>
  BY DEF HandlerReturn, cfgVars, clockVars
<1>4. IntTypeOK'
  <2>1. handling' \in [Thread -> Seq(Interrupt)]
    BY <1>1 DEF AllIdle
  <2> QED BY <1>3, <2>1 DEF AlarmOK, IntTypeOK
<1>5. Armed' = Armed /\ Waiting' = Waiting /\ NoneTwice(pending')
  BY <1>3 DEF Armed, Waiting, AlarmOK, AlarmInv
<1> QED BY <1>2, <1>3, <1>4, <1>5, NoneAdded DEF AlarmOK

(* The handlers the guest registers. *)
LEMMA RegisterAlarm ==
  ASSUME IntTypeOK, AlarmInv,
         UNCHANGED <<alarms, nextAlarm, pending, handling>>,
         /\ DOMAIN intcHandlers' \subseteq Cause
         /\ \A c \in DOMAIN intcHandlers' : intcHandlers'[c] \in Handler
         /\ DOMAIN dmacHandlers' \subseteq Channel
         /\ \A ch \in DOMAIN dmacHandlers' : dmacHandlers'[ch] \in Handler
  PROVE  IntTypeOK' /\ AlarmInv'
<1>1. IntTypeOK'
  BY DEF IntTypeOK
<1>2. Armed' = Armed /\ Waiting' = Waiting /\ Running' = Running /\ NoneTwice(pending')
  BY DEF Armed, Waiting, Running, AlarmInv
<1> QED BY <1>1, <1>2, NoneAdded

(* The SIF's interrupts. *)
LEMMA QueueAlarm ==
  ASSUME IntTypeOK, AlarmInv, NEW r \in Seq(Interrupt), AlarmsIn(r) = {}, NoneTwice(r),
         pending' = pending \o r,
         UNCHANGED <<intcHandlers, dmacHandlers, alarms, nextAlarm, handling>>
  PROVE  IntTypeOK' /\ AlarmInv'
<1>1. pending \in Seq(Interrupt) /\ NoneTwice(pending)
  BY DEF IntTypeOK, AlarmInv
<1>2. /\ pending \o r \in Seq(Interrupt) /\ NoneTwice(pending \o r)
      /\ AlarmsIn(pending \o r) = AlarmsIn(pending)
  BY <1>1, DevicesQueue
<1>3. IntTypeOK'
  BY <1>2 DEF IntTypeOK
<1>4. Armed' = Armed /\ Waiting' = Waiting /\ Running' = Running /\ NoneTwice(pending')
  BY <1>2 DEF Armed, Waiting, Running
<1> QED BY <1>3, <1>4, NoneAdded

(* SetAlarm: the id is one that no alarm has had. *)
LEMMA SetAlarmStep ==
  ASSUME IntTypeOK, AlarmInv, NEW self \in Thread, NEW h \in Handler, NEW d \in 1..MaxDelay,
         SetAlarm(self, h, d)
  PROVE  IntTypeOK' /\ AlarmInv'
<1>1. /\ alarms' = With(alarms, nextAlarm, [left |-> d, handler |-> h])
      /\ nextAlarm' = nextAlarm + 1 /\ nextAlarm \in Nat
      /\ UNCHANGED <<intcHandlers, dmacHandlers, pending, handling>>
  BY DEF SetAlarm, cfgVars, deliveryVars, IntTypeOK
<1>2. /\ DOMAIN alarms' = DOMAIN alarms \union {nextAlarm}
      /\ \A a \in DOMAIN alarms' :
           alarms'[a] = IF a = nextAlarm THEN [left |-> d, handler |-> h] ELSE alarms[a]
  BY <1>1 DEF With
<1>3. IntTypeOK'
  <2>1. IsFiniteSet(DOMAIN alarms') /\ DOMAIN alarms' \subseteq Nat
    <3>1. IsFiniteSet(DOMAIN alarms \union {nextAlarm})
      BY FS_AddElement DEF IntTypeOK
    <3> QED BY <1>1, <1>2, <3>1 DEF IntTypeOK
  <2>2. d \in Nat \ {0}
    BY TickAssumption
  <2>3. \A a \in DOMAIN alarms' : alarms'[a] \in [left : Nat \ {0}, handler : Handler]
    BY <1>2, <2>2 DEF IntTypeOK
  <2> QED BY <1>1, <2>1, <2>3 DEF IntTypeOK
<1>4. AlarmInv'
  <2>1. /\ Armed' = Armed \union {nextAlarm} /\ Waiting' = Waiting /\ Running' = Running
        /\ NoneTwice(pending')
    BY <1>1, <1>2 DEF Armed, Waiting, Running, AlarmInv
  <2>2. \A a \in Armed \union Waiting \union Running : a \in Nat /\ a < nextAlarm
    <3>1. Armed \subseteq Nat /\ Waiting \subseteq Nat
      BY DEF Armed, Waiting, AlarmsIn, IntTypeOK
    <3>2. Running \subseteq Nat
      <4>1. \A t \in Thread : AlarmsIn(handling[t]) \subseteq Nat
        BY DEF AlarmsIn
      <4> QED BY <4>1 DEF Running
    <3>3. \A a \in Armed \union Waiting \union Running : a < nextAlarm
      BY DEF AlarmInv
    <3> QED BY <3>1, <3>2, <3>3
  <2>3. nextAlarm \notin Waiting \union Running
    BY <1>1, <2>2
  <2>4. \A a \in Armed' \union Waiting' \union Running' : a < nextAlarm'
    BY <1>1, <2>1, <2>2
  <2> QED BY <2>1, <2>3, <2>4 DEF AlarmInv
<1> QED BY <1>3, <1>4

LEMMA ReleaseAlarmStep ==
  ASSUME IntTypeOK, AlarmInv, NEW self \in Thread, NEW a \in Alarm, ReleaseAlarm(self, a)
  PROVE  IntTypeOK' /\ AlarmInv'
<1>1. /\ DOMAIN alarms' = DOMAIN alarms \ {a}
      /\ \A b \in DOMAIN alarms' : alarms'[b] = alarms[b]
      /\ UNCHANGED <<intcHandlers, dmacHandlers, nextAlarm, pending, handling>>
  BY DEF ReleaseAlarm, Without, cfgVars, deliveryVars
<1>2. IntTypeOK'
  <2>1. IsFiniteSet(DOMAIN alarms') /\ DOMAIN alarms' \subseteq Nat
    BY <1>1, FS_Subset DEF IntTypeOK
  <2> QED BY <1>1, <2>1 DEF IntTypeOK
<1>3. Armed' \subseteq Armed /\ Waiting' = Waiting /\ Running' = Running /\ NoneTwice(pending')
  BY <1>1 DEF Armed, Waiting, Running, AlarmInv
<1> QED BY <1>1, <1>2, <1>3, NoneAdded

LEMMA CallAlarm ==
  ASSUME IntTypeOK, AlarmInv, NEW self \in Thread, IntCall(self)
  PROVE  IntTypeOK' /\ AlarmInv'
<1>1. ASSUME NEW c \in Cause, NEW h \in Handler, AddIntcHandler(self, c, h)
      PROVE  IntTypeOK' /\ AlarmInv'
  <2>1. intcHandlers' = With(intcHandlers, c, h)
    BY <1>1 DEF AddIntcHandler
  <2>2. /\ DOMAIN intcHandlers' \subseteq Cause
        /\ \A x \in DOMAIN intcHandlers' : intcHandlers'[x] \in Handler
    BY <2>1 DEF IntTypeOK, With
  <2> QED BY <1>1, <2>2, RegisterAlarm DEF AddIntcHandler, clockVars, deliveryVars, IntTypeOK
<1>2. ASSUME NEW c \in Cause, RemoveIntcHandler(self, c)
      PROVE  IntTypeOK' /\ AlarmInv'
  <2>1. /\ DOMAIN intcHandlers' \subseteq Cause
        /\ \A x \in DOMAIN intcHandlers' : intcHandlers'[x] \in Handler
    BY <1>2 DEF RemoveIntcHandler, Without, IntTypeOK
  <2> QED BY <1>2, <2>1, RegisterAlarm DEF RemoveIntcHandler, clockVars, deliveryVars, IntTypeOK
<1>3. ASSUME NEW ch \in Channel, NEW h \in Handler, AddDmacHandler(self, ch, h)
      PROVE  IntTypeOK' /\ AlarmInv'
  <2>1. dmacHandlers' = With(dmacHandlers, ch, h)
    BY <1>3 DEF AddDmacHandler
  <2>2. /\ DOMAIN dmacHandlers' \subseteq Channel
        /\ \A x \in DOMAIN dmacHandlers' : dmacHandlers'[x] \in Handler
    BY <2>1 DEF IntTypeOK, With
  <2> QED BY <1>3, <2>2, RegisterAlarm DEF AddDmacHandler, clockVars, deliveryVars, IntTypeOK
<1>4. ASSUME NEW ch \in Channel, RemoveDmacHandler(self, ch)
      PROVE  IntTypeOK' /\ AlarmInv'
  <2>1. /\ DOMAIN dmacHandlers' \subseteq Channel
        /\ \A x \in DOMAIN dmacHandlers' : dmacHandlers'[x] \in Handler
    BY <1>4 DEF RemoveDmacHandler, Without, IntTypeOK
  <2> QED BY <1>4, <2>1, RegisterAlarm DEF RemoveDmacHandler, clockVars, deliveryVars, IntTypeOK
<1>5. ASSUME NEW mask, SetIntcMask(self, mask) \/ SetDmacMask(self, mask)
      PROVE  IntTypeOK' /\ AlarmInv'
  BY <1>5, AlarmsUntouched DEF SetIntcMask, SetDmacMask, clockVars, deliveryVars
<1>6. CASE SifDeliver(self)
  <2> DEFINE D == Dmac(SifChannel)
             I == Intc(SifCause)
  <2>1. /\ D \in Seq(Interrupt) /\ AlarmsIn(D) = {} /\ NoneTwice(D)
        /\ I \in Seq(Interrupt) /\ AlarmsIn(I) = {} /\ NoneTwice(I)
    BY DeviceEntries
  <2>2. pending' = (pending \o D) \o I /\ pending \in Seq(Interrupt)
    BY <1>6 DEF SifDeliver, IntTypeOK
  <2> HIDE DEF D, I
  <2>3. D \o I \in Seq(Interrupt) /\ AlarmsIn(D \o I) = {} /\ NoneTwice(D \o I)
    BY <2>1, DevicesQueue
  <2>4. pending' = pending \o (D \o I)
    BY <2>1, <2>2
  <2> QED BY <1>6, <2>3, <2>4, QueueAlarm DEF SifDeliver, cfgVars, clockVars, deliveryVars
<1>7. CASE SifKick(self)
  <2>1. /\ Intc(SifCause) \in Seq(Interrupt)
        /\ AlarmsIn(Intc(SifCause)) = {} /\ NoneTwice(Intc(SifCause))
    BY DeviceEntries
  <2> QED BY <1>7, <2>1, QueueAlarm DEF SifKick, cfgVars, clockVars, deliveryVars
<1> QED
  BY <1>1, <1>2, <1>3, <1>4, <1>5, <1>6, <1>7, SetAlarmStep, ReleaseAlarmStep
  DEF IntCall, EnableIntc, DisableIntc, EnableDmac, DisableDmac

LEMMA AlarmStep == AlarmOK /\ [IntNext]_allVars => AlarmOK'
<1> SUFFICES ASSUME AlarmOK, [IntNext]_allVars
             PROVE  AlarmOK'
  OBVIOUS
<1>1. HandlerInv'
  BY HandlerStep DEF AlarmOK
<1>2. CASE ClockTick
  BY <1>1, <1>2, TickStep DEF AlarmOK
<1>3. ASSUME NEW self \in Thread, Deliver(self)
      PROVE  AlarmOK'
  BY <1>1, <1>3, DeliverAlarm DEF AlarmOK
<1>4. ASSUME NEW self \in Thread, HandlerReturn(self)
      PROVE  AlarmOK'
  BY <1>1, <1>4, ReturnAlarm DEF AlarmOK
<1>5. ASSUME NEW self \in Thread, IntCall(self)
      PROVE  AlarmOK'
  BY <1>1, <1>5, CallAlarm DEF AlarmOK
<1>6. ASSUME UNCHANGED intVars
      PROVE  AlarmOK'
  <2>1. UNCHANGED <<intcHandlers, dmacHandlers, alarms, nextAlarm, pending, handling>>
    BY <1>6 DEF intVars, cfgVars, clockVars, deliveryVars
  <2> QED BY <1>1, <2>1, AlarmsUntouched DEF AlarmOK
<1>7. CASE UNCHANGED allVars
  BY <1>6, <1>7 DEF allVars
<1> QED
  BY <1>2, <1>3, <1>4, <1>5, <1>6, <1>7 DEF IntNext, SchedulerCall, IntHostStep

(* An id has one place: what is in the queue is there once, and the two    *)
(* others exclude it and each other.                                       *)
LEMMA AlarmOKImplies == AlarmOK => AlarmFiresOnce
<1> SUFFICES ASSUME AlarmOK, NEW a \in Alarm
             PROVE  Cardinality(Places(a)) <= IF a < nextAlarm THEN 1 ELSE 0
  BY DEF AlarmFiresOnce
<1> DEFINE P == Places(a)
<1>1. a \in Nat
  BY AlarmAssumption
<1>2. \A p \in P : \/ p = <<"armed">> /\ a \in Armed
                   \/ \E i \in 1..Len(pending) : p = <<"queued", i>> /\ FromAlarm(pending, i) /\ pending[i].n = a
                   \/ \E t \in Thread : p = <<"running", t>> /\ a \in AlarmsIn(handling[t])
  BY <1>1 DEF Places, Armed, AlarmsIn, FromAlarm
<1>3. \A t \in Thread : a \in AlarmsIn(handling[t]) => a \in Running
  BY DEF Running
<1>4. \A i \in 1..Len(pending) : FromAlarm(pending, i) /\ pending[i].n = a => a \in Waiting
  BY <1>1 DEF Waiting, AlarmsIn
<1>5. P # {} => a < nextAlarm
  BY <1>2, <1>3, <1>4 DEF AlarmOK, AlarmInv
<1>6. \A t, u \in Thread : a \in AlarmsIn(handling[t]) /\ a \in AlarmsIn(handling[u]) => t = u
  <2>1. \A t \in Thread : a \in AlarmsIn(handling[t]) => handling[t] # <<>>
    BY DEF AlarmsIn, FromAlarm
  <2>2. \A t, u \in Thread : handling[t] # <<>> /\ handling[u] # <<>> => t = u
    BY DEF AlarmOK, HandlerInv, NoHandler, OneHandler, AllIdle, Handles
  <2> QED BY <2>1, <2>2
<1>7. \A i, j \in 1..Len(pending) :
        FromAlarm(pending, i) /\ pending[i].n = a /\ FromAlarm(pending, j) /\ pending[j].n = a => i = j
  BY DEF AlarmOK, AlarmInv, NoneTwice
<1>8. \A p, q \in P : p = q
  <2>1. /\ ~(a \in Armed /\ a \in Waiting) /\ ~(a \in Armed /\ a \in Running)
        /\ ~(a \in Waiting /\ a \in Running)
    BY DEF AlarmOK, AlarmInv
  <2> HIDE DEF P
  <2> QED BY <1>2, <1>3, <1>4, <1>6, <1>7, <2>1
<1> HIDE DEF P
<1>9. CASE P = {}
  <2>1. Cardinality(P) = 0
    BY <1>9, FS_EmptySet
  <2> QED BY <2>1 DEF P
<1>10. CASE P # {}
  <2>1. PICK p : P = {p}
    BY <1>8, <1>10
  <2>2. Cardinality(P) = 1
    BY <2>1, FS_Singleton
  <2> QED BY <1>5, <1>10, <2>2 DEF P
<1> QED BY <1>9, <1>10

(* clock_thread_main and fire_pending: an alarm is queued by one tick and  *)
(* handled by one delivery at most, whatever is set, released, queued and  *)
(* switched between, and the id of one that is over is not given again.    *)
THEOREM AlarmsFireOnce == IntSpec => []AlarmFiresOnce
<1>1. IntSpec => []AlarmOK
  BY AlarmInit, AlarmStep, PTL DEF IntSpec
<1> QED BY <1>1, AlarmOKImplies, PTL

-----------------------------------------------------------------------------
(* The kernel under interrupts.  Interrupts do nothing to the scheduler's  *)
(* state that its own calls do not do: every step of this specification is *)
(* a step of AdminSpec, or leaves its state alone.                         *)

LEMMA IntStepIsKernelStep == [IntNext]_allVars => [AdminNext]_vars
<1> SUFFICES ASSUME [IntNext]_allVars PROVE [AdminNext]_vars
  OBVIOUS
<1>1. CASE ClockTick
  BY <1>1 DEF ClockTick
<1>2. ASSUME NEW self \in Thread, Deliver(self) \/ HandlerReturn(self) PROVE UNCHANGED vars
  BY <1>2 DEF Deliver, HandlerReturn
<1>3. ASSUME NEW self \in Thread, IntCall(self) PROVE UNCHANGED vars
  BY <1>3 DEF IntCall, AddIntcHandler, RemoveIntcHandler, AddDmacHandler, RemoveDmacHandler,
              EnableIntc, DisableIntc, EnableDmac, DisableDmac, SetIntcMask, SetDmacMask,
              SetAlarm, ReleaseAlarm, SifDeliver, SifKick
<1>4. ASSUME NEW self \in Thread, SchedulerCall(self) \/ IntHostStep(self) PROVE AdminNext
  BY <1>4 DEF SchedulerCall, IntHostStep, AdminNext
<1>5. CASE (Destroy \/ DestroyStep) /\ UNCHANGED intVars
  BY <1>5 DEF AdminNext
<1>6. CASE UNCHANGED allVars
  BY <1>6 DEF allVars
<1> QED BY <1>1, <1>2, <1>3, <1>4, <1>5, <1>6 DEF IntNext

LEMMA IntImplementsKernel == IntSpec => AdminSpec
<1>1. IntInit => Init
  BY DEF IntInit
<1> QED BY <1>1, IntStepIsKernelStep, PTL DEF IntSpec, AdminSpec

(* A handler that makes syscalls, that is switched away from in the middle *)
(* or that deletes a thread breaks the baton no more than guest code does. *)
THEOREM OneHostUnderInterrupts == IntSpec => []OneHostExecutes
BY IntImplementsKernel, OneHostRuns, PTL

(* Nor does an interrupt ever let a host go on that waits in StartThread.  *)
THEOREM StartThreadHangsUnderInterrupts == IntSpec => []StuckForever
BY IntImplementsKernel, StartThreadHangs, PTL
=============================================================================
