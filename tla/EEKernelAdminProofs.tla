------------------------ MODULE EEKernelAdminProofs ------------------------
(***************************************************************************)
(* Theorems about EEKernelAdmin, for every set of threads, semaphores and  *)
(* priorities: up to the destructor one host executes at most, whatever is *)
(* deleted, terminated and released.                                       *)
(*                                                                         *)
(* Here a host does not always run as its own thread.  DeleteThread lets   *)
(* the target's host run on to its end while the caller waits for it, and  *)
(* what that host calls it calls as the current thread, the caller's; when *)
(* it blocks it waits on the condition variable of that thread.  So the    *)
(* invariant says nothing of whose place is whose.  It says that at most   *)
(* one host can go on, now or without another's help, that no two wait on  *)
(* one condition variable, and that while a host can go on nobody else     *)
(* waits on the current thread's.                                          *)
(*                                                                         *)
(* When nobody calls ReleaseWaitThread (UnreleasedSpec), and until the     *)
(* kernel asks to quit, deletion and termination also keep the ready queue *)
(* and the semaphores' queues exact, and leave no joiner of a thread that  *)
(* is gone.  That needs to know as which thread a host runs (RunsAs), that *)
(* a thread is DORMANT once its host is at its end (EndedOK), and that the *)
(* current thread runs, or is ending, or nobody can go on (CurrentFits).   *)
(***************************************************************************)
EXTENDS EEKernelAdmin, EEKernelSchedProofs, FiniteSetTheorems

CvAt == {"start", "switch", "exitSwitch", "finSwitch"}
ParkAt == {"exitPark", "finPark"}
RunAt == ExecutingAt \union {"exited", "dtorJoin"}

(* The hosts are hs, the batons al, those told to exit ex, the current     *)
(* thread cur.                                                             *)

(* A host that goes on by itself: it executes or has ended, or what it     *)
(* waits for has happened.                                                 *)
CanGoOn(hs, al, ex, h) ==
  \/ hs[h].at \in RunAt
  \/ hs[h].at \in CvAt /\ (al[hs[h].on] \/ ex[hs[h].on])
  \/ hs[h].at \in ParkAt /\ ex[hs[h].on]

Waits(hs, h) == hs[h].at \in CvAt \union ParkAt

(* No two hosts wait on one thread's condition variable, and it is that of *)
(* a thread that has a host.                                               *)
WaitsApart(hs) ==
  /\ \A h \in Thread : Waits(hs, h) => hs[h].on \in Thread /\ hs[hs[h].on].at # "none"
  /\ \A g, h \in Thread : Waits(hs, g) /\ Waits(hs, h) /\ hs[g].on = hs[h].on => g = h

(* A host that has not had its turn waits for it as its own thread, and a  *)
(* join is of a thread.                                                    *)
PlacesKnown(hs) ==
  \A h \in Thread :
    /\ hs[h].at = "start" => hs[h].on = h
    /\ hs[h].at \in {"joinStart", "joinDelete"} => hs[h].on \in Thread

(* Where the hosts may be, before the destructor and unless one hangs in   *)
(* StartThread.                                                            *)
PlacesFit(hs, ex, cur) ==
  /\ PlacesKnown(hs)
  /\ \A h \in Thread :
      /\ hs[h].at \notin {"joinStart", "dtor", "dtorJoin"}
      /\ hs[h].at \in {"finWake", "finSwitch", "finPark"} => hs[h].on = h
      /\ hs[h].at = "exitWake" => hs[h].on = cur
      /\ hs[h].at = "exited" => ex[h]

(* Nobody goes on but k, nobody else waits on the current thread, and a    *)
(* baton that lies about is k's to take.                                   *)
OnlyOne(hs, al, ex, cur, k) ==
  /\ WaitsApart(hs)
  /\ PlacesFit(hs, ex, cur)
  /\ ~ex[cur] /\ hs[cur].at # "none"
  /\ \A h \in Thread \ {k} : ~CanGoOn(hs, al, ex, h) /\ (Waits(hs, h) => hs[h].on # cur)
  /\ \A x \in Thread : al[x] => ex[x] \/ (hs[k].at \in CvAt /\ hs[k].on = x)

Stuck(hs, al, ex) == PlacesKnown(hs) /\ \A h \in Thread : ~CanGoOn(hs, al, ex, h)

Settled(hs, al, ex, cur) ==
  Stuck(hs, al, ex) \/ \E k \in Thread : OnlyOne(hs, al, ex, cur, k)

Here == Settled(host, allowed, exitReq, current)
AdminInv == ~destroying => Here

Flags == [Thread -> BOOLEAN]

LEMMA Types ==
  ASSUME TypeOK
  PROVE  host \in Hosts /\ allowed \in Flags /\ exitReq \in Flags /\ current \in Thread
BY DEF TypeOK, Hosts, Flags

-----------------------------------------------------------------------------
(* What a step does to a settled state. *)

(* The host that takes a step is the one that can go on. *)
LEMMA ActorIsTheOne ==
  ASSUME Settled(host, allowed, exitReq, current), NEW self \in Thread,
         CanGoOn(host, allowed, exitReq, self)
  PROVE  OnlyOne(host, allowed, exitReq, current, self)
BY DEF Settled, Stuck, OnlyOne

(* It goes on executing, in another place, and takes a baton at most. *)
LEMMA GoesOn ==
  ASSUME NEW hs \in Hosts, NEW al \in Flags, NEW ex \in Flags, NEW cur \in Thread,
         NEW self \in Thread, OnlyOne(hs, al, ex, cur, self),
         NEW place \in {"guest", "exitWake", "finWake", "semaWake", "exited"}, NEW on \in Nat,
         place = "finWake" => on = self,
         place = "exitWake" => on = cur,
         place = "exited" => ex[self],
         NEW al2 \in Flags, \A x \in Thread : al2[x] => al[x] /\ ex[x]
  PROVE  OnlyOne([hs EXCEPT ![self] = At(place, on)], al2, ex, cur, self)
<1> DEFINE hs2 == [hs EXCEPT ![self] = At(place, on)]
<1>1. \A h \in Thread : h # self => hs2[h] = hs[h]
  BY DEF Hosts
<1>2. hs2[self].at = place /\ hs2[self].on = on
  BY DEF Hosts, At
<1> HIDE DEF hs2
<1>3. ~Waits(hs2, self) /\ place # "none"
  BY <1>2 DEF Waits, CvAt, ParkAt
<1>4. WaitsApart(hs2)
  <2>1. \A h \in Thread : Waits(hs2, h) => h # self /\ Waits(hs, h) /\ hs2[h].on = hs[h].on
    BY <1>1, <1>3 DEF Waits
  <2>2. \A x \in Thread : hs[x].at # "none" => hs2[x].at # "none"
    BY <1>1, <1>2, <1>3
  <2> QED BY <2>1, <2>2 DEF WaitsApart, OnlyOne
<1>5. PlacesFit(hs2, ex, cur)
  BY <1>1, <1>2 DEF PlacesFit, PlacesKnown, OnlyOne
<1>6. hs2[cur].at # "none"
  BY <1>1, <1>2, <1>3 DEF OnlyOne
<1>7. \A h \in Thread \ {self} : ~CanGoOn(hs2, al2, ex, h) /\ (Waits(hs2, h) => hs2[h].on # cur)
  <2> TAKE h \in Thread \ {self}
  <2>1. ~CanGoOn(hs, al, ex, h) /\ (Waits(hs, h) => hs[h].on # cur) /\ hs2[h] = hs[h]
    BY <1>1 DEF OnlyOne
  <2>2. Waits(hs, h) => hs[h].on \in Thread
    BY DEF OnlyOne, WaitsApart
  <2> QED BY <2>1, <2>2 DEF CanGoOn, Waits
<1> QED BY <1>4, <1>5, <1>6, <1>7 DEF OnlyOne, hs2
(* switch_to: the target's waiter, if there is one that was not told to    *)
(* exit, goes on next; otherwise nobody does.                              *)
LEMMA SwitchToSettles ==
  ASSUME NEW hs \in Hosts, NEW al \in Flags, NEW ex \in Flags, NEW cur \in Thread,
         NEW self \in Thread, OnlyOne(hs, al, ex, cur, self), hs[self].at \in ExecutingAt,
         NEW place \in {"switch", "exitSwitch", "finSwitch"}, place = "finSwitch" => cur = self,
         NEW target \in Thread
  PROVE  Settled([hs EXCEPT ![self] = At(place, cur)], [al EXCEPT ![target] = TRUE], ex, target)
<1> DEFINE hs2 == [hs EXCEPT ![self] = At(place, cur)]
           al2 == [al EXCEPT ![target] = TRUE]
<1>1. \A h \in Thread : h # self => hs2[h] = hs[h]
  BY DEF Hosts
<1>2. hs2[self].at = place /\ hs2[self].on = cur
  BY DEF Hosts, At
<1>3. al2 \in Flags /\ al2[target] /\ \A x \in Thread : x # target => al2[x] = al[x]
  BY DEF Flags
<1> HIDE DEF hs2, al2
<1>4. \A x \in Thread : al[x] => ex[x]
  BY DEF OnlyOne, ExecutingAt, CvAt
<1>5. \A h \in Thread : h # self =>
        /\ ~CanGoOn(hs, al, ex, h)
        /\ Waits(hs, h) => hs[h].on # cur
  BY DEF OnlyOne
<1>6. WaitsApart(hs2)
  <2>1. \A h \in Thread : Waits(hs2, h) => hs2[h].on \in Thread
    BY <1>1, <1>2 DEF OnlyOne, WaitsApart, Waits
  <2>2. \A x \in Thread : hs[x].at # "none" => hs2[x].at # "none"
    BY <1>1, <1>2
  <2>3. \A h \in Thread : Waits(hs2, h) => hs2[hs2[h].on].at # "none"
    BY <1>1, <1>2, <2>2 DEF OnlyOne, WaitsApart, Waits
  <2>4. \A g, h \in Thread : Waits(hs2, g) /\ Waits(hs2, h) /\ hs2[g].on = hs2[h].on => g = h
    BY <1>1, <1>2, <1>5 DEF OnlyOne, WaitsApart, Waits
  <2> QED BY <2>1, <2>3, <2>4 DEF WaitsApart
<1>7. PlacesFit(hs2, ex, target)
  <2>1. \A h \in Thread : h # self => hs[h].at # "exitWake"
    BY <1>5 DEF CanGoOn, RunAt, ExecutingAt
  <2> QED BY <1>1, <1>2, <2>1 DEF PlacesFit, PlacesKnown, OnlyOne
<1>8. \A h \in Thread : CanGoOn(hs2, al2, ex, h) => hs2[h].at \in CvAt /\ hs2[h].on = target /\ ~ex[target]
  <2> TAKE h \in Thread
  <2> HAVE CanGoOn(hs2, al2, ex, h)
  <2>1. CASE h = self
    <3>1. ~ex[cur] /\ ~al[cur]
      BY <1>4 DEF OnlyOne
    <3>2. hs2[h].at \in CvAt /\ ~(hs2[h].at \in RunAt) /\ ~(hs2[h].at \in ParkAt)
      BY <1>2, <2>1 DEF CvAt, RunAt, ParkAt, ExecutingAt
    <3> QED BY <1>2, <1>3, <2>1, <3>1, <3>2 DEF CanGoOn
  <2>2. CASE h # self
    <3>1. hs2[h] = hs[h] /\ ~CanGoOn(hs, al, ex, h)
      BY <1>1, <1>5, <2>2
    <3>2. Waits(hs, h) => hs[h].on \in Thread
      BY DEF OnlyOne, WaitsApart
    <3> QED BY <1>3, <3>1, <3>2 DEF CanGoOn, Waits
  <2> QED BY <2>1, <2>2
<1>9. CASE \E k \in Thread : CanGoOn(hs2, al2, ex, k)
  <2>1. PICK k \in Thread : CanGoOn(hs2, al2, ex, k)
    BY <1>9
  <2>2. hs2[k].at \in CvAt /\ hs2[k].on = target /\ ~ex[target] /\ Waits(hs2, k)
    BY <1>8, <2>1 DEF Waits
  <2>3. hs2[target].at # "none"
    BY <1>6, <2>2 DEF WaitsApart
  <2>4. \A h \in Thread \ {k} : ~CanGoOn(hs2, al2, ex, h) /\ (Waits(hs2, h) => hs2[h].on # target)
    BY <1>6, <1>8, <2>2 DEF WaitsApart, Waits
  <2>5. \A x \in Thread : al2[x] => ex[x] \/ (hs2[k].at \in CvAt /\ hs2[k].on = x)
    BY <1>3, <1>4, <2>2
  <2>6. OnlyOne(hs2, al2, ex, target, k)
    BY <1>6, <1>7, <2>2, <2>3, <2>4, <2>5 DEF OnlyOne
  <2> QED BY <2>6 DEF Settled, hs2, al2
<1>10. CASE ~\E k \in Thread : CanGoOn(hs2, al2, ex, k)
  BY <1>7, <1>10 DEF Settled, Stuck, PlacesFit, hs2, al2
<1> QED BY <1>9, <1>10

(* The host parks, or waits for another host to end, and nobody goes on.   *)
LEMMA Stops ==
  ASSUME NEW hs \in Hosts, NEW al \in Flags, NEW ex \in Flags, NEW cur \in Thread,
         NEW self \in Thread, OnlyOne(hs, al, ex, cur, self),
         NEW place \in {"joinStart", "exitPark", "finPark"}, NEW on \in Nat,
         IF place = "joinStart" THEN on \in Thread ELSE ~ex[on]
  PROVE  Stuck([hs EXCEPT ![self] = At(place, on)], al, ex)
<1> DEFINE hs2 == [hs EXCEPT ![self] = At(place, on)]
<1>1. \A h \in Thread : h # self => hs2[h] = hs[h]
  BY DEF Hosts
<1>2. hs2[self].at = place /\ hs2[self].on = on
  BY DEF Hosts, At
<1> HIDE DEF hs2
<1>3. PlacesKnown(hs2)
  BY <1>1, <1>2 DEF PlacesKnown, PlacesFit, OnlyOne
<1>4. ASSUME NEW h \in Thread PROVE ~CanGoOn(hs2, al, ex, h)
  <2>1. CASE h = self
    BY <1>2, <2>1 DEF CanGoOn, RunAt, ExecutingAt, CvAt, ParkAt
  <2>2. CASE h # self
    BY <1>1, <2>2 DEF CanGoOn, OnlyOne
  <2> QED BY <2>1, <2>2
<1> QED BY <1>3, <1>4 DEF Stuck, hs2

(* finish_thread of a thread that is not the current one: the host parks,  *)
(* and goes on to its end if it was told to exit.                          *)
LEMMA ParksItself ==
  ASSUME NEW hs \in Hosts, NEW al \in Flags, NEW ex \in Flags, NEW cur \in Thread,
         NEW self \in Thread, OnlyOne(hs, al, ex, cur, self),
         NEW al2 \in Flags, \A x \in Thread : al2[x] => al[x] /\ ex[x]
  PROVE  Settled([hs EXCEPT ![self] = At("finPark", self)], al2, ex, cur)
<1> DEFINE hs2 == [hs EXCEPT ![self] = At("finPark", self)]
<1>1. \A h \in Thread : h # self => hs2[h] = hs[h]
  BY DEF Hosts
<1>2. hs2[self].at = "finPark" /\ hs2[self].on = self
  BY DEF Hosts, At
<1> HIDE DEF hs2
<1>3. \A h \in Thread \ {self} : ~CanGoOn(hs2, al2, ex, h) /\ (Waits(hs2, h) => hs2[h].on # cur)
  <2> TAKE h \in Thread \ {self}
  <2>1. ~CanGoOn(hs, al, ex, h) /\ (Waits(hs, h) => hs[h].on # cur) /\ hs2[h] = hs[h]
    BY <1>1 DEF OnlyOne
  <2>2. Waits(hs, h) => hs[h].on \in Thread
    BY DEF OnlyOne, WaitsApart
  <2> QED BY <2>1, <2>2 DEF CanGoOn, Waits
<1>4. CASE ex[self]
  <2>1. \A h \in Thread : h # self /\ Waits(hs, h) => hs[h].on # self
    BY <1>4 DEF OnlyOne, CanGoOn, Waits
  <2>2. WaitsApart(hs2)
    <3>1. \A x \in Thread : hs[x].at # "none" => hs2[x].at # "none"
      BY <1>1, <1>2
    <3>2. \A h \in Thread : h # self /\ Waits(hs2, h) => Waits(hs, h) /\ hs2[h].on = hs[h].on
      BY <1>1 DEF Waits
    <3>3. \A h \in Thread : Waits(hs2, h) => hs2[h].on \in Thread /\ hs2[hs2[h].on].at # "none"
      BY <1>1, <1>2, <3>1, <3>2 DEF WaitsApart, OnlyOne
    <3>4. \A g, h \in Thread : Waits(hs2, g) /\ Waits(hs2, h) /\ hs2[g].on = hs2[h].on => g = h
      BY <1>2, <2>1, <3>2 DEF WaitsApart, OnlyOne
    <3> QED BY <3>3, <3>4 DEF WaitsApart
  <2>3. PlacesFit(hs2, ex, cur)
    BY <1>1, <1>2 DEF PlacesFit, PlacesKnown, OnlyOne
  <2>4. hs2[cur].at # "none"
    BY <1>1, <1>2 DEF OnlyOne
  <2>5. OnlyOne(hs2, al2, ex, cur, self)
    BY <1>3, <2>2, <2>3, <2>4 DEF OnlyOne
  <2> QED BY <2>5 DEF Settled, hs2
<1>5. CASE ~ex[self]
  <2>1. ~CanGoOn(hs2, al2, ex, self)
    BY <1>2, <1>5 DEF CanGoOn, RunAt, ExecutingAt, CvAt
  <2>2. PlacesKnown(hs2)
    BY <1>1, <1>2 DEF PlacesKnown, PlacesFit, OnlyOne
  <2> QED BY <1>3, <2>1, <2>2 DEF Settled, Stuck, hs2
<1> QED BY <1>4, <1>5
(* DeleteThread of a thread with a host: the caller waits for it to end,   *)
(* and whoever waits as that thread goes on.                               *)
LEMMA TellsToExit ==
  ASSUME NEW hs \in Hosts, NEW al \in Flags, NEW ex \in Flags, NEW cur \in Thread,
         NEW self \in Thread, OnlyOne(hs, al, ex, cur, self), hs[self].at \in ExecutingAt,
         NEW t \in Thread, t # cur
  PROVE  Settled([hs EXCEPT ![self] = At("joinDelete", t)], [al EXCEPT ![t] = TRUE],
                 [ex EXCEPT ![t] = TRUE], cur)
<1> DEFINE hs2 == [hs EXCEPT ![self] = At("joinDelete", t)]
           al2 == [al EXCEPT ![t] = TRUE]
           ex2 == [ex EXCEPT ![t] = TRUE]
<1>1. \A h \in Thread : h # self => hs2[h] = hs[h]
  BY DEF Hosts
<1>2. hs2[self].at = "joinDelete" /\ hs2[self].on = t
  BY DEF Hosts, At
<1>3. /\ ex2 \in Flags /\ ex2[t] /\ \A x \in Thread : x # t => ex2[x] = ex[x]
      /\ \A x \in Thread : x # t => al2[x] = al[x]
  BY DEF Flags
<1> HIDE DEF hs2, al2, ex2
<1>4. ~Waits(hs2, self) /\ ~CanGoOn(hs2, al2, ex2, self)
  BY <1>2 DEF Waits, CanGoOn, RunAt, CvAt, ParkAt, ExecutingAt
<1>5. \A h \in Thread : h # self => ~CanGoOn(hs, al, ex, h) /\ (Waits(hs, h) => hs[h].on # cur)
  BY DEF OnlyOne
<1>6. \A h \in Thread : Waits(hs2, h) => h # self /\ Waits(hs, h) /\ hs2[h].on = hs[h].on
  BY <1>1, <1>4 DEF Waits
<1>7. WaitsApart(hs2)
  <2>1. \A x \in Thread : hs[x].at # "none" => hs2[x].at # "none"
    BY <1>1, <1>2
  <2> QED BY <1>6, <2>1 DEF WaitsApart, OnlyOne
<1>8. PlacesFit(hs2, ex2, cur)
  BY <1>1, <1>2, <1>3 DEF PlacesFit, PlacesKnown, OnlyOne
<1>9. ~ex2[cur] /\ hs2[cur].at # "none"
  BY <1>1, <1>2, <1>3 DEF OnlyOne
<1>10. \A h \in Thread : CanGoOn(hs2, al2, ex2, h) => Waits(hs2, h) /\ hs2[h].on = t
  <2> TAKE h \in Thread
  <2> HAVE CanGoOn(hs2, al2, ex2, h)
  <2>1. h # self /\ hs2[h] = hs[h]
    BY <1>1, <1>4
  <2>2. ~CanGoOn(hs, al, ex, h)
    BY <1>5, <2>1
  <2>3. Waits(hs, h) => hs[h].on \in Thread
    BY DEF OnlyOne, WaitsApart
  <2> QED BY <1>3, <2>1, <2>2, <2>3 DEF CanGoOn, Waits
<1>11. CASE \E k \in Thread : CanGoOn(hs2, al2, ex2, k)
  <2>1. PICK k \in Thread : CanGoOn(hs2, al2, ex2, k)
    BY <1>11
  <2>2. \A h \in Thread \ {k} : ~CanGoOn(hs2, al2, ex2, h) /\ (Waits(hs2, h) => hs2[h].on # cur)
    <3>1. \A h \in Thread : CanGoOn(hs2, al2, ex2, h) => h = k
      BY <1>7, <1>10, <2>1 DEF WaitsApart
    <3>2. \A h \in Thread : Waits(hs2, h) => hs2[h].on # cur
      BY <1>5, <1>6
    <3> QED BY <3>1, <3>2
  <2>3. \A x \in Thread : al2[x] => ex2[x]
    BY <1>3 DEF OnlyOne, ExecutingAt, CvAt
  <2>4. OnlyOne(hs2, al2, ex2, cur, k)
    BY <1>7, <1>8, <1>9, <2>2, <2>3 DEF OnlyOne
  <2> QED BY <2>4 DEF Settled, hs2, al2, ex2
<1>12. CASE ~\E k \in Thread : CanGoOn(hs2, al2, ex2, k)
  BY <1>8, <1>12 DEF Settled, Stuck, PlacesFit, hs2, al2, ex2
<1> QED BY <1>11, <1>12

(* host.join() returns in DeleteThread: the caller goes on in place of the *)
(* host that has ended.                                                    *)
LEMMA Joins ==
  ASSUME NEW hs \in Hosts, NEW al \in Flags, NEW ex \in Flags, NEW cur \in Thread,
         NEW t \in Thread, OnlyOne(hs, al, ex, cur, t), hs[t].at = "exited",
         NEW self \in Thread, hs[self].at = "joinDelete"
  PROVE  Settled([hs EXCEPT ![self] = At("guest", self), ![t] = At("none", t)], al, ex, cur)
<1> DEFINE hs2 == [hs EXCEPT ![self] = At("guest", self), ![t] = At("none", t)]
<1>0. self # t
  OBVIOUS
<1>1. \A h \in Thread : h # self /\ h # t => hs2[h] = hs[h]
  BY DEF Hosts
<1>2. hs2[self].at = "guest" /\ hs2[t].at = "none"
  BY <1>0 DEF Hosts, At
<1> HIDE DEF hs2
<1>3. ex[t] /\ t # cur
  BY DEF OnlyOne, PlacesFit
<1>4. \A h \in Thread : Waits(hs2, h) => Waits(hs, h) /\ h # self /\ h # t /\ hs2[h] = hs[h]
  BY <1>1, <1>2 DEF Waits, CvAt, ParkAt
<1>5. \A h \in Thread : h # t => ~CanGoOn(hs, al, ex, h) /\ (Waits(hs, h) => hs[h].on # cur)
  BY DEF OnlyOne
<1>6. WaitsApart(hs2)
  <2>1. \A h \in Thread : Waits(hs2, h) => hs2[h].on # t
    BY <1>3, <1>4, <1>5 DEF CanGoOn, Waits
  <2>2. \A x \in Thread : x # t /\ hs[x].at # "none" => hs2[x].at # "none"
    BY <1>1, <1>2
  <2> QED BY <1>4, <2>1, <2>2 DEF WaitsApart, OnlyOne
<1>7. PlacesFit(hs2, ex, cur)
  BY <1>1, <1>2 DEF PlacesFit, PlacesKnown, OnlyOne
<1>8. ~ex[cur] /\ hs2[cur].at # "none"
  BY <1>1, <1>2, <1>3 DEF OnlyOne
<1>9. \A h \in Thread \ {self} : ~CanGoOn(hs2, al, ex, h) /\ (Waits(hs2, h) => hs2[h].on # cur)
  <2> TAKE h \in Thread \ {self}
  <2>1. CASE h = t
    BY <1>2, <2>1 DEF CanGoOn, Waits, RunAt, ExecutingAt, CvAt, ParkAt
  <2>2. CASE h # t
    BY <1>1, <1>5, <2>2 DEF CanGoOn, Waits
  <2> QED BY <2>1, <2>2
<1>10. \A x \in Thread : al[x] => ex[x]
  BY DEF OnlyOne, CvAt
<1> QED BY <1>6, <1>7, <1>8, <1>9, <1>10 DEF OnlyOne, Settled, hs2

(* StartThread gives a thread without a host one that waits for its turn.  *)
LEMMA StartsHost ==
  ASSUME NEW hs \in Hosts, NEW al \in Flags, NEW ex \in Flags, NEW cur \in Thread,
         NEW self \in Thread, OnlyOne(hs, al, ex, cur, self), hs[self].at = "guest",
         NEW t \in Thread, hs[t].at = "none"
  PROVE  OnlyOne([hs EXCEPT ![self] = At("guest", self), ![t] = At("start", t)],
                 [al EXCEPT ![t] = FALSE], [ex EXCEPT ![t] = FALSE], cur, self)
<1> DEFINE hs2 == [hs EXCEPT ![self] = At("guest", self), ![t] = At("start", t)]
           al2 == [al EXCEPT ![t] = FALSE]
           ex2 == [ex EXCEPT ![t] = FALSE]
<1>0. self # t
  OBVIOUS
<1>1. \A h \in Thread : h # self /\ h # t => hs2[h] = hs[h]
  BY DEF Hosts
<1>2. hs2[self].at = "guest" /\ hs2[t].at = "start" /\ hs2[t].on = t
  BY <1>0 DEF Hosts, At
<1>3. /\ ~al2[t] /\ ~ex2[t]
      /\ \A x \in Thread : x # t => al2[x] = al[x] /\ ex2[x] = ex[x]
  BY DEF Flags
<1> HIDE DEF hs2, al2, ex2
<1>4. t # cur
  BY DEF OnlyOne
<1>5. \A h \in Thread : Waits(hs2, h) => h = t \/ (h # self /\ Waits(hs, h) /\ hs2[h] = hs[h])
  BY <1>1, <1>2 DEF Waits, CvAt, ParkAt
<1>6. \A h \in Thread : Waits(hs, h) => hs[h].on \in Thread /\ hs[h].on # t
  BY DEF OnlyOne, WaitsApart
<1>7. WaitsApart(hs2)
  <2>1. \A x \in Thread : hs[x].at # "none" => hs2[x].at # "none"
    BY <1>1, <1>2
  <2>2. \A h \in Thread : Waits(hs2, h) => hs2[h].on \in Thread /\ hs2[hs2[h].on].at # "none"
    BY <1>2, <1>5, <2>1 DEF WaitsApart, OnlyOne
  <2>3. \A g, h \in Thread : Waits(hs2, g) /\ Waits(hs2, h) /\ hs2[g].on = hs2[h].on => g = h
    BY <1>2, <1>5, <1>6 DEF WaitsApart, OnlyOne
  <2> QED BY <2>2, <2>3 DEF WaitsApart
<1>8. PlacesFit(hs2, ex2, cur)
  BY <1>1, <1>2, <1>3 DEF PlacesFit, PlacesKnown, OnlyOne
<1>9. ~ex2[cur] /\ hs2[cur].at # "none"
  BY <1>1, <1>2, <1>3, <1>4 DEF OnlyOne
<1>10. \A h \in Thread \ {self} : ~CanGoOn(hs2, al2, ex2, h) /\ (Waits(hs2, h) => hs2[h].on # cur)
  <2> TAKE h \in Thread \ {self}
  <2>1. CASE h = t
    BY <1>2, <1>3, <1>4, <2>1 DEF CanGoOn, RunAt, ExecutingAt, ParkAt
  <2>2. CASE h # t
    <3>1. ~CanGoOn(hs, al, ex, h) /\ (Waits(hs, h) => hs[h].on # cur) /\ hs2[h] = hs[h]
      BY <1>1, <2>2 DEF OnlyOne
    <3> QED BY <1>3, <1>6, <3>1 DEF CanGoOn, Waits
  <2> QED BY <2>1, <2>2
<1>11. \A x \in Thread : al2[x] => ex2[x]
  BY <1>3 DEF OnlyOne, CvAt
<1> QED BY <1>7, <1>8, <1>9, <1>10, <1>11 DEF OnlyOne, hs2, al2, ex2
-----------------------------------------------------------------------------
(* What the calls of EEKernel do to a settled state. *)

LEMMA StillSettled ==
  ASSUME Settled(host, allowed, exitReq, current), UNCHANGED <<host, allowed, exitReq, current>>
  PROVE  Settled(host', allowed', exitReq', current')
<1>1. host' = host /\ allowed' = allowed /\ exitReq' = exitReq /\ current' = current
  OBVIOUS
<1> QED BY <1>1

LEMMA BlockCurrentSettles ==
  ASSUME TypeOK, ~destroying, NEW self \in Thread, InGuest(self),
         Settled(host, allowed, exitReq, current),
         NEW st, NEW w, NEW rd \in Seq(Thread), BlockCurrent(self, st, w, rd), UNCHANGED exitReq
  PROVE  Settled(host', allowed', exitReq', current')
<1>1. CASE rd = <<>>
  BY <1>1, StillSettled DEF BlockCurrent
<1>2. CASE rd # <<>>
  <2>1. Head(rd) \in Thread
    BY <1>2, HeadTailProperties
  <2>2. /\ allowed' = [allowed EXCEPT ![Head(rd)] = TRUE]
        /\ host' = [host EXCEPT ![self] = At("switch", current)]
        /\ current' = Head(rd) /\ exitReq' = exitReq
    BY <1>2 DEF BlockCurrent, SwitchTo
  <2>3. OnlyOne(host, allowed, exitReq, current, self)
    BY ActorIsTheOne DEF InGuest, CanGoOn, RunAt, ExecutingAt
  <2>4. host[self].at \in ExecutingAt
    BY DEF InGuest, ExecutingAt
  <2> QED BY <2>1, <2>2, <2>3, <2>4, Types, SwitchToSettles
<1> QED BY <1>1, <1>2

LEMMA MaybePreemptFromSettles ==
  ASSUME NEW hs \in Hosts, NEW al \in Flags, NEW ex \in Flags, current \in Thread,
         NEW self \in Thread, hs[self].at = "guest", OnlyOne(hs, al, ex, current, self),
         NEW st, NEW rd \in Seq(Thread), MaybePreemptFrom(self, st, rd, hs, al), exitReq' = ex
  PROVE  Settled(host', allowed', exitReq', current')
<1> DEFINE stays == \/ destroying
                    \/ dispatchDisabled' > 0
                    \/ rd = <<>>
                    \/ prio'[Head(rd)] >= prio'[current]
<1>1. CASE stays
  <2>1. host' = hs /\ allowed' = al /\ current' = current
    BY <1>1 DEF MaybePreemptFrom
  <2> QED BY <2>1 DEF Settled
<1>2. CASE ~stays
  <2>1. Head(rd) \in Thread
    BY <1>2, HeadTailProperties
  <2>2. /\ allowed' = [al EXCEPT ![Head(rd)] = TRUE]
        /\ host' = [hs EXCEPT ![self] = At("switch", current)]
        /\ current' = Head(rd)
    BY <1>2 DEF MaybePreemptFrom, SwitchTo
  <2>3. hs[self].at \in ExecutingAt
    BY DEF ExecutingAt
  <2> QED BY <2>1, <2>2, <2>3, SwitchToSettles
<1> QED BY <1>1, <1>2

LEMMA GuestIsTheOne ==
  ASSUME Settled(host, allowed, exitReq, current), NEW self \in Thread, InGuest(self)
  PROVE  OnlyOne(host, allowed, exitReq, current, self) /\ host[self].at \in ExecutingAt
BY ActorIsTheOne DEF InGuest, CanGoOn, RunAt, ExecutingAt

LEMMA MaybePreemptSettles ==
  ASSUME TypeOK, NEW self \in Thread, InGuest(self),
         Settled(host, allowed, exitReq, current),
         NEW st, NEW rd \in Seq(Thread), MaybePreempt(self, st, rd), UNCHANGED exitReq
  PROVE  Settled(host', allowed', exitReq', current')
<1>1. MaybePreemptFrom(self, st, rd, host, allowed) /\ exitReq' = exitReq /\ host[self].at = "guest"
  BY DEF MaybePreempt, InGuest
<1> QED BY <1>1, Types, GuestIsTheOne, MaybePreemptFromSettles

(* A host in guest code moves to another place where it executes.          *)
LEMMA MovesOn ==
  ASSUME TypeOK, Settled(host, allowed, exitReq, current), NEW self \in Thread, InGuest(self),
         NEW place \in {"exitWake", "finWake", "semaWake"}, NEW on \in Nat,
         place = "finWake" => on = self,
         place = "exitWake" => on = current,
         host' = [host EXCEPT ![self] = At(place, on)], UNCHANGED <<allowed, exitReq, current>>
  PROVE  Settled(host', allowed', exitReq', current')
<1>1. OnlyOne(host, allowed, exitReq, current, self) /\ \A x \in Thread : allowed[x] => exitReq[x]
  BY GuestIsTheOne DEF OnlyOne, ExecutingAt, CvAt
<1>2. OnlyOne([host EXCEPT ![self] = At(place, on)], allowed, exitReq, current, self)
  BY <1>1, Types, GoesOn
<1> QED BY <1>2 DEF Settled

LEMMA HandOffSettles ==
  ASSUME TypeOK, Settled(host, allowed, exitReq, current), NEW self \in Thread,
         host[self].at \in ExecutingAt,
         NEW switching \in {"exitSwitch", "finSwitch"}, NEW parked \in {"exitPark", "finPark"},
         switching = "finSwitch" => self = current,
         HandOffAndPark(self, current, switching, parked), UNCHANGED exitReq
  PROVE  Settled(host', allowed', exitReq', current')
<1>1. OnlyOne(host, allowed, exitReq, current, self)
  BY ActorIsTheOne DEF CanGoOn, RunAt
<1>2. CASE ready = <<>>
  <2>1. host' = [host EXCEPT ![self] = At(parked, current)] /\ UNCHANGED <<allowed, exitReq, current>>
    BY <1>2 DEF HandOffAndPark
  <2>2. ~exitReq[current] /\ current \in Nat
    BY <1>1, Types, MainIsThread DEF OnlyOne
  <2>3. Settled([host EXCEPT ![self] = At(parked, current)], allowed, exitReq, current)
    BY <1>1, <2>2, Types, Stops DEF Settled
  <2> QED BY <2>1, <2>3
<1>3. CASE ready # <<>>
  <2>1. Head(ready) \in Thread
    BY <1>3, HeadTailProperties DEF TypeOK
  <2>2. /\ allowed' = [allowed EXCEPT ![Head(ready)] = TRUE]
        /\ host' = [host EXCEPT ![self] = At(switching, current)]
        /\ current' = Head(ready) /\ exitReq' = exitReq
    BY <1>3 DEF HandOffAndPark, SwitchTo
  <2> QED BY <1>1, <2>1, <2>2, Types, SwitchToSettles
<1> QED BY <1>2, <1>3

LEMMA LaunchSettles ==
  ASSUME TypeOK, Settled(host, allowed, exitReq, current), NEW self \in Thread, InGuest(self),
         NEW t \in Thread, host[t].at = "none", Launch(self, t)
  PROVE  Settled(host', allowed', exitReq', current')
<1> DEFINE hs == [host EXCEPT ![self] = At("guest", self), ![t] = At("start", t)]
           al == [allowed EXCEPT ![t] = FALSE]
           ex == [exitReq EXCEPT ![t] = FALSE]
<1>1. OnlyOne(hs, al, ex, current, self)
  BY GuestIsTheOne, StartsHost, Types DEF InGuest
<1>2. hs \in Hosts
  <2>1. At("guest", self) \in [at : HostAt, on : Nat] /\ At("start", t) \in [at : HostAt, on : Nat]
    BY AtType DEF HostAt
  <2> QED BY <2>1, Types DEF Hosts
<1>3. al \in Flags /\ ex \in Flags /\ hs[self].at = "guest"
  <2>1. self # t
    BY DEF InGuest
  <2> QED BY <2>1, Types DEF Flags, Hosts, At
<1>4. ReadyInsert(ready, prio, t) \in Seq(Thread)
  BY ReadyInsertType DEF TypeOK
<1>5. /\ MaybePreemptFrom(self, [status EXCEPT ![t] = "READY"], ReadyInsert(ready, prio, t), hs, al)
      /\ exitReq' = ex
  BY DEF Launch
<1> HIDE DEF hs, al, ex
<1> QED BY <1>1, <1>2, <1>3, <1>4, <1>5, Types, MaybePreemptFromSettles

LEMMA ThreadCallSettles ==
  ASSUME TypeOK, ~destroying, Here, NEW self \in Thread, ThreadCall(self)
  PROVE  Here'
<1> USE DEF Here
<1>0. /\ ready \in Seq(Thread) /\ \A t \in Thread : ReadyRemove(ready, t) \in Seq(Thread)
      /\ \A t \in Thread, rd \in Seq(Thread) : \A pr : ReadyInsert(rd, pr, t) \in Seq(Thread)
  BY ReadyRemoveType, ReadyInsertType DEF TypeOK
<1>1. ASSUME NEW t \in Thread, NEW p \in Priority, CreateThread(self, t, p) PROVE Here'
  BY <1>1, StillSettled DEF CreateThread, hostVars
<1>2. ASSUME NEW t \in Thread, StartThread(self, t) PROVE Here'
  <2>1. CASE Joinable(t)
    <3>1. /\ host' = [host EXCEPT ![self] = At("joinStart", t)]
          /\ UNCHANGED <<allowed, exitReq, current>> /\ InGuest(self)
      BY <1>2, <2>1 DEF StartThread, schedVars
    <3>2. OnlyOne(host, allowed, exitReq, current, self) /\ t \in Nat
      BY <3>1, GuestIsTheOne, MainIsThread
    <3>3. Settled([host EXCEPT ![self] = At("joinStart", t)], allowed, exitReq, current)
      BY <3>2, Types, Stops DEF Settled
    <3> QED BY <3>1, <3>3
  <2>2. CASE ~Joinable(t)
    <3>1. Launch(self, t) /\ InGuest(self) /\ host[t].at = "none"
      BY <1>2, <2>2 DEF StartThread, Joinable
    <3> QED BY <3>1, LaunchSettles
  <2> QED BY <2>1, <2>2
<1>3. ASSUME ExitThread(self) PROVE Here'
  <2>1. CASE current = Main
    BY <1>3, <2>1, StillSettled DEF ExitThread, schedVars, hostVars
  <2>2. CASE current # Main
    <3>1. /\ host' = [host EXCEPT ![self] = At("exitWake", current)]
          /\ UNCHANGED <<allowed, exitReq, current>> /\ InGuest(self)
      BY <1>3, <2>2 DEF ExitThread
    <3>2. current \in Nat
      BY Types, MainIsThread
    <3> QED BY <3>1, <3>2, MovesOn
  <2> QED BY <2>1, <2>2
<1>4. ASSUME FinishThread(self) PROVE Here'
  <2>1. /\ host' = [host EXCEPT ![self] = At("finWake", self)]
        /\ UNCHANGED <<allowed, exitReq, current>> /\ InGuest(self) /\ self \in Nat
    BY <1>4, MainIsThread DEF FinishThread
  <2> QED BY <2>1, MovesOn
<1>5. ASSUME NEW t \in Thread, NEW p \in Priority, ChangeThreadPriority(self, t, p) PROVE Here'
  <2>1. CASE status[t] = "READY"
    BY <1>0, <1>5, <2>1, MaybePreemptSettles DEF ChangeThreadPriority
  <2>2. CASE status[t] # "READY"
    BY <1>0, <1>5, <2>2, MaybePreemptSettles DEF ChangeThreadPriority
  <2> QED BY <2>1, <2>2
<1>6. ASSUME NEW p \in Priority, RotateThreadReadyQueue(self, p) PROVE Here'
  <2>1. PICK i \in 1..Len(ready) :
          current' = ready[i] /\ SwitchTo(self, ready[i], current, "switch", host, allowed)
    BY <1>6 DEF RotateThreadReadyQueue
  <2>2. ready[i] \in Thread
    BY ElementOfSeq DEF TypeOK
  <2>3. /\ allowed' = [allowed EXCEPT ![ready[i]] = TRUE]
        /\ host' = [host EXCEPT ![self] = At("switch", current)]
        /\ current' = ready[i] /\ exitReq' = exitReq /\ InGuest(self)
    BY <1>6, <2>1 DEF SwitchTo, RotateThreadReadyQueue
  <2> QED BY <2>2, <2>3, Types, GuestIsTheOne, SwitchToSettles
<1>7. ASSUME SleepThread(self) PROVE Here'
  <2>1. CASE wakeups[current] > 0
    BY <1>7, <2>1, StillSettled DEF SleepThread, schedVars
  <2>2. CASE ~(wakeups[current] > 0)
    BY <1>0, <1>7, <2>2, BlockCurrentSettles DEF SleepThread
  <2> QED BY <2>1, <2>2
<1>8. ASSUME NEW t \in Thread, WakeupThread(self, t) PROVE Here'
  BY <1>0, <1>8, MaybePreemptSettles DEF WakeupThread
<1>9. ASSUME NEW t \in Thread, CancelWakeupThread(self, t) PROVE Here'
  BY <1>9, StillSettled DEF CancelWakeupThread, schedVars, hostVars
<1>10. ASSUME NEW t \in Thread, SuspendThread(self, t) PROVE Here'
  <2> DEFINE rd == IF status[t] = "READY" THEN ReadyRemove(ready, t) ELSE ready
  <2>1. CASE t = current /\ suspends[t] = 0
    <3>1. /\ BlockCurrent(self, "SUSPEND", WaitSleep, rd)
          /\ InGuest(self) /\ UNCHANGED exitReq
      BY <1>10, <2>1 DEF SuspendThread
    <3>2. rd \in Seq(Thread)
      BY <1>0
    <3> HIDE DEF rd
    <3> QED BY <3>1, <3>2, BlockCurrentSettles
  <2>2. CASE ~(t = current /\ suspends[t] = 0)
    BY <1>10, <2>2, StillSettled DEF SuspendThread
  <2> QED BY <2>1, <2>2
<1>11. ASSUME NEW t \in Thread, ResumeThread(self, t) PROVE Here'
  BY <1>0, <1>11, MaybePreemptSettles DEF ResumeThread
<1>12. ASSUME NEW t \in Thread, JoinThread(self, t) PROVE Here'
  BY <1>0, <1>12, BlockCurrentSettles DEF JoinThread
<1>13. ASSUME DisableDispatchThread(self) PROVE Here'
  BY <1>13, StillSettled DEF DisableDispatchThread, schedVars, hostVars
<1>14. ASSUME EnableDispatchThread(self) PROVE Here'
  BY <1>0, <1>14, MaybePreemptSettles DEF EnableDispatchThread
<1>15. ASSUME KExit(self) PROVE Here'
  BY <1>15, StillSettled DEF KExit, schedVars, hostVars
<1> QED BY <1>1, <1>2, <1>3, <1>4, <1>5, <1>6, <1>7, <1>8, <1>9, <1>10, <1>11, <1>12, <1>13, <1>14, <1>15
        DEF ThreadCall

LEMMA SemaCallSettles ==
  ASSUME TypeOK, ~destroying, Here, NEW self \in Thread, SemaCall(self)
  PROVE  Here'
<1> USE DEF Here
<1>1. ASSUME NEW s \in Sema, NEW p \in SemaInit, CreateSema(self, s, p) PROVE Here'
  BY <1>1, StillSettled DEF CreateSema, schedVars, hostVars
<1>2. ASSUME NEW s \in Sema, SignalSema(self, s) PROVE Here'
  <2>1. CASE waiters[s] # <<>>
    <3> DEFINE t == FirstWaiter(s)
    <3>1. t \in Thread
      <4>1. waiters[s] \in Seq(Thread)
        BY DEF TypeOK
      <4> QED BY <2>1, <4>1, HeadTailProperties DEF FirstWaiter
    <3>2. ReadyInsert(ready, prio, t) \in Seq(Thread)
      BY <3>1, ReadyInsertType DEF TypeOK
    <3> QED BY <1>2, <2>1, <3>2, MaybePreemptSettles DEF SignalSema
  <2>2. CASE waiters[s] = <<>>
    <3>1. ready \in Seq(Thread)
      BY DEF TypeOK
    <3> QED BY <1>2, <2>2, <3>1, MaybePreemptSettles DEF SignalSema
  <2> QED BY <2>1, <2>2
<1>3. ASSUME NEW s \in Sema, WaitSema(self, s) PROVE Here'
  <2>1. CASE HasToken(s)
    BY <1>3, <2>1, StillSettled DEF WaitSema, schedVars
  <2>2. CASE ~HasToken(s)
    <3>1. ready \in Seq(Thread)
      BY DEF TypeOK
    <3> QED BY <1>3, <2>2, <3>1, BlockCurrentSettles DEF WaitSema
  <2> QED BY <2>1, <2>2
<1>4. ASSUME NEW s \in Sema, PollSema(self, s) PROVE Here'
  BY <1>4, StillSettled DEF PollSema, schedVars, hostVars
<1> QED BY <1>1, <1>2, <1>3, <1>4 DEF SemaCall

(* A host that waits on a condition variable goes on elsewhere.            *)
LEMMA TakeBatonSettles ==
  ASSUME TypeOK, Here, NEW self \in Thread, host[self].at \in CvAt,
         NEW place \in {"guest", "finPark"}, place = "finPark" => host[self].on = self,
         TakeBaton(self, place)
  PROVE  Here'
<1>1. /\ Released(self)
      /\ allowed' = [allowed EXCEPT ![host[self].on] = FALSE]
      /\ host' = [host EXCEPT ![self] = At(place, host[self].on)]
      /\ exitReq' = exitReq /\ current' = current
  BY DEF TakeBaton, schedVars
<1>2. OnlyOne(host, allowed, exitReq, current, self)
  BY <1>1, ActorIsTheOne DEF Here, CanGoOn, Released
<1>3. host[self].on \in Nat
  BY DEF TypeOK
<1> DEFINE al == [allowed EXCEPT ![host[self].on] = FALSE]
<1>4. al \in Flags
  BY Types DEF Flags
<1>5. \A x \in Thread : al[x] => allowed[x] /\ exitReq[x]
  BY <1>2, Types DEF Flags, OnlyOne
<1>6. CASE place = "guest"
  <2>1. OnlyOne([host EXCEPT ![self] = At(place, host[self].on)], al, exitReq, current, self)
    <3> HIDE DEF al
    <3> QED BY <1>2, <1>3, <1>4, <1>5, <1>6, Types, GoesOn
  <2> QED BY <1>1, <2>1 DEF Here, Settled
<1>7. CASE place = "finPark"
  <2>1. Settled([host EXCEPT ![self] = At("finPark", self)], al, exitReq, current)
    <3> HIDE DEF al
    <3> QED BY <1>2, <1>4, <1>5, Types, ParksItself
  <2> QED BY <1>1, <1>7, <2>1 DEF Here
<1> QED BY <1>6, <1>7

LEMMA HostStepSettles ==
  ASSUME TypeOK, Here, NEW self \in Thread, HostStep(self)
  PROVE  Here'
<1>1. ASSUME ReturnFromSwitch(self) PROVE Here'
  BY <1>1, TakeBatonSettles DEF ReturnFromSwitch, CvAt
<1>2. ASSUME BeginThread(self) PROVE Here'
  BY <1>2, TakeBatonSettles DEF BeginThread, CvAt
<1>3. ASSUME ReturnToPark(self) PROVE Here'
  <2>1. host[self].at = "finSwitch" /\ Released(self) /\ TakeBaton(self, "finPark")
    BY <1>3 DEF ReturnToPark, TakeBaton
  <2>2. OnlyOne(host, allowed, exitReq, current, self)
    BY <2>1, ActorIsTheOne DEF Here, CanGoOn, Released, CvAt
  <2>3. host[self].on = self
    BY <2>1, <2>2 DEF OnlyOne, PlacesFit
  <2> QED BY <2>1, <2>3, TakeBatonSettles DEF CvAt
<1>4. ASSUME WakeJoiner(self) PROVE Here'
  BY <1>4, StillSettled DEF WakeJoiner, hostVars, Here
<1>5. ASSUME ExitHandOff(self) PROVE Here'
  <2>1. host[self].at = "exitWake" /\ host[self].at \in ExecutingAt
    BY <1>5 DEF ExitHandOff, ExecutingAt
  <2>2. OnlyOne(host, allowed, exitReq, current, self)
    BY <2>1, ActorIsTheOne DEF Here, CanGoOn, RunAt
  <2>3. host[self].on = current
    BY <2>1, <2>2 DEF OnlyOne, PlacesFit
  <2> QED BY <1>5, <2>1, <2>3, HandOffSettles DEF ExitHandOff, Here
<1>6. ASSUME FinishHandOff(self) PROVE Here'
  <2>1. host[self].at = "finWake" /\ host[self].at \in ExecutingAt
    BY <1>6 DEF FinishHandOff, ExecutingAt
  <2>2. CASE current = self
    BY <1>6, <2>1, <2>2, HandOffSettles DEF FinishHandOff, Here
  <2>3. CASE current # self
    <3>1. OnlyOne(host, allowed, exitReq, current, self)
      BY <2>1, ActorIsTheOne DEF Here, CanGoOn, RunAt
    <3>2. \A x \in Thread : allowed[x] => allowed[x] /\ exitReq[x]
      BY <2>1, <3>1 DEF OnlyOne, CvAt
    <3>3. Settled([host EXCEPT ![self] = At("finPark", self)], allowed, exitReq, current)
      BY <3>1, <3>2, Types, ParksItself
    <3> QED BY <1>6, <2>3, <3>3 DEF FinishHandOff, Here
  <2> QED BY <2>2, <2>3
<1> QED BY <1>1, <1>2, <1>3, <1>4, <1>5, <1>6 DEF HostStep

-----------------------------------------------------------------------------
(* What the calls of EEKernelAdmin do to it. *)

LEMMA AdminCallSettles ==
  ASSUME TypeOK, Here, NEW self \in Thread, AdminCall(self)
  PROVE  Here'
<1>1. ASSUME NEW t \in Thread, DeleteThread(self, t) PROVE Here'
  <2>1. CASE Joinable(t)
    <3>1. /\ host' = [host EXCEPT ![self] = At("joinDelete", t)]
          /\ allowed' = [allowed EXCEPT ![t] = TRUE]
          /\ exitReq' = [exitReq EXCEPT ![t] = TRUE]
          /\ current' = current /\ InGuest(self) /\ t # current
      BY <1>1, <2>1 DEF DeleteThread, TellToExit
    <3>2. OnlyOne(host, allowed, exitReq, current, self) /\ host[self].at \in ExecutingAt
      BY <3>1, GuestIsTheOne DEF Here
    <3>3. Settled([host EXCEPT ![self] = At("joinDelete", t)], [allowed EXCEPT ![t] = TRUE],
                  [exitReq EXCEPT ![t] = TRUE], current)
      BY <3>1, <3>2, Types, TellsToExit
    <3> QED BY <3>1, <3>3 DEF Here
  <2>2. CASE ~Joinable(t)
    BY <1>1, <2>2, StillSettled DEF DeleteThread, hostVars, Here
  <2> QED BY <2>1, <2>2
<1>2. ASSUME NEW t \in Thread, TerminateThread(self, t) PROVE Here'
  BY <1>2, StillSettled DEF TerminateThread, hostVars, Here
<1>3. ASSUME NEW t \in Thread, ReleaseWaitThread(self, t) PROVE Here'
  <2>1. ReadyInsert(ready, prio, t) \in Seq(Thread)
    BY ReadyInsertType DEF TypeOK
  <2> QED BY <1>3, <2>1, MaybePreemptSettles DEF ReleaseWaitThread, Here
<1>4. ASSUME NEW s \in Sema, DeleteSema(self, s) PROVE Here'
  <2>1. /\ host' = [host EXCEPT ![self] = At("semaWake", s)]
        /\ UNCHANGED <<allowed, exitReq, current>> /\ InGuest(self) /\ s \in Nat
    BY <1>4, SemaAssumption DEF DeleteSema, schedVars
  <2> QED BY <2>1, MovesOn DEF Here
<1> QED BY <1>1, <1>2, <1>3, <1>4 DEF AdminCall, RemovalCall

(* A host goes on executing in another place.                              *)
LEMMA HostMoves ==
  ASSUME TypeOK, Here, NEW self \in Thread, CanGoOn(host, allowed, exitReq, self),
         NEW place \in {"guest", "finWake", "exited"}, NEW on \in Nat,
         place = "finWake" => on = self,
         place = "exited" => exitReq[self],
         NEW al2 \in Flags, \A x \in Thread : al2[x] => allowed[x] /\ exitReq[x],
         host' = [host EXCEPT ![self] = At(place, on)], allowed' = al2,
         UNCHANGED <<exitReq, current>>
  PROVE  Here'
<1>1. OnlyOne(host, allowed, exitReq, current, self)
  BY ActorIsTheOne DEF Here
<1>2. OnlyOne([host EXCEPT ![self] = At(place, on)], al2, exitReq, current, self)
  BY <1>1, Types, GoesOn
<1>3. exitReq' = exitReq /\ current' = current
  OBVIOUS
<1> QED BY <1>2, <1>3 DEF Here, Settled

(* Before the destructor only DeleteThread ever gets its join: no host is  *)
(* at its end while another is in StartThread's.                           *)
LEMMA OnlyDeletionJoins ==
  ASSUME Here, NEW self \in Thread, JoinReturns(self)
  PROVE  LET t == host[self].on
         IN  /\ t \in Thread /\ host[self].at = "joinDelete" /\ host[t].at = "exited"
             /\ host' = [host EXCEPT ![self] = At("guest", self), ![t] = At("none", t)]
             /\ UNCHANGED <<schedVars, attrVars, ctlVars, semaVars, allowed, exitReq>>
<1>1. PlacesKnown(host) /\ host[self].at \in {"joinStart", "joinDelete"}
  BY DEF JoinReturns, Here, Settled, Stuck, OnlyOne, PlacesFit
<1>2. host[self].on \in Thread /\ host[host[self].on].at = "exited"
  BY <1>1 DEF JoinReturns, PlacesKnown
<1>3. host[self].at # "joinStart"
  BY <1>1, <1>2 DEF Here, Settled, Stuck, OnlyOne, PlacesFit, CanGoOn, RunAt
<1> QED BY <1>1, <1>2, <1>3 DEF JoinReturns

LEMMA AdminHostStepSettles ==
  ASSUME TypeOK, Here, NEW self \in Thread, AdminHostStep(self)
  PROVE  Here'
<1>0. self \in Nat /\ \A h \in Thread : host[h].on \in Nat
  BY MainIsThread DEF TypeOK
<1>1. ASSUME DeleteSemaWake(self) PROVE Here'
  BY <1>1, StillSettled DEF DeleteSemaWake, hostVars, Here
<1>2. ASSUME DeleteSemaEnd(self) PROVE Here'
  <2>1. /\ host' = [host EXCEPT ![self] = At("guest", self)]
        /\ allowed' = allowed /\ UNCHANGED <<exitReq, current>> /\ host[self].at = "semaWake"
    BY <1>2 DEF DeleteSemaEnd, schedVars
  <2>2. CanGoOn(host, allowed, exitReq, self)
    BY <2>1 DEF CanGoOn, RunAt, ExecutingAt
  <2>3. \A x \in Thread : allowed[x] => allowed[x] /\ exitReq[x]
    BY <2>1, <2>2, ActorIsTheOne DEF Here, OnlyOne, CvAt
  <2> QED BY <1>0, <2>1, <2>2, <2>3, Types, HostMoves
<1>3. ASSUME BeginExiting(self) PROVE Here'
  <2> DEFINE al == [allowed EXCEPT ![self] = FALSE]
  <2>1. /\ host' = [host EXCEPT ![self] = At("finWake", self)]
        /\ allowed' = al /\ UNCHANGED <<exitReq, current>>
        /\ host[self].at = "start" /\ exitReq[self]
    BY <1>3 DEF BeginExiting
  <2>2. host[self].on = self
    BY <2>1 DEF Here, Settled, Stuck, OnlyOne, PlacesFit, PlacesKnown
  <2>3. CanGoOn(host, allowed, exitReq, self)
    BY <2>1, <2>2 DEF CanGoOn, CvAt
  <2>4. al \in Flags
    BY Types DEF Flags
  <2>5. \A x \in Thread : al[x] => allowed[x] /\ exitReq[x]
    BY <2>2, <2>3, ActorIsTheOne, Types DEF Here, OnlyOne, Flags
  <2> HIDE DEF al
  <2> QED BY <1>0, <2>1, <2>3, <2>4, <2>5, HostMoves
<1>4. ASSUME LeavePark(self) PROVE Here'
  <2> DEFINE place == IF host[self].at = "exitPark" THEN "guest" ELSE "exited"
  <2>0. [host[self] EXCEPT !.at = place] = At(place, host[self].on)
    <3>1. host[self] \in [at : HostAt, on : Nat]
      BY DEF TypeOK
    <3> QED BY <3>1 DEF At
  <2>1. /\ host' = [host EXCEPT ![self] = At(place, host[self].on)]
        /\ allowed' = allowed /\ UNCHANGED <<exitReq, current>>
        /\ host[self].at \in ParkAt /\ exitReq[host[self].on]
    <3>1. host' = [host EXCEPT ![self] = [host[self] EXCEPT !.at = place]]
      BY <1>4 DEF LeavePark, TypeOK
    <3> QED BY <1>4, <2>0, <3>1 DEF LeavePark, schedVars, ParkAt
  <2>2. CanGoOn(host, allowed, exitReq, self)
    BY <2>1 DEF CanGoOn
  <2>3. OnlyOne(host, allowed, exitReq, current, self)
    BY <2>2, ActorIsTheOne DEF Here
  <2>4. \A x \in Thread : allowed[x] => allowed[x] /\ exitReq[x]
    BY <2>1, <2>3 DEF OnlyOne, CvAt, ParkAt
  <2>5. place = "exited" => exitReq[self]
    BY <2>1, <2>3 DEF OnlyOne, PlacesFit, ParkAt
  <2>6. place \in {"guest", "exited"}
    OBVIOUS
  <2> HIDE DEF place
  <2> QED BY <1>0, <2>1, <2>2, <2>4, <2>5, <2>6, Types, HostMoves
<1>5. ASSUME JoinReturns(self) PROVE Here'
  <2> DEFINE t == host[self].on
  <2>1. /\ host[self].at = "joinDelete" /\ host[t].at = "exited"
        /\ host' = [host EXCEPT ![self] = At("guest", self), ![t] = At("none", t)]
        /\ UNCHANGED <<allowed, exitReq, current>>
    BY <1>5, OnlyDeletionJoins DEF schedVars
  <2>2. t \in Thread
    BY <1>5, OnlyDeletionJoins
  <2> HIDE DEF t
  <2>3. OnlyOne(host, allowed, exitReq, current, t)
    BY <2>1, <2>2, ActorIsTheOne DEF Here, CanGoOn, RunAt
  <2>4. Settled([host EXCEPT ![self] = At("guest", self), ![t] = At("none", t)],
                allowed, exitReq, current)
    BY <2>1, <2>2, <2>3, Types, Joins
  <2> QED BY <2>1, <2>4 DEF Here
<1>6. ASSUME HostStep(self) PROVE Here'
  BY <1>6, HostStepSettles
<1> QED BY <1>1, <1>2, <1>3, <1>4, <1>5, <1>6 DEF AdminHostStep

LEMMA ThreadCallKeepsControl ==
  ASSUME NEW self \in Thread, ThreadCall(self)
  PROVE  destroying' = destroying
BY DEF ThreadCall, CreateThread, StartThread, Launch, ExitThread, FinishThread,
       ChangeThreadPriority, RotateThreadReadyQueue, SleepThread, WakeupThread,
       CancelWakeupThread, SuspendThread, ResumeThread, JoinThread,
       DisableDispatchThread, EnableDispatchThread, KExit, ctlVars

LEMMA SemaCallKeepsControl ==
  ASSUME NEW self \in Thread, SemaCall(self)
  PROVE  destroying' = destroying
BY DEF SemaCall, CreateSema, SignalSema, WaitSema, PollSema, ctlVars

-----------------------------------------------------------------------------
(* Before the destructor. *)

LEMMA InitHere == Init => Here
<1> SUFFICES ASSUME Init PROVE OnlyOne(host, allowed, exitReq, current, Main)
  BY MainIsThread DEF Here, Settled
<1>1. /\ host[Main].at = "guest" /\ \A h \in Thread : h # Main => host[h].at = "none"
      /\ current = Main
      /\ \A x \in Thread : ~allowed[x] /\ ~exitReq[x]
  BY MainIsThread DEF Init, At
<1>2. \A h \in Thread : ~Waits(host, h)
  BY <1>1, MainIsThread DEF Waits, CvAt, ParkAt
<1>3. \A h \in Thread : h # Main => ~CanGoOn(host, allowed, exitReq, h)
  BY <1>1, MainIsThread DEF CanGoOn, RunAt, ExecutingAt, CvAt, ParkAt
<1>4. PlacesFit(host, exitReq, current)
  BY <1>1, MainIsThread DEF PlacesFit, PlacesKnown
<1>5. WaitsApart(host)
  BY <1>2 DEF WaitsApart
<1> QED BY <1>1, <1>2, <1>3, <1>4, <1>5, MainIsThread DEF OnlyOne

(* The destructor's host is nowhere in ~Kernel before it is.               *)
LEMMA NoDestructorYet ==
  ASSUME Here
  PROVE  host[Main].at \notin {"dtor", "dtorJoin"}
<1> SUFFICES ASSUME host[Main].at \in {"dtor", "dtorJoin"} PROVE FALSE
  OBVIOUS
<1>1. CanGoOn(host, allowed, exitReq, Main)
  BY DEF CanGoOn, RunAt, ExecutingAt
<1>2. PlacesFit(host, exitReq, current)
  BY <1>1, MainIsThread, ActorIsTheOne DEF Here, OnlyOne
<1> QED BY <1>2, MainIsThread DEF PlacesFit

LEMMA NextSettles == TypeOK /\ AdminInv /\ [AdminNext]_vars => AdminInv'
<1> SUFFICES ASSUME TypeOK, AdminInv, [AdminNext]_vars, ~destroying' PROVE Here'
  BY DEF AdminInv
<1>1. CASE UNCHANGED vars
  <2>1. ~destroying /\ UNCHANGED <<host, allowed, exitReq, current>>
    BY <1>1 DEF vars, schedVars, ctlVars, hostVars
  <2> QED BY <2>1, StillSettled DEF AdminInv, Here
<1>2. ASSUME NEW self \in Thread,
             ThreadCall(self) \/ SemaCall(self) \/ AdminCall(self) \/ AdminHostStep(self)
      PROVE  Here'
  <2>1. destroying' = destroying
    <3>1. CASE ThreadCall(self)
      BY <3>1, ThreadCallKeepsControl
    <3>2. CASE SemaCall(self)
      BY <3>2, SemaCallKeepsControl
    <3>3. CASE AdminCall(self)
      BY <3>3 DEF AdminCall, RemovalCall, DeleteThread, TerminateThread, ReleaseWaitThread, DeleteSema, ctlVars
    <3>4. CASE AdminHostStep(self)
      BY <3>4 DEF AdminHostStep, HostStep, ReturnFromSwitch, BeginThread, ReturnToPark, TakeBaton,
                  WakeJoiner, ExitHandOff, FinishHandOff, DeleteSemaWake, DeleteSemaEnd,
                  BeginExiting, LeavePark, JoinReturns, Launch, ctlVars
    <3> QED BY <1>2, <3>1, <3>2, <3>3, <3>4
  <2>2. ~destroying /\ Here
    BY <2>1 DEF AdminInv
  <2> QED BY <1>2, <2>2, ThreadCallSettles, SemaCallSettles, AdminCallSettles, AdminHostStepSettles
<1>3. CASE Destroy
  BY <1>3 DEF Destroy
<1>4. CASE DestroyStep
  <2>1. ~destroying /\ host[Main].at \in {"dtor", "dtorJoin"}
    BY <1>4 DEF DestroyStep, DestroySignal, DestroyJoin, DestroyEnd, ctlVars
  <2> QED BY <2>1, NoDestructorYet DEF AdminInv
<1> QED BY <1>1, <1>2, <1>3, <1>4 DEF AdminNext

-----------------------------------------------------------------------------
(* Type correctness, the teardown included. *)

(* A host wakes the waiters of a semaphore that exists, and starts again a *)
(* thread that exists.                                                     *)
WakesKnown ==
  \A h \in Thread :
    /\ host[h].at = "semaWake" => host[h].on \in Sema
    /\ host[h].at = "joinStart" => host[h].on \in Thread

AdminTypes == TypeOK /\ WakesKnown

LEMMA PlaceType ==
  ASSUME TypeOK, NEW self \in Thread, NEW place \in HostAt, NEW on \in Nat
  PROVE  [host EXCEPT ![self] = At(place, on)] \in Hosts
BY DEF TypeOK, Hosts, At

(* What Erased returns is a queue of the same kind, that holds the other   *)
(* elements.  Its recursion has no induction theorem the provers can use,  *)
(* so these facts are proved by the least counterexample.                  *)

Erases(q, t, n, f) ==
  f = [i \in 0..n |-> IF i = 0 THEN <<>> ELSE IF q[i] = t THEN f[i - 1] ELSE Append(f[i - 1], q[i])]

LEMMA ErasesExists ==
  ASSUME NEW q, NEW t, NEW n \in Nat
  PROVE  \E f : Erases(q, t, n, f)
<1> DEFINE T == {m \in Nat : ~\E f : Erases(q, t, m, f)}
<1>1. SUFFICES ASSUME T # {} PROVE FALSE
  OBVIOUS
<1>2. PICK m \in T : \A k \in T : m <= k
  BY <1>1, LeastNatural
<1>3. CASE m = 0
  <2>1. Erases(q, t, 0, [i \in 0..0 |-> <<>>])
    BY DEF Erases
  <2> QED BY <1>3, <2>1
<1>4. CASE m # 0
  <2>1. m - 1 \in Nat /\ m - 1 \notin T
    BY <1>2, <1>4
  <2>2. PICK f : Erases(q, t, m - 1, f)
    BY <2>1
  <2> DEFINE g == [i \in 0..m |-> IF i = m THEN IF q[m] = t THEN f[m - 1] ELSE Append(f[m - 1], q[m])
                                  ELSE f[i]]
  <2>3. Erases(q, t, m, g)
    <3>1. \A i \in 0..(m - 1) : f[i] = IF i = 0 THEN <<>> ELSE IF q[i] = t THEN f[i - 1] ELSE Append(f[i - 1], q[i])
      BY <2>2 DEF Erases
    <3>2. \A i \in 0..m : i # m => g[i] = f[i] /\ i \in 0..(m - 1) 
      OBVIOUS
    <3>3. \A i \in 0..m : i # 0 => g[i - 1] = f[i - 1]
      OBVIOUS
    <3>4. \A i \in 0..m : g[i] = IF i = 0 THEN <<>> ELSE IF q[i] = t THEN g[i - 1] ELSE Append(g[i - 1], q[i])
      <4> TAKE i \in 0..m
      <4>1. CASE i = m
        BY <1>4, <3>3, <4>1
      <4>2. CASE i # m
        BY <3>1, <3>2, <3>3, <4>2
      <4> QED BY <4>1, <4>2
    <3>5. g = [i \in 0..m |-> g[i]]
      OBVIOUS
    <3> HIDE DEF g
    <3> QED BY <3>4, <3>5 DEF Erases
  <2> QED BY <2>3
<1> QED BY <1>3, <1>4

LEMMA ErasedElements ==
  ASSUME NEW S, NEW q \in Seq(S), NEW t
  PROVE  /\ Erased(q, t) \in Seq(S)
         /\ \A x : Contains(Erased(q, t), x) <=> (x # t /\ Contains(q, x))
         /\ NoRepeats(q) => NoRepeats(Erased(q, t))
<1> DEFINE n == Len(q)
           F == CHOOSE f : Erases(q, t, n, f)
<1>0. n \in Nat
  OBVIOUS
<1>1. Erases(q, t, n, F)
  BY <1>0, ErasesExists
<1>2. Erased(q, t) = F[n]
  BY DEF Erased, Erases
<1> HIDE DEF F
<1> DEFINE Good(r, i) == /\ r \in Seq(S)
                         /\ \A x : Contains(r, x) <=> (x # t /\ \E j \in 1..i : q[j] = x)
                         /\ NoRepeats(q) => NoRepeats(r)
           T == {i \in 0..n : ~Good(F[i], i)}
<1>3. SUFFICES ASSUME T # {} PROVE FALSE
  <2>1. Good(F[n], n) => /\ F[n] \in Seq(S)
                         /\ \A x : Contains(F[n], x) <=> (x # t /\ Contains(q, x))
                         /\ NoRepeats(q) => NoRepeats(F[n])
    BY DEF Contains
  <2> HIDE DEF Good
  <2>2. T = {} => Good(F[n], n)
    BY <1>0
  <2> QED BY <1>2, <2>1, <2>2
<1>4. PICK m \in T : \A k \in T : m <= k
  <2>1. T \subseteq Nat
    BY <1>0
  <2> HIDE DEF T
  <2> QED BY <1>3, <2>1, LeastNatural
<1>5. m \in 0..n /\ ~Good(F[m], m)
  OBVIOUS
<1>6. F[m] = IF m = 0 THEN <<>> ELSE IF q[m] = t THEN F[m - 1] ELSE Append(F[m - 1], q[m])
  BY <1>1, <1>5 DEF Erases
<1>7. CASE m = 0
  <2>1. Good(<<>>, 0)
    BY DEF Contains, NoRepeats
  <2> QED BY <1>5, <1>6, <1>7, <2>1
<1>8. CASE m # 0
  <2> DEFINE r == F[m - 1]
             e == q[m]
  <2>1. m - 1 \in 0..n /\ m - 1 \notin T
    <3> HIDE DEF Good
    <3>1. m - 1 \in 0..n /\ ~(m <= m - 1)
      BY <1>0, <1>5, <1>8
    <3> HIDE DEF T
    <3> QED BY <1>4, <3>1
  <2>2. Good(r, m - 1)
    <3> HIDE DEF Good
    <3> QED BY <2>1
  <2>3. e \in S /\ m \in 1..Len(q)
    BY <1>0, <1>5, <1>8
  <2>4. \A x : (\E j \in 1..m : q[j] = x) <=> (x = e \/ \E j \in 1..(m - 1) : q[j] = x)
    BY <1>5, <1>8
  <2>5. NoRepeats(q) => ~\E j \in 1..(m - 1) : q[j] = e
    BY <1>5, <2>3 DEF NoRepeats
  <2>6. F[m] = IF e = t THEN r ELSE Append(r, e)
    BY <1>6, <1>8
  <2> HIDE DEF r, e
  <2>7. CASE e = t
    BY <1>5, <2>2, <2>4, <2>6, <2>7
  <2>8. CASE e # t
    <3>1. r \in Seq(S) /\ e \in S
      BY <2>2, <2>3
    <3>2. \A x : Contains(Append(r, e), x) <=> (x = e \/ Contains(r, x))
      BY <3>1, AppendContains, Zenon
    <3>3. NoRepeats(q) => NoRepeats(Append(r, e))
      <4>1. NoRepeats(q) => NoRepeats(r) /\ ~Contains(r, e)
        BY <2>2, <2>5
      <4> QED BY <3>1, <4>1, AppendNoRepeats, Zenon
    <3>4. Append(r, e) \in Seq(S)
      BY <3>1
    <3> DEFINE a == Append(r, e)
    <3>5. a \in Seq(S) /\ (\A x : Contains(a, x) <=> (x = e \/ Contains(r, x))) /\ (NoRepeats(q) => NoRepeats(a))
      BY <3>2, <3>3, <3>4, Zenon
    <3>6. F[m] = a
      BY <2>6, <2>8
    <3> HIDE DEF a
    <3>7. Good(a, m)
      BY <2>2, <2>4, <2>8, <3>5
    <3> QED BY <1>5, <3>6, <3>7
  <2> QED BY <2>7, <2>8
<1> QED BY <1>7, <1>8

LEMMA QueuesWithoutType ==
  ASSUME TypeOK, NEW t \in Thread
  PROVE  ReadyRemove(ready, t) \in Seq(Thread) /\ WaitersWithout(t) \in [Sema -> Seq(Thread)]
<1>1. ReadyRemove(ready, t) \in Seq(Thread)
  BY ReadyRemoveType DEF TypeOK
<1>2. \A s \in Sema : Erased(waiters[s], t) \in Seq(Thread)
  <2> TAKE s \in Sema
  <2>1. waiters[s] \in Seq(Thread)
    BY DEF TypeOK
  <2> QED BY <2>1, ErasedElements
<1> QED BY <1>1, <1>2 DEF WaitersWithout

LEMMA AdminCallType ==
  ASSUME TypeOK, NEW self \in Thread, AdminCall(self)
  PROVE  TypeOK'
<1>0. self \in Nat /\ Thread \subseteq Nat
  BY MainIsThread
<1>1. ASSUME NEW t \in Thread, DeleteThread(self, t) PROVE TypeOK'
  <2>1. host' \in Hosts /\ allowed' \in [Thread -> BOOLEAN] /\ exitReq' \in [Thread -> BOOLEAN]
    <3>1. [host EXCEPT ![self] = At("joinDelete", t)] \in Hosts
      BY <1>0, PlaceType DEF HostAt
    <3> QED BY <1>1, <3>1 DEF DeleteThread, TellToExit, hostVars, TypeOK, Hosts
  <2>2. status' \in [Thread -> Status] /\ ready' \in Seq(Thread) /\ waiters' \in [Sema -> Seq(Thread)]
    BY <1>1, QueuesWithoutType DEF DeleteThread, TypeOK, Status
  <2> QED BY <1>1, <2>1, <2>2 DEF DeleteThread, TypeOK, Hosts, attrVars, ctlVars
<1>2. ASSUME NEW t \in Thread, TerminateThread(self, t) PROVE TypeOK'
  <2>1. status' \in [Thread -> Status] /\ ready' \in Seq(Thread) /\ waiters' \in [Sema -> Seq(Thread)]
    BY <1>2, QueuesWithoutType DEF TerminateThread, TypeOK, Status
  <2> QED BY <1>2, <2>1 DEF TerminateThread, TypeOK, attrVars, ctlVars, hostVars
<1>3. ASSUME NEW t \in Thread, ReleaseWaitThread(self, t) PROVE TypeOK'
  <2>1. SchedTypeOK'
    <3>1. [status EXCEPT ![t] = "READY"] \in [Thread -> Status] /\ ReadyInsert(ready, prio, t) \in Seq(Thread)
      BY MakeReadyType DEF TypeOK
    <3> QED BY <1>3, <3>1, MaybePreemptType DEF ReleaseWaitThread
  <2> QED BY <1>3, <2>1, WaitTypes DEF ReleaseWaitThread, TypeOK, SchedTypeOK, Hosts, attrVars, ctlVars, semaVars
<1>4. ASSUME NEW s \in Sema, DeleteSema(self, s) PROVE TypeOK'
  <2>1. [host EXCEPT ![self] = At("semaWake", s)] \in Hosts
    BY SemaAssumption, PlaceType DEF HostAt
  <2> QED BY <1>4, <2>1 DEF DeleteSema, TypeOK, Hosts, schedVars, attrVars, ctlVars, semaVars
<1> QED BY <1>1, <1>2, <1>3, <1>4 DEF AdminCall, RemovalCall

LEMMA AdminHostStepType ==
  ASSUME TypeOK, WakesKnown, NEW self \in Thread, AdminHostStep(self)
  PROVE  TypeOK'
<1>0. self \in Nat /\ Thread \subseteq Nat
  BY MainIsThread
<1>1. ASSUME DeleteSemaWake(self) PROVE TypeOK'
  <2> DEFINE s == host[self].on
             t == FirstWaiter(s)
  <2>1. s \in Sema
    BY <1>1 DEF DeleteSemaWake, WakesKnown
  <2>2. waiters[s] \in Seq(Thread) /\ waiters[s] # <<>>
    BY <1>1, <2>1 DEF DeleteSemaWake, TypeOK
  <2>3. t \in Thread /\ OtherWaiters(s) \in Seq(Thread)
    BY <2>2, HeadTailProperties DEF FirstWaiter, OtherWaiters
  <2>4. ReadyInsert(ready, prio, t) \in Seq(Thread)
    BY <2>3, ReadyInsertType DEF TypeOK
  <2>5. /\ waiters' = [waiters EXCEPT ![s] = OtherWaiters(s)]
        /\ status' = [status EXCEPT ![t] = "READY"]
        /\ wait' = [wait EXCEPT ![t] = NotWaiting]
        /\ ready' = ReadyInsert(ready, prio, t)
    BY <1>1 DEF DeleteSemaWake
  <2>6. waiters' \in [Sema -> Seq(Thread)] /\ status' \in [Thread -> Status]
    <3> HIDE DEF s, t
    <3> QED BY <2>1, <2>3, <2>5 DEF TypeOK, Status
  <2>7. wait' \in [Thread -> Wait] /\ ready' \in Seq(Thread)
    <3> HIDE DEF s, t
    <3> QED BY <2>3, <2>4, <2>5, WaitTypes DEF TypeOK
  <2> QED BY <1>1, <2>6, <2>7 DEF DeleteSemaWake, TypeOK, attrVars, ctlVars, hostVars
<1>2. ASSUME DeleteSemaEnd(self) PROVE TypeOK'
  <2>1. [host EXCEPT ![self] = At("guest", self)] \in Hosts
    BY <1>0, PlaceType DEF HostAt
  <2> QED BY <1>2, <2>1 DEF DeleteSemaEnd, TypeOK, Hosts, schedVars, attrVars, ctlVars
<1>3. ASSUME BeginExiting(self) PROVE TypeOK'
  <2>1. [host EXCEPT ![self] = At("finWake", self)] \in Hosts
    BY <1>0, PlaceType DEF HostAt
  <2> QED BY <1>3, <2>1, WaitTypes DEF BeginExiting, TypeOK, Hosts, Status, attrVars, ctlVars, semaVars
<1>4. ASSUME LeavePark(self) PROVE TypeOK'
  <2> DEFINE place == IF host[self].at = "exitPark" THEN "guest" ELSE "exited"
  <2>1. [host[self] EXCEPT !.at = place] \in [at : HostAt, on : Nat]
    BY DEF TypeOK, HostAt
  <2>2. host' = [host EXCEPT ![self] = [host[self] EXCEPT !.at = place]]
    BY <1>4 DEF LeavePark, TypeOK
  <2>3. host' \in Hosts
    BY <2>1, <2>2 DEF TypeOK, Hosts
  <2> QED BY <1>4, <2>3 DEF LeavePark, TypeOK, Hosts, schedVars, attrVars, ctlVars, semaVars
<1>5. ASSUME JoinReturns(self), host[self].at = "joinStart" PROVE TypeOK'
  <2>1. host[self].on \in Thread /\ Launch(self, host[self].on)
    BY <1>5 DEF JoinReturns, WakesKnown
  <2> QED BY <2>1, LaunchType
<1>6. ASSUME JoinReturns(self), host[self].at # "joinStart" PROVE TypeOK'
  <2> DEFINE t == host[self].on
  <2>1. host' = [host EXCEPT ![self] = At("guest", self), ![t] = At("none", t)]
    BY <1>6 DEF JoinReturns
  <2>2. /\ At("guest", self) \in [at : HostAt, on : Nat]
        /\ At("none", t) \in [at : HostAt, on : Nat]
    BY <1>0 DEF At, HostAt, TypeOK
  <2>3. host' \in Hosts
    <3> HIDE DEF t
    <3> QED BY <2>1, <2>2 DEF TypeOK, Hosts
  <2> QED BY <1>6, <2>3 DEF JoinReturns, TypeOK, Hosts, schedVars, attrVars, ctlVars, semaVars
<1> QED BY <1>1, <1>2, <1>3, <1>4, <1>5, <1>6, HostStepType DEF AdminHostStep

LEMMA TeardownType ==
  ASSUME TypeOK, Destroy \/ DestroyStep
  PROVE  TypeOK'
<1>0. Main \in Thread /\ Thread \subseteq Nat /\ Main \in Nat
  BY MainIsThread
<1>1. CASE Destroy
  <2>1. [host EXCEPT ![Main] = At("dtor", Main)] \in Hosts
    BY <1>0, PlaceType DEF HostAt
  <2> QED BY <1>1, <2>1 DEF Destroy, TypeOK, Hosts, schedVars, attrVars, semaVars
<1>2. ASSUME NEW t \in Thread, DestroySignal(t) PROVE TypeOK'
  <2>1. [host EXCEPT ![Main] = At("dtor", t)] \in Hosts
    BY <1>0, PlaceType DEF HostAt
  <2> QED BY <1>2, <2>1 DEF DestroySignal, TellToExit, TypeOK, Hosts, schedVars, attrVars, ctlVars, semaVars
<1>3. CASE DestroyJoin
  <2>1. [host EXCEPT ![Main] = At("dtorJoin", Main)] \in Hosts
    BY <1>0, PlaceType DEF HostAt
  <2> QED BY <1>3, <2>1 DEF DestroyJoin, TypeOK, Hosts, schedVars, attrVars, ctlVars, semaVars
<1>4. CASE DestroyEnd
  <2>1. \A t \in Thread : At(IF t = Main THEN "gone" ELSE "none", t) \in [at : HostAt, on : Nat]
    BY <1>0 DEF At, HostAt
  <2>2. host' \in Hosts
    BY <1>4, <2>1 DEF DestroyEnd, Hosts
  <2> QED BY <1>4, <2>2 DEF DestroyEnd, TypeOK, Hosts, schedVars, attrVars, ctlVars, semaVars
<1> QED BY <1>1, <1>2, <1>3, <1>4 DEF DestroyStep

LEMMA WakesUnchanged ==
  ASSUME WakesKnown, host' = host
  PROVE  WakesKnown'
BY DEF WakesKnown

LEMMA WakesMove ==
  ASSUME WakesKnown, host \in Hosts, NEW x \in Thread, NEW on,
         NEW place, place # "semaWake", place = "joinStart" => on \in Thread,
         host' = [host EXCEPT ![x] = At(place, on)]
  PROVE  WakesKnown'
BY DEF WakesKnown, Hosts, At

LEMMA WakesBlocked ==
  ASSUME WakesKnown, host \in Hosts, NEW self \in Thread, NEW st, NEW w, NEW rd,
         BlockCurrent(self, st, w, rd)
  PROVE  WakesKnown'
<1>1. host' = host \/ host' = [host EXCEPT ![self] = At("switch", current)]
  BY DEF BlockCurrent, SwitchTo
<1> QED BY <1>1, WakesUnchanged, WakesMove

LEMMA WakesPreempted ==
  ASSUME WakesKnown, host \in Hosts, NEW self \in Thread, NEW st, NEW rd,
         MaybePreempt(self, st, rd)
  PROVE  WakesKnown'
<1>1. host' = host \/ host' = [host EXCEPT ![self] = At("switch", current)]
  BY DEF MaybePreempt, MaybePreemptFrom, SwitchTo
<1> QED BY <1>1, WakesUnchanged, WakesMove

LEMMA WakesLaunched ==
  ASSUME WakesKnown, host \in Hosts, NEW self \in Thread, NEW t \in Thread, Launch(self, t)
  PROVE  WakesKnown'
<1> DEFINE hs == [host EXCEPT ![self] = At("guest", self), ![t] = At("start", t)]
<1>1. host' = hs \/ host' = [hs EXCEPT ![self] = At("switch", current)]
  BY DEF Launch, MaybePreemptFrom, SwitchTo
<1> QED BY <1>1 DEF WakesKnown, Hosts, At

LEMMA WakesHandedOff ==
  ASSUME WakesKnown, host \in Hosts, NEW self \in Thread, NEW t,
         NEW switching \in {"exitSwitch", "finSwitch"}, NEW parked \in {"exitPark", "finPark"},
         HandOffAndPark(self, t, switching, parked)
  PROVE  WakesKnown'
<1>1. host' = [host EXCEPT ![self] = At(parked, t)] \/ host' = [host EXCEPT ![self] = At(switching, t)]
  BY DEF HandOffAndPark, SwitchTo
<1> QED BY <1>1, WakesMove

LEMMA ThreadCallWakes ==
  ASSUME WakesKnown, host \in Hosts, NEW self \in Thread, ThreadCall(self)
  PROVE  WakesKnown'
<1>1. ASSUME NEW t \in Thread, StartThread(self, t) PROVE WakesKnown'
  <2>1. Launch(self, t) \/ host' = [host EXCEPT ![self] = At("joinStart", t)]
    BY <1>1 DEF StartThread
  <2> QED BY <2>1, WakesLaunched, WakesMove
<1>2. ASSUME ExitThread(self) PROVE WakesKnown'
  <2>1. host' = host \/ host' = [host EXCEPT ![self] = At("exitWake", current)]
    BY <1>2 DEF ExitThread, hostVars
  <2> QED BY <2>1, WakesUnchanged, WakesMove
<1>3. ASSUME FinishThread(self) PROVE WakesKnown'
  BY <1>3, WakesMove DEF FinishThread
<1>4. ASSUME NEW p \in Priority, RotateThreadReadyQueue(self, p) PROVE WakesKnown'
  <2>1. host' = [host EXCEPT ![self] = At("switch", current)]
    BY <1>4 DEF RotateThreadReadyQueue, SwitchTo
  <2> QED BY <2>1, WakesMove
<1>5. ASSUME NEW t \in Thread, SuspendThread(self, t) PROVE WakesKnown'
  BY <1>5, WakesBlocked, WakesUnchanged DEF SuspendThread
<1>6. ASSUME NEW t \in Thread, NEW p \in Priority, ChangeThreadPriority(self, t, p) PROVE WakesKnown'
  BY <1>6, WakesPreempted DEF ChangeThreadPriority
<1>7. ASSUME NEW t \in Thread, WakeupThread(self, t) \/ ResumeThread(self, t) PROVE WakesKnown'
  BY <1>7, WakesPreempted DEF WakeupThread, ResumeThread
<1>8. ASSUME NEW t \in Thread, JoinThread(self, t) PROVE WakesKnown'
  BY <1>8, WakesBlocked DEF JoinThread
<1>9. ASSUME SleepThread(self) PROVE WakesKnown'
  BY <1>9, WakesBlocked, WakesUnchanged DEF SleepThread
<1>10. ASSUME EnableDispatchThread(self) PROVE WakesKnown'
  BY <1>10, WakesPreempted DEF EnableDispatchThread
<1>11. ASSUME \/ \E t \in Thread, p \in Priority : CreateThread(self, t, p)
              \/ \E t \in Thread : CancelWakeupThread(self, t)
              \/ DisableDispatchThread(self) \/ KExit(self)
       PROVE  WakesKnown'
  BY <1>11, WakesUnchanged DEF CreateThread, CancelWakeupThread, DisableDispatchThread, KExit, hostVars
<1> QED BY <1>1, <1>2, <1>3, <1>4, <1>5, <1>6, <1>7, <1>8, <1>9, <1>10, <1>11 DEF ThreadCall

LEMMA SemaCallWakes ==
  ASSUME WakesKnown, host \in Hosts, NEW self \in Thread, SemaCall(self)
  PROVE  WakesKnown'
<1>1. ASSUME NEW s \in Sema, SignalSema(self, s) PROVE WakesKnown'
  BY <1>1, WakesPreempted DEF SignalSema
<1>2. ASSUME NEW s \in Sema, WaitSema(self, s) PROVE WakesKnown'
  BY <1>2, WakesBlocked, WakesUnchanged DEF WaitSema
<1>3. ASSUME \/ \E s \in Sema, p \in SemaInit : CreateSema(self, s, p)
             \/ \E s \in Sema : PollSema(self, s)
      PROVE  WakesKnown'
  BY <1>3, WakesUnchanged DEF CreateSema, PollSema, hostVars
<1> QED BY <1>1, <1>2, <1>3 DEF SemaCall

LEMMA AdminCallWakes ==
  ASSUME WakesKnown, host \in Hosts, NEW self \in Thread, AdminCall(self)
  PROVE  WakesKnown'
<1>1. ASSUME NEW t \in Thread, DeleteThread(self, t) PROVE WakesKnown'
  BY <1>1, WakesMove, WakesUnchanged DEF DeleteThread, hostVars
<1>2. ASSUME NEW t \in Thread, TerminateThread(self, t) PROVE WakesKnown'
  BY <1>2, WakesUnchanged DEF TerminateThread, hostVars
<1>3. ASSUME NEW t \in Thread, ReleaseWaitThread(self, t) PROVE WakesKnown'
  BY <1>3, WakesPreempted DEF ReleaseWaitThread
<1>4. ASSUME NEW s \in Sema, DeleteSema(self, s) PROVE WakesKnown'
  BY <1>4 DEF DeleteSema, WakesKnown, Hosts, At
<1> QED BY <1>1, <1>2, <1>3, <1>4 DEF AdminCall, RemovalCall

LEMMA HostStepWakes ==
  ASSUME WakesKnown, host \in Hosts, NEW self \in Thread, AdminHostStep(self)
  PROVE  WakesKnown'
<1>1. ASSUME NEW place \in {"guest", "finPark"}, TakeBaton(self, place) PROVE WakesKnown'
  BY <1>1, WakesMove DEF TakeBaton
<1>2. ASSUME WakeJoiner(self) \/ DeleteSemaWake(self) PROVE WakesKnown'
  BY <1>2, WakesUnchanged DEF WakeJoiner, DeleteSemaWake, hostVars
<1>3. ASSUME ExitHandOff(self) PROVE WakesKnown'
  BY <1>3, WakesHandedOff DEF ExitHandOff
<1>4. ASSUME FinishHandOff(self) PROVE WakesKnown'
  BY <1>4, WakesHandedOff, WakesMove DEF FinishHandOff
<1>5. ASSUME DeleteSemaEnd(self) \/ BeginExiting(self) PROVE WakesKnown'
  BY <1>5, WakesMove DEF DeleteSemaEnd, BeginExiting
<1>6. ASSUME LeavePark(self) PROVE WakesKnown'
  BY <1>6 DEF LeavePark, WakesKnown, Hosts
<1>7. ASSUME JoinReturns(self) PROVE WakesKnown'
  <2>1. CASE host[self].at = "joinStart"
    BY <1>7, <2>1, WakesLaunched DEF JoinReturns, WakesKnown
  <2>2. CASE host[self].at # "joinStart"
    BY <1>7, <2>2 DEF JoinReturns, WakesKnown, Hosts, At
  <2> QED BY <2>1, <2>2
<1> QED BY <1>1, <1>2, <1>3, <1>4, <1>5, <1>6, <1>7
        DEF AdminHostStep, HostStep, ReturnFromSwitch, BeginThread, ReturnToPark

LEMMA TeardownWakes ==
  ASSUME WakesKnown, host \in Hosts, Destroy \/ DestroyStep
  PROVE  WakesKnown'
<1>1. ASSUME NEW t \in Thread, DestroySignal(t) PROVE WakesKnown'
  BY <1>1, MainIsThread, WakesMove DEF DestroySignal
<1>2. CASE Destroy \/ DestroyJoin
  BY <1>2, MainIsThread, WakesMove DEF Destroy, DestroyJoin
<1>3. CASE DestroyEnd
  BY <1>3 DEF DestroyEnd, WakesKnown, At
<1> QED BY <1>1, <1>2, <1>3 DEF DestroyStep

LEMMA AdminNextType == AdminTypes /\ [AdminNext]_vars => AdminTypes'
<1> SUFFICES ASSUME TypeOK, WakesKnown, [AdminNext]_vars PROVE TypeOK' /\ WakesKnown'
  BY DEF AdminTypes
<1>0. host \in Hosts
  BY Types
<1>1. ASSUME NEW self \in Thread,
             ThreadCall(self) \/ SemaCall(self) \/ AdminCall(self) \/ AdminHostStep(self)
      PROVE  TypeOK' /\ WakesKnown'
  <2>1. TypeOK'
    BY <1>1, ThreadCallType, SemaCallType, AdminCallType, AdminHostStepType
  <2>2. WakesKnown'
    BY <1>0, <1>1, ThreadCallWakes, SemaCallWakes, AdminCallWakes, HostStepWakes
  <2> QED BY <2>1, <2>2
<1>2. CASE UNCHANGED vars
  BY <1>2, WakesUnchanged DEF TypeOK, vars, schedVars, attrVars, ctlVars, semaVars, hostVars
<1>3. CASE Destroy \/ DestroyStep
  BY <1>0, <1>3, TeardownType, TeardownWakes
<1> QED BY <1>1, <1>2, <1>3 DEF AdminNext

LEMMA AdminTyped == AdminSpec => []AdminTypes
<1>1. Init => AdminTypes
  BY InitType DEF AdminTypes, WakesKnown, Init, At
<1> QED BY <1>1, AdminNextType, PTL DEF AdminSpec

-----------------------------------------------------------------------------
(* Every call leaves the state well typed, those of hosts that run at once *)
(* during the teardown included.                                           *)
THEOREM AdminTypeCorrect == AdminSpec => []TypeOK
BY AdminTyped, PTL DEF AdminTypes

LEMMA AdminInvariant == AdminSpec => []AdminInv
<1>1. Init => AdminInv
  BY InitHere DEF AdminInv
<1> QED BY <1>1, NextSettles, AdminTypeCorrect, PTL DEF AdminSpec

LEMMA OneCanGoOn ==
  ASSUME AdminInv, ~destroying
  PROVE  \E k \in Thread : \A h \in Thread : CanGoOn(host, allowed, exitReq, h) => h = k
BY MainIsThread DEF AdminInv, Here, Settled, Stuck, OnlyOne

LEMMA AdminInvImplies == AdminInv => OneHostExecutes /\ StuckForever
<1> SUFFICES ASSUME AdminInv, ~destroying
             PROVE  OneHostExecutes /\ StuckForever
  BY DEF OneHostExecutes, StuckForever
<1>1. \A h \in Executing : CanGoOn(host, allowed, exitReq, h)
  BY DEF Executing, CanGoOn, RunAt, ExecutingAt
<1>2. OneHostExecutes
  <2>1. PICK k \in Thread : \A h \in Thread : CanGoOn(host, allowed, exitReq, h) => h = k
    BY OneCanGoOn
  <2>2. Executing \subseteq {k}
    BY <1>1, <2>1 DEF Executing
  <2>3. Cardinality({k}) = 1 /\ IsFiniteSet({k})
    BY FS_Singleton
  <2>4. Cardinality(Executing) <= Cardinality({k})
    BY <2>2, <2>3, FS_Subset
  <2> QED BY <2>3, <2>4 DEF OneHostExecutes
<1>3. StuckForever
  <2> SUFFICES ASSUME NEW j \in Thread, host[j].at = "joinStart"
               PROVE  /\ Executing = {}
                      /\ \A h \in Thread : host[h].at # "exited"
                      /\ \A h \in Thread :
                           host[h].at \in {"start", "switch", "exitSwitch", "finSwitch"} => ~Released(h)
    BY DEF StuckForever
  <2>1. \A h \in Thread : ~CanGoOn(host, allowed, exitReq, h)
    BY DEF AdminInv, Here, Settled, Stuck, OnlyOne, PlacesFit
  <2>2. Executing = {}
    BY <1>1, <2>1 DEF Executing
  <2> QED BY <2>1, <2>2 DEF CanGoOn, RunAt, CvAt, Released
<1> QED BY <1>2, <1>3

(* kernel.hpp's baton lets one EE thread run at a time, also when threads  *)
(* are deleted, terminated and released from their waits while their hosts *)
(* wait, park or run on to their end: up to the destructor.                *)
THEOREM OneHostRuns == AdminSpec => []OneHostExecutes
BY AdminInvariant, AdminInvImplies, PTL

(* sys_start_thread's join of a thread's earlier run never returns before  *)
(* the destructor: nobody is left to let that host go on.                  *)
THEOREM StartThreadHangs == AdminSpec => []StuckForever
BY AdminInvariant, AdminInvImplies, PTL

-----------------------------------------------------------------------------
(* Deletion and termination, when nobody calls ReleaseWaitThread and until *)
(* the kernel asks to quit: the queues stay exact, and JoinThread returns  *)
(* for a deleted thread too.  A host may run as another thread here, so    *)
(* the invariant ties a thread's status to its host only once the host is  *)
(* at its end, and says of the current thread that it is RUN unless it is  *)
(* ending or no host can go on.                                            *)

Unrun == {"none", "DORMANT"}
Over == {"none", "finSwitch", "finPark", "exited"}

QueuesOK == QueueOK(ready, prio, status) /\ RunsOne(status, current) /\ WaitersOK

(* A thread whose host has left the guest, or that has none, is DORMANT,   *)
(* and once the host has woken the joiners there are no more.              *)
EndedOK ==
  \A t \in Thread :
    /\ host[t].at \in Over \union {"finWake"} => status[t] \in Unrun
    /\ host[t].at \in Over => Joiners(t) = {}

CurrentEnds ==
  \E h \in Thread : host[h].at = "exitWake" \/ (h = current /\ host[h].at = "finWake")
CurrentFits ==
  /\ \A h \in Thread : host[h].at = "exitWake" => status[current] = "DORMANT"
  /\ status[current] = "RUN" \/ CurrentEnds \/ Stuck(host, allowed, exitReq)

(* The host that takes a step is the one that can go on, and what it calls *)
(* it calls as a thread that is RUN.                                       *)
LEMMA CallerIsRunning ==
  ASSUME Here, CurrentFits, NEW self \in Thread, CanGoOn(host, allowed, exitReq, self),
         host[self].at # "exitWake", self = current => host[self].at # "finWake"
  PROVE  status[current] = "RUN" /\ \A h \in Thread : host[h].at # "exitWake"
<1>1. OnlyOne(host, allowed, exitReq, current, self)
  BY ActorIsTheOne DEF Here
<1>2. \A h \in Thread : h # self => host[h].at \notin {"exitWake", "finWake"}
  BY <1>1 DEF OnlyOne, CanGoOn, RunAt, ExecutingAt
<1>3. ~CurrentEnds /\ ~Stuck(host, allowed, exitReq)
  BY <1>2 DEF CurrentEnds, Stuck
<1> QED BY <1>2, <1>3 DEF CurrentFits

LEMMA GuestIsRunning ==
  ASSUME Here, CurrentFits, NEW self \in Thread, host[self].at \in {"guest", "semaWake"}
  PROVE  status[current] = "RUN" /\ \A h \in Thread : host[h].at # "exitWake"
<1>1. CanGoOn(host, allowed, exitReq, self)
  BY DEF CanGoOn, RunAt, ExecutingAt
<1> QED BY <1>1, CallerIsRunning

(* A step that revives nobody but x and moves no host but that of a thread *)
(* that is not at its end.                                                 *)
LEMMA EndsKept ==
  ASSUME EndedOK, NEW X \in SUBSET Thread,
         \A t \in X : host'[t].at \notin Over \union {"finWake"},
         \A t \in Thread \ X : host'[t].at \in Over \union {"finWake"} =>
            /\ \/ status'[t] \in Unrun
               \/ /\ status[t] \in Unrun => status'[t] \in Unrun
                  /\ host[t].at \in Over \union {"finWake"}
            /\ host'[t].at \in Over => host[t].at \in Over \/ Joiners(t) = {},
         \A o \in Thread : status'[o] = "WAIT" =>
            \/ status[o] = "WAIT" /\ wait'[o] = wait[o]
            \/ \A t \in Thread : wait'[o] = WaitOnJoin(t) => host'[t].at \notin Over
  PROVE  EndedOK'
<1>1. ASSUME NEW t \in Thread, host'[t].at \in Over \union {"finWake"} PROVE status'[t] \in Unrun
  <2>1. t \notin X
    BY <1>1
  <2> QED BY <1>1, <2>1 DEF EndedOK
<1>2. ASSUME NEW t \in Thread, host'[t].at \in Over PROVE Joiners(t)' = {}
  <2>1. t \notin X /\ Joiners(t) = {}
    BY <1>2 DEF EndedOK
  <2>2. ASSUME NEW o \in Thread, status'[o] = "WAIT", wait'[o] = WaitOnJoin(t) PROVE FALSE
    BY <1>2, <2>1, <2>2 DEF Joiners
  <2> QED BY <2>2 DEF Joiners
<1> QED BY <1>1, <1>2 DEF EndedOK

-----------------------------------------------------------------------------
(* What the scheduler's core does to the queues and the statuses.          *)

(* The statuses st become those after the step: who waits still does, and  *)
(* who never ran or has ended still has.                                   *)
SameKind(st) ==
  \A t \in Thread : /\ (status'[t] = "WAIT") <=> (st[t] = "WAIT")
                    /\ (status'[t] \in Unrun) <=> (st[t] \in Unrun)

(* The caller waits in switch_to, or goes on where hs has it. *)
SwitchesFrom(self, hs) == host' = hs \/ host' = [hs EXCEPT ![self] = At("switch", current)]

ReadyOK == QueueOK(ready', prio', status') /\ RunsOne(status', current') /\ status'[current'] = "RUN"

LEMMA PreemptQueues ==
  ASSUME current \in Thread, prio' \in [Thread -> Int], NEW self,
         NEW st \in [Thread -> Status], NEW rd \in Seq(Thread), NEW hs, NEW al,
         QueueOK(rd, prio', st), RunsOne(st, current), st[current] = "RUN",
         MaybePreemptFrom(self, st, rd, hs, al)
  PROVE  ReadyOK /\ SameKind(st) /\ SwitchesFrom(self, hs)
<1> DEFINE x == Head(rd)
<1>1. CASE rd = <<>> \/ destroying \/ dispatchDisabled' > 0 \/ prio'[x] >= prio'[current]
  <2>1. status' = st /\ ready' = rd /\ host' = hs /\ current' = current
    BY <1>1 DEF MaybePreemptFrom
  <2> QED BY <2>1 DEF ReadyOK, SameKind, SwitchesFrom
<1>2. CASE ~(rd = <<>> \/ destroying \/ dispatchDisabled' > 0 \/ prio'[x] >= prio'[current])
  <2>1. /\ status' = [st EXCEPT ![current] = "READY", ![x] = "RUN"]
        /\ ready' = ReadyInsert(Tail(rd), prio', current)
        /\ current' = x
        /\ host' = [hs EXCEPT ![self] = At("switch", current)]
    BY <1>2 DEF MaybePreemptFrom, SwitchTo
  <2>2. /\ x \in Thread /\ st[x] = "READY" /\ Removed(Tail(rd), rd, 1) /\ x = rd[1]
        /\ Tail(rd) \in Seq(Thread)
    BY <1>2, HeadIsReady
  <2> HIDE DEF x
  <2> DEFINE st1 == [st EXCEPT ![x] = "RUN"]
  <2>3. QueueOK(Tail(rd), prio', st1)
    <3>1. \A t \in Thread : (st1[t] = "READY") <=> (t # rd[1] /\ st[t] = "READY")
      BY <2>2
    <3> HIDE DEF st1
    <3> QED BY <2>2, <3>1, QueueWithout
  <2>4. QueueOK(ready', prio', status')
    <3>1. st1[current] # "READY" /\ \A t \in Thread : (status'[t] = "READY") <=> (t = current \/ st1[t] = "READY")
      BY <2>1, <2>2 DEF Status
    <3> HIDE DEF st1
    <3> QED BY <2>1, <2>2, <2>3, <3>1, QueueWith
  <2>5. RunsOne(status', current') /\ status'[current'] = "RUN"
    BY <2>1, <2>2 DEF RunsOne
  <2>6. SameKind(st)
    BY <2>1, <2>2 DEF SameKind, Unrun
  <2> QED BY <2>1, <2>4, <2>5, <2>6 DEF ReadyOK, SwitchesFrom
<1> QED BY <1>1, <1>2

LEMMA BlockQueues ==
  ASSUME TypeOK, QueuesOK, ~destroying, NEW self, status[current] = "RUN",
         NEW s \in {"WAIT", "SUSPEND"}, NEW w, BlockCurrent(self, s, w, ready), prio' = prio, ~quit'
  PROVE  /\ ReadyOK
         /\ host' = [host EXCEPT ![self] = At("switch", current)]
         /\ wait' = [wait EXCEPT ![current] = w]
         /\ \A t \in Thread : t # current => /\ (status'[t] = "WAIT") <=> (status[t] = "WAIT")
                                             /\ (status'[t] \in Unrun) <=> (status[t] \in Unrun)
         /\ status'[current] = s
<1> DEFINE x == Head(ready)
<1>0. ready # <<>>
  BY DEF BlockCurrent
<1>1. /\ status' = [status EXCEPT ![current] = s, ![x] = "RUN"]
      /\ ready' = Tail(ready)
      /\ current' = x
      /\ host' = [host EXCEPT ![self] = At("switch", current)]
      /\ wait' = [wait EXCEPT ![current] = w]
  BY <1>0 DEF BlockCurrent, SwitchTo
<1>2. x \in Thread /\ status[x] = "READY" /\ Removed(Tail(ready), ready, 1) /\ x = ready[1]
  BY <1>0, SchedTypes, HeadIsReady DEF QueuesOK
<1> HIDE DEF x
<1>3. QueueOK(ready', prio', status')
  <2>1. \A t \in Thread : (status'[t] = "READY") <=> (t # ready[1] /\ status[t] = "READY")
    BY <1>1, <1>2, SchedTypes
  <2>2. QueueOK(ready, prio, status) /\ Removed(ready', ready, 1)
    BY <1>1, <1>2 DEF QueuesOK
  <2>3. QueueOK(ready', prio, status')
    BY <2>1, <2>2, QueueWithout
  <2> QED BY <2>3
<1>4. RunsOne(status', current') /\ status'[current'] = "RUN"
  BY <1>1, <1>2, SchedTypes DEF RunsOne, QueuesOK
<1>5. /\ \A t \in Thread : t # current => /\ (status'[t] = "WAIT") <=> (status[t] = "WAIT")
                                          /\ (status'[t] \in Unrun) <=> (status[t] \in Unrun)
      /\ status'[current] = s
  BY <1>1, <1>2, SchedTypes DEF Unrun
<1> QED BY <1>1, <1>3, <1>4, <1>5 DEF ReadyOK

-----------------------------------------------------------------------------
(* As which thread a host runs: the current one, or the one on whose       *)
(* condition variable it waits; a host that waits for another to end, as   *)
(* the thread that one runs as.  Only a host told to exit runs as another  *)
(* thread than its own.                                                    *)

RunsAs(hs, al, ex, cur, as) ==
  \A h \in Thread :
    /\ CanGoOn(hs, al, ex, h) => as[h] = cur
    /\ Waits(hs, h) /\ ~CanGoOn(hs, al, ex, h) => as[h] = hs[h].on
    /\ hs[h].at = "joinDelete" =>
         LET t == hs[h].on
         IN  /\ as[h] = as[t] /\ ex[t] /\ hs[t].at # "none"
             /\ \A g \in Thread : hs[g].at = "joinDelete" /\ hs[g].on = t => g = h
    /\ hs[h].at # "none" => as[h] = h \/ ex[h]

Acts(hs, al, ex, cur) ==
  Stuck(hs, al, ex) \/ \E as \in [Thread -> Thread] : RunsAs(hs, al, ex, cur, as)

LEMMA ActsStuck ==
  ASSUME NEW hs, NEW al, NEW ex, NEW cur, Settled(hs, al, ex, cur),
         \A h \in Thread : ~CanGoOn(hs, al, ex, h)
  PROVE  Acts(hs, al, ex, cur)
BY MainIsThread DEF Settled, Stuck, OnlyOne, PlacesFit, Acts

(* The host goes on elsewhere, and nobody else takes its place unless it   *)
(* waits as the thread that is current now.                                *)
LEMMA ActsMoves ==
  ASSUME NEW hs \in Hosts, NEW al \in Flags, NEW ex \in Flags, NEW cur \in Thread,
         NEW self \in Thread, OnlyOne(hs, al, ex, cur, self), CanGoOn(hs, al, ex, self),
         Acts(hs, al, ex, cur),
         NEW hs2, NEW al2, NEW cur2, \A h \in Thread : h # self => hs2[h] = hs[h],
         hs2[self].at \notin {"none", "joinDelete"},
         Waits(hs2, self) => hs2[self].on = cur \/ (CanGoOn(hs2, al2, ex, self) /\ cur2 = cur),
         \A h \in Thread : CanGoOn(hs2, al2, ex, h) =>
           (h = self /\ cur2 = cur) \/ (Waits(hs2, h) /\ hs2[h].on = cur2)
  PROVE  Acts(hs2, al2, ex, cur2)
<1>1. PICK as \in [Thread -> Thread] : RunsAs(hs, al, ex, cur, as)
  BY DEF Acts, Stuck
<1>2. \A h \in Thread : h # self => ~CanGoOn(hs, al, ex, h)
  BY DEF OnlyOne
<1>3. as[self] = cur
  BY <1>1 DEF RunsAs
<1>4. \A h \in Thread : h # self /\ Waits(hs2, h) => as[h] = hs2[h].on
  BY <1>1, <1>2 DEF RunsAs, Waits
<1>5. ASSUME NEW h \in Thread, CanGoOn(hs2, al2, ex, h) PROVE as[h] = cur2
  <2>1. CASE h = self /\ cur2 = cur
    BY <1>3, <2>1
  <2>2. CASE h # self /\ Waits(hs2, h) /\ hs2[h].on = cur2
    BY <1>4, <2>2
  <2>3. CASE h = self /\ Waits(hs2, h) /\ hs2[h].on = cur2
    BY <1>3, <1>5, <2>3
  <2> QED BY <1>5, <2>1, <2>2, <2>3
<1>6. ASSUME NEW h \in Thread, Waits(hs2, h), ~CanGoOn(hs2, al2, ex, h) PROVE as[h] = hs2[h].on
  BY <1>3, <1>4, <1>6
<1>7. ASSUME NEW h \in Thread, hs2[h].at = "joinDelete"
      PROVE  LET t == hs2[h].on
             IN  /\ as[h] = as[t] /\ ex[t] /\ hs2[t].at # "none"
                 /\ \A g \in Thread : hs2[g].at = "joinDelete" /\ hs2[g].on = t => g = h
  <2>1. h # self /\ hs2[h] = hs[h] /\ hs[h].on \in Thread
    BY <1>7 DEF OnlyOne, PlacesFit, PlacesKnown
  <2>2. \A g \in Thread : hs2[g].at = "joinDelete" => hs2[g] = hs[g]
    BY <1>7
  <2>3. /\ as[h] = as[hs[h].on] /\ ex[hs[h].on] /\ hs[hs[h].on].at # "none"
        /\ \A g \in Thread : hs[g].at = "joinDelete" /\ hs[g].on = hs[h].on => g = h
    BY <1>1, <1>7, <2>1 DEF RunsAs
  <2> QED BY <2>1, <2>2, <2>3
<1>8. ASSUME NEW h \in Thread, hs2[h].at # "none" PROVE as[h] = h \/ ex[h]
  <2>1. CanGoOn(hs, al, ex, h) => hs[h].at # "none"
    BY DEF CanGoOn, RunAt, ExecutingAt, CvAt, ParkAt
  <2>2. hs[h].at # "none"
    BY <1>8, <2>1
  <2> QED BY <1>1, <2>2 DEF RunsAs
<1>9. RunsAs(hs2, al2, ex, cur2, as)
  BY <1>5, <1>6, <1>7, <1>8 DEF RunsAs
<1> QED BY <1>9 DEF Acts

(* It executes in another place, parks, or takes a baton.                  *)
LEMMA ActsStays ==
  ASSUME NEW hs \in Hosts, NEW al \in Flags, NEW ex \in Flags, NEW cur \in Thread,
         NEW self \in Thread, OnlyOne(hs, al, ex, cur, self), CanGoOn(hs, al, ex, self),
         Acts(hs, al, ex, cur),
         NEW place, place \notin {"none", "joinDelete"}, NEW on,
         NEW al2, \A x \in Thread : al2[x] => al[x],
         LET hs2 == [hs EXCEPT ![self] = At(place, on)]
         IN  place \in CvAt \union ParkAt => on = cur \/ CanGoOn(hs2, al2, ex, self)
  PROVE  Acts([hs EXCEPT ![self] = At(place, on)], al2, ex, cur)
<1> DEFINE hs2 == [hs EXCEPT ![self] = At(place, on)]
<1>1. \A h \in Thread : h # self => hs2[h] = hs[h]
  BY DEF Hosts
<1>2. hs2[self].at = place /\ hs2[self].on = on
  BY DEF Hosts, At
<1>3. Waits(hs2, self) => hs2[self].on = cur \/ (CanGoOn(hs2, al2, ex, self) /\ cur = cur)
  BY <1>2 DEF Waits
<1> HIDE DEF hs2
<1>4. ASSUME NEW h \in Thread, CanGoOn(hs2, al2, ex, h) PROVE h = self
  <2> SUFFICES ASSUME h # self PROVE FALSE
    OBVIOUS
  <2>1. ~CanGoOn(hs, al, ex, h) /\ hs2[h] = hs[h] /\ (Waits(hs, h) => hs[h].on \in Thread)
    BY <1>1 DEF OnlyOne, WaitsApart
  <2> QED BY <1>4, <2>1 DEF CanGoOn, Waits
<1>5. Acts(hs2, al2, ex, cur)
  BY <1>1, <1>2, <1>3, <1>4, ActsMoves
<1> QED BY <1>5 DEF hs2

(* switch_to. *)
LEMMA ActsSwitches ==
  ASSUME NEW hs \in Hosts, NEW al \in Flags, NEW ex \in Flags, NEW cur \in Thread,
         NEW self \in Thread, OnlyOne(hs, al, ex, cur, self), hs[self].at \in ExecutingAt,
         Acts(hs, al, ex, cur),
         NEW place \in {"switch", "exitSwitch", "finSwitch"}, NEW target \in Thread
  PROVE  Acts([hs EXCEPT ![self] = At(place, cur)], [al EXCEPT ![target] = TRUE], ex, target)
<1> DEFINE hs2 == [hs EXCEPT ![self] = At(place, cur)]
           al2 == [al EXCEPT ![target] = TRUE]
<1>1. \A h \in Thread : h # self => hs2[h] = hs[h]
  BY DEF Hosts
<1>2. hs2[self].at = place /\ hs2[self].on = cur
  BY DEF Hosts, At
<1>3. \A x \in Thread : x # target => al2[x] = al[x]
  BY DEF Flags
<1> HIDE DEF hs2, al2
<1>4. ~ex[cur] /\ ~al[cur]
  BY DEF OnlyOne, ExecutingAt, CvAt
<1>5. CanGoOn(hs, al, ex, self)
  BY DEF CanGoOn, RunAt
<1>6. ASSUME NEW h \in Thread, CanGoOn(hs2, al2, ex, h) PROVE Waits(hs2, h) /\ hs2[h].on = target
  <2>1. CASE h = self
    BY <1>2, <1>3, <1>4, <1>6, <2>1 DEF CanGoOn, Waits, RunAt, ExecutingAt, CvAt, ParkAt
  <2>2. CASE h # self
    <3>1. ~CanGoOn(hs, al, ex, h) /\ hs2[h] = hs[h] /\ (Waits(hs, h) => hs[h].on \in Thread)
      BY <1>1, <2>2 DEF OnlyOne, WaitsApart
    <3> QED BY <1>3, <1>6, <3>1 DEF CanGoOn, Waits
  <2> QED BY <2>1, <2>2
<1>7. Acts(hs2, al2, ex, target)
  <2>1. hs2[self].at \notin {"none", "joinDelete"}
    BY <1>2
  <2> QED BY <1>1, <1>2, <1>5, <1>6, <2>1, ActsMoves
<1> QED BY <1>7 DEF hs2, al2

(* DeleteThread tells a host to exit: whoever waits as that thread goes on *)
(* as the caller's, and so does the caller once the host has ended.        *)
LEMMA ActsTells ==
  ASSUME NEW hs \in Hosts, NEW al \in Flags, NEW ex \in Flags, NEW cur \in Thread,
         NEW self \in Thread, OnlyOne(hs, al, ex, cur, self), hs[self].at \in ExecutingAt,
         Acts(hs, al, ex, cur), NEW t \in Thread, t # cur, t # self, hs[t].at # "none"
  PROVE  Acts([hs EXCEPT ![self] = At("joinDelete", t)], [al EXCEPT ![t] = TRUE],
              [ex EXCEPT ![t] = TRUE], cur)
<1> DEFINE hs2 == [hs EXCEPT ![self] = At("joinDelete", t)]
           al2 == [al EXCEPT ![t] = TRUE]
           ex2 == [ex EXCEPT ![t] = TRUE]
<1>0. Settled(hs2, al2, ex2, cur)
  BY TellsToExit
<1>1. \A h \in Thread : h # self => hs2[h] = hs[h]
  BY DEF Hosts
<1>2. hs2[self].at = "joinDelete" /\ hs2[self].on = t
  BY DEF Hosts, At
<1>3. /\ ex2[t] /\ \A x \in Thread : x # t => ex2[x] = ex[x]
      /\ \A x \in Thread : x # t => al2[x] = al[x]
  BY DEF Flags
<1> HIDE DEF hs2, al2, ex2
<1>4. CanGoOn(hs, al, ex, self)
  BY DEF CanGoOn, RunAt
<1>5. \A h \in Thread : h # self => ~CanGoOn(hs, al, ex, h) /\ (Waits(hs, h) => hs[h].on \in Thread)
  BY DEF OnlyOne, WaitsApart
<1>6. ~CanGoOn(hs2, al2, ex2, self) /\ ~Waits(hs2, self)
  BY <1>2 DEF Waits, CanGoOn, RunAt, CvAt, ParkAt, ExecutingAt
<1>7. \A h \in Thread : CanGoOn(hs2, al2, ex2, h) => h # self /\ Waits(hs, h) /\ hs[h].on = t /\ ~ex[t]
  <2> TAKE h \in Thread
  <2> HAVE CanGoOn(hs2, al2, ex2, h)
  <2>1. h # self /\ hs2[h] = hs[h] /\ ~CanGoOn(hs, al, ex, h)
    BY <1>1, <1>5, <1>6
  <2> QED BY <1>3, <1>5, <2>1 DEF CanGoOn, Waits
<1>8. CASE ex[t]
  <2>1. Acts(hs2, al2, ex2, cur)
    BY <1>0, <1>7, <1>8, ActsStuck
  <2> QED BY <2>1 DEF hs2, al2, ex2
<1>9. CASE ~ex[t]
  <2>1. PICK as \in [Thread -> Thread] : RunsAs(hs, al, ex, cur, as)
    BY <1>4 DEF Acts, Stuck
  <2> DEFINE as2 == [h \in Thread |-> IF as[h] = t THEN cur ELSE as[h]]
  <2>2. as2 \in [Thread -> Thread] /\ \A h \in Thread : as2[h] = IF as[h] = t THEN cur ELSE as[h]
    OBVIOUS
  <2> HIDE DEF as2
  <2>3. as[t] = t /\ as[self] = cur
    BY <1>4, <1>9, <2>1 DEF RunsAs
  <2>4. ASSUME NEW h \in Thread, CanGoOn(hs2, al2, ex2, h) PROVE as2[h] = cur
    <3>1. h # self /\ Waits(hs, h) /\ hs[h].on = t
      BY <1>7, <2>4
    <3>2. as[h] = t
      BY <1>5, <2>1, <3>1 DEF RunsAs
    <3> QED BY <2>2, <3>2
  <2>5. ASSUME NEW h \in Thread, Waits(hs2, h), ~CanGoOn(hs2, al2, ex2, h) PROVE as2[h] = hs2[h].on
    <3>1. h # self /\ hs2[h] = hs[h] /\ Waits(hs, h)
      BY <1>1, <1>6, <2>5 DEF Waits
    <3>2. hs[h].on # t
      BY <1>3, <2>5, <3>1 DEF CanGoOn, Waits
    <3>3. as[h] = hs[h].on
      BY <1>5, <2>1, <3>1 DEF RunsAs
    <3> QED BY <2>2, <3>1, <3>2, <3>3
  <2>6. ASSUME NEW h \in Thread, h # self, hs2[h].at = "joinDelete"
        PROVE  LET x == hs2[h].on
               IN  /\ as2[h] = as2[x] /\ ex2[x] /\ hs2[x].at # "none"
                   /\ \A g \in Thread : hs2[g].at = "joinDelete" /\ hs2[g].on = x => g = h
    <3>1. hs2[h] = hs[h] /\ hs[h].at = "joinDelete" /\ hs[h].on \in Thread
      BY <1>1, <2>6 DEF OnlyOne, PlacesFit, PlacesKnown
    <3>2. /\ as[h] = as[hs[h].on] /\ ex[hs[h].on] /\ hs[hs[h].on].at # "none"
          /\ \A g \in Thread : hs[g].at = "joinDelete" /\ hs[g].on = hs[h].on => g = h
      BY <2>1, <3>1 DEF RunsAs
    <3>3. hs[h].on # t
      BY <1>9, <3>2
    <3>4. \A g \in Thread : hs2[g].at = "joinDelete" /\ hs2[g].on = hs[h].on => g = h
      BY <1>1, <1>2, <3>2, <3>3
    <3>5. hs2[hs[h].on].at # "none"
      BY <1>1, <1>2, <3>1, <3>2
    <3>6. as2[h] = as2[hs[h].on] /\ ex2[hs[h].on]
      BY <1>3, <2>2, <3>1, <3>2, <3>3
    <3> QED BY <3>1, <3>4, <3>5, <3>6
  <2>7. /\ as2[self] = as2[t] /\ ex2[t] /\ hs2[t].at # "none"
        /\ \A g \in Thread : hs2[g].at = "joinDelete" /\ hs2[g].on = t => g = self
    <3>1. as2[self] = as2[t] /\ ex2[t] /\ hs2[t].at # "none"
      BY <1>1, <1>3, <2>2, <2>3
    <3>2. ASSUME NEW g \in Thread, hs2[g].at = "joinDelete", hs2[g].on = t, g # self PROVE FALSE
      <4>1. hs[g].at = "joinDelete" /\ hs[g].on = t
        BY <1>1, <3>2
      <4> QED BY <1>9, <2>1, <4>1 DEF RunsAs
    <3> QED BY <3>1, <3>2
  <2>8. ASSUME NEW h \in Thread, hs2[h].at # "none" PROVE as2[h] = h \/ ex2[h]
    <3>1. hs[h].at # "none"
      BY <1>1, <2>8 DEF ExecutingAt
    <3>2. as[h] = h \/ ex[h]
      BY <2>1, <3>1 DEF RunsAs
    <3> QED BY <1>3, <2>2, <3>2
  <2>9. RunsAs(hs2, al2, ex2, cur, as2)
    BY <1>2, <2>4, <2>5, <2>6, <2>7, <2>8 DEF RunsAs
  <2>10. Acts(hs2, al2, ex2, cur)
    BY <2>2, <2>9 DEF Acts
  <2> QED BY <2>10 DEF hs2, al2, ex2
<1> QED BY <1>8, <1>9

LEMMA ActsJoins ==
  ASSUME NEW hs \in Hosts, NEW al \in Flags, NEW ex \in Flags, NEW cur \in Thread,
         NEW t \in Thread, OnlyOne(hs, al, ex, cur, t), hs[t].at = "exited",
         Acts(hs, al, ex, cur),
         NEW self \in Thread, hs[self].at = "joinDelete", hs[self].on = t
  PROVE  Acts([hs EXCEPT ![self] = At("guest", self), ![t] = At("none", t)], al, ex, cur)
<1> DEFINE hs2 == [hs EXCEPT ![self] = At("guest", self), ![t] = At("none", t)]
<1>1. \A h \in Thread : h # self /\ h # t => hs2[h] = hs[h]
  BY DEF Hosts
<1>2. self # t /\ hs2[self].at = "guest" /\ hs2[t].at = "none"
  BY DEF Hosts, At
<1> HIDE DEF hs2
<1>3. CanGoOn(hs, al, ex, t) /\ \A h \in Thread : h # t => ~CanGoOn(hs, al, ex, h)
  BY DEF CanGoOn, RunAt, OnlyOne
<1>4. PICK as \in [Thread -> Thread] : RunsAs(hs, al, ex, cur, as)
  BY <1>3 DEF Acts, Stuck
<1>5. as[self] = cur /\ \A g \in Thread : hs[g].at = "joinDelete" /\ hs[g].on = t => g = self
  BY <1>3, <1>4 DEF RunsAs
<1>6. \A h \in Thread : CanGoOn(hs2, al, ex, h) => h = self
  BY <1>1, <1>2, <1>3 DEF CanGoOn, RunAt, ExecutingAt, CvAt, ParkAt
<1>7. \A h \in Thread : Waits(hs2, h) => h # self /\ h # t /\ Waits(hs, h) /\ hs2[h] = hs[h]
  BY <1>1, <1>2 DEF Waits, CvAt, ParkAt
<1>8. \A h \in Thread : Waits(hs2, h) => as[h] = hs2[h].on
  BY <1>3, <1>4, <1>7 DEF RunsAs
<1>9. ASSUME NEW h \in Thread, hs2[h].at = "joinDelete"
      PROVE  LET x == hs2[h].on
             IN  /\ as[h] = as[x] /\ ex[x] /\ hs2[x].at # "none"
                 /\ \A g \in Thread : hs2[g].at = "joinDelete" /\ hs2[g].on = x => g = h
  <2>1. \A g \in Thread : hs2[g].at = "joinDelete" => g # self /\ g # t /\ hs2[g] = hs[g]
    BY <1>1, <1>2
  <2>2. h # self /\ hs2[h] = hs[h] /\ hs[h].on \in Thread
    BY <1>9, <2>1 DEF OnlyOne, PlacesFit, PlacesKnown
  <2>3. /\ as[h] = as[hs[h].on] /\ ex[hs[h].on] /\ hs[hs[h].on].at # "none"
        /\ \A g \in Thread : hs[g].at = "joinDelete" /\ hs[g].on = hs[h].on => g = h
    BY <1>4, <1>9, <2>2 DEF RunsAs
  <2>4. hs[h].on # t
    BY <1>5, <1>9, <2>2
  <2>5. hs2[hs[h].on].at # "none"
    BY <1>1, <1>2, <2>2, <2>3, <2>4
  <2> QED BY <2>1, <2>2, <2>3, <2>5
<1>10. ASSUME NEW h \in Thread, hs2[h].at # "none" PROVE as[h] = h \/ ex[h]
  BY <1>1, <1>2, <1>4, <1>10 DEF RunsAs
<1>11. RunsAs(hs2, al, ex, cur, as)
  BY <1>5, <1>6, <1>8, <1>9, <1>10 DEF RunsAs
<1> QED BY <1>11 DEF Acts, hs2

LEMMA ActsStarts ==
  ASSUME NEW hs \in Hosts, NEW al \in Flags, NEW ex \in Flags, NEW cur \in Thread,
         NEW self \in Thread, OnlyOne(hs, al, ex, cur, self), hs[self].at = "guest",
         Acts(hs, al, ex, cur), NEW t \in Thread, hs[t].at = "none"
  PROVE  Acts([hs EXCEPT ![self] = At("guest", self), ![t] = At("start", t)],
              [al EXCEPT ![t] = FALSE], [ex EXCEPT ![t] = FALSE], cur)
<1> DEFINE hs2 == [hs EXCEPT ![self] = At("guest", self), ![t] = At("start", t)]
           al2 == [al EXCEPT ![t] = FALSE]
           ex2 == [ex EXCEPT ![t] = FALSE]
<1>1. \A h \in Thread : h # self /\ h # t => hs2[h] = hs[h]
  BY DEF Hosts
<1>2. self # t /\ hs2[self].at = "guest" /\ hs2[t].at = "start" /\ hs2[t].on = t
  BY DEF Hosts, At
<1>3. /\ ~ex2[t] /\ ~al2[t] /\ \A x \in Thread : x # t => ex2[x] = ex[x] /\ al2[x] = al[x]
  BY DEF Flags
<1> HIDE DEF hs2, al2, ex2
<1>4. CanGoOn(hs, al, ex, self) /\ \A h \in Thread : h # self => ~CanGoOn(hs, al, ex, h)
  BY DEF CanGoOn, RunAt, ExecutingAt, OnlyOne
<1>5. \A h \in Thread : Waits(hs, h) => hs[h].on \in Thread /\ hs[h].on # t
  BY DEF OnlyOne, WaitsApart
<1>6. PICK as \in [Thread -> Thread] : RunsAs(hs, al, ex, cur, as)
  BY <1>4 DEF Acts, Stuck
<1> DEFINE as2 == [as EXCEPT ![t] = t]
<1>7. as2 \in [Thread -> Thread] /\ as2[t] = t /\ \A h \in Thread : h # t => as2[h] = as[h]
  OBVIOUS
<1> HIDE DEF as2
<1>8. as[self] = cur
  BY <1>4, <1>6 DEF RunsAs
<1>9. \A h \in Thread : CanGoOn(hs2, al2, ex2, h) => h = self
  <2> TAKE h \in Thread
  <2>1. ~CanGoOn(hs2, al2, ex2, t)
    BY <1>2, <1>3 DEF CanGoOn, RunAt, ExecutingAt, ParkAt
  <2>2. h # t /\ h # self /\ CanGoOn(hs2, al2, ex2, h) => CanGoOn(hs, al, ex, h)
    BY <1>1, <1>3, <1>5 DEF CanGoOn, Waits
  <2> QED BY <1>4, <2>1, <2>2
<1>10. ASSUME NEW h \in Thread, Waits(hs2, h) PROVE as2[h] = hs2[h].on
  <2>1. h # self
    BY <1>2, <1>10 DEF Waits, CvAt, ParkAt
  <2>2. h # t => Waits(hs, h) /\ hs2[h] = hs[h]
    BY <1>1, <1>10, <2>1 DEF Waits
  <2> QED BY <1>2, <1>4, <1>6, <1>7, <2>1, <2>2 DEF RunsAs
<1>11. ASSUME NEW h \in Thread, hs2[h].at = "joinDelete"
      PROVE  LET x == hs2[h].on
             IN  /\ as2[h] = as2[x] /\ ex2[x] /\ hs2[x].at # "none"
                 /\ \A g \in Thread : hs2[g].at = "joinDelete" /\ hs2[g].on = x => g = h
  <2>1. \A g \in Thread : hs2[g].at = "joinDelete" => g # self /\ g # t /\ hs2[g] = hs[g]
    BY <1>1, <1>2
  <2>2. h # t /\ hs2[h] = hs[h] /\ hs[h].on \in Thread
    BY <1>11, <2>1 DEF OnlyOne, PlacesFit, PlacesKnown
  <2>3. /\ as[h] = as[hs[h].on] /\ ex[hs[h].on] /\ hs[hs[h].on].at # "none"
        /\ \A g \in Thread : hs[g].at = "joinDelete" /\ hs[g].on = hs[h].on => g = h
    BY <1>6, <1>11, <2>2 DEF RunsAs
  <2>4. hs[h].on # t
    BY <2>3
  <2>5. hs2[hs[h].on].at # "none"
    BY <1>1, <1>2, <2>2, <2>3, <2>4
  <2> QED BY <1>3, <1>7, <2>1, <2>2, <2>3, <2>4, <2>5
<1>12. ASSUME NEW h \in Thread, hs2[h].at # "none" PROVE as2[h] = h \/ ex2[h]
  <2>1. h # t => hs[h].at # "none"
    BY <1>1, <1>12
  <2> QED BY <1>3, <1>6, <1>7, <2>1 DEF RunsAs
<1>13. \A h \in Thread : CanGoOn(hs2, al2, ex2, h) => as2[h] = cur
  BY <1>2, <1>7, <1>8, <1>9
<1>14. RunsAs(hs2, al2, ex2, cur, as2)
  BY <1>10, <1>11, <1>12, <1>13 DEF RunsAs
<1> QED BY <1>7, <1>14 DEF Acts, hs2, al2, ex2

-----------------------------------------------------------------------------
(* What the calls do to that. *)

ActsOK == Acts(host, allowed, exitReq, current)

LEMMA ActsSame ==
  ASSUME ActsOK, UNCHANGED <<host, allowed, exitReq, current>>
  PROVE  ActsOK'
<1>1. host' = host /\ allowed' = allowed /\ exitReq' = exitReq /\ current' = current
  OBVIOUS
<1> QED BY <1>1 DEF ActsOK

LEMMA GuestCanGoOn ==
  ASSUME Here, NEW self \in Thread, host[self].at \in ExecutingAt
  PROVE  CanGoOn(host, allowed, exitReq, self) /\ OnlyOne(host, allowed, exitReq, current, self)
BY ActorIsTheOne DEF Here, CanGoOn, RunAt

LEMMA BlockCurrentActs ==
  ASSUME TypeOK, ~destroying, Here, ActsOK, NEW self \in Thread, InGuest(self),
         NEW st, NEW w, NEW rd \in Seq(Thread), BlockCurrent(self, st, w, rd), UNCHANGED exitReq
  PROVE  ActsOK'
<1>1. CASE rd = <<>>
  BY <1>1, ActsSame DEF BlockCurrent
<1>2. CASE rd # <<>>
  <2>1. Head(rd) \in Thread
    BY <1>2, HeadTailProperties
  <2>2. /\ allowed' = [allowed EXCEPT ![Head(rd)] = TRUE]
        /\ host' = [host EXCEPT ![self] = At("switch", current)]
        /\ current' = Head(rd) /\ exitReq' = exitReq
    BY <1>2 DEF BlockCurrent, SwitchTo
  <2>3. OnlyOne(host, allowed, exitReq, current, self) /\ host[self].at \in ExecutingAt
    BY GuestIsTheOne DEF Here
  <2> QED BY <2>1, <2>2, <2>3, Types, ActsSwitches DEF ActsOK
<1> QED BY <1>1, <1>2

LEMMA MaybePreemptFromActs ==
  ASSUME NEW hs \in Hosts, NEW al \in Flags, NEW ex \in Flags, current \in Thread,
         NEW self \in Thread, hs[self].at = "guest", OnlyOne(hs, al, ex, current, self),
         Acts(hs, al, ex, current),
         NEW st, NEW rd \in Seq(Thread), MaybePreemptFrom(self, st, rd, hs, al), exitReq' = ex
  PROVE  ActsOK'
<1> DEFINE stays == \/ destroying
                    \/ dispatchDisabled' > 0
                    \/ rd = <<>>
                    \/ prio'[Head(rd)] >= prio'[current]
<1>1. CASE stays
  <2>1. host' = hs /\ allowed' = al /\ current' = current
    BY <1>1 DEF MaybePreemptFrom
  <2> QED BY <2>1 DEF ActsOK
<1>2. CASE ~stays
  <2>1. Head(rd) \in Thread
    BY <1>2, HeadTailProperties
  <2>2. /\ allowed' = [al EXCEPT ![Head(rd)] = TRUE]
        /\ host' = [hs EXCEPT ![self] = At("switch", current)]
        /\ current' = Head(rd)
    BY <1>2 DEF MaybePreemptFrom, SwitchTo
  <2>3. hs[self].at \in ExecutingAt
    BY DEF ExecutingAt
  <2> QED BY <2>1, <2>2, <2>3, ActsSwitches DEF ActsOK
<1> QED BY <1>1, <1>2

LEMMA MaybePreemptActs ==
  ASSUME TypeOK, Here, ActsOK, NEW self \in Thread, InGuest(self),
         NEW st, NEW rd \in Seq(Thread), MaybePreempt(self, st, rd), UNCHANGED exitReq
  PROVE  ActsOK'
<1>1. MaybePreemptFrom(self, st, rd, host, allowed) /\ exitReq' = exitReq /\ host[self].at = "guest"
  BY DEF MaybePreempt, InGuest
<1> QED BY <1>1, Types, GuestIsTheOne, MaybePreemptFromActs DEF Here, ActsOK

(* A host that can go on moves to a place where it executes.               *)
LEMMA MovesActs ==
  ASSUME TypeOK, Here, ActsOK, NEW self \in Thread, CanGoOn(host, allowed, exitReq, self),
         NEW place \in {"guest", "exitWake", "finWake", "semaWake", "exited"}, NEW on,
         host' = [host EXCEPT ![self] = At(place, on)],
         NEW al2, allowed' = al2, \A x \in Thread : al2[x] => allowed[x],
         UNCHANGED <<exitReq, current>>
  PROVE  ActsOK'
<1>1. OnlyOne(host, allowed, exitReq, current, self) /\ place \notin CvAt \union ParkAt
  BY ActorIsTheOne DEF Here, CvAt, ParkAt
<1>2. Acts([host EXCEPT ![self] = At(place, on)], al2, exitReq, current)
  BY <1>1, Types, ActsStays DEF ActsOK
<1>3. exitReq' = exitReq /\ current' = current
  OBVIOUS
<1> QED BY <1>2, <1>3 DEF ActsOK

LEMMA HandOffActs ==
  ASSUME TypeOK, Here, ActsOK, NEW self \in Thread, host[self].at \in ExecutingAt,
         NEW switching \in {"exitSwitch", "finSwitch"}, NEW parked \in {"exitPark", "finPark"},
         HandOffAndPark(self, current, switching, parked), UNCHANGED exitReq
  PROVE  ActsOK'
<1>1. CanGoOn(host, allowed, exitReq, self) /\ OnlyOne(host, allowed, exitReq, current, self)
  BY GuestCanGoOn
<1>2. CASE ready = <<>>
  <2>1. host' = [host EXCEPT ![self] = At(parked, current)] /\ UNCHANGED <<allowed, exitReq, current>>
    BY <1>2 DEF HandOffAndPark
  <2>2. Acts([host EXCEPT ![self] = At(parked, current)], allowed, exitReq, current)
    BY <1>1, Types, ActsStays DEF ActsOK
  <2>3. host' = [host EXCEPT ![self] = At(parked, current)] /\ allowed' = allowed
        /\ exitReq' = exitReq /\ current' = current
    BY <2>1
  <2> QED BY <2>2, <2>3 DEF ActsOK
<1>3. CASE ready # <<>>
  <2>1. Head(ready) \in Thread
    BY <1>3, HeadTailProperties DEF TypeOK
  <2>2. /\ allowed' = [allowed EXCEPT ![Head(ready)] = TRUE]
        /\ host' = [host EXCEPT ![self] = At(switching, current)]
        /\ current' = Head(ready) /\ exitReq' = exitReq
    BY <1>3 DEF HandOffAndPark, SwitchTo
  <2> QED BY <1>1, <2>1, <2>2, Types, ActsSwitches DEF ActsOK
<1> QED BY <1>2, <1>3

(* finish_thread of a thread that is not current, or the end of its switch. *)
LEMMA ParksActs ==
  ASSUME TypeOK, Here, Here', ActsOK, NEW self \in Thread, CanGoOn(host, allowed, exitReq, self),
         host' = [host EXCEPT ![self] = At("finPark", self)],
         NEW al2, allowed' = al2, \A x \in Thread : al2[x] => allowed[x],
         UNCHANGED <<exitReq, current>>
  PROVE  ActsOK'
<1>1. OnlyOne(host, allowed, exitReq, current, self) /\ exitReq' = exitReq /\ current' = current
  BY ActorIsTheOne DEF Here
<1>2. host'[self] = At("finPark", self) /\ \A h \in Thread : h # self => host'[h] = host[h]
  BY Types DEF Hosts
<1>3. CASE exitReq[self]
  <2> DEFINE hs2 == [host EXCEPT ![self] = At("finPark", self)]
  <2>1. CanGoOn(hs2, al2, exitReq, self)
    BY <1>2, <1>3 DEF CanGoOn, ParkAt, At
  <2>2. Acts(hs2, al2, exitReq, current)
    BY <1>1, <2>1, Types, ActsStays DEF ActsOK
  <2> QED BY <1>1, <2>2 DEF ActsOK
<1>4. CASE ~exitReq[self]
  <2>1. ASSUME NEW h \in Thread, CanGoOn(host', allowed', exitReq', h) PROVE FALSE
    <3>1. CASE h = self
      BY <1>1, <1>2, <1>4, <2>1, <3>1 DEF CanGoOn, RunAt, ExecutingAt, CvAt, At
    <3>2. CASE h # self
      <4>1. ~CanGoOn(host, allowed, exitReq, h) /\ host'[h] = host[h] /\ (Waits(host, h) => host[h].on \in Thread)
        BY <1>1, <1>2, <3>2 DEF OnlyOne, WaitsApart
      <4> QED BY <1>1, <2>1, <4>1 DEF CanGoOn, Waits
    <3> QED BY <3>1, <3>2
  <2> QED BY <2>1, ActsStuck DEF ActsOK, Here
<1> QED BY <1>3, <1>4

LEMMA LaunchActs ==
  ASSUME TypeOK, Here, ActsOK, NEW self \in Thread, InGuest(self),
         NEW t \in Thread, host[t].at = "none", Launch(self, t)
  PROVE  ActsOK'
<1> DEFINE hs == [host EXCEPT ![self] = At("guest", self), ![t] = At("start", t)]
           al == [allowed EXCEPT ![t] = FALSE]
           ex == [exitReq EXCEPT ![t] = FALSE]
<1>1. OnlyOne(hs, al, ex, current, self) /\ Acts(hs, al, ex, current)
  BY GuestIsTheOne, StartsHost, ActsStarts, Types DEF InGuest, Here, ActsOK
<1>2. hs \in Hosts
  <2>1. At("guest", self) \in [at : HostAt, on : Nat] /\ At("start", t) \in [at : HostAt, on : Nat]
    BY AtType DEF HostAt
  <2> QED BY <2>1, Types DEF Hosts
<1>3. al \in Flags /\ ex \in Flags /\ hs[self].at = "guest"
  <2>1. self # t
    BY DEF InGuest
  <2> QED BY <2>1, Types DEF Flags, Hosts, At
<1>4. ReadyInsert(ready, prio, t) \in Seq(Thread)
  BY ReadyInsertType DEF TypeOK
<1>5. /\ MaybePreemptFrom(self, [status EXCEPT ![t] = "READY"], ReadyInsert(ready, prio, t), hs, al)
      /\ exitReq' = ex
  BY DEF Launch
<1> HIDE DEF hs, al, ex
<1> QED BY <1>1, <1>2, <1>3, <1>4, <1>5, Types, MaybePreemptFromActs

LEMMA ThreadCallActs ==
  ASSUME TypeOK, ~destroying, Here, Here', ActsOK, NEW self \in Thread, ThreadCall(self)
  PROVE  ActsOK'
<1>0. /\ ready \in Seq(Thread) /\ \A t \in Thread : ReadyRemove(ready, t) \in Seq(Thread)
      /\ \A t \in Thread, rd \in Seq(Thread) : \A pr : ReadyInsert(rd, pr, t) \in Seq(Thread)
  BY ReadyRemoveType, ReadyInsertType DEF TypeOK
<1>1. ASSUME NEW t \in Thread, StartThread(self, t) PROVE ActsOK'
  <2>1. CASE Joinable(t)
    <3>1. /\ host' = [host EXCEPT ![self] = At("joinStart", t)]
          /\ allowed' = allowed /\ UNCHANGED <<exitReq, current>> /\ InGuest(self)
      BY <1>1, <2>1 DEF StartThread, schedVars
    <3>2. OnlyOne(host, allowed, exitReq, current, self) /\ t \in Nat
      BY <3>1, GuestIsTheOne, MainIsThread DEF Here
    <3>3. Stuck([host EXCEPT ![self] = At("joinStart", t)], allowed, exitReq)
      BY <3>2, Types, Stops
    <3> QED BY <3>1, <3>3 DEF ActsOK, Acts
  <2>2. CASE ~Joinable(t)
    <3>1. Launch(self, t) /\ InGuest(self) /\ host[t].at = "none"
      BY <1>1, <2>2 DEF StartThread, Joinable
    <3> QED BY <3>1, LaunchActs
  <2> QED BY <2>1, <2>2
<1>2. ASSUME ExitThread(self) PROVE ActsOK'
  <2>1. CASE current = Main
    BY <1>2, <2>1, ActsSame DEF ExitThread, schedVars, hostVars
  <2>2. CASE current # Main
    <3>1. /\ host' = [host EXCEPT ![self] = At("exitWake", current)]
          /\ allowed' = allowed /\ UNCHANGED <<exitReq, current>> /\ InGuest(self)
      BY <1>2, <2>2 DEF ExitThread
    <3> QED BY <3>1, GuestCanGoOn, MovesActs DEF InGuest, ExecutingAt
  <2> QED BY <2>1, <2>2
<1>3. ASSUME FinishThread(self) PROVE ActsOK'
  <2>1. /\ host' = [host EXCEPT ![self] = At("finWake", self)]
        /\ allowed' = allowed /\ UNCHANGED <<exitReq, current>> /\ InGuest(self)
    BY <1>3 DEF FinishThread
  <2> QED BY <2>1, GuestCanGoOn, MovesActs DEF InGuest, ExecutingAt
<1>4. ASSUME NEW t \in Thread, NEW p \in Priority, ChangeThreadPriority(self, t, p) PROVE ActsOK'
  <2>1. CASE status[t] = "READY"
    BY <1>0, <1>4, <2>1, MaybePreemptActs DEF ChangeThreadPriority
  <2>2. CASE status[t] # "READY"
    BY <1>0, <1>4, <2>2, MaybePreemptActs DEF ChangeThreadPriority
  <2> QED BY <2>1, <2>2
<1>5. ASSUME NEW p \in Priority, RotateThreadReadyQueue(self, p) PROVE ActsOK'
  <2>1. PICK i \in 1..Len(ready) :
          current' = ready[i] /\ SwitchTo(self, ready[i], current, "switch", host, allowed)
    BY <1>5 DEF RotateThreadReadyQueue
  <2>2. ready[i] \in Thread
    BY ElementOfSeq DEF TypeOK
  <2>3. /\ allowed' = [allowed EXCEPT ![ready[i]] = TRUE]
        /\ host' = [host EXCEPT ![self] = At("switch", current)]
        /\ current' = ready[i] /\ exitReq' = exitReq /\ InGuest(self)
    BY <1>5, <2>1 DEF SwitchTo, RotateThreadReadyQueue
  <2> QED BY <2>2, <2>3, Types, GuestIsTheOne, ActsSwitches DEF Here, ActsOK
<1>6. ASSUME SleepThread(self) PROVE ActsOK'
  <2>1. CASE wakeups[current] > 0
    BY <1>6, <2>1, ActsSame DEF SleepThread, schedVars
  <2>2. CASE ~(wakeups[current] > 0)
    BY <1>0, <1>6, <2>2, BlockCurrentActs DEF SleepThread
  <2> QED BY <2>1, <2>2
<1>7. ASSUME NEW t \in Thread, WakeupThread(self, t) PROVE ActsOK'
  BY <1>0, <1>7, MaybePreemptActs DEF WakeupThread
<1>8. ASSUME NEW t \in Thread, SuspendThread(self, t) PROVE ActsOK'
  <2> DEFINE rd == IF status[t] = "READY" THEN ReadyRemove(ready, t) ELSE ready
  <2>1. CASE t = current /\ suspends[t] = 0
    <3>1. /\ BlockCurrent(self, "SUSPEND", WaitSleep, rd)
          /\ InGuest(self) /\ UNCHANGED exitReq
      BY <1>8, <2>1 DEF SuspendThread
    <3>2. rd \in Seq(Thread)
      BY <1>0
    <3> HIDE DEF rd
    <3> QED BY <3>1, <3>2, BlockCurrentActs
  <2>2. CASE ~(t = current /\ suspends[t] = 0)
    BY <1>8, <2>2, ActsSame DEF SuspendThread
  <2> QED BY <2>1, <2>2
<1>9. ASSUME NEW t \in Thread, ResumeThread(self, t) PROVE ActsOK'
  BY <1>0, <1>9, MaybePreemptActs DEF ResumeThread
<1>10. ASSUME NEW t \in Thread, JoinThread(self, t) PROVE ActsOK'
  BY <1>0, <1>10, BlockCurrentActs DEF JoinThread
<1>11. ASSUME EnableDispatchThread(self) PROVE ActsOK'
  BY <1>0, <1>11, MaybePreemptActs DEF EnableDispatchThread
<1>12. ASSUME \/ \E t \in Thread, p \in Priority : CreateThread(self, t, p)
              \/ \E t \in Thread : CancelWakeupThread(self, t)
              \/ DisableDispatchThread(self) \/ KExit(self)
       PROVE  ActsOK'
  BY <1>12, ActsSame DEF CreateThread, CancelWakeupThread, DisableDispatchThread, KExit, schedVars, hostVars
<1> QED BY <1>1, <1>2, <1>3, <1>4, <1>5, <1>6, <1>7, <1>8, <1>9, <1>10, <1>11, <1>12 DEF ThreadCall

LEMMA SemaCallActs ==
  ASSUME TypeOK, ~destroying, Here, ActsOK, NEW self \in Thread, SemaCall(self)
  PROVE  ActsOK'
<1>0. ready \in Seq(Thread)
  BY DEF TypeOK
<1>1. ASSUME NEW s \in Sema, SignalSema(self, s) PROVE ActsOK'
  <2>1. CASE waiters[s] # <<>>
    <3> DEFINE t == FirstWaiter(s)
    <3>1. t \in Thread
      <4>1. waiters[s] \in Seq(Thread)
        BY DEF TypeOK
      <4> QED BY <2>1, <4>1, HeadTailProperties DEF FirstWaiter
    <3>2. ReadyInsert(ready, prio, t) \in Seq(Thread)
      BY <1>0, <3>1, ReadyInsertType
    <3> QED BY <1>1, <2>1, <3>2, MaybePreemptActs DEF SignalSema
  <2>2. CASE waiters[s] = <<>>
    BY <1>0, <1>1, <2>2, MaybePreemptActs DEF SignalSema
  <2> QED BY <2>1, <2>2
<1>2. ASSUME NEW s \in Sema, WaitSema(self, s) PROVE ActsOK'
  <2>1. CASE HasToken(s)
    BY <1>2, <2>1, ActsSame DEF WaitSema, schedVars
  <2>2. CASE ~HasToken(s)
    BY <1>0, <1>2, <2>2, BlockCurrentActs DEF WaitSema
  <2> QED BY <2>1, <2>2
<1>3. ASSUME \/ \E s \in Sema, p \in SemaInit : CreateSema(self, s, p)
             \/ \E s \in Sema : PollSema(self, s)
      PROVE  ActsOK'
  BY <1>3, ActsSame DEF CreateSema, PollSema, schedVars, hostVars
<1> QED BY <1>1, <1>2, <1>3 DEF SemaCall

LEMMA RemovalCallActs ==
  ASSUME TypeOK, Here, ActsOK, NEW self \in Thread, RemovalCall(self)
  PROVE  ActsOK'
<1>1. ASSUME NEW t \in Thread, DeleteThread(self, t) PROVE ActsOK'
  <2>1. CASE Joinable(t)
    <3>1. /\ host' = [host EXCEPT ![self] = At("joinDelete", t)]
          /\ allowed' = [allowed EXCEPT ![t] = TRUE]
          /\ exitReq' = [exitReq EXCEPT ![t] = TRUE]
          /\ current' = current /\ InGuest(self) /\ t # current /\ t # self /\ host[t].at # "none"
      BY <1>1, <2>1 DEF DeleteThread, TellToExit, Joinable
    <3>2. OnlyOne(host, allowed, exitReq, current, self) /\ host[self].at \in ExecutingAt
      BY <3>1, GuestIsTheOne DEF Here
    <3>3. Acts([host EXCEPT ![self] = At("joinDelete", t)], [allowed EXCEPT ![t] = TRUE],
               [exitReq EXCEPT ![t] = TRUE], current)
      BY <3>1, <3>2, Types, ActsTells DEF ActsOK
    <3> QED BY <3>1, <3>3 DEF ActsOK
  <2>2. CASE ~Joinable(t)
    BY <1>1, <2>2, ActsSame DEF DeleteThread, hostVars
  <2> QED BY <2>1, <2>2
<1>2. ASSUME NEW t \in Thread, TerminateThread(self, t) PROVE ActsOK'
  BY <1>2, ActsSame DEF TerminateThread, hostVars
<1>3. ASSUME NEW s \in Sema, DeleteSema(self, s) PROVE ActsOK'
  <2>1. /\ host' = [host EXCEPT ![self] = At("semaWake", s)]
        /\ allowed' = allowed /\ UNCHANGED <<exitReq, current>> /\ InGuest(self)
    BY <1>3 DEF DeleteSema, schedVars
  <2> QED BY <2>1, GuestCanGoOn, MovesActs DEF InGuest, ExecutingAt
<1> QED BY <1>1, <1>2, <1>3 DEF RemovalCall

LEMMA AdminHostStepActs ==
  ASSUME TypeOK, Here, Here', ActsOK, NEW self \in Thread, AdminHostStep(self)
  PROVE  ActsOK'
<1>1. ASSUME host[self].at \in CvAt, NEW place \in {"guest", "finPark"}, TakeBaton(self, place),
             place = "finPark" => host[self].on = self
      PROVE  ActsOK'
  <2> DEFINE al == [allowed EXCEPT ![host[self].on] = FALSE]
  <2>1. /\ Released(self) /\ allowed' = al
        /\ host' = [host EXCEPT ![self] = At(place, host[self].on)]
        /\ UNCHANGED <<exitReq, current>>
    BY <1>1 DEF TakeBaton, schedVars
  <2>2. CanGoOn(host, allowed, exitReq, self)
    BY <1>1, <2>1 DEF CanGoOn, Released
  <2>3. \A x \in Thread : al[x] => allowed[x]
    BY Types DEF Flags
  <2> HIDE DEF al
  <2>4. CASE place = "guest"
    BY <2>1, <2>2, <2>3, <2>4, MovesActs
  <2>5. CASE place = "finPark"
    BY <1>1, <2>1, <2>2, <2>3, <2>5, ParksActs
  <2> QED BY <2>4, <2>5
<1>2. ASSUME ReturnFromSwitch(self) \/ BeginThread(self) PROVE ActsOK'
  BY <1>1, <1>2 DEF ReturnFromSwitch, BeginThread, CvAt
<1>3. ASSUME ReturnToPark(self) PROVE ActsOK'
  <2>1. host[self].at = "finSwitch" /\ Released(self) /\ TakeBaton(self, "finPark")
    BY <1>3 DEF ReturnToPark, TakeBaton
  <2>2. OnlyOne(host, allowed, exitReq, current, self)
    BY <2>1, ActorIsTheOne DEF Here, CanGoOn, Released, CvAt
  <2>3. host[self].on = self
    BY <2>1, <2>2 DEF OnlyOne, PlacesFit
  <2> QED BY <1>1, <2>1, <2>3 DEF CvAt
<1>4. ASSUME WakeJoiner(self) \/ DeleteSemaWake(self) PROVE ActsOK'
  BY <1>4, ActsSame DEF WakeJoiner, DeleteSemaWake, hostVars
<1>5. ASSUME ExitHandOff(self) PROVE ActsOK'
  <2>1. host[self].at = "exitWake" /\ host[self].at \in ExecutingAt
    BY <1>5 DEF ExitHandOff, ExecutingAt
  <2>2. host[self].on = current
    BY <2>1, GuestCanGoOn DEF OnlyOne, PlacesFit
  <2> QED BY <1>5, <2>1, <2>2, HandOffActs DEF ExitHandOff
<1>6. ASSUME FinishHandOff(self) PROVE ActsOK'
  <2>1. host[self].at = "finWake" /\ host[self].at \in ExecutingAt
    BY <1>6 DEF FinishHandOff, ExecutingAt
  <2>2. CASE current = self
    BY <1>6, <2>1, <2>2, HandOffActs DEF FinishHandOff
  <2>3. CASE current # self
    <3>1. /\ host' = [host EXCEPT ![self] = At("finPark", self)]
          /\ allowed' = allowed /\ UNCHANGED <<exitReq, current>>
      BY <1>6, <2>3 DEF FinishHandOff
    <3> QED BY <2>1, <3>1, GuestCanGoOn, ParksActs
  <2> QED BY <2>2, <2>3
<1>7. ASSUME DeleteSemaEnd(self) PROVE ActsOK'
  <2>1. /\ host' = [host EXCEPT ![self] = At("guest", self)]
        /\ allowed' = allowed /\ UNCHANGED <<exitReq, current>> /\ host[self].at \in ExecutingAt
    BY <1>7 DEF DeleteSemaEnd, schedVars, ExecutingAt
  <2> QED BY <2>1, GuestCanGoOn, MovesActs
<1>8. ASSUME BeginExiting(self) PROVE ActsOK'
  <2> DEFINE al == [allowed EXCEPT ![self] = FALSE]
  <2>1. /\ host' = [host EXCEPT ![self] = At("finWake", self)]
        /\ allowed' = al /\ UNCHANGED <<exitReq, current>>
        /\ host[self].at = "start" /\ exitReq[self]
    BY <1>8 DEF BeginExiting
  <2>2. host[self].on = self
    BY <2>1 DEF Here, Settled, Stuck, OnlyOne, PlacesFit, PlacesKnown
  <2>3. CanGoOn(host, allowed, exitReq, self)
    BY <2>1, <2>2 DEF CanGoOn, CvAt
  <2>4. \A x \in Thread : al[x] => allowed[x]
    BY Types DEF Flags
  <2> HIDE DEF al
  <2> QED BY <2>1, <2>3, <2>4, MovesActs
<1>9. ASSUME LeavePark(self) PROVE ActsOK'
  <2> DEFINE place == IF host[self].at = "exitPark" THEN "guest" ELSE "exited"
  <2>0. [host[self] EXCEPT !.at = place] = At(place, host[self].on)
    <3>1. host[self] \in [at : HostAt, on : Nat]
      BY DEF TypeOK
    <3> QED BY <3>1 DEF At
  <2>1. /\ host' = [host EXCEPT ![self] = At(place, host[self].on)]
        /\ allowed' = allowed /\ UNCHANGED <<exitReq, current>>
        /\ host[self].at \in ParkAt /\ exitReq[host[self].on]
    <3>1. host' = [host EXCEPT ![self] = [host[self] EXCEPT !.at = place]]
      BY <1>9 DEF LeavePark, TypeOK
    <3> QED BY <1>9, <2>0, <3>1 DEF LeavePark, schedVars, ParkAt
  <2>2. CanGoOn(host, allowed, exitReq, self)
    BY <2>1 DEF CanGoOn
  <2>3. place \in {"guest", "exited"}
    OBVIOUS
  <2> HIDE DEF place
  <2> QED BY <2>1, <2>2, <2>3, MovesActs
<1>10. ASSUME JoinReturns(self) PROVE ActsOK'
  <2> DEFINE t == host[self].on
  <2>1. /\ host[self].at = "joinDelete" /\ host[t].at = "exited" /\ host[self].on = t
        /\ host' = [host EXCEPT ![self] = At("guest", self), ![t] = At("none", t)]
        /\ allowed' = allowed /\ exitReq' = exitReq /\ current' = current
    BY <1>10, OnlyDeletionJoins DEF schedVars
  <2>2. t \in Thread
    BY <1>10, OnlyDeletionJoins
  <2> HIDE DEF t
  <2>3. OnlyOne(host, allowed, exitReq, current, t)
    BY <2>1, <2>2, ActorIsTheOne DEF Here, CanGoOn, RunAt
  <2>4. Acts([host EXCEPT ![self] = At("guest", self), ![t] = At("none", t)],
             allowed, exitReq, current)
    BY <2>1, <2>2, <2>3, Types, ActsJoins DEF ActsOK
  <2> QED BY <2>1, <2>4 DEF ActsOK
<1> QED BY <1>2, <1>3, <1>4, <1>5, <1>6, <1>7, <1>8, <1>9, <1>10 DEF AdminHostStep, HostStep

-----------------------------------------------------------------------------
(* What a step does to the queues, the ended threads and the current one.  *)

(* A thread whose host was told to exit has been deleted. *)
ToldOK == \A t \in Thread : exitReq[t] => status[t] \in Unrun

UnreleasedOK == QueuesOK /\ EndedOK /\ CurrentFits /\ ToldOK /\ ActsOK
UnreleasedInv ==
  /\ destroying => quit
  /\ ~quit => UnreleasedOK

Calm == TypeOK /\ ~destroying /\ Here /\ UnreleasedOK

(* Of the parts of UnreleasedOK', all but ActsOK'; and all but that and    *)
(* the semaphores' queues.                                                 *)
ThreadsKept ==
  /\ QueueOK(ready', prio', status') /\ RunsOne(status', current')
  /\ EndedOK' /\ CurrentFits' /\ ToldOK'
Keeps == ThreadsKept /\ WaitersOK'

LEMMA CalmTypes ==
  ASSUME Calm
  PROVE  /\ ready \in Seq(Thread) /\ prio \in [Thread -> Int] /\ status \in [Thread -> Status]
         /\ host \in Hosts /\ allowed \in Flags /\ exitReq \in Flags /\ current \in Thread
         /\ wait \in [Thread -> Wait]
BY SchedTypes, Types DEF Calm, TypeOK

LEMMA CurrentRuns ==
  ASSUME status'[current'] = "RUN", \A h \in Thread : host'[h].at # "exitWake"
  PROVE  CurrentFits'
BY DEF CurrentFits

LEMMA ToldKept ==
  ASSUME ToldOK, \A t \in Thread : exitReq'[t] => exitReq[t],
         \A t \in Thread : exitReq'[t] /\ status[t] \in Unrun => status'[t] \in Unrun
  PROVE  ToldOK'
BY DEF ToldOK

LEMMA Caller ==
  ASSUME Calm, NEW self \in Thread, CanGoOn(host, allowed, exitReq, self),
         host[self].at # "exitWake", self = current => host[self].at # "finWake"
  PROVE  status[current] = "RUN" /\ \A h \in Thread : host[h].at # "exitWake"
BY CallerIsRunning DEF Calm, UnreleasedOK

LEMMA GuestCaller ==
  ASSUME Calm, NEW self \in Thread, host[self].at \in {"guest", "semaWake"}
  PROVE  /\ status[current] = "RUN" /\ \A h \in Thread : host[h].at # "exitWake"
         /\ CanGoOn(host, allowed, exitReq, self)
BY GuestIsRunning DEF Calm, UnreleasedOK, CanGoOn, RunAt, ExecutingAt

(* A host in guest code that is not the current thread's was told to exit: *)
(* its thread has ended.                                                   *)
LEMMA GuestEnded ==
  ASSUME Calm, NEW self \in Thread, host[self].at = "guest", self # current
  PROVE  status[self] \in Unrun
<1>1. CanGoOn(host, allowed, exitReq, self)
  BY DEF CanGoOn, RunAt, ExecutingAt
<1>2. PICK as \in [Thread -> Thread] : RunsAs(host, allowed, exitReq, current, as)
  BY <1>1 DEF Calm, UnreleasedOK, ActsOK, Acts, Stuck
<1>3. exitReq[self]
  BY <1>1, <1>2 DEF RunsAs
<1> QED BY <1>3 DEF Calm, UnreleasedOK, ToldOK

(* Calls that leave the scheduler and the hosts alone. *)
LEMMA StillFine ==
  ASSUME Calm, UNCHANGED <<schedVars, prio, waiters, host, allowed, exitReq>>
  PROVE  Keeps
<1>1. /\ status' = status /\ wait' = wait /\ ready' = ready /\ current' = current
      /\ prio' = prio /\ waiters' = waiters /\ host' = host /\ allowed' = allowed /\ exitReq' = exitReq
  BY DEF schedVars
<1>2. QueueOK(ready', prio', status') /\ RunsOne(status', current')
  BY <1>1 DEF Calm, UnreleasedOK, QueuesOK
<1>3. WaitersOK'
  BY <1>1, WaitersStay DEF Calm, UnreleasedOK, QueuesOK
<1>4. EndedOK'
  BY <1>1 DEF Calm, UnreleasedOK, EndedOK, Joiners
<1>5. CurrentFits'
  BY <1>1 DEF Calm, UnreleasedOK, CurrentFits, CurrentEnds
<1>6. ToldOK'
  BY <1>1 DEF Calm, UnreleasedOK, ToldOK
<1> QED BY <1>2, <1>3, <1>4, <1>5, <1>6 DEF Keeps, ThreadsKept

(* Only the host that takes the step moves, while the current thread runs. *)
LEMMA HostAlone ==
  ASSUME Calm, NEW self \in Thread, CanGoOn(host, allowed, exitReq, self),
         host[self].at # "exitWake", self = current => host[self].at # "finWake",
         UNCHANGED <<schedVars, prio, waiters, exitReq>>,
         \A t \in Thread : t # self => host'[t] = host[t],
         host'[self].at # "exitWake",
         host'[self].at \in Over \union {"finWake"} => status[self] \in Unrun,
         host'[self].at \in Over => Joiners(self) = {}
  PROVE  Keeps
<1>1. /\ status' = status /\ wait' = wait /\ ready' = ready /\ current' = current
      /\ prio' = prio /\ waiters' = waiters /\ exitReq' = exitReq
  BY DEF schedVars
<1>2. status[current] = "RUN" /\ \A h \in Thread : host[h].at # "exitWake"
  BY Caller
<1>3. QueueOK(ready', prio', status') /\ RunsOne(status', current')
  BY <1>1 DEF Calm, UnreleasedOK, QueuesOK
<1>4. WaitersOK'
  BY <1>1, WaitersStay DEF Calm, UnreleasedOK, QueuesOK
<1>5. EndedOK'
  <2>1. \A t \in Thread : Joiners(t)' = Joiners(t)
    BY <1>1 DEF Joiners
  <2> QED BY <1>1, <2>1 DEF Calm, UnreleasedOK, EndedOK
<1>6. CurrentFits'
  BY <1>1, <1>2, CurrentRuns
<1>7. ToldOK'
  BY <1>1 DEF Calm, UnreleasedOK, ToldOK
<1> QED BY <1>3, <1>4, <1>5, <1>6, <1>7 DEF Keeps, ThreadsKept

(* Calls that end in maybe_preempt.  Before that they have made the        *)
(* statuses st and the hosts hs, with new places for those of X at most.   *)
Leads(X, st, hs) ==
  /\ \A t \in Thread : t \notin X => hs[t] = host[t] /\ (status[t] \in Unrun => st[t] \in Unrun)
  /\ \A t \in Thread : t \in X => hs[t].at \notin Over \union {"finWake"}
  /\ \A t \in Thread : hs[t].at # "exitWake"
  /\ \A o \in Thread : st[o] = "WAIT" => status[o] = "WAIT" /\ wait'[o] = wait[o]
  /\ \A t \in Thread : exitReq'[t] => exitReq[t] /\ (status[t] \in Unrun => st[t] \in Unrun)

LEMMA CallPreempts ==
  ASSUME Calm, NEW self \in Thread, NEW X \in SUBSET Thread, self \in X,
         NEW st \in [Thread -> Status], NEW hs \in Hosts, Leads(X, st, hs),
         ReadyOK, SameKind(st), SwitchesFrom(self, hs)
  PROVE  ThreadsKept /\ \A t \in Thread : (status'[t] = "WAIT") <=> (st[t] = "WAIT")
<1>2. /\ \A t \in Thread : (status'[t] = "WAIT") <=> (st[t] = "WAIT")
      /\ \A t \in Thread : (status'[t] \in Unrun) <=> (st[t] \in Unrun)
  BY DEF SameKind
<1>3. /\ \A t \in Thread : t # self => host'[t] = hs[t]
      /\ host'[self] = hs[self] \/ host'[self].at = "switch"
  BY DEF Hosts, At, SwitchesFrom
<1>4. EndedOK'
  <2>1. \A t \in X : host'[t].at \notin Over \union {"finWake"}
    BY <1>3 DEF Over, Leads
  <2>2. \A t \in Thread \ X : host'[t] = host[t]
    BY <1>3 DEF Leads
  <2>3. \A t \in Thread \ X : status[t] \in Unrun => status'[t] \in Unrun
    BY <1>2 DEF Leads
  <2>4. \A o \in Thread : status'[o] = "WAIT" => status[o] = "WAIT" /\ wait'[o] = wait[o]
    BY <1>2 DEF Leads
  <2>5. EndedOK
    BY DEF Calm, UnreleasedOK
  <2> QED BY <2>1, <2>2, <2>3, <2>4, <2>5, EndsKept
<1>5. CurrentFits'
  <2>1. \A h \in Thread : host'[h].at # "exitWake"
    BY <1>3 DEF Leads
  <2>2. status'[current'] = "RUN"
    BY DEF ReadyOK
  <2> QED BY <2>1, <2>2, CurrentRuns
<1>6. ToldOK'
  <2>1. ToldOK
    BY DEF Calm, UnreleasedOK
  <2> QED BY <1>2, <2>1, ToldKept DEF Leads
<1> QED BY <1>2, <1>4, <1>5, <1>6 DEF ThreadsKept, ReadyOK

(* The same, when the call has moved no host. *)
LEMMA GuestPreempts ==
  ASSUME Calm, NEW self \in Thread, InGuest(self),
         NEW st \in [Thread -> Status], NEW rd \in Seq(Thread), MaybePreempt(self, st, rd),
         prio' \in [Thread -> Int], QueueOK(rd, prio', st), RunsOne(st, current), st[current] = "RUN",
         \A o \in Thread : st[o] = "WAIT" => status[o] = "WAIT" /\ wait'[o] = wait[o],
         \A t \in Thread : status[t] \in Unrun => st[t] \in Unrun,
         exitReq' = exitReq
  PROVE  ThreadsKept /\ \A t \in Thread : (status'[t] = "WAIT") <=> (st[t] = "WAIT")
<1>1. ReadyOK /\ SameKind(st) /\ SwitchesFrom(self, host)
  <2>1. MaybePreemptFrom(self, st, rd, host, allowed) /\ current \in Thread
    BY CalmTypes DEF MaybePreempt
  <2> QED BY <2>1, PreemptQueues
<1>2. \A t \in Thread : host[t].at # "exitWake"
  BY GuestCaller DEF InGuest
<1> DEFINE X == {self}
<1>3. X \in SUBSET Thread /\ self \in X
  OBVIOUS
<1>4. \A t \in X : host[t].at \notin Over \union {"finWake"}
  BY DEF InGuest, Over
<1>5. Leads(X, st, host)
  BY <1>2, <1>4 DEF Leads
<1> HIDE DEF X
<1> QED BY <1>1, <1>3, <1>5, CalmTypes, CallPreempts

LEMMA NonePreempts ==
  ASSUME Calm, NEW self \in Thread, InGuest(self), MaybePreempt(self, status, ready),
         UNCHANGED <<prio, wait, waiters, exitReq>>
  PROVE  Keeps
<1>1. /\ ready \in Seq(Thread) /\ prio' \in [Thread -> Int] /\ status \in [Thread -> Status]
  BY CalmTypes
<1>2. QueueOK(ready, prio', status) /\ RunsOne(status, current) /\ WaitersOK
  BY DEF Calm, UnreleasedOK, QueuesOK
<1>3. status[current] = "RUN"
  BY GuestCaller DEF InGuest
<1>4. ThreadsKept /\ \A t \in Thread : (status'[t] = "WAIT") <=> (status[t] = "WAIT")
  BY <1>1, <1>2, <1>3, GuestPreempts
<1>5. WaitersOK'
  BY <1>2, <1>4, WaitersStay
<1> QED BY <1>4, <1>5 DEF Keeps

LEMMA OnePreempts ==
  ASSUME Calm, NEW self \in Thread, InGuest(self), UNCHANGED <<prio, exitReq>>,
         NEW t \in Thread, status[t] \in {"WAIT", "SUSPEND"},
         MaybePreempt(self, [status EXCEPT ![t] = "READY"], ReadyInsert(ready, prio, t)),
         \A u \in Thread : u # t => wait'[u] = wait[u]
  PROVE  ThreadsKept /\ \A u \in Thread : (status'[u] = "WAIT") <=> (u # t /\ status[u] = "WAIT")
<1> DEFINE st == [status EXCEPT ![t] = "READY"]
           rd == ReadyInsert(ready, prio, t)
<1>1. st \in [Thread -> Status] /\ rd \in Seq(Thread)
  BY MakeReadyType, CalmTypes DEF Calm
<1>2. /\ \A u \in Thread : u # t => st[u] = status[u]
      /\ st[t] = "READY"
  BY CalmTypes
<1>3. QueueOK(ready, prio, status) /\ RunsOne(status, current) /\ status[current] = "RUN"
  BY GuestCaller DEF Calm, UnreleasedOK, QueuesOK, InGuest
<1> HIDE DEF st
<1>4. QueueOK(rd, prio', st)
  BY <1>2, <1>3, CalmTypes, QueueWith
<1>5. RunsOne(st, current) /\ st[current] = "RUN"
  BY <1>2, <1>3, CalmTypes DEF RunsOne
<1>6. /\ \A o \in Thread : st[o] = "WAIT" => status[o] = "WAIT" /\ wait'[o] = wait[o]
      /\ \A u \in Thread : status[u] \in Unrun => st[u] \in Unrun
      /\ \A u \in Thread : (st[u] = "WAIT") <=> (u # t /\ status[u] = "WAIT")
  BY <1>2 DEF Unrun
<1>7. MaybePreempt(self, st, rd) /\ prio' \in [Thread -> Int]
  BY CalmTypes DEF st
<1> HIDE DEF rd
<1>8. ThreadsKept /\ \A u \in Thread : (status'[u] = "WAIT") <=> (st[u] = "WAIT")
  BY <1>1, <1>4, <1>5, <1>6, <1>7, GuestPreempts
<1> QED BY <1>6, <1>8

(* Calls that block. *)
LEMMA CallBlocks ==
  ASSUME Calm, NEW self \in Thread, InGuest(self), ~quit', UNCHANGED <<prio, exitReq>>,
         NEW s \in {"WAIT", "SUSPEND"}, NEW w, BlockCurrent(self, s, w, ready),
         \A t \in Thread : w = WaitOnJoin(t) => host[t].at \notin Over
  PROVE  /\ ThreadsKept /\ status[current] = "RUN"
         /\ wait' = [wait EXCEPT ![current] = w]
         /\ \A t \in Thread : (status'[t] = "WAIT") <=> (IF t = current THEN s = "WAIT" ELSE status[t] = "WAIT")
<1>1. status[current] = "RUN" /\ \A h \in Thread : host[h].at # "exitWake"
  BY GuestCaller DEF InGuest
<1>2. /\ ReadyOK
      /\ host' = [host EXCEPT ![self] = At("switch", current)]
      /\ wait' = [wait EXCEPT ![current] = w]
      /\ \A t \in Thread : t # current => /\ (status'[t] = "WAIT") <=> (status[t] = "WAIT")
                                          /\ (status'[t] \in Unrun) <=> (status[t] \in Unrun)
      /\ status'[current] = s
  BY <1>1, BlockQueues DEF Calm, UnreleasedOK
<1>3. host'[self].at = "switch" /\ \A t \in Thread : t # self => host'[t] = host[t]
  BY <1>2, CalmTypes DEF Hosts, At
<1>4. wait'[current] = w /\ \A t \in Thread : t # current => wait'[t] = wait[t]
  BY <1>2, CalmTypes
<1>5. \A t \in Thread : status[t] \in Unrun => status'[t] \in Unrun
  BY <1>1, <1>2 DEF Unrun
<1>6. EndedOK'
  <2>1. \A t \in {self} : host'[t].at \notin Over \union {"finWake"}
    BY <1>3 DEF Over
  <2>2. \A t \in Thread \ {self} : host'[t] = host[t]
    BY <1>3
  <2>3. ASSUME NEW o \in Thread, status'[o] = "WAIT"
        PROVE  \/ status[o] = "WAIT" /\ wait'[o] = wait[o]
               \/ \A t \in Thread : wait'[o] = WaitOnJoin(t) => host'[t].at \notin Over
    <3>1. CASE o # current
      BY <1>2, <1>4, <2>3, <3>1
    <3>2. CASE o = current
      <4>1. \A t \in Thread : host[t].at \notin Over => host'[t].at \notin Over
        BY <1>3 DEF Over
      <4> QED BY <1>4, <3>2, <4>1
    <3> QED BY <3>1, <3>2
  <2>4. EndedOK /\ {self} \in SUBSET Thread
    BY DEF Calm, UnreleasedOK
  <2> QED BY <1>5, <2>1, <2>2, <2>3, <2>4, EndsKept
<1>7. CurrentFits'
  <2>1. \A h \in Thread : host'[h].at # "exitWake"
    BY <1>1, <1>3
  <2> QED BY <1>2, <2>1, CurrentRuns DEF ReadyOK
<1>8. ToldOK'
  <2>1. ToldOK
    BY DEF Calm, UnreleasedOK
  <2> QED BY <1>5, <2>1, ToldKept
<1>9. \A t \in Thread : (status'[t] = "WAIT") <=> (IF t = current THEN s = "WAIT" ELSE status[t] = "WAIT")
  BY <1>2
<1>10. ThreadsKept
  BY <1>2, <1>6, <1>7, <1>8 DEF ThreadsKept, ReadyOK
<1> QED BY <1>1, <1>2, <1>9, <1>10

LEMMA CallBlocksHere ==
  ASSUME Calm, NEW self \in Thread, InGuest(self), ~quit', UNCHANGED <<prio, waiters, exitReq>>,
         NEW s \in {"WAIT", "SUSPEND"}, NEW w, BlockCurrent(self, s, w, ready),
         \A t \in Thread : w = WaitOnJoin(t) => host[t].at \notin Over,
         \A r \in Sema : w # WaitOnSema(r)
  PROVE  Keeps
<1>1. /\ ThreadsKept /\ status[current] = "RUN"
      /\ wait' = [wait EXCEPT ![current] = w]
      /\ \A t \in Thread : (status'[t] = "WAIT") <=> (IF t = current THEN s = "WAIT" ELSE status[t] = "WAIT")
  BY CallBlocks
<1>2. wait'[current] = w /\ \A t \in Thread : t # current => wait'[t] = wait[t]
  BY <1>1, CalmTypes
<1>3. \A r \in Sema : ~OnSema(status, wait, current, r) /\ ~OnSema(status', wait', current, r)
  BY <1>1, <1>2 DEF OnSema
<1>4. WaitersOK
  BY DEF Calm, UnreleasedOK, QueuesOK
<1>5. WaitersOK'
  BY <1>1, <1>2, <1>3, <1>4, CalmTypes, WaitersStayBut
<1> QED BY <1>1, <1>5 DEF Keeps

-----------------------------------------------------------------------------
(* The calls on threads. *)

(* No host moves, and nobody is roused or put to sleep but by becoming     *)
(* ready.                                                                  *)
LEMMA HostsStay ==
  ASSUME Calm, NEW self \in Thread, host[self].at \in {"guest", "semaWake"},
         UNCHANGED <<host, exitReq, current>>, status'[current] = "RUN",
         \A t \in Thread : status[t] \in Unrun => status'[t] \in Unrun,
         \A o \in Thread : status'[o] = "WAIT" => status[o] = "WAIT" /\ wait'[o] = wait[o]
  PROVE  EndedOK' /\ CurrentFits' /\ ToldOK'
<1>1. EndedOK'
  <2> DEFINE X == {}
  <2>1. X \in SUBSET Thread /\ \A t \in X : host'[t].at \notin Over \union {"finWake"}
    OBVIOUS
  <2>2. \A t \in Thread \ X : host'[t] = host[t] /\ (status[t] \in Unrun => status'[t] \in Unrun)
    OBVIOUS
  <2> HIDE DEF X
  <2> QED BY <2>1, <2>2, EndsKept DEF Calm, UnreleasedOK
<1>2. CurrentFits'
  <2>1. \A h \in Thread : host'[h].at # "exitWake"
    BY GuestCaller
  <2> QED BY <2>1, CurrentRuns
<1>3. ToldOK'
  BY ToldKept DEF Calm, UnreleasedOK
<1> QED BY <1>1, <1>2, <1>3

LEMMA CreateFine ==
  ASSUME Calm, NEW self \in Thread, NEW t \in Thread, NEW p \in Priority,
         CreateThread(self, t, p), prio' \in [Thread -> Int]
  PROVE  Keeps
<1>1. /\ status' = [status EXCEPT ![t] = "DORMANT"] /\ prio' = [prio EXCEPT ![t] = p]
      /\ status[t] = "none" /\ InGuest(self)
      /\ UNCHANGED <<wait, ready, current, waiters, host, exitReq>>
  BY DEF CreateThread, Exists, semaVars, hostVars, ctlVars
<1>2. status[current] = "RUN" /\ current # t
  BY <1>1, GuestCaller DEF InGuest
<1>3. /\ status'[t] = "DORMANT"
      /\ \A u \in Thread : u # t => status'[u] = status[u] /\ prio'[u] = prio[u]
      /\ \A u \in Thread : (status'[u] = "READY") <=> (status[u] = "READY")
  BY <1>1, CalmTypes
<1>4. QueueOK(ready', prio', status')
  <2>1. QueueOK(ready, prio, status)
    BY DEF Calm, UnreleasedOK, QueuesOK
  <2>2. \A u \in Thread : status[u] = "READY" => prio'[u] = prio[u]
    BY <1>1, <1>3
  <2>3. QueueOK(ready, prio', status')
    BY <1>3, <2>1, <2>2, CalmTypes, QueueSame
  <2> QED BY <1>1, <2>3
<1>5. RunsOne(status', current')
  BY <1>1, <1>3 DEF RunsOne, Calm, UnreleasedOK, QueuesOK
<1>6. WaitersOK'
  <2>1. \A u \in Thread : (status'[u] = "WAIT") <=> (status[u] = "WAIT")
    BY <1>1, <1>3
  <2> QED BY <1>1, <2>1, WaitersStay DEF Calm, UnreleasedOK, QueuesOK
<1>7. EndedOK' /\ CurrentFits' /\ ToldOK'
  <2>1. status'[current] = "RUN"
    BY <1>2, <1>3, CalmTypes
  <2>2. \A u \in Thread : status[u] \in Unrun => status'[u] \in Unrun
    BY <1>3 DEF Unrun
  <2>3. \A o \in Thread : status'[o] = "WAIT" => status[o] = "WAIT" /\ wait'[o] = wait[o]
    BY <1>1, <1>3
  <2> QED BY <1>1, <2>1, <2>2, <2>3, HostsStay DEF InGuest
<1> QED BY <1>4, <1>5, <1>6, <1>7 DEF Keeps, ThreadsKept

LEMMA LaunchFine ==
  ASSUME Calm, NEW self \in Thread, InGuest(self), NEW t \in Thread, status[t] = "DORMANT",
         host[t].at = "none", Launch(self, t)
  PROVE  Keeps
<1> DEFINE st == [status EXCEPT ![t] = "READY"]
           rd == ReadyInsert(ready, prio, t)
           hs == [host EXCEPT ![self] = At("guest", self), ![t] = At("start", t)]
           al == [allowed EXCEPT ![t] = FALSE]
           X == {self, t}
<1>1. /\ MaybePreemptFrom(self, st, rd, hs, al)
      /\ wait' = [wait EXCEPT ![t] = NotWaiting] /\ exitReq' = [exitReq EXCEPT ![t] = FALSE]
      /\ UNCHANGED <<prio, waiters>>
  BY DEF Launch, attrVars, semaVars
<1>2. status[current] = "RUN" /\ (\A h \in Thread : host[h].at # "exitWake") /\ t # self
  BY GuestCaller DEF InGuest
<1>3. /\ st \in [Thread -> Status] /\ rd \in Seq(Thread)
      /\ st[t] = "READY" /\ \A u \in Thread : u # t => st[u] = status[u]
  BY MakeReadyType, CalmTypes DEF Calm
<1>4. /\ At("guest", self) \in [at : HostAt, on : Nat] /\ At("start", t) \in [at : HostAt, on : Nat]
      /\ At("guest", self).at = "guest" /\ At("start", t).at = "start"
  BY AtType DEF HostAt, At
<1>5. /\ hs \in Hosts /\ hs[self].at = "guest" /\ hs[t].at = "start"
      /\ \A u \in Thread : u # t /\ u # self => hs[u] = host[u]
  BY <1>2, <1>4, CalmTypes DEF Hosts
<1>6. ~exitReq'[t] /\ \A u \in Thread : u # t => exitReq'[u] = exitReq[u] /\ wait'[u] = wait[u]
  BY <1>1, CalmTypes DEF Flags
<1>7. \A u \in Thread : /\ (st[u] = "READY") <=> (u = t \/ status[u] = "READY")
                        /\ (st[u] = "WAIT") <=> (status[u] = "WAIT")
  BY <1>3
<1>8. Leads(X, st, hs)
  <2>1. \A u \in Thread : u \notin X => hs[u] = host[u] /\ (status[u] \in Unrun => st[u] \in Unrun)
    BY <1>3, <1>5
  <2>2. \A u \in Thread : u \in X => hs[u].at \notin Over \union {"finWake"}
    BY <1>5 DEF Over
  <2>3. \A u \in Thread : hs[u].at # "exitWake"
    BY <1>2, <1>5
  <2>4. \A o \in Thread : st[o] = "WAIT" => status[o] = "WAIT" /\ wait'[o] = wait[o]
    BY <1>3, <1>6
  <2>5. \A u \in Thread : exitReq'[u] => exitReq[u] /\ (status[u] \in Unrun => st[u] \in Unrun)
    BY <1>3, <1>6
  <2> QED BY <2>1, <2>2, <2>3, <2>4, <2>5 DEF Leads
<1>9. X \in SUBSET Thread /\ self \in X
  OBVIOUS
<1> HIDE DEF st, rd, hs, al, X
<1>10. QueueOK(rd, prio', st)
  <2>1. QueueOK(ready, prio, status)
    BY DEF Calm, UnreleasedOK, QueuesOK
  <2> QED BY <1>1, <1>7, <2>1, CalmTypes, QueueWith DEF rd
<1>11. RunsOne(st, current) /\ st[current] = "RUN"
  BY <1>2, <1>3, CalmTypes DEF RunsOne, Calm, UnreleasedOK, QueuesOK
<1>12. ReadyOK /\ SameKind(st) /\ SwitchesFrom(self, hs)
  <2>1. current \in Thread /\ prio' \in [Thread -> Int]
    BY <1>1, CalmTypes
  <2>2. MaybePreemptFrom(self, st, rd, hs, al) /\ st \in [Thread -> Status] /\ rd \in Seq(Thread)
    BY <1>1, <1>3
  <2> QED BY <1>10, <1>11, <2>1, <2>2, PreemptQueues
<1>13. ThreadsKept /\ \A u \in Thread : (status'[u] = "WAIT") <=> (st[u] = "WAIT")
  BY <1>3, <1>5, <1>8, <1>9, <1>12, CallPreempts
<1>14. WaitersOK'
  <2>1. \A u \in Thread : (status'[u] = "WAIT") <=> (status[u] = "WAIT")
    BY <1>7, <1>13
  <2>2. \A u \in Thread : status[u] = "WAIT" => wait'[u] = wait[u]
    BY <1>6
  <2> QED BY <1>1, <2>1, <2>2, WaitersStay DEF Calm, UnreleasedOK, QueuesOK
<1> QED BY <1>13, <1>14 DEF Keeps

LEMMA StartFine ==
  ASSUME Calm, NEW self \in Thread, NEW t \in Thread, StartThread(self, t)
  PROVE  Keeps
<1>1. InGuest(self) /\ status[t] = "DORMANT"
  BY DEF StartThread
<1>2. CASE Joinable(t)
  <2>1. /\ host' = [host EXCEPT ![self] = At("joinStart", t)]
        /\ UNCHANGED <<schedVars, prio, waiters, exitReq>>
    BY <1>2 DEF StartThread, attrVars, semaVars
  <2>2. host'[self].at = "joinStart" /\ \A u \in Thread : u # self => host'[u] = host[u]
    BY <2>1, CalmTypes DEF Hosts, At
  <2>3. CanGoOn(host, allowed, exitReq, self)
    BY <1>1, GuestCaller DEF InGuest
  <2> QED BY <1>1, <2>1, <2>2, <2>3, HostAlone DEF InGuest, Over
<1>3. CASE ~Joinable(t)
  BY <1>1, <1>3, LaunchFine DEF StartThread, Joinable
<1> QED BY <1>2, <1>3

LEMMA ExitFine ==
  ASSUME Calm, NEW self \in Thread, ExitThread(self), ~quit'
  PROVE  Keeps
<1>1. /\ InGuest(self) /\ current # Main
      /\ status' = [status EXCEPT ![current] = "DORMANT"]
      /\ host' = [host EXCEPT ![self] = At("exitWake", current)]
      /\ UNCHANGED <<wait, ready, current, prio, waiters, exitReq>>
  BY DEF ExitThread, attrVars, semaVars
<1>2. status[current] = "RUN" /\ current \in Thread
  BY <1>1, GuestCaller, CalmTypes DEF InGuest
<1>3. /\ status'[current] = "DORMANT" /\ host'[self].at = "exitWake"
      /\ \A t \in Thread : t # current => status'[t] = status[t]
      /\ \A t \in Thread : t # self => host'[t] = host[t]
  BY <1>1, CalmTypes DEF Hosts, At
<1>4. QueueOK(ready', prio', status')
  <2>1. \A t \in Thread : (status'[t] = "READY") <=> (status[t] = "READY")
    BY <1>2, <1>3
  <2>2. QueueOK(ready, prio, status)
    BY DEF Calm, UnreleasedOK, QueuesOK
  <2>3. QueueOK(ready, prio, status')
    BY <2>1, <2>2, CalmTypes, QueueSame
  <2> QED BY <1>1, <2>3
<1>5. RunsOne(status', current')
  BY <1>1, <1>3 DEF RunsOne, Calm, UnreleasedOK, QueuesOK
<1>6. WaitersOK'
  <2>1. \A u \in Thread : (status'[u] = "WAIT") <=> (status[u] = "WAIT")
    BY <1>2, <1>3
  <2> QED BY <1>1, <2>1, WaitersStay DEF Calm, UnreleasedOK, QueuesOK
<1>7. \A u \in Thread : status[u] \in Unrun => status'[u] \in Unrun
  BY <1>3 DEF Unrun
<1>8. EndedOK'
  <2>1. \A t \in {self} : host'[t].at \notin Over \union {"finWake"}
    BY <1>3 DEF Over
  <2>2. \A o \in Thread : status'[o] = "WAIT" => status[o] = "WAIT" /\ wait'[o] = wait[o]
    BY <1>1, <1>3
  <2>3. {self} \in SUBSET Thread /\ EndedOK /\ \A t \in Thread \ {self} : host'[t] = host[t]
    BY <1>3 DEF Calm, UnreleasedOK
  <2> QED BY <1>7, <2>1, <2>2, <2>3, EndsKept
<1>9. CurrentFits'
  BY <1>1, <1>2, <1>3 DEF CurrentFits, CurrentEnds
<1>10. ToldOK'
  BY <1>1, <1>7, ToldKept DEF Calm, UnreleasedOK
<1> QED BY <1>4, <1>5, <1>6, <1>8, <1>9, <1>10 DEF Keeps, ThreadsKept

(* finish_thread begins, in guest code or before it. *)
LEMMA FinishFine ==
  ASSUME Calm, NEW self \in Thread, CanGoOn(host, allowed, exitReq, self),
         host[self].at \in {"guest", "start"}, self = current \/ status[self] \in Unrun,
         status' = [status EXCEPT ![self] = "DORMANT"],
         wait' = [wait EXCEPT ![self] = NotWaiting],
         host' = [host EXCEPT ![self] = At("finWake", self)],
         UNCHANGED <<ready, current, prio, waiters, exitReq>>
  PROVE  Keeps
<1>1. status[current] = "RUN" /\ (\A h \in Thread : host[h].at # "exitWake") /\ current \in Thread
  BY Caller, CalmTypes
<1>2. /\ status'[self] = "DORMANT" /\ host'[self].at = "finWake"
      /\ \A t \in Thread : t # self => status'[t] = status[t] /\ host'[t] = host[t] /\ wait'[t] = wait[t]
  BY CalmTypes DEF Hosts, At
<1>3. status[self] \notin {"READY", "WAIT"}
  BY <1>1 DEF Unrun
<1>4. QueueOK(ready', prio', status')
  <2>1. \A t \in Thread : (status'[t] = "READY") <=> (status[t] = "READY")
    BY <1>2, <1>3
  <2>2. QueueOK(ready, prio, status)
    BY DEF Calm, UnreleasedOK, QueuesOK
  <2>3. QueueOK(ready, prio, status')
    BY <2>1, <2>2, CalmTypes, QueueSame
  <2> QED BY <2>3
<1>5. RunsOne(status', current')
  BY <1>2 DEF RunsOne, Calm, UnreleasedOK, QueuesOK
<1>6. WaitersOK'
  <2>1. \A u \in Thread : (status'[u] = "WAIT") <=> (status[u] = "WAIT")
    BY <1>2, <1>3
  <2>2. \A u \in Thread : status[u] = "WAIT" => wait'[u] = wait[u]
    BY <1>2, <1>3
  <2> QED BY <2>1, <2>2, WaitersStay DEF Calm, UnreleasedOK, QueuesOK
<1>7. \A u \in Thread : status[u] \in Unrun => status'[u] \in Unrun
  BY <1>2 DEF Unrun
<1>8. EndedOK'
  <2> DEFINE X == {}
  <2>0. X \in SUBSET Thread /\ \A t \in X : host'[t].at \notin Over \union {"finWake"}
    OBVIOUS
  <2>1. \A t \in Thread \ X : host'[t].at \in Over \union {"finWake"} =>
          /\ status'[t] \in Unrun \/ (host[t].at \in Over \union {"finWake"} /\ t # self)
          /\ host'[t].at \in Over => host[t].at \in Over
    BY <1>2 DEF Over, Unrun
  <2> HIDE DEF X
  <2>2. \A o \in Thread : status'[o] = "WAIT" => status[o] = "WAIT" /\ wait'[o] = wait[o]
    BY <1>2, <1>3
  <2>3. EndedOK
    BY DEF Calm, UnreleasedOK
  <2> QED BY <1>7, <2>0, <2>1, <2>2, <2>3, EndsKept
<1>9. CurrentFits'
  <2>1. \A h \in Thread : host'[h].at # "exitWake"
    BY <1>1, <1>2
  <2>2. CASE self = current
    BY <1>2, <2>1, <2>2 DEF CurrentFits, CurrentEnds
  <2>3. CASE self # current
    BY <1>1, <1>2, <2>1, <2>3, CurrentRuns
  <2> QED BY <2>2, <2>3
<1>10. ToldOK'
  BY <1>7, ToldKept DEF Calm, UnreleasedOK
<1> QED BY <1>4, <1>5, <1>6, <1>8, <1>9, <1>10 DEF Keeps, ThreadsKept

LEMMA PriorityFine ==
  ASSUME Calm, NEW self \in Thread, NEW t \in Thread, NEW p \in Priority,
         ChangeThreadPriority(self, t, p), prio' \in [Thread -> Int]
  PROVE  Keeps
<1>1. /\ InGuest(self) /\ prio' = [prio EXCEPT ![t] = p] /\ UNCHANGED <<wait, waiters, exitReq>>
      /\ MaybePreempt(self, status, IF status[t] = "READY"
                                    THEN ReadyInsert(ReadyRemove(ready, t), prio', t) ELSE ready)
  BY DEF ChangeThreadPriority, semaVars
<1>2. \A u \in Thread : u # t => prio'[u] = prio[u]
  BY <1>1, CalmTypes
<1>3. QueueOK(ready, prio, status) /\ RunsOne(status, current) /\ WaitersOK
  BY DEF Calm, UnreleasedOK, QueuesOK
<1>4. \E rd \in Seq(Thread) : MaybePreempt(self, status, rd) /\ QueueOK(rd, prio', status)
  <2>1. CASE status[t] # "READY"
    <3>1. \A u \in Thread : status[u] = "READY" => prio'[u] = prio[u]
      BY <1>2, <2>1
    <3>2. QueueOK(ready, prio', status)
      BY <1>3, <3>1, CalmTypes, QueueSame
    <3> QED BY <1>1, <2>1, <3>2, CalmTypes
  <2>2. CASE status[t] = "READY"
    BY <1>1, <1>2, <1>3, <2>2, QueueReordered DEF Calm
  <2> QED BY <2>1, <2>2
<1>5. PICK rd \in Seq(Thread) : MaybePreempt(self, status, rd) /\ QueueOK(rd, prio', status)
  BY <1>4
<1>6. status[current] = "RUN"
  BY <1>1, GuestCaller DEF InGuest
<1>7. ThreadsKept /\ \A u \in Thread : (status'[u] = "WAIT") <=> (status[u] = "WAIT")
  BY <1>1, <1>3, <1>5, <1>6, CalmTypes, GuestPreempts
<1>8. WaitersOK'
  BY <1>1, <1>3, <1>7, WaitersStay
<1> QED BY <1>7, <1>8 DEF Keeps

LEMMA RotateFine ==
  ASSUME Calm, NEW self \in Thread, NEW p \in Priority, RotateThreadReadyQueue(self, p)
  PROVE  Keeps
<1>1. InGuest(self) /\ UNCHANGED <<wait, waiters, prio, exitReq>>
  BY DEF RotateThreadReadyQueue, attrVars, semaVars
<1>2. PICK i \in 1..Len(ready) :
        /\ status' = [status EXCEPT ![current] = "READY", ![ready[i]] = "RUN"]
        /\ ready' = ReadyInsert(ReadyRemove(ready, ready[i]), prio, current)
        /\ current' = ready[i]
        /\ SwitchTo(self, ready[i], current, "switch", host, allowed)
  BY DEF RotateThreadReadyQueue
<1>3. status[current] = "RUN" /\ (\A h \in Thread : host[h].at # "exitWake") /\ current \in Thread
  BY <1>1, GuestCaller, CalmTypes DEF InGuest
<1>4. QueueOK(ready, prio, status) /\ RunsOne(status, current) /\ WaitersOK
  BY DEF Calm, UnreleasedOK, QueuesOK
<1> DEFINE x == ready[i]
           rd == ReadyRemove(ready, x)
           st == [status EXCEPT ![x] = "RUN"]
           X == {self}
<1>5. x \in Thread /\ Contains(ready, x) /\ rd \in Seq(Thread)
  BY CalmTypes, ElementOfSeq, ReadyRemoveType DEF Contains
<1>6. status[x] = "READY" /\ x # current
  BY <1>3, <1>4, <1>5 DEF QueueOK
<1>7. PICK k \in 1..Len(ready) : ready[k] = x /\ Removed(rd, ready, k)
  BY <1>5, CalmTypes, ReadyRemoveElements
<1>8. /\ status' = [status EXCEPT ![current] = "READY", ![x] = "RUN"]
      /\ ready' = ReadyInsert(rd, prio, current) /\ current' = x
      /\ host' = [host EXCEPT ![self] = At("switch", current)]
  BY <1>2 DEF SwitchTo
<1>9. /\ \A u \in Thread : (st[u] = "READY") <=> (u # x /\ status[u] = "READY")
      /\ \A u \in Thread : (status'[u] = "READY") <=> (u = current \/ st[u] = "READY")
      /\ \A u \in Thread : (status'[u] = "WAIT") <=> (status[u] = "WAIT")
      /\ \A u \in Thread : (status'[u] \in Unrun) <=> (status[u] \in Unrun)
      /\ \A u \in Thread : status'[u] = "RUN" => u = x
      /\ status'[x] = "RUN" /\ st[current] = "RUN"
  BY <1>3, <1>4, <1>5, <1>6, <1>8, CalmTypes DEF RunsOne, Unrun
<1>10. X \in SUBSET Thread /\ self \in X
  OBVIOUS
<1>11. Leads(X, status, host)
  BY <1>1, <1>3 DEF Leads, InGuest, Over
<1> HIDE DEF x, rd, st, X
<1>12. QueueOK(rd, prio, st)
  BY <1>4, <1>7, <1>9, QueueWithout
<1>13. QueueOK(ready', prio', status')
  <2>1. QueueOK(ReadyInsert(rd, prio, current), prio, status')
    BY <1>3, <1>5, <1>9, <1>12, CalmTypes, QueueWith
  <2> QED BY <1>1, <1>8, <2>1
<1>14. ReadyOK /\ SameKind(status) /\ SwitchesFrom(self, host)
  BY <1>8, <1>9, <1>13 DEF ReadyOK, SameKind, SwitchesFrom, RunsOne
<1>15. ThreadsKept /\ \A u \in Thread : (status'[u] = "WAIT") <=> (status[u] = "WAIT")
  BY <1>10, <1>11, <1>14, CalmTypes, CallPreempts
<1>16. WaitersOK'
  BY <1>1, <1>4, <1>15, WaitersStay
<1> QED BY <1>15, <1>16 DEF Keeps

LEMMA SuspendFine ==
  ASSUME Calm, NEW self \in Thread, NEW t \in Thread, SuspendThread(self, t), ~quit'
  PROVE  Keeps
<1>1. /\ InGuest(self) /\ status[current] = "RUN" /\ current \in Thread
      /\ UNCHANGED <<prio, waiters, exitReq>>
  BY GuestCaller, CalmTypes DEF SuspendThread, semaVars, InGuest
<1>2. CASE t = current /\ suspends[t] = 0
  <2>1. BlockCurrent(self, "SUSPEND", WaitSleep, ready)
    BY <1>1, <1>2 DEF SuspendThread
  <2>2. /\ \A u \in Thread : WaitSleep # WaitOnJoin(u)
        /\ \A r \in Sema : WaitSleep # WaitOnSema(r)
    BY DEF WaitSleep, WaitOnJoin, WaitOnSema
  <2> HIDE DEF WaitSleep
  <2> QED BY <1>1, <2>1, <2>2, CallBlocksHere
<1>3. CASE ~(t = current /\ suspends[t] = 0) /\ status[t] # "READY"
  BY <1>1, <1>3, StillFine DEF SuspendThread, schedVars
<1>4. CASE ~(t = current /\ suspends[t] = 0) /\ status[t] = "READY"
  <2>1. /\ ready' = ReadyRemove(ready, t) /\ status' = [status EXCEPT ![t] = "SUSPEND"]
        /\ UNCHANGED <<wait, current, host>>
    BY <1>4 DEF SuspendThread
  <2>2. /\ status'[t] = "SUSPEND" /\ \A u \in Thread : u # t => status'[u] = status[u]
        /\ \A u \in Thread : (status'[u] = "READY") <=> (u # t /\ status[u] = "READY")
        /\ \A u \in Thread : (status'[u] = "WAIT") <=> (status[u] = "WAIT")
        /\ \A u \in Thread : status[u] \in Unrun => status'[u] \in Unrun
    BY <1>4, <2>1, CalmTypes DEF Unrun
  <2>3. QueueOK(ready, prio, status) /\ RunsOne(status, current) /\ WaitersOK
    BY DEF Calm, UnreleasedOK, QueuesOK
  <2>4. Contains(ready, t)
    BY <1>4, <2>3 DEF QueueOK
  <2>5. PICK k \in 1..Len(ready) : ready[k] = t /\ Removed(ready', ready, k)
    BY <2>1, <2>4, CalmTypes, ReadyRemoveElements
  <2>6. QueueOK(ready', prio', status')
    <3>1. QueueOK(ready', prio, status')
      BY <2>2, <2>3, <2>5, QueueWithout
    <3> QED BY <1>1, <3>1
  <2>7. RunsOne(status', current') /\ status'[current] = "RUN"
    BY <1>1, <1>4, <2>1, <2>2, <2>3 DEF RunsOne
  <2>8. EndedOK' /\ CurrentFits' /\ ToldOK'
    <3>1. \A o \in Thread : status'[o] = "WAIT" => status[o] = "WAIT" /\ wait'[o] = wait[o]
      BY <2>1, <2>2
    <3> QED BY <1>1, <2>1, <2>2, <2>7, <3>1, HostsStay DEF InGuest
  <2>9. WaitersOK'
    BY <1>1, <2>1, <2>2, <2>3, WaitersStay
  <2> QED BY <2>6, <2>7, <2>8, <2>9 DEF Keeps, ThreadsKept
<1> QED BY <1>2, <1>3, <1>4

(* JoinThread waits for a thread whose host is not at its end: that one is *)
(* not DORMANT.                                                            *)
LEMMA JoinFine ==
  ASSUME Calm, NEW self \in Thread, NEW t \in Thread, JoinThread(self, t), ~quit'
  PROVE  Keeps
<1>1. /\ InGuest(self) /\ UNCHANGED <<prio, waiters, exitReq>> /\ status[t] \notin Unrun
      /\ BlockCurrent(self, "WAIT", WaitOnJoin(t), ready)
  BY DEF JoinThread, attrVars, semaVars, Exists, Unrun
<1>2. host[t].at \notin Over
  BY <1>1 DEF Calm, UnreleasedOK, EndedOK
<1> DEFINE w == WaitOnJoin(t)
<1>3. /\ \A u \in Thread : w = WaitOnJoin(u) => host[u].at \notin Over
      /\ \A r \in Sema : w # WaitOnSema(r)
  BY <1>2 DEF WaitOnJoin, WaitOnSema
<1>4. BlockCurrent(self, "WAIT", w, ready)
  BY <1>1
<1> HIDE DEF w
<1> QED BY <1>1, <1>3, <1>4, CallBlocksHere

LEMMA ThreadCallFine ==
  ASSUME Calm, TypeOK', ~quit', NEW self \in Thread, ThreadCall(self)
  PROVE  Keeps
<1>0. prio' \in [Thread -> Int]
  <2>1. \A p \in Priority : p \in Int
    BY PriorityAssumption
  <2> QED BY <2>1 DEF TypeOK
<1>1. ASSUME NEW t \in Thread, NEW p \in Priority, CreateThread(self, t, p) PROVE Keeps
  BY <1>0, <1>1, CreateFine
<1>2. ASSUME NEW t \in Thread, StartThread(self, t) PROVE Keeps
  BY <1>2, StartFine
<1>3. ASSUME ExitThread(self) PROVE Keeps
  BY <1>3, ExitFine
<1>4. ASSUME FinishThread(self) PROVE Keeps
  <2>1. InGuest(self) /\ CanGoOn(host, allowed, exitReq, self) /\ (self = current \/ status[self] \in Unrun)
    BY <1>4, GuestCaller, GuestEnded DEF FinishThread, InGuest
  <2> QED BY <1>4, <2>1, FinishFine DEF FinishThread, InGuest, attrVars, semaVars
<1>5. ASSUME NEW t \in Thread, NEW p \in Priority, ChangeThreadPriority(self, t, p) PROVE Keeps
  BY <1>0, <1>5, PriorityFine
<1>6. ASSUME NEW p \in Priority, RotateThreadReadyQueue(self, p) PROVE Keeps
  BY <1>6, RotateFine
<1>7. ASSUME SleepThread(self) PROVE Keeps
  <2>1. CASE wakeups[current] > 0
    BY <1>7, <2>1, StillFine DEF SleepThread, semaVars
  <2>2. CASE ~(wakeups[current] > 0)
    <3> DEFINE w == WaitSleep
    <3>1. /\ InGuest(self) /\ UNCHANGED <<prio, waiters, exitReq>>
          /\ BlockCurrent(self, "WAIT", w, ready)
      BY <1>7, <2>2 DEF SleepThread, semaVars
    <3>2. /\ \A u \in Thread : w # WaitOnJoin(u)
          /\ \A r \in Sema : w # WaitOnSema(r)
      BY DEF WaitSleep, WaitOnJoin, WaitOnSema
    <3> HIDE DEF w
    <3> QED BY <3>1, <3>2, CallBlocksHere
  <2> QED BY <2>1, <2>2
<1>8. ASSUME NEW t \in Thread, WakeupThread(self, t) PROVE Keeps
  <2>1. CASE status[t] = "WAIT" /\ wait[t] = WaitSleep
    <3>1. InGuest(self) /\ UNCHANGED <<prio, waiters, exitReq>> /\ WaitersOK
      BY <1>8 DEF WakeupThread, semaVars, Calm, UnreleasedOK, QueuesOK
    <3>2. \A u \in Thread : u # t => wait'[u] = wait[u]
      BY <1>8, <2>1, CalmTypes DEF WakeupThread
    <3>3. ThreadsKept /\ \A u \in Thread : (status'[u] = "WAIT") <=> (u # t /\ status[u] = "WAIT")
      BY <1>8, <2>1, <3>1, <3>2, OnePreempts DEF WakeupThread
    <3>4. \A r \in Sema : ~OnSema(status, wait, t, r) /\ ~OnSema(status', wait', t, r)
      BY <2>1, <3>3 DEF OnSema, WaitSleep, WaitOnSema
    <3>5. WaitersOK'
      BY <3>1, <3>2, <3>3, <3>4, WaitersStayBut
    <3> QED BY <3>3, <3>5 DEF Keeps
  <2>2. CASE ~(status[t] = "WAIT" /\ wait[t] = WaitSleep)
    BY <1>8, <2>2, NonePreempts DEF WakeupThread, semaVars
  <2> QED BY <2>1, <2>2
<1>9. ASSUME NEW t \in Thread, CancelWakeupThread(self, t) PROVE Keeps
  BY <1>9, StillFine DEF CancelWakeupThread, ctlVars, semaVars, hostVars
<1>10. ASSUME NEW t \in Thread, SuspendThread(self, t) PROVE Keeps
  BY <1>10, SuspendFine
<1>11. ASSUME NEW t \in Thread, ResumeThread(self, t) PROVE Keeps
  <2>1. CASE suspends'[t] = 0 /\ status[t] = "SUSPEND"
    <3>1. InGuest(self) /\ UNCHANGED <<prio, wait, waiters, exitReq>> /\ WaitersOK
      BY <1>11 DEF ResumeThread, semaVars, Calm, UnreleasedOK, QueuesOK
    <3>2. ThreadsKept /\ \A u \in Thread : (status'[u] = "WAIT") <=> (u # t /\ status[u] = "WAIT")
      BY <1>11, <2>1, <3>1, OnePreempts DEF ResumeThread
    <3>3. \A u \in Thread : (status'[u] = "WAIT") <=> (status[u] = "WAIT")
      BY <2>1, <3>2
    <3>4. WaitersOK'
      BY <3>1, <3>3, WaitersStay
    <3> QED BY <3>2, <3>4 DEF Keeps
  <2>2. CASE ~(suspends'[t] = 0 /\ status[t] = "SUSPEND")
    BY <1>11, <2>2, NonePreempts DEF ResumeThread, semaVars
  <2> QED BY <2>1, <2>2
<1>12. ASSUME NEW t \in Thread, JoinThread(self, t) PROVE Keeps
  BY <1>12, JoinFine
<1>13. ASSUME DisableDispatchThread(self) PROVE Keeps
  BY <1>13, StillFine DEF DisableDispatchThread, attrVars, semaVars, hostVars
<1>14. ASSUME EnableDispatchThread(self) PROVE Keeps
  BY <1>14, NonePreempts DEF EnableDispatchThread, attrVars, semaVars
<1>15. ASSUME KExit(self) PROVE Keeps
  BY <1>15 DEF KExit
<1> QED BY <1>1, <1>2, <1>3, <1>4, <1>5, <1>6, <1>7, <1>8, <1>9, <1>10, <1>11, <1>12, <1>13, <1>14, <1>15
        DEF ThreadCall

-----------------------------------------------------------------------------
(* The calls on semaphores. *)

LEMMA SemaCallFine ==
  ASSUME Calm, ~quit', NEW self \in Thread, SemaCall(self)
  PROVE  Keeps
<1>0. TypeOK /\ WaitersOK
  BY DEF Calm, UnreleasedOK, QueuesOK
<1>1. ASSUME NEW s \in Sema, NEW p \in SemaInit, CreateSema(self, s, p) PROVE Keeps
  BY <1>1, StillFine DEF CreateSema, attrVars, ctlVars, hostVars
<1>2. ASSUME NEW s \in Sema, SignalSema(self, s) PROVE Keeps
  <2>1. InGuest(self) /\ UNCHANGED <<prio, exitReq>>
    BY <1>2 DEF SignalSema, attrVars
  <2>2. CASE waiters[s] = <<>>
    BY <1>2, <2>1, <2>2, NonePreempts DEF SignalSema
  <2>3. CASE waiters[s] # <<>>
    <3> DEFINE t == Head(waiters[s])
    <3>1. /\ waiters' = [waiters EXCEPT ![s] = Tail(waiters[s])]
          /\ wait' = [wait EXCEPT ![t] = NotWaiting]
          /\ MaybePreempt(self, [status EXCEPT ![t] = "READY"], ReadyInsert(ready, prio, t))
      BY <1>2, <2>3 DEF SignalSema, FirstWaiter, OtherWaiters
    <3>2. t \in Thread /\ status[t] = "WAIT"
      BY <1>0, <2>3, FirstWaits DEF OnSema
    <3>3. ThreadsKept /\ \A u \in Thread : (status'[u] = "WAIT") <=> (u # t /\ status[u] = "WAIT")
      <4> HIDE DEF t
      <4>1. \A u \in Thread : u # t => wait'[u] = wait[u]
        BY <3>1, CalmTypes
      <4> QED BY <2>1, <3>1, <3>2, <4>1, OnePreempts
    <3>4. WaitersOK'
      BY <1>0, <2>3, <3>1, <3>3, WaiterServed
    <3> QED BY <3>3, <3>4 DEF Keeps
  <2> QED BY <2>2, <2>3
<1>3. ASSUME NEW s \in Sema, WaitSema(self, s) PROVE Keeps
  <2>1. CASE HasToken(s)
    BY <1>3, <2>1, StillFine DEF WaitSema, attrVars
  <2>2. CASE ~HasToken(s)
    <3> DEFINE w == WaitOnSema(s)
    <3>1. /\ InGuest(self) /\ UNCHANGED <<prio, exitReq>> /\ BlockCurrent(self, "WAIT", w, ready)
          /\ waiters' = [waiters EXCEPT ![s] = Append(waiters[s], current)]
      BY <1>3, <2>2 DEF WaitSema, attrVars
    <3>2. \A u \in Thread : w # WaitOnJoin(u)
      BY DEF WaitOnSema, WaitOnJoin
    <3>3. /\ ThreadsKept /\ status[current] = "RUN"
          /\ wait' = [wait EXCEPT ![current] = w]
          /\ \A t \in Thread : (status'[t] = "WAIT") <=> (IF t = current THEN "WAIT" = "WAIT" ELSE status[t] = "WAIT")
      <4> HIDE DEF w
      <4> QED BY <3>1, <3>2, CallBlocks
    <3>4. WaitersOK'
      BY <1>0, <3>1, <3>3, WaiterQueued
    <3> QED BY <3>3, <3>4 DEF Keeps
  <2> QED BY <2>1, <2>2
<1>4. ASSUME NEW s \in Sema, PollSema(self, s) PROVE Keeps
  BY <1>4, StillFine DEF PollSema, attrVars, hostVars
<1> QED BY <1>1, <1>2, <1>3, <1>4 DEF SemaCall

-----------------------------------------------------------------------------
(* What a host does on its own. *)

LEMMA PlacesAreKnown == Here => PlacesKnown(host)
BY DEF Here, Settled, Stuck, OnlyOne, PlacesFit

LEMMA TakeBatonFine ==
  ASSUME Calm, NEW self \in Thread, host[self].at \in CvAt, NEW place \in {"guest", "finPark"},
         place = "finPark" => host[self].at = "finSwitch", TakeBaton(self, place)
  PROVE  Keeps
<1>1. /\ host' = [host EXCEPT ![self] = At(place, host[self].on)]
      /\ UNCHANGED <<schedVars, prio, waiters, exitReq>>
      /\ allowed[host[self].on] \/ exitReq[host[self].on]
  BY DEF TakeBaton, Released, attrVars, semaVars
<1>2. host'[self].at = place /\ \A u \in Thread : u # self => host'[u] = host[u]
  BY <1>1, CalmTypes DEF Hosts, At
<1>3. CanGoOn(host, allowed, exitReq, self)
  BY <1>1 DEF CanGoOn
<1>4. place = "finPark" => status[self] \in Unrun /\ Joiners(self) = {}
  BY DEF Calm, UnreleasedOK, EndedOK, Over
<1>5. host[self].at \notin {"exitWake", "finWake"} /\ (place = "guest" => place \notin Over \union {"finWake"})
  BY DEF CvAt, Over
<1> QED BY <1>1, <1>2, <1>3, <1>4, <1>5, HostAlone

(* A joiner is not the current thread, which runs or ends. *)
LEMMA WakeJoinerFine ==
  ASSUME Calm, NEW self \in Thread, WakeJoiner(self)
  PROVE  Keeps
<1>1. /\ host[self].at \in {"exitWake", "finWake"}
      /\ UNCHANGED <<current, prio, waiters, host, allowed, exitReq>>
  BY DEF WakeJoiner, attrVars, ctlVars, semaVars, hostVars
<1>2. PICK o \in Thread :
        /\ status[o] = "WAIT" /\ wait[o] = WaitOnJoin(host[self].on)
        /\ status' = [status EXCEPT ![o] = "READY"]
        /\ wait' = [wait EXCEPT ![o] = NotWaiting]
        /\ ready' = ReadyInsert(ready, prio, o)
  BY DEF WakeJoiner, Joiners
<1>3. /\ status'[o] = "READY" /\ \A u \in Thread : u # o => status'[u] = status[u] /\ wait'[u] = wait[u]
      /\ \A u \in Thread : (status'[u] = "READY") <=> (u = o \/ status[u] = "READY")
      /\ \A u \in Thread : status[u] \in Unrun => status'[u] \in Unrun
  BY <1>2, CalmTypes DEF Unrun
<1>4. CurrentFits /\ EndedOK /\ QueueOK(ready, prio, status) /\ RunsOne(status, current) /\ WaitersOK
  BY DEF Calm, UnreleasedOK, QueuesOK
<1>5. o # current
  <2>1. CanGoOn(host, allowed, exitReq, self)
    BY <1>1 DEF CanGoOn, RunAt, ExecutingAt
  <2>2. status[current] = "RUN" \/ CurrentEnds
    BY <1>4, <2>1 DEF CurrentFits, Stuck
  <2>3. CurrentEnds => status[current] \in Unrun
    BY <1>4 DEF CurrentEnds, CurrentFits, EndedOK, Unrun
  <2> QED BY <1>2, <2>2, <2>3 DEF Unrun
<1>6. QueueOK(ready', prio', status')
  <2>1. QueueOK(ReadyInsert(ready, prio, o), prio, status')
    BY <1>2, <1>3, <1>4, CalmTypes, QueueWith
  <2> QED BY <1>1, <1>2, <2>1
<1>7. RunsOne(status', current')
  BY <1>1, <1>3, <1>4 DEF RunsOne
<1>8. WaitersOK'
  <2>1. \A r \in Sema : ~OnSema(status, wait, o, r) /\ ~OnSema(status', wait', o, r)
    BY <1>2, <1>3 DEF OnSema, WaitOnSema, WaitOnJoin
  <2> QED BY <1>1, <1>3, <1>4, <2>1, WaitersStayBut
<1>9. EndedOK'
  <2> DEFINE X == {}
  <2>1. X \in SUBSET Thread /\ \A t \in X : host'[t].at \notin Over \union {"finWake"}
    OBVIOUS
  <2>2. \A t \in Thread \ X : host'[t] = host[t] /\ (status[t] \in Unrun => status'[t] \in Unrun)
    BY <1>1, <1>3
  <2>3. \A u \in Thread : status'[u] = "WAIT" => status[u] = "WAIT" /\ wait'[u] = wait[u]
    BY <1>3
  <2> HIDE DEF X
  <2> QED BY <1>4, <2>1, <2>2, <2>3, EndsKept
<1>10. CurrentFits'
  <2>1. status'[current] = status[current] /\ current' = current
    BY <1>1, <1>3, <1>5, CalmTypes
  <2> QED BY <1>1, <1>4, <2>1 DEF CurrentFits, CurrentEnds
<1>11. ToldOK'
  BY <1>1, <1>3, ToldKept DEF Calm, UnreleasedOK
<1> QED BY <1>6, <1>7, <1>8, <1>9, <1>10, <1>11 DEF Keeps, ThreadsKept

(* The current thread has ended: the next ready thread runs, or nobody.    *)
HandsOff(self, switching, parked) ==
  \/ host[self].at = "exitWake" /\ switching = "exitSwitch" /\ parked = "exitPark"
  \/ /\ host[self].at = "finWake" /\ switching = "finSwitch" /\ parked = "finPark"
     /\ self = current /\ Joiners(self) = {}

LEMMA HandOffFine ==
  ASSUME Calm, NEW self \in Thread, NEW switching, NEW parked, HandsOff(self, switching, parked),
         HandOffAndPark(self, current, switching, parked), UNCHANGED <<wait, prio, waiters, exitReq>>
  PROVE  Keeps
<1>1. OnlyOne(host, allowed, exitReq, current, self)
  BY ActorIsTheOne DEF HandsOff, Calm, Here, CanGoOn, RunAt, ExecutingAt
<1>2. \A h \in Thread : h # self => host[h].at # "exitWake"
  BY <1>1 DEF OnlyOne, CanGoOn, RunAt, ExecutingAt
<1>3. CurrentFits /\ EndedOK /\ QueueOK(ready, prio, status) /\ RunsOne(status, current) /\ WaitersOK
  BY DEF Calm, UnreleasedOK, QueuesOK
<1>4. status[current] \in Unrun
  <2>1. CASE host[self].at = "exitWake"
    BY <1>3, <2>1 DEF CurrentFits, Unrun
  <2>2. CASE host[self].at = "finWake" /\ self = current
    BY <1>3, <2>2 DEF EndedOK
  <2> QED BY <2>1, <2>2 DEF HandsOff
<1>5. ASSUME NEW place \in {switching, parked}, host' = [host EXCEPT ![self] = At(place, current)],
             \A u \in Thread : status[u] \in Unrun => status'[u] \in Unrun,
             \A u \in Thread : (status'[u] = "WAIT") <=> (status[u] = "WAIT")
      PROVE  EndedOK' /\ WaitersOK' /\ ToldOK' /\ \A h \in Thread : host'[h].at # "exitWake"
  <2>1. host'[self].at = place /\ \A h \in Thread : h # self => host'[h] = host[h]
    BY <1>5, CalmTypes DEF Hosts, At
  <2>2. WaitersOK'
    BY <1>3, <1>5, WaitersStay
  <2>3. ToldOK'
    BY <1>5, ToldKept DEF Calm, UnreleasedOK
  <2>4. \A h \in Thread : host'[h].at # "exitWake"
    BY <1>2, <2>1 DEF HandsOff
  <2>5. EndedOK'
    <3> DEFINE X == {}
    <3>1. X \in SUBSET Thread /\ \A t \in X : host'[t].at \notin Over \union {"finWake"}
      OBVIOUS
    <3>2. \A t \in Thread \ X : host'[t].at \in Over \union {"finWake"} =>
            /\ status'[t] \in Unrun
            /\ host'[t].at \in Over => host[t].at \in Over \/ Joiners(t) = {}
      <4> SUFFICES ASSUME NEW t \in Thread, host'[t].at \in Over \union {"finWake"}
                   PROVE  /\ status'[t] \in Unrun
                          /\ host[t].at \in Over \/ Joiners(t) = {} \/ host'[t].at \notin Over
        OBVIOUS
      <4>1. CASE t # self
        BY <1>3, <1>5, <2>1, <4>1 DEF EndedOK, Over
      <4>2. CASE t = self
        <5>1. host[self].at = "finWake" /\ self = current /\ Joiners(self) = {}
          BY <1>5, <2>1, <4>2 DEF HandsOff, Over
        <5> QED BY <1>4, <1>5, <4>2, <5>1
      <4> QED BY <4>1, <4>2
    <3>3. \A u \in Thread : status'[u] = "WAIT" => status[u] = "WAIT" /\ wait'[u] = wait[u]
      BY <1>5
    <3> HIDE DEF X
    <3> QED BY <1>3, <3>1, <3>2, <3>3, EndsKept
  <2> QED BY <2>2, <2>3, <2>4, <2>5
<1>6. CASE ready = <<>>
  <2>1. host' = [host EXCEPT ![self] = At(parked, current)] /\ UNCHANGED <<status, ready, current, allowed>>
    BY <1>6 DEF HandOffAndPark
  <2>2. EndedOK' /\ WaitersOK' /\ ToldOK' /\ \A h \in Thread : host'[h].at # "exitWake"
    BY <1>5, <2>1
  <2>3. Stuck(host', allowed', exitReq')
    <3>1. parked \in {"exitPark", "finPark"} /\ current \in Nat /\ ~exitReq[current]
      BY <1>1, CalmTypes, MainIsThread DEF HandsOff, OnlyOne
    <3>2. host \in Hosts /\ allowed \in Flags /\ exitReq \in Flags /\ current \in Thread
      BY CalmTypes
    <3> QED BY <1>1, <2>1, <3>1, <3>2, Stops
  <2>4. CurrentFits'
    BY <2>2, <2>3 DEF CurrentFits
  <2> QED BY <1>3, <2>1, <2>2, <2>4 DEF Keeps, ThreadsKept
<1>7. CASE ready # <<>>
  <2> DEFINE x == Head(ready)
  <2>1. /\ status' = [status EXCEPT ![x] = "RUN"] /\ ready' = Tail(ready) /\ current' = x
        /\ host' = [host EXCEPT ![self] = At(switching, current)]
    BY <1>7 DEF HandOffAndPark, SwitchTo
  <2>2. x \in Thread /\ status[x] = "READY" /\ Removed(Tail(ready), ready, 1) /\ x = ready[1]
    BY <1>3, <1>7, CalmTypes, HeadIsReady
  <2> HIDE DEF x
  <2>3. /\ \A t \in Thread : (status'[t] = "READY") <=> (t # ready[1] /\ status[t] = "READY")
        /\ \A u \in Thread : status[u] \in Unrun => status'[u] \in Unrun
        /\ \A u \in Thread : (status'[u] = "WAIT") <=> (status[u] = "WAIT")
        /\ status'[x] = "RUN" /\ \A u \in Thread : u # x => status'[u] = status[u]
    BY <2>1, <2>2, CalmTypes DEF Unrun
  <2>4. QueueOK(ready', prio', status')
    <3>1. \A t \in Thread : (status'[t] = "READY") <=> (t # ready[1] /\ status[t] = "READY")
      BY <2>3
    <3>2. Removed(ready', ready, 1) /\ QueueOK(ready, prio, status)
      BY <1>3, <2>1, <2>2
    <3>3. QueueOK(ready', prio, status')
      BY <3>1, <3>2, QueueWithout
    <3> QED BY <3>3
  <2>5. RunsOne(status', current')
    BY <1>3, <1>4, <2>1, <2>3 DEF RunsOne, Unrun
  <2>6. EndedOK' /\ WaitersOK' /\ ToldOK' /\ \A h \in Thread : host'[h].at # "exitWake"
    BY <1>5, <2>1, <2>3
  <2>7. CurrentFits'
    BY <2>1, <2>3, <2>6 DEF CurrentFits
  <2> QED BY <2>4, <2>5, <2>6, <2>7 DEF Keeps, ThreadsKept
<1> QED BY <1>6, <1>7

LEMMA HostStepFine ==
  ASSUME Calm, NEW self \in Thread, HostStep(self)
  PROVE  Keeps
<1>1. ASSUME ExitHandOff(self) PROVE Keeps
  <2>1. host[self].at = "exitWake" /\ UNCHANGED <<wait, prio, waiters, exitReq>>
    BY <1>1 DEF ExitHandOff, attrVars, semaVars
  <2>2. host[self].on = current
    <3>1. OnlyOne(host, allowed, exitReq, current, self)
      BY <2>1, ActorIsTheOne DEF Calm, Here, CanGoOn, RunAt, ExecutingAt
    <3> QED BY <2>1, <3>1 DEF OnlyOne, PlacesFit
  <2>3. HandOffAndPark(self, current, "exitSwitch", "exitPark")
    BY <1>1, <2>2 DEF ExitHandOff
  <2> QED BY <2>1, <2>3, HandOffFine DEF HandsOff
<1>2. ASSUME FinishHandOff(self) PROVE Keeps
  <2>1. host[self].at = "finWake" /\ Joiners(self) = {} /\ UNCHANGED <<wait, prio, waiters, exitReq>>
    BY <1>2 DEF FinishHandOff, attrVars, semaVars
  <2>2. CASE current = self
    <3>1. HandOffAndPark(self, current, "finSwitch", "finPark")
      BY <1>2, <2>2 DEF FinishHandOff
    <3> QED BY <2>1, <2>2, <3>1, HandOffFine DEF HandsOff
  <2>3. CASE current # self
    <3>1. host' = [host EXCEPT ![self] = At("finPark", self)] /\ UNCHANGED schedVars
      BY <1>2, <2>3 DEF FinishHandOff, schedVars
    <3>2. host'[self].at = "finPark" /\ \A u \in Thread : u # self => host'[u] = host[u]
      BY <3>1, CalmTypes DEF Hosts, At
    <3>3. CanGoOn(host, allowed, exitReq, self)
      BY <2>1 DEF CanGoOn, RunAt, ExecutingAt
    <3>4. status[self] \in Unrun
      BY <2>1 DEF Calm, UnreleasedOK, EndedOK
    <3> QED BY <2>1, <2>3, <3>1, <3>2, <3>3, <3>4, HostAlone
  <2> QED BY <2>2, <2>3
<1>3. ASSUME ReturnFromSwitch(self) PROVE Keeps
  BY <1>3, TakeBatonFine DEF ReturnFromSwitch, CvAt
<1>4. ASSUME BeginThread(self) PROVE Keeps
  BY <1>4, TakeBatonFine DEF BeginThread, CvAt
<1>5. ASSUME ReturnToPark(self) PROVE Keeps
  BY <1>5, TakeBatonFine DEF ReturnToPark, CvAt
<1> QED BY <1>1, <1>2, <1>3, <1>4, <1>5, WakeJoinerFine DEF HostStep

(* DeleteSema wakes the first waiter. *)
LEMMA SemaWakeFine ==
  ASSUME Calm, WakesKnown, NEW self \in Thread, DeleteSemaWake(self)
  PROVE  Keeps
<1> DEFINE s == host[self].on
           t == Head(waiters[s])
<1>1. /\ host[self].at = "semaWake" /\ waiters[s] # <<>>
      /\ waiters' = [waiters EXCEPT ![s] = Tail(waiters[s])]
      /\ status' = [status EXCEPT ![t] = "READY"]
      /\ wait' = [wait EXCEPT ![t] = NotWaiting]
      /\ ready' = ReadyInsert(ready, prio, t)
      /\ UNCHANGED <<current, prio, host, exitReq>>
  BY DEF DeleteSemaWake, FirstWaiter, OtherWaiters, attrVars, hostVars
<1>2. s \in Sema /\ TypeOK /\ WaitersOK /\ QueueOK(ready, prio, status) /\ RunsOne(status, current)
  BY <1>1 DEF WakesKnown, Calm, UnreleasedOK, QueuesOK
<1> HIDE DEF s
<1>3. t \in Thread /\ status[t] = "WAIT"
  BY <1>1, <1>2, FirstWaits DEF OnSema
<1>4. status[current] = "RUN" /\ current \in Thread
  BY <1>1, GuestCaller, CalmTypes
<1>5. WaitersOK'
  <2>1. \A u \in Thread : (status'[u] = "WAIT") <=> (u # t /\ status[u] = "WAIT")
    BY <1>1, CalmTypes
  <2> QED BY <1>1, <1>2, <2>1, WaiterServed
<1> HIDE DEF t
<1>6. /\ status'[t] = "READY" /\ \A u \in Thread : u # t => status'[u] = status[u] /\ wait'[u] = wait[u]
      /\ \A u \in Thread : (status'[u] = "READY") <=> (u = t \/ status[u] = "READY")
      /\ \A u \in Thread : status[u] \in Unrun => status'[u] \in Unrun
  BY <1>1, <1>3, CalmTypes DEF Unrun
<1>7. QueueOK(ready', prio', status')
  <2>1. QueueOK(ReadyInsert(ready, prio, t), prio, status')
    BY <1>2, <1>3, <1>6, CalmTypes, QueueWith
  <2> QED BY <1>1, <2>1
<1>8. RunsOne(status', current')
  BY <1>1, <1>2, <1>6 DEF RunsOne
<1>9. EndedOK' /\ CurrentFits' /\ ToldOK'
  <2>1. status'[current] = "RUN"
    BY <1>3, <1>4, <1>6
  <2>2. \A o \in Thread : status'[o] = "WAIT" => status[o] = "WAIT" /\ wait'[o] = wait[o]
    BY <1>6
  <2> QED BY <1>1, <1>6, <2>1, <2>2, HostsStay
<1> QED BY <1>5, <1>7, <1>8, <1>9 DEF Keeps, ThreadsKept

(* DeleteThread returns: the deleted thread's host is gone, and nobody     *)
(* waits for that thread any more.                                         *)
LEMMA JoinedFine ==
  ASSUME Calm, NEW self \in Thread, JoinReturns(self)
  PROVE  Keeps
<1> DEFINE t == host[self].on
           X == {self}
<1>1. /\ host[self].at = "joinDelete" /\ host[t].at = "exited"
      /\ host' = [host EXCEPT ![self] = At("guest", self), ![t] = At("none", t)]
      /\ status' = status /\ wait' = wait /\ ready' = ready /\ current' = current
      /\ UNCHANGED <<prio, waiters, exitReq>>
  BY OnlyDeletionJoins DEF Calm, schedVars, attrVars, semaVars
<1>2. t \in Thread /\ t # self
  BY <1>1, PlacesAreKnown DEF Calm, PlacesKnown
<1> HIDE DEF t
<1>3. status[current] = "RUN" /\ \A h \in Thread : host[h].at # "exitWake"
  <2>1. CanGoOn(host, allowed, exitReq, t)
    BY <1>1 DEF CanGoOn, RunAt
  <2> QED BY <1>1, <1>2, <2>1, Caller
<1>4. /\ host'[self].at = "guest" /\ host'[t].at = "none"
      /\ \A u \in Thread : u # self /\ u # t => host'[u] = host[u]
  BY <1>1, <1>2, CalmTypes DEF Hosts, At
<1>5. QueueOK(ready', prio', status') /\ RunsOne(status', current') /\ EndedOK /\ WaitersOK
  BY <1>1 DEF Calm, UnreleasedOK, QueuesOK
<1>6. WaitersOK'
  BY <1>1, <1>5, WaitersStay
<1>7. EndedOK'
  <2>1. X \in SUBSET Thread /\ \A u \in X : host'[u].at \notin Over \union {"finWake"}
    BY <1>4 DEF Over
  <2>2. \A u \in Thread \ X : host'[u].at \in Over \union {"finWake"} =>
          /\ status'[u] \in Unrun
          /\ host'[u].at \in Over => host[u].at \in Over
    BY <1>1, <1>2, <1>4, <1>5 DEF EndedOK, Over
  <2>3. \A o \in Thread : status'[o] = "WAIT" => status[o] = "WAIT" /\ wait'[o] = wait[o]
    BY <1>1
  <2> HIDE DEF X
  <2> QED BY <1>5, <2>1, <2>2, <2>3, EndsKept
<1>8. CurrentFits'
  <2>1. \A h \in Thread : host'[h].at # "exitWake"
    BY <1>3, <1>4
  <2> QED BY <1>1, <1>3, <2>1, CurrentRuns
<1>9. ToldOK'
  BY <1>1 DEF ToldOK, Calm, UnreleasedOK
<1> QED BY <1>5, <1>6, <1>7, <1>8, <1>9 DEF Keeps, ThreadsKept

LEMMA AdminHostStepFine ==
  ASSUME Calm, WakesKnown, NEW self \in Thread, AdminHostStep(self)
  PROVE  Keeps
<1>1. ASSUME DeleteSemaEnd(self) PROVE Keeps
  <2>1. /\ host[self].at = "semaWake" /\ host' = [host EXCEPT ![self] = At("guest", self)]
        /\ UNCHANGED <<schedVars, prio, waiters, exitReq>>
    BY <1>1 DEF DeleteSemaEnd, attrVars
  <2>2. host'[self].at = "guest" /\ \A u \in Thread : u # self => host'[u] = host[u]
    BY <2>1, CalmTypes DEF Hosts, At
  <2>3. CanGoOn(host, allowed, exitReq, self)
    BY <2>1, GuestCaller
  <2> QED BY <2>1, <2>2, <2>3, HostAlone DEF Over
<1>2. ASSUME BeginExiting(self) PROVE Keeps
  <2>1. /\ host[self].at = "start" /\ exitReq[self]
        /\ UNCHANGED <<ready, current, prio, waiters, exitReq>>
    BY <1>2 DEF BeginExiting, attrVars, semaVars
  <2>2. status[self] \in Unrun
    BY <2>1 DEF Calm, UnreleasedOK, ToldOK
  <2>3. CanGoOn(host, allowed, exitReq, self)
    BY <2>1, PlacesAreKnown DEF Calm, PlacesKnown, CanGoOn, CvAt
  <2> QED BY <1>2, <2>1, <2>2, <2>3, FinishFine DEF BeginExiting
<1>3. ASSUME LeavePark(self) PROVE Keeps
  <2>1. /\ host[self].at \in {"exitPark", "finPark"} /\ exitReq[host[self].on]
        /\ host' = [host EXCEPT ![self].at = IF @ = "exitPark" THEN "guest" ELSE "exited"]
        /\ UNCHANGED <<schedVars, prio, waiters, exitReq>>
    BY <1>3 DEF LeavePark, attrVars, semaVars
  <2>2. /\ host'[self].at = IF host[self].at = "exitPark" THEN "guest" ELSE "exited"
        /\ \A u \in Thread : u # self => host'[u] = host[u]
    BY <2>1, CalmTypes DEF Hosts
  <2>3. CanGoOn(host, allowed, exitReq, self)
    BY <2>1 DEF CanGoOn, ParkAt
  <2>4. host'[self].at \in Over \union {"finWake"} => host[self].at \in Over
    BY <2>1, <2>2 DEF Over
  <2>5. host[self].at \in Over => status[self] \in Unrun /\ Joiners(self) = {}
    BY DEF Calm, UnreleasedOK, EndedOK
  <2> QED BY <2>1, <2>2, <2>3, <2>4, <2>5, HostAlone
<1> QED BY <1>1, <1>2, <1>3, SemaWakeFine, JoinedFine, HostStepFine DEF AdminHostStep

-----------------------------------------------------------------------------
(* Deletion and termination. *)

(* The thread is off the ready queue, whether it was on it or not. *)
LEMMA QueueRemoved ==
  ASSUME NEW q \in Seq(Thread), NEW pr, NEW st, NEW st2, QueueOK(q, pr, st), NEW t \in Thread,
         \A u \in Thread : (st2[u] = "READY") <=> (u # t /\ st[u] = "READY")
  PROVE  QueueOK(ReadyRemove(q, t), pr, st2)
<1>1. CASE Contains(q, t)
  <2>1. PICK k \in 1..Len(q) : q[k] = t /\ Removed(ReadyRemove(q, t), q, k)
    BY <1>1, ReadyRemoveElements
  <2> QED BY <2>1, QueueWithout
<1>2. CASE ~Contains(q, t)
  <2>1. ReadyRemove(q, t) = q
    BY <1>2 DEF ReadyRemove, RemoveFirst, Contains
  <2>2. \A u \in Thread : (st2[u] = "READY") <=> (st[u] = "READY")
    BY <1>2 DEF QueueOK
  <2> QED BY <2>1, <2>2, QueueSame
<1> QED BY <1>1, <1>2

(* DeleteThread and TerminateThread: the thread leaves every queue, and a  *)
(* host that is told to exit is a DORMANT thread's.                        *)
LEMMA RemovedFine ==
  ASSUME Calm, NEW self \in Thread, InGuest(self), NEW t \in Thread, t # current,
         ready' = ReadyRemove(ready, t), waiters' = WaitersWithout(t),
         status' = [status EXCEPT ![t] = "DORMANT"], UNCHANGED <<wait, current, prio>>,
         \A u \in Thread : u # self => host'[u] = host[u],
         host'[self].at \in {"guest", "joinDelete"},
         \A u \in Thread : exitReq'[u] => exitReq[u] \/ u = t
  PROVE  Keeps
<1> DEFINE X == {self}
<1>1. status[current] = "RUN" /\ \A h \in Thread : host[h].at # "exitWake"
  BY GuestCaller DEF InGuest
<1>2. /\ status'[t] = "DORMANT" /\ \A u \in Thread : u # t => status'[u] = status[u]
      /\ \A u \in Thread : (status'[u] = "READY") <=> (u # t /\ status[u] = "READY")
      /\ \A u \in Thread : status[u] \in Unrun => status'[u] \in Unrun
  BY CalmTypes DEF Unrun
<1>3. EndedOK /\ ToldOK /\ QueueOK(ready, prio, status) /\ RunsOne(status, current) /\ WaitersOK
  BY DEF Calm, UnreleasedOK, QueuesOK
<1>4. QueueOK(ready', prio', status')
  <2>1. QueueOK(ReadyRemove(ready, t), prio, status')
    BY <1>2, <1>3, CalmTypes, QueueRemoved
  <2> QED BY <2>1
<1>5. RunsOne(status', current')
  BY <1>2, <1>3 DEF RunsOne
<1>6. WaitersOK'
  <2> SUFFICES ASSUME NEW s \in Sema
               PROVE  /\ NoRepeats(waiters'[s])
                      /\ \A u \in Thread : Contains(waiters'[s], u) <=> OnSema(status', wait', u, s)
    BY DEF WaitersOK
  <2>1. waiters[s] \in Seq(Thread)
    BY DEF Calm, TypeOK
  <2>2. /\ \A x : Contains(Erased(waiters[s], t), x) <=> (x # t /\ Contains(waiters[s], x))
        /\ NoRepeats(waiters[s]) => NoRepeats(Erased(waiters[s], t))
    BY <2>1, ErasedElements
  <2>3. waiters'[s] = Erased(waiters[s], t)
    BY DEF WaitersWithout
  <2>4. NoRepeats(waiters[s]) /\ \A u \in Thread : Contains(waiters[s], u) <=> OnSema(status, wait, u, s)
    BY <1>3 DEF WaitersOK
  <2>5. \A u \in Thread : OnSema(status', wait', u, s) <=> (u # t /\ OnSema(status, wait, u, s))
    BY <1>2 DEF OnSema
  <2> QED BY <2>2, <2>3, <2>4, <2>5
<1>7. EndedOK'
  <2>1. X \in SUBSET Thread /\ \A u \in X : host'[u].at \notin Over \union {"finWake"}
    BY DEF Over
  <2>2. \A u \in Thread \ X : host'[u] = host[u] /\ (status[u] \in Unrun => status'[u] \in Unrun)
    BY <1>2
  <2>3. \A o \in Thread : status'[o] = "WAIT" => status[o] = "WAIT" /\ wait'[o] = wait[o]
    BY <1>2
  <2> HIDE DEF X
  <2> QED BY <1>3, <2>1, <2>2, <2>3, EndsKept
<1>8. CurrentFits'
  <2>1. \A h \in Thread : host'[h].at # "exitWake"
    BY <1>1
  <2>2. status'[current] = "RUN"
    BY <1>1, <1>2, CalmTypes
  <2> QED BY <2>1, <2>2, CurrentRuns
<1>9. ToldOK'
  BY <1>2, <1>3 DEF ToldOK, Unrun
<1> QED BY <1>4, <1>5, <1>6, <1>7, <1>8, <1>9 DEF Keeps, ThreadsKept

LEMMA RemovalCallFine ==
  ASSUME Calm, NEW self \in Thread, RemovalCall(self)
  PROVE  Keeps
<1>1. ASSUME NEW t \in Thread, DeleteThread(self, t) PROVE Keeps
  <2>1. /\ InGuest(self) /\ t # current
        /\ ready' = ReadyRemove(ready, t) /\ waiters' = WaitersWithout(t)
        /\ status' = [status EXCEPT ![t] = "DORMANT"]
        /\ UNCHANGED <<wait, current, prio>>
    BY <1>1 DEF DeleteThread, attrVars
  <2>2. /\ \A u \in Thread : u # self => host'[u] = host[u]
        /\ host'[self].at \in {"guest", "joinDelete"}
        /\ \A u \in Thread : exitReq'[u] => exitReq[u] \/ u = t
    <3>1. CASE Joinable(t)
      <4>1. /\ host' = [host EXCEPT ![self] = At("joinDelete", t)]
            /\ exitReq' = [exitReq EXCEPT ![t] = TRUE]
        BY <1>1, <3>1 DEF DeleteThread, TellToExit
      <4> QED BY <4>1, CalmTypes DEF Hosts, At, Flags
    <3>2. CASE ~Joinable(t)
      BY <1>1, <3>2 DEF DeleteThread, hostVars, InGuest
    <3> QED BY <3>1, <3>2
  <2> QED BY <2>1, <2>2, RemovedFine
<1>2. ASSUME NEW t \in Thread, TerminateThread(self, t) PROVE Keeps
  <2>1. /\ InGuest(self) /\ t # current
        /\ ready' = ReadyRemove(ready, t) /\ waiters' = WaitersWithout(t)
        /\ status' = [status EXCEPT ![t] = "DORMANT"]
        /\ UNCHANGED <<wait, current, prio, host, exitReq>>
    BY <1>2 DEF TerminateThread, attrVars, hostVars
  <2>2. /\ \A u \in Thread : u # self => host'[u] = host[u]
        /\ host'[self].at \in {"guest", "joinDelete"}
        /\ \A u \in Thread : exitReq'[u] => exitReq[u] \/ u = t
    BY <2>1 DEF InGuest
  <2> QED BY <2>1, <2>2, RemovedFine
<1>3. ASSUME NEW s \in Sema, DeleteSema(self, s) PROVE Keeps
  <2>1. /\ InGuest(self) /\ host' = [host EXCEPT ![self] = At("semaWake", s)]
        /\ UNCHANGED <<schedVars, prio, waiters, exitReq>>
    BY <1>3 DEF DeleteSema, attrVars, semaVars
  <2>2. host'[self].at = "semaWake" /\ \A u \in Thread : u # self => host'[u] = host[u]
    BY <2>1, CalmTypes DEF Hosts, At
  <2>3. CanGoOn(host, allowed, exitReq, self) /\ host[self].at = "guest"
    BY <2>1, GuestCaller DEF InGuest
  <2> QED BY <2>1, <2>2, <2>3, HostAlone DEF Over
<1> QED BY <1>1, <1>2, <1>3 DEF RemovalCall

-----------------------------------------------------------------------------
(* The invariant, and the theorems. *)

LEMMA UnreleasedAdmits == [UnreleasedNext]_vars => [AdminNext]_vars
BY DEF UnreleasedNext, AdminNext, AdminCall

(* The kernel asks the runner to quit once; it never takes that back. *)
LEMMA UnreleasedQuitStays ==
  ASSUME [UnreleasedNext]_vars, quit
  PROVE  quit'
<1>1. ASSUME NEW self \in Thread, ThreadCall(self) \/ SemaCall(self) \/ HostStep(self) PROVE quit'
  <2>1. [Next]_vars
    BY <1>1 DEF Next
  <2> QED BY <2>1, QuitStays
<1>2. ASSUME NEW self \in Thread, RemovalCall(self) PROVE quit'
  BY <1>2 DEF RemovalCall, DeleteThread, TerminateThread, DeleteSema, ctlVars
<1>3. ASSUME NEW self \in Thread, AdminHostStep(self) PROVE quit'
  BY <1>1, <1>3 DEF AdminHostStep, DeleteSemaWake, DeleteSemaEnd, BeginExiting, LeavePark,
                    JoinReturns, Launch, ctlVars
<1>4. CASE Destroy \/ DestroyStep
  BY <1>4 DEF Destroy, DestroyStep, DestroySignal, DestroyJoin, DestroyEnd, ctlVars
<1> QED BY <1>1, <1>2, <1>3, <1>4 DEF UnreleasedNext, vars, ctlVars

LEMMA InitUnreleased == Init => UnreleasedInv
<1> SUFFICES ASSUME Init PROVE UnreleasedOK /\ ~destroying
  BY DEF UnreleasedInv
<1>1. /\ status[Main] = "RUN" /\ \A t \in Thread : t # Main => status[t] = "none"
      /\ host[Main].at = "guest" /\ host[Main].on = Main
      /\ \A t \in Thread : t # Main => host[t].at = "none"
      /\ \A t \in Thread : ~exitReq[t] /\ ~allowed[t]
      /\ ready = <<>> /\ (\A s \in Sema : waiters[s] = <<>>) /\ current = Main /\ ~destroying
  BY MainIsThread DEF Init, At
<1>2. QueueOK(ready, prio, status) /\ RunsOne(status, current)
  BY <1>1, MainIsThread DEF QueueOK, RunsOne, NoRepeats, SortedByPriority, Contains
<1>3. WaitersOK
  BY <1>1, MainIsThread DEF WaitersOK, NoRepeats, Contains, OnSema
<1>4. EndedOK
  BY <1>1, MainIsThread DEF EndedOK, Joiners, Over, Unrun
<1>5. CurrentFits
  BY <1>1, MainIsThread DEF CurrentFits
<1>6. ToldOK
  BY <1>1 DEF ToldOK
<1>7. ActsOK
  <2> DEFINE as == [t \in Thread |-> t]
  <2>1. \A h \in Thread : /\ CanGoOn(host, allowed, exitReq, h) => h = current
                          /\ ~Waits(host, h) /\ host[h].at # "joinDelete"
    BY <1>1, MainIsThread DEF CanGoOn, Waits, RunAt, ExecutingAt, CvAt, ParkAt
  <2>2. RunsAs(host, allowed, exitReq, current, as)
    BY <2>1 DEF RunsAs
  <2>3. as \in [Thread -> Thread]
    OBVIOUS
  <2> HIDE DEF as
  <2> QED BY <2>2, <2>3 DEF ActsOK, Acts
<1> QED BY <1>1, <1>2, <1>3, <1>4, <1>5, <1>6, <1>7 DEF UnreleasedOK, QueuesOK

LEMMA NextUnreleased ==
  AdminTypes /\ AdminTypes' /\ AdminInv /\ AdminInv' /\ UnreleasedInv /\ [UnreleasedNext]_vars => UnreleasedInv'
<1> SUFFICES ASSUME AdminTypes, AdminTypes', AdminInv, AdminInv', UnreleasedInv, [UnreleasedNext]_vars
             PROVE  UnreleasedInv'
  OBVIOUS
<1>0. TypeOK /\ TypeOK' /\ WakesKnown
  BY DEF AdminTypes
<1>1. ASSUME ~quit' PROVE ~quit /\ ~destroying /\ Here /\ UnreleasedOK /\ Calm
  BY <1>0, <1>1, UnreleasedQuitStays DEF UnreleasedInv, AdminInv, Calm
<1>2. destroying' => quit'
  <2>1. destroying => quit'
    BY UnreleasedQuitStays DEF UnreleasedInv
  <2>2. ASSUME NEW self \in Thread,
               ThreadCall(self) \/ SemaCall(self) \/ RemovalCall(self) \/ AdminHostStep(self)
        PROVE  destroying' = destroying
    <3>1. CASE RemovalCall(self)
      BY <3>1 DEF RemovalCall, DeleteThread, TerminateThread, DeleteSema, ctlVars
    <3>2. CASE AdminHostStep(self)
      BY <3>2 DEF AdminHostStep, HostStep, ReturnFromSwitch, BeginThread, ReturnToPark, TakeBaton,
                  WakeJoiner, ExitHandOff, FinishHandOff, DeleteSemaWake, DeleteSemaEnd,
                  BeginExiting, LeavePark, JoinReturns, Launch, ctlVars
    <3> QED BY <2>2, <3>1, <3>2, ThreadCallKeepsControl, SemaCallKeepsControl
  <2>3. CASE Destroy
    BY <2>3 DEF Destroy
  <2>4. CASE DestroyStep \/ UNCHANGED vars
    BY <2>1, <2>4 DEF DestroyStep, DestroySignal, DestroyJoin, DestroyEnd, ctlVars, vars
  <2> QED BY <2>1, <2>2, <2>3, <2>4 DEF UnreleasedNext
<1>3. ASSUME ~quit' PROVE UnreleasedOK'
  <2>0. Calm /\ Here'
    BY <1>1, <1>2, <1>3 DEF AdminInv
  <2>1. ASSUME NEW self \in Thread,
               ThreadCall(self) \/ SemaCall(self) \/ RemovalCall(self) \/ AdminHostStep(self)
        PROVE  UnreleasedOK'
    <3>1. Keeps
      BY <1>0, <1>3, <2>0, <2>1, ThreadCallFine, SemaCallFine, RemovalCallFine, AdminHostStepFine
    <3>2. ActsOK'
      BY <1>0, <1>1, <1>3, <2>0, <2>1, ThreadCallActs, SemaCallActs, RemovalCallActs, AdminHostStepActs
         DEF UnreleasedOK
    <3> QED BY <3>1, <3>2 DEF Keeps, ThreadsKept, UnreleasedOK, QueuesOK
  <2>2. CASE UNCHANGED vars
    <3>1. UNCHANGED <<schedVars, prio, waiters, host, allowed, exitReq>>
      BY <2>2 DEF vars, attrVars, semaVars, hostVars
    <3>2. Keeps
      BY <2>0, <3>1, StillFine
    <3>3. ActsOK'
      BY <1>1, <1>3, <3>1, ActsSame DEF UnreleasedOK, schedVars
    <3> QED BY <3>2, <3>3 DEF Keeps, ThreadsKept, UnreleasedOK, QueuesOK
  <2>3. CASE Destroy
    BY <1>1, <1>3, <2>3 DEF Destroy
  <2>4. CASE DestroyStep
    BY <1>1, <1>3, <2>4, NoDestructorYet DEF DestroyStep, DestroySignal, DestroyJoin, DestroyEnd
  <2> QED BY <2>1, <2>2, <2>3, <2>4 DEF UnreleasedNext
<1> QED BY <1>2, <1>3 DEF UnreleasedInv

LEMMA UnreleasedTyped == UnreleasedSpec => []AdminTypes /\ []AdminInv
<1>1. Init => AdminTypes /\ AdminInv
  <2>1. Init => WakesKnown
    BY DEF Init, At, WakesKnown
  <2> QED BY <2>1, InitType, InitHere DEF AdminTypes, AdminInv
<1>2. AdminTypes /\ AdminInv /\ [UnreleasedNext]_vars => AdminTypes' /\ AdminInv'
  BY AdminNextType, NextSettles, UnreleasedAdmits DEF AdminTypes
<1> QED BY <1>1, <1>2, PTL DEF UnreleasedSpec

LEMMA UnreleasedCorrect == UnreleasedSpec => []UnreleasedInv
BY InitUnreleased, NextUnreleased, UnreleasedTyped, PTL DEF UnreleasedSpec

(* kernel.cpp, JoinThread: whoever waits for a thread is woken when that   *)
(* thread is deleted too, by the deleted thread's own host on its way out. *)
THEOREM DeletedThreadsAreJoined == UnreleasedSpec => []DeletedThreadHasNoJoiner
<1>1. UnreleasedInv => DeletedThreadHasNoJoiner
  BY DEF UnreleasedInv, UnreleasedOK, EndedOK, Over, DeletedThreadHasNoJoiner
<1> QED BY <1>1, UnreleasedCorrect, PTL

(* kernel.cpp, ready_insert and ready_remove: the ready queue stays exact  *)
(* when threads are deleted and terminated, wherever they were.            *)
THEOREM ReadyQueueExactAfterDeletion == UnreleasedSpec => []ReadyExact
<1>1. UnreleasedInv => ReadyExact
  BY DEF UnreleasedInv, UnreleasedOK, QueuesOK, QueueOK, RunsOne, ReadyExact
<1> QED BY <1>1, UnreleasedCorrect, PTL

(* kernel.cpp, remove_waiter: so do the queues of the semaphores, which a  *)
(* deleted or terminated thread leaves, and which DeleteSema empties.      *)
THEOREM WaitQueuesExactAfterDeletion == UnreleasedSpec => []WaitersExact
<1>1. UnreleasedInv => WaitersExact
  BY DEF UnreleasedInv, UnreleasedOK, QueuesOK, WaitersOK, OnSema, WaitersExact
<1> QED BY <1>1, UnreleasedCorrect, PTL
=============================================================================
