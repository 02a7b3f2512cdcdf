-------------------------- MODULE EventQueueProofs --------------------------
(***************************************************************************)
(* The ring of EventQueue is type correct and implements EventFifo for     *)
(* every set of events, every initial capacity and both kinds of build.    *)
(***************************************************************************)
EXTENDS EventQueue, TLAPS

(* Indices below twice the modulus: the only ones the ring ever computes. *)
LEMMA ModBelow == ASSUME NEW n \in Nat, NEW a \in Nat, a < n
                  PROVE  a % n = a
  OBVIOUS

(* An index past the end wraps once. *)
LEMMA ModWrap == ASSUME NEW n \in Nat, NEW a \in Nat, n <= a, a < 2 * n
                 PROVE  a % n = a - n
  OBVIOUS

(* The k-th slot from f on, without the modulo. *)
At(f, k, n) == IF f + k < n THEN f + k ELSE f + k - n

(* The slot a step of the code computes with % is the one of At. *)
LEMMA SlotIndex == ASSUME NEW n \in Nat \ {0}, NEW f \in 0 .. n - 1, NEW k \in 0 .. n
                   PROVE  /\ (f + k) % n = At(f, k, n)
                          /\ At(f, k, n) \in 0 .. n - 1
<1>1. CASE f + k < n
  BY <1>1, ModBelow DEF At
<1>2. CASE ~(f + k < n)
  BY <1>2, ModWrap DEF At
<1>. QED  BY <1>1, <1>2

(* The pending sequence in terms of At. *)
LEMMA PendingIs == ASSUME TypeOK
                   PROVE  Pending = [i \in 1 .. nevents |-> events[At(fevent, i - 1, num)]]
<1>1. ASSUME NEW i \in 1 .. nevents
      PROVE  (fevent + i - 1) % num = At(fevent, i - 1, num)
  <2>1. i - 1 \in 0 .. num /\ fevent + i - 1 = fevent + (i - 1)
    BY DEF TypeOK
  <2>. QED  BY <2>1, SlotIndex DEF TypeOK
<1>. QED  BY <1>1 DEF Pending

(* The same after a step. *)
LEMMA PendingPrimeIs == ASSUME TypeOK'
                   PROVE  Pending' = [i \in 1 .. nevents' |-> events'[At(fevent', i - 1, num')]]
<1>1. ASSUME NEW i \in 1 .. nevents'
      PROVE  (fevent' + i - 1) % num' = At(fevent', i - 1, num')
  <2>1. i - 1 \in 0 .. num' /\ fevent' + i - 1 = fevent' + (i - 1)
    BY DEF TypeOK
  <2>. QED  BY <2>1, SlotIndex DEF TypeOK
<1>. QED  BY <1>1 DEF Pending

(* The ring invariant: well formed, never smaller than it started (a static
   build never changes its size), and filled where it is in use.            *)
RingInv == /\ TypeOK
           /\ SlotsInUseFilled
           /\ ~Dynamic => num = NumEvents

(* A post into a free slot keeps the ring well formed. *)
LEMMA PostType == ASSUME TypeOK, NEW e \in Event, Post(e)
                  PROVE  TypeOK'
<1>1. (fevent + nevents) % num \in 0 .. num - 1
  BY SlotIndex DEF TypeOK
<1>. QED  BY <1>1 DEF TypeOK, Post

(* So does a post that doubles it, *)
LEMMA PostGrowType == ASSUME TypeOK, NEW e \in Event, PostGrow(e)
                      PROVE  /\ TypeOK'
                             /\ (fevent' + nevents) % num' = fevent
<1>1. /\ nevents = num /\ num' = 2 * num /\ num' \in Nat \ {0}
      /\ fevent' = num + fevent
      /\ fevent' \in 0 .. num' - 1
  BY DEF TypeOK, PostGrow
<1>2. (fevent' + nevents) % num' = fevent
  <2>1. fevent' + nevents = 2 * num + fevent
    BY <1>1 DEF TypeOK
  <2>. QED  BY <1>1, <2>1, ModWrap DEF TypeOK
<1>3. Grown(nevents - fevent) \in [0 .. num' - 1 -> Event \cup {NoEvent}]
  BY <1>1 DEF Grown, TypeOK
<1>4. events' = [Grown(nevents - fevent) EXCEPT ![fevent] = e]
  BY <1>1, <1>2 DEF PostGrow
<1>. QED  BY <1>1, <1>2, <1>3, <1>4 DEF TypeOK, PostGrow

(* and the take of an event. *)
LEMMA TakeType == ASSUME TypeOK, SlotsInUseFilled, TakeEvent
                  PROVE  TypeOK'
<1>1. (fevent + 1) % num \in 0 .. num - 1
  BY SlotIndex DEF TypeOK
<1>. QED  BY <1>1 DEF TypeOK, TakeEvent

-----------------------------------------------------------------------------
(* What each operation of the ring does to the pending sequence. *)
LEMMA PostPending == ASSUME TypeOK, NEW e \in Event, Post(e)
                     PROVE  Pending' = [i \in 1 .. nevents + 1 |->
                                          IF i = nevents + 1 THEN e ELSE Pending[i]]
<1>1. TypeOK'
  BY PostType
<1>2. /\ num' = num /\ fevent' = fevent /\ nevents' = nevents + 1 /\ nevents < num
      /\ events' = [events EXCEPT ![At(fevent, nevents, num)] = e]
  BY SlotIndex DEF Post, TypeOK
<1>3. ASSUME NEW i \in 1 .. nevents + 1
      PROVE  events'[At(fevent, i - 1, num)] = IF i = nevents + 1 THEN e ELSE Pending[i]
  <2>1. CASE i = nevents + 1
    BY <1>2, <2>1 DEF TypeOK, At
  <2>2. CASE i # nevents + 1
    BY <1>2, <2>2, PendingIs DEF TypeOK, At
  <2>. QED  BY <2>1, <2>2
<1>. QED  BY <1>1, <1>2, <1>3, PendingPrimeIs

(* Growth does not disturb the events that wait. *)
LEMMA PostGrowPending == ASSUME TypeOK, NEW e \in Event, PostGrow(e)
                         PROVE  Pending' = [i \in 1 .. nevents + 1 |->
                                              IF i = nevents + 1 THEN e ELSE Pending[i]]
<1>1. TypeOK' /\ (fevent' + nevents) % num' = fevent
  BY PostGrowType
<1>2. /\ nevents = num /\ num' = 2 * num
      /\ fevent' = num + fevent /\ nevents' = nevents + 1
      /\ events' = [Grown(nevents - fevent) EXCEPT ![fevent] = e]
  BY <1>1 DEF PostGrow, TypeOK
<1>3. \A k \in 0 .. num - 1 : k # fevent => /\ k < fevent => events'[k] = events[k]
                                            /\ fevent <= k => events'[num + k] = events[k]
  BY <1>2 DEF Grown, TypeOK
<1>4. events'[fevent] = e /\ events'[num + fevent] = events[fevent]
  BY <1>2 DEF Grown, TypeOK
<1>5. ASSUME NEW i \in 1 .. nevents + 1
      PROVE  events'[At(fevent', i - 1, num')] = IF i = nevents + 1 THEN e ELSE Pending[i]
  <2>1. CASE i = nevents + 1
    BY <1>2, <1>4, <2>1 DEF TypeOK, At
  <2>2. CASE i # nevents + 1 /\ fevent + (i - 1) < num
    <3>1. At(fevent', i - 1, num') = num + (fevent + (i - 1))
      BY <1>2, <2>2 DEF TypeOK, At
    <3>2. Pending[i] = events[fevent + (i - 1)]
      BY <2>2, PendingIs DEF TypeOK, At
    <3>. QED  BY <1>2, <1>3, <1>4, <2>2, <3>1, <3>2 DEF TypeOK
  <2>3. CASE i # nevents + 1 /\ ~(fevent + (i - 1) < num)
    <3>1. At(fevent', i - 1, num') = fevent + (i - 1) - num
      BY <1>2, <2>3 DEF TypeOK, At
    <3>2. Pending[i] = events[fevent + (i - 1) - num]
      BY <2>3, PendingIs DEF TypeOK, At
    <3>. QED  BY <1>2, <1>3, <2>3, <3>1, <3>2 DEF TypeOK
  <2>. QED  BY <2>1, <2>2, <2>3
<1>. QED  BY <1>1, <1>2, <1>5, PendingPrimeIs

(* do_event removes the oldest event. *)
LEMMA TakePending == ASSUME TypeOK, SlotsInUseFilled, TakeEvent
                     PROVE  /\ Pending' = [i \in 1 .. nevents - 1 |-> Pending[i + 1]]
                            /\ returned' = Pending[1]
<1>1. TypeOK'
  BY TakeType
<1>2. /\ num' = num /\ fevent' = At(fevent, 1, num) /\ nevents' = nevents - 1
      /\ nevents > 0 /\ events' = events /\ returned' = events[fevent]
  BY SlotIndex DEF TakeEvent, TypeOK
<1>3. ASSUME NEW i \in 1 .. nevents - 1
      PROVE  events'[At(fevent', i - 1, num')] = Pending[i + 1]
  <2>1. At(fevent', i - 1, num') = At(fevent, i, num)
    BY <1>2 DEF TypeOK, At
  <2>2. i + 1 \in 1 .. nevents /\ (i + 1) - 1 = i
    BY <1>2 DEF TypeOK
  <2>3. Pending[i + 1] = events[At(fevent, i, num)]
    BY <2>2, PendingIs
  <2>. QED  BY <1>2, <2>1, <2>3
<1>4. returned' = Pending[1]
  BY <1>2, PendingIs DEF TypeOK, At
<1>. QED  BY <1>1, <1>2, <1>3, <1>4, PendingPrimeIs

-----------------------------------------------------------------------------
(* oc_process_init establishes the invariant, *)
LEMMA RingInvInit == Init => RingInv
  BY NumEventsAssumption DEF Init, RingInv, TypeOK, SlotsInUseFilled

(* every post and every take preserves it, *)
LEMMA RingInvNext == RingInv /\ [Next]_vars => RingInv'
<1>. SUFFICES ASSUME RingInv, [Next]_vars PROVE RingInv'
  OBVIOUS
<1>1. ASSUME NEW e \in Event, Post(e) PROVE RingInv'
  <2>1. \A i \in 1 .. nevents' : Pending'[i] \in Event
    <3>1. nevents' = nevents + 1 /\ nevents \in Nat
      BY <1>1 DEF Post, RingInv, TypeOK
    <3>2. \A i \in 1 .. nevents + 1 : i = nevents + 1 \/ i \in 1 .. nevents
      BY <3>1
    <3>. QED  BY <1>1, <3>1, <3>2, PostPending DEF RingInv, SlotsInUseFilled
  <2>. QED  BY <1>1, <2>1, PostType DEF RingInv, SlotsInUseFilled, Post
<1>2. ASSUME NEW e \in Event, PostGrow(e) PROVE RingInv'
  <2>1. \A i \in 1 .. nevents' : Pending'[i] \in Event
    <3>1. nevents' = nevents + 1 /\ nevents \in Nat
      BY <1>2 DEF PostGrow, RingInv, TypeOK
    <3>2. \A i \in 1 .. nevents + 1 : i = nevents + 1 \/ i \in 1 .. nevents
      BY <3>1
    <3>. QED  BY <1>2, <3>1, <3>2, PostGrowPending DEF RingInv, SlotsInUseFilled
  <2>. QED  BY <1>2, <2>1, PostGrowType DEF RingInv, SlotsInUseFilled, PostGrow
<1>3. CASE TakeEvent
  <2>1. \A i \in 1 .. nevents' : Pending'[i] \in Event
    BY <1>3, TakePending DEF RingInv, SlotsInUseFilled, TakeEvent, TypeOK
  <2>. QED  BY <1>3, <2>1, TakeType DEF RingInv, SlotsInUseFilled, TakeEvent
<1>4. CASE UNCHANGED vars
  BY <1>4 DEF RingInv, TypeOK, SlotsInUseFilled, Pending, vars
<1>. QED  BY <1>1, <1>2, <1>3, <1>4 DEF Next

(* and so it always holds. *)
LEMMA RingInvAlways == Spec => []RingInv
  BY RingInvInit, RingInvNext, PTL DEF Spec

(* The ring of oc_process.c stays well formed: nevents never exceeds the
   capacity and fevent never leaves it, through any mix of posts, growth and
   deliveries.                                                              *)
THEOREM RingTypeCorrect == Spec => []TypeOK
<1>1. RingInv => TypeOK
  BY DEF RingInv
<1>. QED  BY <1>1, RingInvAlways, PTL

(* No slot do_event may read is empty. *)
THEOREM RingSlotsFilled == Spec => []SlotsInUseFilled
<1>1. RingInv => SlotsInUseFilled
  BY DEF RingInv
<1>. QED  BY <1>1, RingInvAlways, PTL

(* The ring implements the FIFO: oc_process_post, growth included, appends,
   and do_event removes the head.                                           *)
THEOREM RingImplementsFifo == Spec => ImplementsFifo
<1>1. Init => Fifo!Init
  BY DEF Init, Fifo!Init, Pending
<1>2. RingInv /\ [Next]_vars => [Fifo!Next]_<<Pending, returned>>
  <2>. SUFFICES ASSUME RingInv, [Next]_vars
                PROVE  Fifo!Next \/ (Pending' = Pending /\ returned' = returned)
    OBVIOUS
  <2>0. /\ Pending \in Seq(Event) /\ Len(Pending) = nevents
    BY DEF RingInv, SlotsInUseFilled, Pending, TypeOK
  <2>1. ASSUME NEW e \in Event, Post(e) PROVE Fifo!Post(e)
    <3>1. Pending' = Append(Pending, e)
      BY <2>0, <2>1, PostPending DEF RingInv
    <3>2. Dynamic \/ Len(Pending) < NumEvents
      BY <2>0, <2>1 DEF RingInv, Post
    <3>. QED  BY <2>1, <3>1, <3>2 DEF Fifo!Post, Post
  <2>2. ASSUME NEW e \in Event, PostGrow(e) PROVE Fifo!Post(e)
    <3>1. Pending' = Append(Pending, e)
      BY <2>0, <2>2, PostGrowPending DEF RingInv
    <3>. QED  BY <2>2, <3>1 DEF Fifo!Post, PostGrow
  <2>3. CASE TakeEvent
    <3>1. Pending' = Tail(Pending) /\ Pending # << >> /\ returned' = Head(Pending)
      BY <2>0, <2>3, TakePending DEF RingInv, TakeEvent, TypeOK
    <3>. QED  BY <3>1 DEF Fifo!Deliver, Fifo!Next
  <2>4. CASE UNCHANGED vars
    BY <2>4 DEF vars, Pending
  <2>. QED  BY <2>1, <2>2, <2>3, <2>4 DEF Next, Fifo!Next
<1>. QED
  BY <1>1, <1>2, RingInvAlways, PTL DEF Spec, ImplementsFifo, Fifo!Spec, Fifo!fifoVars
=============================================================================
