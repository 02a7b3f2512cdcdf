----------------------------- MODULE EventQueue -----------------------------
(***************************************************************************)
(* The ring of pending events of util/oc_process.c: events[], indexed      *)
(* 0..num-1, of which the nevents slots from fevent on (modulo num) are in *)
(* use.  A dynamic build doubles a full ring in place and slides the       *)
(* segment from fevent to the end of the old array up to the end of the    *)
(* new one; a static build refuses the event (OC_PROCESS_ERR_FULL) and     *)
(* changes nothing: a step that stutters.                                  *)
(***************************************************************************)
EXTENDS Integers, Sequences

CONSTANTS Event,     \* the (ev, data, process) triples handed to oc_process_post
          NoEvent,   \* an unused or zeroed slot
          Dynamic,   \* TRUE when built with OC_DYNAMIC_ALLOCATION
          NumEvents, \* initial OC_PROCESS_NUMEVENTS (10 in the code)
          MaxNum     \* bound: the largest ring a run explores

ASSUME NumEventsAssumption == NumEvents \in Nat \ {0}
ASSUME DynamicAssumption == Dynamic \in BOOLEAN
ASSUME MaxNumAssumption == MaxNum \in Nat

VARIABLES num,      \* OC_PROCESS_NUMEVENTS
          events, nevents, fevent,
          returned  \* the event do_event last took from the ring (history)

vars == <<num, events, nevents, fevent, returned>>

TypeOK == /\ num \in Nat \ {0}
          /\ events \in [0 .. num - 1 -> Event \cup {NoEvent}]
          /\ nevents \in 0 .. num
          /\ fevent \in 0 .. num - 1
          /\ returned \in Event \cup {NoEvent}

(* oc_process_init *)
Init == /\ num = NumEvents
        /\ events = [i \in 0 .. NumEvents - 1 |-> NoEvent]
        /\ nevents = 0
        /\ fevent = 0
        /\ returned = NoEvent

(* Faulty growth: the new slots are zeroed and nothing is moved into them. *)
GrownNotMoved(n) == [i \in 0 .. 2 * num - 1 |->
                       IF i < fevent THEN events[i] ELSE NoEvent]

(* The body of the growth loop of oc_process_post, seen as a whole: with
   n = nevents - fevent, slots fevent..nevents-1 move to the last n slots of
   the doubled array and the slots in between are zeroed.                   *)
Grown(n) == [i \in 0 .. 2 * num - 1 |->
               IF i < fevent THEN events[i]
               ELSE IF i < 2 * num - n THEN NoEvent
               ELSE events[fevent + (i - (2 * num - n))]]

(* Faulty post: the test for a full ring is missing. *)
PostUnchecked(e) ==
  /\ events' = [events EXCEPT ![(fevent + nevents) % num] = e]
  /\ nevents' = nevents + 1
  /\ UNCHANGED <<num, fevent, returned>>

(* oc_process_post on a ring with a free slot: the only one a static build
   accepts                                                                  *)
Post(e) ==
  /\ nevents < num
  /\ events' = [events EXCEPT ![(fevent + nevents) % num] = e]
  /\ nevents' = nevents + 1
  /\ UNCHANGED <<num, fevent, returned>>

(* Faulty growth: realloc alone, the wrapped segment is not slid upwards. *)
PostGrowInPlace(e) ==
  /\ Dynamic
  /\ nevents = num
  /\ 2 * num <= MaxNum
  /\ num' = 2 * num
  /\ events' = [i \in 0 .. 2 * num - 1 |->
                  IF i = fevent + nevents THEN e
                  ELSE IF i < num THEN events[i] ELSE NoEvent]
  /\ nevents' = nevents + 1
  /\ UNCHANGED <<fevent, returned>>

(* oc_process_post on a full ring of a dynamic build *)
PostGrow(e) ==
  LET n == nevents - fevent
      first == 2 * num - n
  IN  /\ Dynamic
      /\ nevents = num
      /\ 2 * num <= MaxNum
      /\ num' = 2 * num
      /\ fevent' = first
      /\ events' = [Grown(n) EXCEPT ![(first + nevents) % (2 * num)] = e]
      /\ nevents' = nevents + 1
      /\ UNCHANGED returned

(* The head of do_event: take the event at fevent and free its slot. *)
TakeEvent ==
  /\ nevents > 0
  /\ returned' = events[fevent]
  /\ fevent' = (fevent + 1) % num
  /\ nevents' = nevents - 1
  /\ UNCHANGED <<num, events>>

Next == \/ \E e \in Event : Post(e) \/ PostGrow(e)
        \/ TakeEvent

Spec == Init /\ [][Next]_vars

-----------------------------------------------------------------------------
(* The events waiting in the ring, oldest first. *)
Pending == [i \in 1 .. nevents |-> events[(fevent + i - 1) % num]]

(* No slot in use is empty: do_event never dereferences a zeroed slot, also
   after the growth loop has slid and zeroed part of a wrapped ring.        *)
SlotsInUseFilled == \A i \in 1 .. nevents : Pending[i] \in Event

Fifo == INSTANCE EventFifo
          WITH queue <- Pending, last <- returned, Limit <- NumEvents

(* Every event accepted by oc_process_post reaches do_event once and in the
   order of the posts, whatever growth happens between the two; a static
   build refuses an event only when NumEvents are waiting.                  *)
ImplementsFifo == Fifo!Spec
=============================================================================
