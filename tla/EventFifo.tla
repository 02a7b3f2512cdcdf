----------------------------- MODULE EventFifo -----------------------------
(***************************************************************************)
(* What util/oc_process.c promises of its asynchronous events: they are    *)
(* delivered to do_event in the order in which oc_process_post accepted    *)
(* them, each exactly once, and a build without dynamic allocation refuses *)
(* a post only when Limit events are waiting.                              *)
(***************************************************************************)
EXTENDS Naturals, Sequences

CONSTANTS Event,    \* the (ev, data, process) triples handed to oc_process_post
          Dynamic,  \* TRUE when built with OC_DYNAMIC_ALLOCATION
          NoEvent,  \* nothing was delivered yet
          Limit     \* OC_PROCESS_NUMEVENTS of a static build

VARIABLES queue,    \* the events accepted and not yet delivered
          last      \* the event delivered last

fifoVars == <<queue, last>>

Init == queue = << >> /\ last = NoEvent

Post(e) == /\ queue' = Append(queue, e)
           /\ Dynamic \/ Len(queue) < Limit
           /\ UNCHANGED last

Deliver == /\ queue # << >>
           /\ last' = Head(queue)
           /\ queue' = Tail(queue)

Next == (\E e \in Event : Post(e)) \/ Deliver

Spec == Init /\ [][Next]_fifoVars
=============================================================================
