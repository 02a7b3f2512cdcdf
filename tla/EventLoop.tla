----------------------------- MODULE EventLoop -----------------------------
(***************************************************************************)
(* The event loop of the garage device: the main thread of                 *)
(* apps/device_builder_server.c runs oc_main_poll (api/oc_main.c), which   *)
(* polls processes and delivers events (util/oc_process.c) until nothing   *)
(* is left and then sleeps on a condition variable until the next event    *)
(* timer (util/oc_etimer.c) is due.  The threads of the network adapters   *)
(* (port/linux/ipadapter.c) hand over messages with oc_network_event       *)
(* (api/oc_network_events.c) while it runs or sleeps.                      *)
(*                                                                         *)
(* Of the processes that are polled the model has the two that matter for  *)
(* the hand-over: oc_network_events, started last and so first in the      *)
(* list, and oc_etimer_process, started first and so last.  The event      *)
(* queue is the FIFO that EventQueue implements.  A timer is a timed       *)
(* callback of oc_ri.c with its interval.                                  *)
(***************************************************************************)
EXTENDS Integers, Sequences, FiniteSets, FiniteSetsExt

CONSTANTS Thread,      \* network adapter threads
          Timer,       \* timed callbacks
          Interval,    \* the interval of each of them, in ticks
          Wrap,        \* number of values of oc_clock_time_t
          MaxTime,     \* bound on the clock
          MaxMessages, \* bound on the messages received
          Interrupts   \* whether Ctrl-C may come

ASSUME IntervalAssumption == Interval \in [Timer -> Nat]
ASSUME ClockAssumption == /\ Wrap \in Nat /\ MaxTime \in Nat \ {0} /\ 2 * MaxTime < Wrap
                          /\ MaxMessages \in Nat /\ Interrupts \in BOOLEAN

VARIABLES
  pc,               \* where the main thread is
  needspoll,        \* of the two processes
  poll_requested,
  queue,            \* events posted and not yet delivered
  network_events,   \* number of messages handed over and not yet posted
  tpc,              \* where each network thread is in oc_network_event
  received,         \* number of messages received so far
  now,              \* oc_clock_time
  timerlist,        \* timers armed
  expiration,       \* start + interval of each timer
  expired,          \* timers that have fired and whose callback has not run
  next_expiration,
  ticks,            \* ticks_until_next_event, what oc_main_poll returns
  quit

timeVars == <<now, timerlist, expiration, expired, next_expiration>>
threadVars == <<network_events, tpc, received>>
vars == <<pc, needspoll, poll_requested, queue, threadVars, timeVars, ticks, quit>>

Process == {"network", "etimer"}
(* INBOUND_NETWORK_EVENT, INBOUND_RI_EVENT and OC_PROCESS_EVENT_TIMER *)
Event == {"net", "ri", "timer"}
MainPc == {"request", "run", "scanNetwork", "network", "scanEtimer", "etimer", "event",
           "check", "lock", "locked", "waiting", "woken", "done", "stuck"}
ThreadPc == {"idle", "added", "flagged", "polled"}

TypeOK == /\ pc \in MainPc
          /\ needspoll \in [Process -> BOOLEAN]
          /\ poll_requested \in BOOLEAN
          /\ queue \in Seq(Event)
          /\ network_events \in 0 .. MaxMessages /\ received \in 0 .. MaxMessages
          /\ tpc \in [Thread -> ThreadPc]
          /\ now \in 0 .. MaxTime
          /\ timerlist \subseteq Timer /\ expired \subseteq Timer
          /\ expiration \in [Timer -> 0 .. MaxTime]
          /\ next_expiration \in 0 .. Wrap - 1 /\ ticks \in 0 .. Wrap - 1
          /\ quit \in BOOLEAN

(* After oc_main_init; the clock of a real device is never 0, which
   oc_etimer_next_expiration_time uses to say that no timer is armed.       *)
Init == /\ pc = "request"
        /\ needspoll = [p \in Process |-> FALSE] /\ poll_requested = FALSE
        /\ queue = <<>>
        /\ network_events = 0 /\ received = 0
        /\ tpc = [th \in Thread |-> "idle"]
        /\ now = 1
        /\ timerlist = {} /\ expired = {}
        /\ expiration = [t \in Timer |-> 0]
        /\ next_expiration = 0 /\ ticks = 0
        /\ quit = FALSE

-----------------------------------------------------------------------------
(* Event timers *)

(* Faulty update_time: the sum does not wrap around. *)
UpdateTimeWide(list, exp) ==
  IF list = {} THEN 0
  ELSE now + Min({(exp[t] - now) % Wrap : t \in list})

(* update_time: the distance to a timer that is already due wraps around *)
UpdateTime(list, exp) ==
  IF list = {} THEN 0
  ELSE (now + Min({(exp[t] - now) % Wrap : t \in list})) % Wrap

(* oc_timer_expired *)
Due(t) == expiration[t] <= now

(* oc_etimer_next_expiration_time *)
NextExpirationTime == IF timerlist = {} THEN 0 ELSE next_expiration

(* Faulty add_timer: the poll is not requested. *)
AddTimersNoPoll(ts) ==
  /\ \A t \in ts : now + Interval[t] <= MaxTime
  /\ timerlist' = timerlist \cup ts
  /\ expiration' = [t \in Timer |-> IF t \in ts THEN now + Interval[t] ELSE expiration[t]]
  /\ next_expiration' = UpdateTime(timerlist', expiration')
  /\ UNCHANGED <<needspoll, poll_requested>>

(* oc_etimer_set and oc_etimer_restart: add_timer for the timers ts *)
AddTimers(ts) ==
  /\ \A t \in ts : now + Interval[t] <= MaxTime
  /\ timerlist' = timerlist \cup ts
  /\ IF ts = {}
     THEN UNCHANGED <<expiration, next_expiration, needspoll, poll_requested>>
     ELSE /\ expiration' = [t \in Timer |-> IF t \in ts THEN now + Interval[t]
                                            ELSE expiration[t]]
          /\ next_expiration' = UpdateTime(timerlist', expiration')
          /\ needspoll' = [needspoll EXCEPT !["etimer"] = TRUE]
          /\ poll_requested' = TRUE

(* oc_ri_remove_timed_event_callback: oc_etimer_stop of a timer that is armed,
   or of one that has fired, which is no longer in the list                 *)
RemoveCallback(t) ==
  /\ t \in timerlist \cup expired
  /\ timerlist' = timerlist \ {t}
  /\ expired' = expired \ {t}
  /\ next_expiration' = IF t \in timerlist THEN UpdateTime(timerlist', expiration)
                        ELSE next_expiration
  /\ UNCHANGED <<expiration, needspoll, poll_requested>>

(* The timers of callbacks that can be registered *)
Unused == Timer \ (timerlist \cup expired)
SomeUnused == {{}} \cup {{t} : t \in Unused}

-----------------------------------------------------------------------------
(* The main thread *)

(* Faulty oc_main_poll: the timers are not polled. *)
RequestNoPoll ==
  /\ pc = "request"
  /\ ticks' = NextExpirationTime
  /\ pc' = "run"
  /\ UNCHANGED <<needspoll, poll_requested, queue, threadVars, timeVars, quit>>

(* oc_main_poll: oc_etimer_request_poll, before each oc_process_run *)
RequestPoll ==
  /\ pc = "request"
  /\ needspoll' = [needspoll EXCEPT !["etimer"] = TRUE]
  /\ poll_requested' = TRUE
  /\ ticks' = NextExpirationTime
  /\ pc' = "run"
  /\ UNCHANGED <<queue, threadVars, timeVars, quit>>

(* oc_process_run, do_poll: poll_requested is cleared before the processes
   are looked at                                                            *)
StartPoll ==
  /\ pc = "run"
  /\ poll_requested' = FALSE
  /\ pc' = IF poll_requested THEN "scanNetwork" ELSE "event"
  /\ UNCHANGED <<needspoll, queue, threadVars, timeVars, ticks, quit>>

(* do_poll at one process: the handler runs with needspoll cleared *)
ScanProcess(p, at, next) ==
  /\ pc = at
  /\ needspoll' = [needspoll EXCEPT ![p] = FALSE]
  /\ pc' = IF needspoll[p] THEN p ELSE next
  /\ UNCHANGED <<poll_requested, queue, threadVars, timeVars, ticks, quit>>

(* oc_process_network_event, under the mutex of the list *)
NetworkHandler ==
  /\ pc = "network"
  /\ queue' = queue \o [i \in 1 .. network_events |-> "net"]
  /\ network_events' = 0
  /\ pc' = "scanEtimer"
  /\ UNCHANGED <<needspoll, poll_requested, tpc, received, timeVars, ticks, quit>>

(* oc_etimer_process: post the event of a timer that is due, and look again *)
EtimerFire(t) ==
  /\ pc = "etimer"
  /\ t \in timerlist /\ Due(t)
  /\ queue' = Append(queue, "timer")
  /\ timerlist' = timerlist \ {t}
  /\ expired' = expired \cup {t}
  /\ next_expiration' = UpdateTime(timerlist', expiration)
  /\ UNCHANGED <<pc, needspoll, poll_requested, threadVars, now, expiration, ticks, quit>>

(* Faulty do_poll: poll_requested is cleared when the processes have run. *)
EtimerDoneClears ==
  /\ pc = "etimer"
  /\ \A t \in timerlist : ~Due(t)
  /\ pc' = "event"
  /\ poll_requested' = FALSE
  /\ UNCHANGED <<needspoll, queue, threadVars, timeVars, ticks, quit>>

(* ... and go on to do_event when no timer is due *)
EtimerDone ==
  /\ pc = "etimer"
  /\ \A t \in timerlist : ~Due(t)
  /\ pc' = "event"
  /\ UNCHANGED <<needspoll, poll_requested, queue, threadVars, timeVars, ticks, quit>>

(* do_event with an empty queue *)
NoEvent ==
  /\ pc = "event" /\ queue = <<>>
  /\ pc' = "check"
  /\ UNCHANGED <<needspoll, poll_requested, queue, threadVars, timeVars, ticks, quit>>

(* message_buffer_handler passes an inbound message on *)
PassMessage ==
  /\ pc = "event" /\ queue # <<>> /\ Head(queue) = "net"
  /\ queue' = Append(Tail(queue), "ri")
  /\ pc' = "check"
  /\ UNCHANGED <<needspoll, poll_requested, threadVars, timeVars, ticks, quit>>

(* coap_engine and the application handle a message; they may register or
   remove a timed callback                                                  *)
HandleMessage ==
  /\ pc = "event" /\ queue # <<>> /\ Head(queue) = "ri"
  /\ queue' = Tail(queue)
  /\ pc' = "check"
  /\ \/ \E new \in SomeUnused : AddTimers(new) /\ UNCHANGED expired
     \/ \E t \in Timer : RemoveCallback(t)
  /\ UNCHANGED <<threadVars, now, ticks, quit>>

(* timed_callback_events, check_event_callbacks: every callback whose timer
   has fired runs and may register another one; those that return
   OC_EVENT_CONTINUE are restarted                                          *)
RunCallbacks ==
  /\ pc = "event" /\ queue # <<>> /\ Head(queue) = "timer"
  /\ queue' = Tail(queue)
  /\ \E again \in SUBSET expired, new \in SomeUnused : AddTimers(again \cup new)
  /\ expired' = {}
  /\ pc' = "check"
  /\ UNCHANGED <<threadVars, now, ticks, quit>>

(* oc_process_run returns nevents + poll_requested *)
CheckMore ==
  /\ pc = "check"
  /\ pc' = IF queue # <<>> \/ poll_requested THEN "request" ELSE "lock"
  /\ UNCHANGED <<needspoll, poll_requested, queue, threadVars, timeVars, ticks, quit>>

(* main: pthread_mutex_lock ... *)
Lock == /\ pc = "lock"
        /\ pc' = "locked"
        /\ UNCHANGED <<needspoll, poll_requested, queue, threadVars, timeVars, ticks, quit>>

(* ... pthread_cond_wait or pthread_cond_timedwait, which release it ... *)
Wait == /\ pc = "locked"
        /\ pc' = "waiting"
        /\ UNCHANGED <<needspoll, poll_requested, queue, threadVars, timeVars, ticks, quit>>

(* ... until the time oc_main_poll returned ... *)
Timeout == /\ pc = "waiting" /\ ticks # 0 /\ ticks <= now
           /\ pc' = "woken"
           /\ UNCHANGED <<needspoll, poll_requested, queue, threadVars, timeVars, ticks, quit>>

(* ... or a spurious wake-up *)
SpuriousWakeup == /\ pc = "waiting"
                  /\ pc' = "woken"
                  /\ UNCHANGED <<needspoll, poll_requested, queue, threadVars, timeVars,
                                 ticks, quit>>

(* while (quit != 1) *)
Loop == /\ pc = "woken"
        /\ pc' = IF quit THEN "done" ELSE "request"
        /\ UNCHANGED <<needspoll, poll_requested, queue, threadVars, timeVars, ticks, quit>>

(* handle_signal on the main thread: signal_event_loop takes the mutex, which
   the interrupted main thread may hold itself, and wakes a waiting main     *)
Interrupt ==
  /\ Interrupts /\ ~quit /\ pc \notin {"done", "stuck"}
  /\ IF pc = "locked" THEN pc' = "stuck" /\ UNCHANGED quit
     ELSE pc' = (IF pc = "waiting" THEN "woken" ELSE pc) /\ quit' = TRUE
  /\ UNCHANGED <<needspoll, poll_requested, queue, threadVars, timeVars, ticks>>

-----------------------------------------------------------------------------
(* A network thread: oc_network_event *)

(* oc_list_add under the mutex of the list *)
Receive(th) ==
  /\ tpc[th] = "idle" /\ received < MaxMessages
  /\ network_events' = network_events + 1
  /\ received' = received + 1
  /\ tpc' = [tpc EXCEPT ![th] = "added"]
  /\ UNCHANGED <<pc, needspoll, poll_requested, queue, timeVars, ticks, quit>>

(* oc_process_poll: p->needspoll = 1 ... *)
FlagProcess(th) ==
  /\ tpc[th] = "added"
  /\ needspoll' = [needspoll EXCEPT !["network"] = TRUE]
  /\ tpc' = [tpc EXCEPT ![th] = "flagged"]
  /\ UNCHANGED <<pc, poll_requested, queue, network_events, received, timeVars, ticks, quit>>

(* ... and poll_requested = 1 *)
FlagPoll(th) ==
  /\ tpc[th] = "flagged"
  /\ poll_requested' = TRUE
  /\ tpc' = [tpc EXCEPT ![th] = "polled"]
  /\ UNCHANGED <<pc, needspoll, queue, network_events, received, timeVars, ticks, quit>>

(* signal_event_loop: pthread_cond_signal under the mutex; nobody is woken
   unless the main thread is waiting                                        *)
Signal(th) ==
  /\ tpc[th] = "polled"
  /\ pc # "locked"
  /\ pc' = IF pc = "waiting" THEN "woken" ELSE pc
  /\ tpc' = [tpc EXCEPT ![th] = "idle"]
  /\ UNCHANGED <<needspoll, poll_requested, queue, network_events, received, timeVars,
                 ticks, quit>>

Tick == /\ now < MaxTime
        /\ now' = now + 1
        /\ UNCHANGED <<pc, needspoll, poll_requested, queue, threadVars, timerlist, expiration,
                       expired, next_expiration, ticks, quit>>

Main == \/ RequestPoll \/ StartPoll
        \/ ScanProcess("network", "scanNetwork", "scanEtimer") \/ NetworkHandler
        \/ ScanProcess("etimer", "scanEtimer", "event")
        \/ (\E t \in Timer : EtimerFire(t)) \/ EtimerDone
        \/ NoEvent \/ PassMessage \/ HandleMessage \/ RunCallbacks
        \/ CheckMore \/ Lock \/ Wait \/ Timeout \/ Loop

HandOver(th) == FlagProcess(th) \/ FlagPoll(th) \/ Signal(th)

Next == \/ Main
        \/ SpuriousWakeup
        \/ Interrupt
        \/ \E th \in Thread : Receive(th) \/ HandOver(th)
        \/ Tick

(* The scheduler runs every thread that can run, and time passes. *)
Fairness == WF_vars(Main) /\ WF_vars(Tick) /\ \A th \in Thread : WF_vars(HandOver(th))

Spec == Init /\ [][Next]_vars /\ Fairness

-----------------------------------------------------------------------------
(* A message handed over by oc_network_event is never forgotten by the
   unsynchronised flags of oc_process_poll and do_poll: until it is posted
   its thread is still setting the flags, or both are set, or do_poll is on
   its way to the process.                                                  *)
MessagePolled ==
  network_events > 0 =>
    \/ pc = "network"
    \/ \E th \in Thread : tpc[th] = "added"
    \/ /\ needspoll["network"]
       /\ poll_requested \/ pc = "scanNetwork" \/ \E th \in Thread : tpc[th] = "flagged"

(* When oc_main_poll has returned, and while the main thread sleeps, the time
   it sleeps until is not later than any armed timer's, although update_time
   passes over timers that are due and the returned value was read before
   the last events were delivered.                                          *)
NeverOversleeps ==
  pc \in {"lock", "locked", "waiting"} =>
    \A t \in timerlist : ticks # 0 /\ ticks <= expiration[t]

(* Ctrl-C has come: the loop is left, or is stuck on its own mutex. *)
Interrupted == quit \/ pc = "stuck"

(* Every armed timer fires or is stopped, and the callback of one that fired
   runs, even when no message ever wakes the loop.                          *)
TimersServed ==
  \A t \in Timer : /\ t \in timerlist ~> t \notin timerlist \/ Interrupted
                   /\ t \in expired ~> t \notin expired \/ Interrupted

(* signal_event_loop "wakes up the main function to handle the next
   callback": a message handed over is eventually taken.                    *)
MessageTaken == network_events > 0 ~> network_events = 0
=============================================================================
