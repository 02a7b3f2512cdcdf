-------------------------- MODULE EventLoopProofs --------------------------
(***************************************************************************)
(* Safety of EventLoop for every set of threads, timers and intervals: no  *)
(* message is forgotten by the poll flags, and the main thread never       *)
(* sleeps past an armed timer.  The second rests on what update_time       *)
(* computes (UpdateTimeSound) and on following the value that oc_main_poll *)
(* returns from where it is read to where it is slept on (SleepInv).       *)
(***************************************************************************)
EXTENDS EventLoop, WellFoundedInduction, TLAPS

(* The least element of a nonempty set of naturals exists (update_time
   minimises over the timers). *)
LEMMA MinOfNaturals ==
  ASSUME NEW S \in SUBSET Nat, S # {}
  PROVE  Min(S) \in S /\ \A y \in S : Min(S) <= y
<1>1. IsWellFoundedOn({ss \in Nat \X Nat : ss[1] < ss[2]}, Nat)
  BY NatLessThanWellFounded DEF OpToRel
<1>2. PICK R : IsWellFoundedOn(R, Nat) /\ \A x, y \in Nat : <<y, x>> \in R <=> y < x
  BY <1>1
<1>3. PICK x \in S : \A y \in S : ~(<<y, x>> \in R)
  BY <1>2, WFMin
<1>4. \A y \in S : x <= y
  <2>. TAKE y \in S
  <2>1. x \in Nat /\ y \in Nat
    OBVIOUS
  <2>2. ~(y < x)
    BY <1>2, <1>3, <2>1, Zenon
  <2>. QED  BY <2>1, <2>2
<1>. QED  BY <1>4 DEF Min

(* Sums below the wrap of the clock are not changed by it. *)
LEMMA ModSmall == \A n \in Nat : \A a \in 0 .. n - 1 : a % n = a
  OBVIOUS

(* Whatever wraps lands in the range of oc_clock_time_t. *)
LEMMA ModRange == \A n \in Nat \ {0} : \A a \in Int : a % n \in 0 .. n - 1
  OBVIOUS

(* What update_time computes for the timers that are not due, and its range *)
LEMMA UpdateTimeSound ==
  ASSUME NEW list \in SUBSET Timer, NEW exp \in [Timer -> 0 .. MaxTime],
         now \in 1 .. MaxTime
  PROVE  /\ UpdateTime(list, exp) \in 0 .. Wrap - 1
         /\ \A t \in list : \/ exp[t] <= now
                           \/ /\ UpdateTime(list, exp) # 0
                              /\ UpdateTime(list, exp) <= exp[t]
<1>. USE ClockAssumption
<1>0. Wrap \in Nat \ {0} /\ MaxTime < Wrap
  OBVIOUS
<1>1. CASE list = {}
  BY <1>0, <1>1 DEF UpdateTime
<1>2. CASE list # {}
  <2>. DEFINE S == {(exp[t] - now) % Wrap : t \in list}
  <2>1. ASSUME NEW t \in list
        PROVE  exp[t] \in 0 .. MaxTime /\ (exp[t] - now) % Wrap \in 0 .. Wrap - 1
    <3>1. exp[t] \in 0 .. MaxTime /\ exp[t] - now \in Int
      OBVIOUS
    <3>. QED  BY <1>0, <3>1, ModRange
  <2>2. S \in SUBSET Nat /\ S # {}
    BY <1>2, <2>1, <1>0
  <2>3. Min(S) \in S /\ \A y \in S : Min(S) <= y
    BY <2>2, MinOfNaturals
  <2>4. UpdateTime(list, exp) = (now + Min(S)) % Wrap
    BY <1>2 DEF UpdateTime
  <2>. HIDE DEF S
  <2>5. Min(S) \in Nat
    BY <2>2, <2>3
  <2>6. ASSUME NEW t \in list, ~(exp[t] <= now)
        PROVE  UpdateTime(list, exp) # 0 /\ UpdateTime(list, exp) <= exp[t]
    <3>1. exp[t] - now \in 0 .. Wrap - 1
      BY <1>0, <2>1, <2>6
    <3>2. (exp[t] - now) % Wrap = exp[t] - now
      BY <1>0, <3>1, ModSmall
    <3>3. Min(S) <= exp[t] - now
      BY <2>3, <3>2 DEF S
    <3>4. now + Min(S) \in 0 .. Wrap - 1
      BY <1>0, <2>1, <2>5, <3>3
    <3>5. (now + Min(S)) % Wrap = now + Min(S)
      BY <1>0, <3>4, ModSmall
    <3>. QED  BY <2>1, <2>4, <2>5, <3>3, <3>5
  <2>7. UpdateTime(list, exp) \in 0 .. Wrap - 1
    <3>1. now + Min(S) \in Int
      BY <2>5
    <3>. QED  BY <1>0, <2>4, <3>1, ModRange
  <2>. QED  BY <2>6, <2>7
<1>. QED  BY <1>1, <1>2

-----------------------------------------------------------------------------
TypeInv == TypeOK /\ now >= 1 /\ network_events <= received

(* The state after oc_main_init is well typed. *)
LEMMA TypeInit == Init => TypeInv
<1>1. Wrap \in Nat /\ MaxTime \in Nat /\ MaxTime >= 1 /\ MaxMessages \in Nat /\ Wrap > 0
  BY ClockAssumption
<1>2. <<>> \in Seq(Event)
  OBVIOUS
<1>3. Init => needspoll \in [Process -> BOOLEAN] /\ tpc \in [Thread -> ThreadPc]
             /\ expiration \in [Timer -> 0 .. MaxTime]
  BY <1>1 DEF Init, ThreadPc
<1>4. Init => /\ pc \in MainPc /\ now \in 0 .. MaxTime /\ now >= 1
              /\ network_events \in 0 .. MaxMessages /\ received \in 0 .. MaxMessages
              /\ next_expiration \in 0 .. Wrap - 1 /\ ticks \in 0 .. Wrap - 1
              /\ network_events <= received
  BY <1>1 DEF Init, MainPc
<1>5. Init => poll_requested \in BOOLEAN /\ quit \in BOOLEAN
              /\ timerlist \in SUBSET Timer /\ expired \in SUBSET Timer
  BY DEF Init
<1>. QED  BY <1>2, <1>3, <1>4, <1>5 DEF Init, TypeInv, TypeOK

(* Arming timers keeps the timer variables and poll flags typed. *)
LEMMA AddTimersType ==
  ASSUME TypeInv, NEW ts \in SUBSET Timer, AddTimers(ts)
  PROVE  /\ timerlist' \in SUBSET Timer /\ expiration' \in [Timer -> 0 .. MaxTime]
         /\ next_expiration' \in 0 .. Wrap - 1
         /\ needspoll' \in [Process -> BOOLEAN] /\ poll_requested' \in BOOLEAN
<1>1. timerlist' \in SUBSET Timer
  BY DEF TypeInv, TypeOK, AddTimers
<1>2. expiration' \in [Timer -> 0 .. MaxTime]
  <2>1. \A t \in ts : now + Interval[t] \in 0 .. MaxTime
    BY IntervalAssumption, ClockAssumption DEF TypeInv, TypeOK, AddTimers
  <2>. QED  BY <2>1 DEF TypeInv, TypeOK, AddTimers
<1>3. next_expiration' \in 0 .. Wrap - 1
  <2>1. now \in 1 .. MaxTime
    BY ClockAssumption DEF TypeInv, TypeOK
  <2>. QED  BY <1>1, <1>2, <2>1, UpdateTimeSound DEF TypeInv, TypeOK, AddTimers
<1>4. needspoll' \in [Process -> BOOLEAN] /\ poll_requested' \in BOOLEAN
  BY DEF TypeInv, TypeOK, AddTimers, Process
<1>. QED  BY <1>1, <1>2, <1>3, <1>4

(* No step of any thread leaves the types. *)
LEMMA TypeNext == TypeInv /\ [Next]_vars => TypeInv'
<1>. SUFFICES ASSUME TypeInv, [Next]_vars PROVE TypeInv'
  OBVIOUS
<1>. USE ClockAssumption DEF TypeInv, TypeOK, MainPc
<1>t. now \in 1 .. MaxTime
  OBVIOUS
<1>1. CASE RequestPoll
  BY <1>1 DEF RequestPoll, NextExpirationTime, threadVars, timeVars, Process
<1>2. CASE StartPoll
  BY <1>2 DEF StartPoll, threadVars, timeVars
<1>3. ASSUME NEW p \in Process, NEW at, NEW next \in MainPc, ScanProcess(p, at, next)
      PROVE TypeInv'
  BY <1>3 DEF ScanProcess, threadVars, timeVars, Process
<1>4. CASE NetworkHandler
  <2>1. [i \in 1 .. network_events |-> "net"] \in Seq(Event)
    BY DEF Event
  <2>2. queue' \in Seq(Event)
    BY <1>4, <2>1 DEF NetworkHandler
  <2>. QED  BY <1>4, <2>2 DEF NetworkHandler, timeVars
<1>5. ASSUME NEW t \in Timer, EtimerFire(t) PROVE TypeInv'
  <2>1. queue' \in Seq(Event)
    BY <1>5 DEF EtimerFire, Event
  <2>2. next_expiration' \in 0 .. Wrap - 1
    BY <1>5, <1>t, UpdateTimeSound DEF EtimerFire
  <2>. QED  BY <1>5, <2>1, <2>2 DEF EtimerFire, threadVars
<1>6. CASE EtimerDone
  BY <1>6 DEF EtimerDone, threadVars, timeVars
<1>7. CASE NoEvent
  BY <1>7 DEF NoEvent, threadVars, timeVars
<1>8. CASE PassMessage
  <2>1. queue' \in Seq(Event)
    BY <1>8 DEF PassMessage, Event
  <2>. QED  BY <1>8, <2>1 DEF PassMessage, threadVars, timeVars
<1>9. CASE HandleMessage
  <2>1. queue' \in Seq(Event)
    BY <1>9 DEF HandleMessage
  <2>2. ASSUME NEW new \in SomeUnused, AddTimers(new), UNCHANGED expired PROVE TypeInv'
    <3>1. new \in SUBSET Timer
      BY DEF SomeUnused, Unused
    <3>. QED  BY <1>9, <2>1, <2>2, <3>1, AddTimersType DEF HandleMessage, threadVars
  <2>3. ASSUME NEW t \in Timer, RemoveCallback(t) PROVE TypeInv'
    <3>1. next_expiration' \in 0 .. Wrap - 1
      BY <2>3, <1>t, UpdateTimeSound DEF RemoveCallback
    <3>. QED  BY <1>9, <2>1, <2>3, <3>1 DEF HandleMessage, RemoveCallback, threadVars
  <2>. QED  BY <1>9, <2>2, <2>3 DEF HandleMessage
<1>10. CASE RunCallbacks
  <2>1. queue' \in Seq(Event)
    BY <1>10 DEF RunCallbacks
  <2>2. PICK again \in SUBSET expired, new \in SomeUnused : AddTimers(again \cup new)
    BY <1>10 DEF RunCallbacks
  <2>3. again \cup new \in SUBSET Timer
    BY DEF SomeUnused, Unused
  <2>. QED  BY <1>10, <2>1, <2>2, <2>3, AddTimersType DEF RunCallbacks, threadVars
<1>11. CASE CheckMore \/ Lock \/ Wait \/ Timeout \/ Loop \/ SpuriousWakeup
  BY <1>11 DEF CheckMore, Lock, Wait, Timeout, Loop, SpuriousWakeup, threadVars, timeVars
<1>12. CASE Interrupt
  BY <1>12 DEF Interrupt, threadVars, timeVars
<1>13. ASSUME NEW th \in Thread, Receive(th) PROVE TypeInv'
  BY <1>13 DEF Receive, timeVars, ThreadPc
<1>14. ASSUME NEW th \in Thread, HandOver(th) PROVE TypeInv'
  <2>1. CASE FlagProcess(th)
    BY <2>1 DEF FlagProcess, timeVars, ThreadPc, Process
  <2>2. CASE FlagPoll(th)
    BY <2>2 DEF FlagPoll, timeVars, ThreadPc
  <2>3. CASE Signal(th)
    BY <2>3 DEF Signal, timeVars, ThreadPc
  <2>. QED  BY <1>14, <2>1, <2>2, <2>3 DEF HandOver
<1>15. CASE Tick
  BY <1>15 DEF Tick, threadVars
<1>16. CASE UNCHANGED vars
  BY <1>16 DEF vars, threadVars, timeVars
<1>. QED
  BY <1>1, <1>2, <1>3, <1>4, <1>5, <1>6, <1>7, <1>8, <1>9, <1>10, <1>11, <1>12, <1>13,
     <1>14, <1>15, <1>16 DEF Next, Main, Process

(* The state of the event loop is always well typed; in particular the sums
   of update_time stay in the range of oc_clock_time_t.                     *)
THEOREM LoopTypeCorrect == Spec => []TypeOK
<1>1. TypeInv => TypeOK
  BY DEF TypeInv
<1>. QED  BY <1>1, TypeInit, TypeNext, PTL DEF Spec

-----------------------------------------------------------------------------
(* MessagePolled is inductive together with the types. *)
LEMMA PolledNext == TypeInv /\ MessagePolled /\ [Next]_vars => MessagePolled'
<1>. SUFFICES ASSUME TypeInv, MessagePolled, [Next]_vars PROVE MessagePolled'
  OBVIOUS
<1>. USE DEF TypeInv, TypeOK, MessagePolled, Process
<1>1. CASE RequestPoll
  BY <1>1 DEF RequestPoll, threadVars
<1>2. CASE StartPoll
  BY <1>2 DEF StartPoll, threadVars
<1>3. CASE ScanProcess("network", "scanNetwork", "scanEtimer")
  BY <1>3 DEF ScanProcess, threadVars
<1>4. CASE ScanProcess("etimer", "scanEtimer", "event")
  BY <1>4 DEF ScanProcess, threadVars
<1>5. CASE NetworkHandler
  BY <1>5 DEF NetworkHandler
<1>6. ASSUME NEW t \in Timer, EtimerFire(t) PROVE MessagePolled'
  BY <1>6 DEF EtimerFire, threadVars
<1>7. CASE EtimerDone \/ NoEvent \/ PassMessage
  BY <1>7 DEF EtimerDone, NoEvent, PassMessage, threadVars
<1>8. CASE HandleMessage
  <2>1. UNCHANGED <<network_events, tpc>> /\ pc = "event" /\ pc' = "check"
    BY <1>8 DEF HandleMessage, threadVars
  <2>2. needspoll'["network"] = needspoll["network"] /\ (poll_requested => poll_requested')
    BY <1>8 DEF HandleMessage, AddTimers, RemoveCallback
  <2>. QED  BY <2>1, <2>2
<1>9. CASE RunCallbacks
  <2>1. UNCHANGED <<network_events, tpc>> /\ pc = "event" /\ pc' = "check"
    BY <1>9 DEF RunCallbacks, threadVars
  <2>2. needspoll'["network"] = needspoll["network"] /\ (poll_requested => poll_requested')
    BY <1>9 DEF RunCallbacks, AddTimers
  <2>. QED  BY <2>1, <2>2
<1>10. CASE CheckMore \/ Lock \/ Wait \/ Timeout \/ Loop \/ SpuriousWakeup
  BY <1>10 DEF CheckMore, Lock, Wait, Timeout, Loop, SpuriousWakeup, threadVars
<1>11. CASE Interrupt
  BY <1>11 DEF Interrupt, threadVars
<1>12. ASSUME NEW th \in Thread, Receive(th) PROVE MessagePolled'
  BY <1>12 DEF Receive
<1>13. ASSUME NEW th \in Thread, FlagProcess(th) PROVE MessagePolled'
  BY <1>13 DEF FlagProcess
<1>14. ASSUME NEW th \in Thread, FlagPoll(th) PROVE MessagePolled'
  BY <1>14 DEF FlagPoll
<1>15. ASSUME NEW th \in Thread, Signal(th) PROVE MessagePolled'
  BY <1>15 DEF Signal
<1>16. CASE Tick
  BY <1>16 DEF Tick, threadVars
<1>17. CASE UNCHANGED vars
  BY <1>17 DEF vars, threadVars
<1>. QED
  BY <1>1, <1>2, <1>3, <1>4, <1>5, <1>6, <1>7, <1>8, <1>9, <1>10, <1>11, <1>12, <1>13,
     <1>14, <1>15, <1>16, <1>17 DEF Next, Main, HandOver

(* However many network threads hand over messages while the main thread
   polls, no message is left behind without a poll that will take it.       *)
THEOREM MessageNeverForgotten == Spec => []MessagePolled
<1>1. Init => MessagePolled
  BY DEF Init, MessagePolled
<1>. QED  BY <1>1, TypeInit, TypeNext, PolledNext, PTL DEF Spec

-----------------------------------------------------------------------------
(* Whether a value e of next_expiration accounts for timer t *)
Covers(e, t) == e # 0 /\ e <= expiration[t]

(* Every armed timer is due or accounted for by next_expiration. *)
NextCovers == \A t \in timerlist : Due(t) \/ Covers(next_expiration, t)

(* Between oc_etimer_request_poll and the poll of oc_etimer_process the value
   that was read accounts for what is not due, and that poll is coming.     *)
BeforeEtimer ==
  /\ pc = "run" => poll_requested
  /\ pc \in {"run", "scanNetwork", "network", "scanEtimer"} => needspoll["etimer"]
  /\ pc \in {"run", "scanNetwork", "network", "scanEtimer", "etimer"} =>
        \A t \in timerlist : Due(t) \/ Covers(ticks, t)

(* After that poll it accounts for every timer, unless another poll has been
   requested, which oc_main_poll will not sleep over.                       *)
AfterEtimer ==
  /\ pc \in {"event", "check"} =>
       poll_requested \/ \A t \in timerlist : Covers(ticks, t)
  /\ pc \in {"lock", "locked", "waiting"} => \A t \in timerlist : Covers(ticks, t)

SleepInv == TypeInv /\ NextCovers /\ BeforeEtimer /\ AfterEtimer

(* Nothing is armed after oc_main_init. *)
LEMMA SleepInit == Init => SleepInv
  BY TypeInit DEF Init, SleepInv, NextCovers, BeforeEtimer, AfterEtimer

(* Arming timers accounts for them and, when any was armed, requests a poll. *)
LEMMA AddTimersCovers ==
  ASSUME TypeInv, NextCovers, NEW ts \in SUBSET Timer, AddTimers(ts), now' = now
  PROVE  NextCovers' /\ (poll_requested' \/ UNCHANGED <<timerlist, expiration, poll_requested>>)
<1>1. now \in 1 .. MaxTime
  BY ClockAssumption DEF TypeInv, TypeOK
<1>2. CASE ts = {}
  <2>1. UNCHANGED <<timerlist, expiration, next_expiration, poll_requested>>
    BY <1>2 DEF AddTimers
  <2>. QED  BY <2>1 DEF NextCovers, Due, Covers
<1>3. CASE ts # {}
  <2>1. next_expiration' = UpdateTime(timerlist', expiration') /\ poll_requested'
    BY <1>3 DEF AddTimers
  <2>. QED  BY <1>1, <2>1, AddTimersType, UpdateTimeSound DEF NextCovers, Due, Covers
<1>. QED  BY <1>2, <1>3

(* The strengthened invariant is inductive: one case per action. *)
LEMMA SleepNext == SleepInv /\ [Next]_vars => SleepInv'
<1>. SUFFICES ASSUME SleepInv, [Next]_vars PROVE SleepInv'
  OBVIOUS
<1>0. TypeInv'
  BY TypeNext DEF SleepInv
<1>t. now \in 1 .. MaxTime
  BY ClockAssumption DEF SleepInv, TypeInv, TypeOK
<1>. USE <1>0 DEF SleepInv, NextCovers, BeforeEtimer, AfterEtimer, Covers, Due
<1>1. CASE RequestPoll
  BY <1>1 DEF RequestPoll, NextExpirationTime, timeVars, TypeInv, TypeOK, Process
<1>2. CASE StartPoll
  BY <1>2 DEF StartPoll, timeVars
<1>3. CASE ScanProcess("network", "scanNetwork", "scanEtimer")
  BY <1>3 DEF ScanProcess, timeVars, TypeInv, TypeOK, Process
<1>4. CASE ScanProcess("etimer", "scanEtimer", "event")
  BY <1>4 DEF ScanProcess, timeVars, TypeInv, TypeOK, Process
<1>5. CASE NetworkHandler
  BY <1>5 DEF NetworkHandler, timeVars
<1>6. ASSUME NEW t \in Timer, EtimerFire(t) PROVE SleepInv'
  <2>1. NextCovers'
    BY <1>6, <1>t, UpdateTimeSound DEF EtimerFire, TypeInv, TypeOK
  <2>. QED  BY <1>6, <2>1 DEF EtimerFire
<1>7. CASE EtimerDone
  BY <1>7 DEF EtimerDone, timeVars
<1>8. CASE NoEvent
  BY <1>8 DEF NoEvent, timeVars
<1>9. CASE PassMessage
  BY <1>9 DEF PassMessage, timeVars
<1>10. CASE HandleMessage
  <2>1. ASSUME NEW new \in SomeUnused, AddTimers(new) PROVE SleepInv'
    <3>1. new \in SUBSET Timer /\ now' = now
      BY <1>10 DEF SomeUnused, Unused, HandleMessage
    <3>2. NextCovers' /\ (poll_requested'
                          \/ UNCHANGED <<timerlist, expiration, poll_requested>>)
      BY <2>1, <3>1, AddTimersCovers
    <3>. QED  BY <1>10, <3>2 DEF HandleMessage
  <2>2. ASSUME NEW t \in Timer, RemoveCallback(t) PROVE SleepInv'
    <3>1. NextCovers'
      <4>1. CASE t \in timerlist
        BY <1>10, <2>2, <4>1, <1>t, UpdateTimeSound
           DEF HandleMessage, RemoveCallback, TypeInv, TypeOK
      <4>2. CASE t \notin timerlist
        BY <1>10, <2>2, <4>2 DEF HandleMessage, RemoveCallback
      <4>. QED  BY <4>1, <4>2
    <3>. QED  BY <1>10, <2>2, <3>1 DEF HandleMessage, RemoveCallback
  <2>. QED  BY <1>10, <2>1, <2>2 DEF HandleMessage
<1>11. CASE RunCallbacks
  <2>1. PICK again \in SUBSET expired, new \in SomeUnused : AddTimers(again \cup new)
    BY <1>11 DEF RunCallbacks
  <2>2. again \cup new \in SUBSET Timer /\ now' = now
    BY <1>11 DEF SomeUnused, Unused, RunCallbacks, TypeInv, TypeOK
  <2>3. NextCovers' /\ (poll_requested' \/ UNCHANGED <<timerlist, expiration, poll_requested>>)
    BY <2>1, <2>2, AddTimersCovers
  <2>. QED  BY <1>11, <2>3 DEF RunCallbacks
<1>12. CASE CheckMore
  BY <1>12 DEF CheckMore, timeVars
<1>13. CASE Lock \/ Wait \/ Timeout \/ Loop \/ SpuriousWakeup
  BY <1>13 DEF Lock, Wait, Timeout, Loop, SpuriousWakeup, timeVars
<1>14. CASE Interrupt
  BY <1>14 DEF Interrupt, timeVars
<1>15. ASSUME NEW th \in Thread, Receive(th) PROVE SleepInv'
  BY <1>15 DEF Receive, timeVars
<1>16. ASSUME NEW th \in Thread, FlagProcess(th) PROVE SleepInv'
  BY <1>16 DEF FlagProcess, timeVars, TypeInv, TypeOK, Process
<1>17. ASSUME NEW th \in Thread, FlagPoll(th) PROVE SleepInv'
  BY <1>17 DEF FlagPoll, timeVars
<1>18. ASSUME NEW th \in Thread, Signal(th) PROVE SleepInv'
  BY <1>18 DEF Signal, timeVars
<1>19. CASE Tick
  BY <1>19 DEF Tick, TypeInv, TypeOK
<1>20. CASE UNCHANGED vars
  BY <1>20 DEF vars, timeVars
<1>. QED
  BY <1>1, <1>2, <1>3, <1>4, <1>5, <1>6, <1>7, <1>8, <1>9, <1>10, <1>11, <1>12, <1>13,
     <1>14, <1>15, <1>16, <1>17, <1>18, <1>19, <1>20 DEF Next, Main, HandOver

(* The loop never sleeps past an armed timer, whatever timers callbacks and
   handlers register or remove and whenever the clock advances.             *)
THEOREM LoopNeverOversleeps == Spec => []NeverOversleeps
<1>1. SleepInv => NeverOversleeps
  BY DEF SleepInv, AfterEtimer, NeverOversleeps, Covers
<1>. QED  BY <1>1, SleepInit, SleepNext, PTL DEF Spec
=============================================================================
