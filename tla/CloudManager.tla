---------------------------- MODULE CloudManager ----------------------------
(***************************************************************************)
(* The cloud client of a device (api/cloud): registering with the cloud,   *)
(* logging in, refreshing the access token, pinging, starting over, and    *)
(* what of it survives a power cycle.                                      *)
(*                                                                         *)
(* The context is one record that the handlers transform, as they do in    *)
(* the C code: an operator that takes a context c returns the context the  *)
(* function leaves.  Delayed callbacks are the timed_callbacks list of     *)
(* oc_ri.c: a callback set with delay 0 is "now", any other "later"; the   *)
(* event timers mark expired ones "due", and the list is then traversed,   *)
(* the entry whose function is called being "running".                     *)
(*                                                                         *)
(* Left out: publishing to the resource directory, the observers of the    *)
(* configuration resource and the error code it shows, and the lengths of  *)
(* delays other than zero.                                                 *)
(***************************************************************************)
EXTENDS Integers, SequencesExt, FiniteSets

CONSTANTS SessionEvents,  \* whether the build has OC_SESSION_EVENTS
          MaxRetry,       \* MAX_RETRY_COUNT
          CounterSize,    \* number of values of the uint8_t counters
          Api,            \* the requests the application makes itself
          MaxPending,     \* bound on the requests outstanding
          MaxTimers,      \* bound on the delayed callbacks pending
          MaxTokens,      \* bound on the answers that carry tokens
          Answers,        \* what an answer that carries tokens may say
          MaxEvents       \* bound on the calls and events other than the manager's

ASSUME SessionEventsAssumption == SessionEvents \in BOOLEAN
ASSUME CountsAssumption == /\ MaxRetry \in Nat \ {0}
                           /\ CounterSize \in Nat /\ CounterSize > MaxRetry
                           /\ MaxPending \in Nat \ {0} /\ MaxTimers \in Nat
                           /\ MaxTokens \in Nat /\ MaxEvents \in Nat

VARIABLES
  ctx,      \* the cloud context, its callbacks, requests and session
  polling,  \* poll_event_callback_timers is traversing the list
  stored,   \* the cloud store on disk
  tokens,   \* answers with tokens so far
  events    \* of the kinds MaxEvents bounds, so far

vars == <<ctx, polling, stored, tokens, events>>

(* oc_cloud_status_t; the empty set is OC_CLOUD_INITIALIZED *)
Flags == {"registered", "loggedin", "expiry", "refreshed", "loggedout",
          "failure", "deregistered"}

(* oc_cps_t *)
Cps == {"uninitialized", "ready", "registering", "registered", "failed"}

(* The functions that are set as delayed callbacks *)
Callbacks == {"cloud_register", "cloud_login", "refresh_token", "send_ping",
              "callback_handler", "restart_manager", "start_manager",
              "cloud_store_dump_handler"}

(* Requests by their response handlers: the manager's own ... *)
ManagerRequests == {"register", "login", "refresh", "ping"}

(* ... and the application's *)
ApiRequests == {"Register", "Login", "Logout", "Deregister", "Refresh",
                "ResetDeregister"}

ASSUME ApiAssumption == Api \subseteq ApiRequests

(* An answer without tokens *)
Plain == [refresh |-> FALSE, expires |-> FALSE, redirect |-> FALSE, number |-> 0]

ASSUME AnswersAssumption ==
  Answers \subseteq [refresh : BOOLEAN, expires : BOOLEAN, redirect : BOOLEAN]

-----------------------------------------------------------------------------
(* Delayed callbacks *)

Add(c, f, when) ==
  [c EXCEPT !.timers = Append(@, [cb |-> f, when |-> when])]

(* oc_remove_delayed_callback: the first entry of f, which may be the one  *)
(* being run, and is then freed while in use                               *)
First(t, f) == CHOOSE i \in DOMAIN t : t[i].cb = f /\ \A j \in 1..(i - 1) : t[j].cb # f

Cancel(c, f) ==
  IF \A i \in DOMAIN c.timers : c.timers[i].cb # f THEN c
  ELSE [c EXCEPT !.timers = RemoveAt(@, First(@, f))]

(* cloud_store_dump_async *)
DumpAsync(c) == Add(c, "cloud_store_dump_handler", "now")

-----------------------------------------------------------------------------
(* Stopping and starting the manager *)

cloud_manager_stop(c) ==
  Cancel(Cancel(Cancel(Cancel(Cancel(c, "cloud_register"), "cloud_login"),
                       "send_ping"), "refresh_token"), "callback_handler")

(* cloud_store_initialize: cps is left as it is *)
cloud_store_initialize(c) == [c EXCEPT !.status = {}, !.token = 0, !.refresh = 0]

(* cloud_start_process *)
cloud_manager_start(c) ==
  Add([c EXCEPT !.retry = 0],
      IF c.status = {} THEN "cloud_register"
      ELSE IF c.refresh # 0 THEN "refresh_token" ELSE "cloud_login", "later")

start_manager(c) == cloud_manager_start([c EXCEPT !.at = FALSE])

cloud_manager_restart(c) ==
  Add(Cancel(cloud_manager_stop(c), "start_manager"), "start_manager", "now")

ZeroEndpoint(c) == [c EXCEPT !.at = FALSE, !.seen = FALSE]

-----------------------------------------------------------------------------
(* Response handlers when the session is lost: notify_client_cb_503.       *)
(* Failed(c) is the error exit of the handlers.                            *)

Failed(c) == [c EXCEPT !.cps = "failed", !.status = @ \cup {"failure"}]

(* The else branch of cloud_register_handler and its like *)
Again(c, f, retry) ==
  LET d == Cancel(Failed(c), f)
      e == IF retry THEN Add(d, f, "later") ELSE d
  IN  Add(e, "callback_handler", "now")

(* send_ping_handler: every code but OC_PING_TIMEOUT counts as an answer *)
send_ping_handler(c, code) ==
  IF "loggedin" \notin c.status THEN c
  ELSE LET d == Add(Cancel(c, "send_ping"), "send_ping", "later")
       IN  IF code = "timeout" THEN d ELSE [d EXCEPT !.retry = 0]

(* cloud_deregister_on_reset_internal, after the endpoint is closed *)
ForgetOnReset(c) ==
  [cloud_manager_stop(cloud_store_initialize(ZeroEndpoint(c)))
     EXCEPT !.cps = "uninitialized"]

(* cloud_deregistered_internal, up to the call of the callback: the answer *)
(* 5.03 counts as success                                                  *)
Deregistered(c, gone) ==
  [c EXCEPT !.status = IF gone THEN {} ELSE @ \ {"failure", "deregistered"},
            !.cps = "ready"]

(* The handler of a request of the given kind, told 5.03.  The handlers of *)
(* the application's requests clear the failure they report.               *)
Unavailable(c, kind) ==
  IF kind = "register" THEN Again(c, "cloud_register", TRUE)
  ELSE IF kind = "login" THEN Again(c, "cloud_login", TRUE)
  ELSE IF kind = "refresh" THEN Again(c, "refresh_token", TRUE)
  ELSE IF kind = "ping" THEN send_ping_handler(c, "unavailable")
  ELSE IF kind = "Deregister" THEN DumpAsync(Deregistered(c, TRUE))
  ELSE IF kind = "ResetDeregister"
       THEN DumpAsync(ForgetOnReset(Deregistered(c, TRUE)))
  ELSE IF kind = "Logout"
       THEN [c EXCEPT !.status = @ \ {"failure", "loggedout"}]
  ELSE [Failed(c) EXCEPT !.status =
          @ \ (IF kind = "Refresh" THEN {"failure", "expiry", "refreshed"}
               ELSE {"failure", "expiry"})]

(* oc_tls_free_peer: every request is told 5.03, then the TCP session ends *)
FreePeer(c) ==
  LET told[n \in 0..Len(c.reqs)] ==
        IF n = 0 THEN [c EXCEPT !.reqs = <<>>, !.live = FALSE]
        ELSE Unavailable(told[n - 1], c.reqs[n])
  IN  told[Len(c.reqs)]

(* cloud_close_endpoint *)
cloud_close_endpoint(c) ==
  IF c.at /\ c.live THEN [FreePeer(c) EXCEPT !.ending = TRUE] ELSE c

(* The end of the session is to restart the manager.  When start_manager   *)
(* has replaced the endpoint and kept cloud_ep_state, nothing is closed,   *)
(* no session ends, and nothing restarts the manager.                      *)
cloud_reconnect(c) ==
  IF SessionEvents /\ c.seen
  THEN cloud_close_endpoint(c)
  ELSE Add(Cancel(c, "restart_manager"), "restart_manager", "now")

(* reconnect of oc_cloud_manager.c, when the retries are over *)
reconnect(c) ==
  cloud_reconnect(Cancel(Add(c, "callback_handler", "now"), "refresh_token"))

-----------------------------------------------------------------------------
(* Response handlers *)

(* _register_handler, when the cloud accepts: a refresh token held before  *)
(* stays when the answer has none                                          *)
Registered(c, a) ==
  LET d == IF a.redirect
           THEN [ZeroEndpoint(cloud_close_endpoint(c)) EXCEPT !.ending = FALSE]
           ELSE c
      e == DumpAsync([d EXCEPT
             !.token = a.number, !.refresh = IF a.refresh THEN a.number ELSE @,
             !.expires = a.expires, !.retry = 0,
             !.status = @ \cup {"registered"}
                          \cup (IF a.expires THEN {"expiry"} ELSE {})])
  IN  [e EXCEPT !.cps = "registered"]

(* cloud_register_handler *)
register_handler(c, code, a) ==
  IF code = "ok" /\ c.status = {}
  THEN Add(Add(Cancel(Registered(c, a), "cloud_register"),
               "callback_handler", "now"), "cloud_login", "later")
  ELSE Again(c, "cloud_register", code # "unauthorized")

(* _login_handler, when the cloud accepts *)
LoggedIn(c) ==
  [c EXCEPT !.retry = 0,
            !.status = @ \cup {"loggedin"}
                         \cup (IF c.expires THEN {"expiry"} ELSE {})]

(* Faulty cloud_login_handler: a late answer is not recognised. *)
login_handlerLate(c, code) ==
  IF code = "ok"
  THEN Add(Add(Cancel(LoggedIn(c), "cloud_login"), "callback_handler", "now"),
           "send_ping", "later")
  ELSE Again(c, "cloud_login", TRUE)

(* cloud_login_handler.  A refresh is scheduled while OC_CLOUD_TOKEN_EXPIRY *)
(* is set, which an earlier answer may have done.                           *)
login_handler(c, code) ==
  IF code = "ok" /\ "registered" \in c.status
  THEN LET d == Add(Add(Cancel(LoggedIn(c), "cloud_login"),
                        "callback_handler", "now"), "send_ping", "later")
       IN  IF "expiry" \in d.status THEN Add(d, "refresh_token", "later") ELSE d
  ELSE IF code = "unauthorized" /\ c.refresh # 0
  THEN Add(Add(Cancel(Cancel(Failed(c), "cloud_login"), "refresh_token"),
               "refresh_token", "later"), "callback_handler", "now")
  ELSE Again(c, "cloud_login", code # "unauthorized")

(* Faulty _refresh_token_handler: the new tokens are not written. *)
RefreshedUnsaved(c, a) ==
  [c EXCEPT !.token = a.number, !.refresh = IF a.refresh THEN a.number ELSE 0,
            !.expires = a.expires, !.retry = 0, !.status = @ \cup {"refreshed"}]

(* _refresh_token_handler, when the cloud accepts *)
Refreshed(c, a) ==
  DumpAsync([c EXCEPT
    !.token = a.number, !.refresh = IF a.refresh THEN a.number ELSE 0, !.expires = a.expires, !.retry = 0,
    !.status = @ \cup {"refreshed"}
                 \cup (IF a.expires THEN {"expiry"} ELSE {})])

(* refresh_token_handler *)
refresh_token_handler(c, code, a) ==
  IF code = "ok" /\ "registered" \in c.status
  THEN LET d == [Cancel(Cancel(Refreshed(c, a), "send_ping"), "refresh_token")
                   EXCEPT !.refreshes = 0]
       IN  Add(Add(d, "cloud_login", "later"), "callback_handler", "now")
  ELSE Again(c, "refresh_token", code # "unauthorized")

(* The handlers of the application's requests *)
ApiHandler(c, kind, code, a) ==
  LET report == {"failure", "expiry", "refreshed", "loggedout"} \
                  (IF kind = "Refresh" THEN {"loggedout"}
                   ELSE IF kind = "Logout" THEN {"expiry", "refreshed"}
                   ELSE {"refreshed", "loggedout"})
      d == IF code = "ok" /\ kind = "Register" /\ c.status = {}
           THEN Registered(c, a)
           ELSE IF code = "ok" /\ kind = "Login" /\ "registered" \in c.status
           THEN LoggedIn(c)
           ELSE IF code = "ok" /\ kind = "Refresh" /\ "registered" \in c.status
           THEN Refreshed(c, a)
           ELSE IF kind = "Logout"
           THEN IF code = "ok"
                THEN [c EXCEPT !.status = @ \ {"loggedin"}]
                ELSE c
           ELSE Failed(c)
  IN  [d EXCEPT !.status = @ \ report]

Handler(c, kind, code, a) ==
  IF code = "unavailable" THEN Unavailable(c, kind)
  ELSE IF kind = "register" THEN register_handler(c, code, a)
  ELSE IF kind = "login" THEN login_handler(c, code)
  ELSE IF kind = "refresh" THEN refresh_token_handler(c, code, a)
  ELSE IF kind = "ping" THEN send_ping_handler(c, code)
  ELSE IF kind = "Deregister" THEN DumpAsync(Deregistered(c, code = "ok"))
  ELSE IF kind = "ResetDeregister"
       THEN DumpAsync(ForgetOnReset(cloud_close_endpoint(
                        Deregistered(c, code = "ok"))))
  ELSE ApiHandler(c, kind, code, a)

-----------------------------------------------------------------------------
(* The delayed callbacks: the contexts a call may leave.  A request is     *)
(* sent, or cannot be: no address, no memory, or not in RFNOP.             *)

Sent(c, kind) ==
  [c EXCEPT !.reqs = Append(@, kind), !.live = TRUE, !.at = TRUE]

cloud_register(c) ==
  LET d == [c EXCEPT !.retry = (@ + 1) % CounterSize]
  IN  IF c.status # {} THEN {c}
      ELSE IF d.retry >= MaxRetry THEN {reconnect(d)}
      ELSE {Add(e, "cloud_register", "later") :
              e \in {d, [Sent(d, "register") EXCEPT !.cps = "registering"]}}

cloud_login(c) ==
  LET d == [c EXCEPT !.retry = (@ + 1) % CounterSize]
  IN  IF "registered" \notin c.status THEN {c}
      ELSE IF d.retry >= MaxRetry THEN {reconnect(d)}
      ELSE {Add(e, "cloud_login", "later") : e \in {d, Sent(d, "login")}}

(* Faulty counter: it is wider than the code's. *)
refresh_tokenWide(c) ==
  IF "registered" \notin c.status THEN {c}
  ELSE {Add([c EXCEPT !.refreshes = @ + 1], "refresh_token", "later")}

refresh_token(c) ==
  LET d == [c EXCEPT !.refreshes = (@ + 1) % CounterSize]
  IN  IF "registered" \notin c.status THEN {c}
      ELSE IF d.refreshes >= MaxRetry THEN {reconnect(d)}
      ELSE {Add(e, "cloud_login", "later") : e \in {d, Sent(d, "refresh")}}

(* A ping that cannot be sent leaves nothing that would send another *)
send_ping(c) ==
  LET d == [c EXCEPT !.retry = (@ + 1) % CounterSize]
  IN  IF "loggedin" \notin c.status THEN {c}
      ELSE IF d.retry >= MaxRetry THEN {reconnect(d)}
      ELSE {d, Sent(d, "ping")}

(* The flags that were reported are cleared *)
callback_handler(c) == [c EXCEPT !.status = @ \cap {"registered", "loggedin"}]

Run(c, f) ==
  IF f = "cloud_register" THEN cloud_register(c)
  ELSE IF f = "cloud_login" THEN cloud_login(c)
  ELSE IF f = "refresh_token" THEN refresh_token(c)
  ELSE IF f = "send_ping" THEN send_ping(c)
  ELSE IF f = "callback_handler" THEN {callback_handler(c)}
  ELSE IF f = "restart_manager" THEN {cloud_manager_restart(c)}
  ELSE IF f = "start_manager" THEN {start_manager(c)}
  ELSE {c}

(* After the call, poll_event_callback_timers removes the entry and frees  *)
(* it.  When the function removed its own entry, it is freed twice, or the *)
(* entry that took its place in memory, the last one set, is freed instead.*)
Returned(c) ==
  LET i == CHOOSE j \in DOMAIN c.timers : c.timers[j].when = "running"
  IN  IF \E j \in DOMAIN c.timers : c.timers[j].when = "running"
      THEN {[c EXCEPT !.timers = RemoveAt(@, i)]}
      ELSE {c, [c EXCEPT !.timers = Front(@)]}

-----------------------------------------------------------------------------
(* Actions *)

Fresh == [status |-> {}, cps |-> "uninitialized", token |-> 0, refresh |-> 0]

(* oc_cloud_init with the store st *)
Booted(st) ==
  [status |-> st.status, cps |-> st.cps, token |-> st.token, refresh |-> st.refresh,
   retry |-> 0, refreshes |-> 0, expires |-> FALSE, manager |-> FALSE,
   at |-> FALSE, seen |-> FALSE, live |-> FALSE, ending |-> FALSE,
   timers |-> <<>>, reqs |-> <<>>]

Init == /\ ctx = Booted(Fresh)
        /\ polling = FALSE
        /\ stored = Fresh
        /\ tokens = 0
        /\ events = 0

Due == {i \in DOMAIN ctx.timers : ctx.timers[i].when = "due"}

(* The event loop is between two events *)
Idle == ~polling /\ ~ctx.ending

Counted == events < MaxEvents /\ events' = events + 1

(* The event timers expire: those without delay, and some of the others *)
TimersExpire ==
  /\ Idle
  /\ Due = {}
  /\ \E L \in SUBSET {i \in DOMAIN ctx.timers : ctx.timers[i].when = "later"} :
       LET E == L \cup {i \in DOMAIN ctx.timers : ctx.timers[i].when = "now"}
       IN  /\ E # {}
           /\ ctx' = [ctx EXCEPT !.timers =
                 [i \in DOMAIN @ |-> IF i \in E THEN [@[i] EXCEPT !.when = "due"]
                                     ELSE @[i]]]
  /\ UNCHANGED <<polling, stored, tokens, events>>

(* One callback of poll_event_callback_timers, which starts again at the   *)
(* head of the list after every call                                       *)
Fire ==
  /\ Due # {}
  /\ polling \/ ~ctx.ending
  /\ LET i == CHOOSE j \in Due : \A k \in Due : j <= k
         f == ctx.timers[i].cb
     IN  /\ \E c \in Run([ctx EXCEPT !.timers[i].when = "running"], f) :
              /\ Len(c.reqs) <= MaxPending
              /\ ctx' \in Returned(c)
         /\ stored' = IF f = "cloud_store_dump_handler"
                      THEN [status |-> ctx.status, cps |-> ctx.cps,
                            token |-> ctx.token, refresh |-> ctx.refresh]
                      ELSE stored
  /\ polling' = \E i \in DOMAIN ctx'.timers : ctx'.timers[i].when = "due"
  /\ UNCHANGED <<tokens, events>>

(* The answer x as the next one that carries tokens *)
Numbered(x) == [refresh |-> x.refresh, expires |-> x.expires, redirect |-> x.redirect,
                number |-> tokens + 1]

(* An answer to any outstanding request *)
Answer ==
  /\ Idle
  /\ \E i \in DOMAIN ctx.reqs, code \in {"ok", "unauthorized", "error", "timeout"},
        x \in Answers :
       LET kind == ctx.reqs[i]
           issues == code = "ok" /\ kind \in {"register", "refresh", "Register", "Refresh"}
       IN  /\ code = "timeout" => kind = "ping"
           /\ issues /\ x.redirect => kind \in {"register", "Register"}
           /\ issues => tokens < MaxTokens
           /\ tokens' = IF issues THEN tokens + 1 ELSE tokens
           /\ ctx' = Handler([ctx EXCEPT !.reqs = RemoveAt(@, i)], kind, code, IF issues THEN Numbered(x) ELSE Plain)
           /\ Len(ctx'.timers) <= MaxTimers
  /\ UNCHANGED <<polling, stored, events>>

(* oc_ri_remove_client_cb: a request is dropped and its handler not called *)
Expire ==
  /\ Idle
  /\ \E i \in DOMAIN ctx.reqs :
       /\ ctx.reqs[i] # "ping"
       /\ ctx' = [ctx EXCEPT !.reqs = RemoveAt(@, i)]
  /\ UNCHANGED <<polling, stored, tokens, events>>

(* cloud_ep_session_event_handler, once the manager has been started *)
SessionEvent(c, connected) ==
  IF ~(SessionEvents /\ c.at) THEN c
  ELSE IF connected \/ ~c.manager THEN [c EXCEPT !.seen = connected]
  ELSE cloud_manager_restart([c EXCEPT !.seen = FALSE])

SessionStarts ==
  /\ Idle
  /\ SessionEvents /\ ctx.live /\ ctx.at /\ ~ctx.seen
  /\ ctx' = SessionEvent(ctx, TRUE)
  /\ UNCHANGED <<polling, stored, tokens, events>>

(* oc_handle_session, for a connection the cloud or the network ended or   *)
(* for one cloud_close_endpoint ended: a session set up since with the     *)
(* same address is torn down with it                                       *)
SessionEnds ==
  /\ ~polling
  /\ ctx.ending \/ (ctx.live /\ Len(ctx.timers) < MaxTimers)
  /\ LET c == [ctx EXCEPT !.ending = FALSE]
     IN  ctx' = SessionEvent(IF c.live THEN FreePeer(c) ELSE c, FALSE)
  /\ UNCHANGED <<polling, stored, tokens, events>>

(* cloud_interface_event_handler *)
InterfaceUp ==
  /\ Idle
  /\ Counted
  /\ SessionEvents /\ ctx.manager
  /\ ctx.status = {}
  /\ ctx' = cloud_manager_restart(ctx)
  /\ UNCHANGED <<polling, stored, tokens>>

(* oc_cloud_manager_start, called once by the application *)
ManagerStart ==
  /\ Idle
  /\ ~ctx.manager
  /\ ctx' = [cloud_manager_start(ctx) EXCEPT !.manager = TRUE]
  /\ UNCHANGED <<polling, stored, tokens, events>>

(* oc_cloud_manager_stop *)
ManagerStop ==
  /\ Idle
  /\ Counted
  /\ ctx.manager
  /\ LET c == Cancel(Cancel(ctx, "restart_manager"), "start_manager")
         d == cloud_store_initialize(cloud_manager_stop(c))
     IN  ctx' = [ZeroEndpoint(cloud_close_endpoint(d)) EXCEPT !.manager = FALSE]
  /\ UNCHANGED <<polling, stored, tokens>>

(* oc_cloud_provision_conf_resource, called by the application, and        *)
(* cloud_update_by_resource, called by post_cloud in some states only      *)
Provision ==
  LET c == cloud_manager_stop(cloud_store_initialize(
             ZeroEndpoint(cloud_close_endpoint(ctx))))
      d == [c EXCEPT !.cps = "ready"]
      again(e) == IF e.manager THEN cloud_reconnect(e) ELSE e
  IN  /\ Idle
      /\ Counted
      /\ \/ ctx' = again(DumpAsync(d))
         \/ /\ ctx.cps \in {"uninitialized", "ready", "failed"}
            /\ ctx' = DumpAsync(again(d))
      /\ UNCHANGED <<polling, stored, tokens>>

(* The application's own requests: oc_cloud_register, oc_cloud_login,      *)
(* oc_cloud_logout, oc_cloud_deregister and oc_cloud_refresh_token         *)
MayCall(kind) ==
  IF kind = "Register" THEN ctx.status = {}
  ELSE IF kind = "Login"
  THEN "registered" \in ctx.status /\ "loggedin" \notin ctx.status
  ELSE IF kind = "Logout" THEN "loggedin" \in ctx.status
  ELSE kind # "ResetDeregister" /\ "registered" \in ctx.status

ApiCall ==
  /\ Idle
  /\ Counted
  /\ Len(ctx.reqs) < MaxPending
  /\ \E kind \in Api :
       /\ MayCall(kind)
       /\ ctx' = [Sent(ctx, kind) EXCEPT
                    !.cps = IF kind = "Register" THEN "registering" ELSE @]
  /\ UNCHANGED <<polling, stored, tokens>>

(* oc_cloud_reset_context, called when the device is reset: it deregisters *)
(* when it is connected and registered.  Nothing is written to the store   *)
(* otherwise.                                                              *)
Reset ==
  /\ Idle
  /\ Counted
  /\ \/ /\ ctx.live /\ ctx.at /\ "registered" \in ctx.status
        /\ Len(ctx.reqs) < MaxPending
        /\ ctx' = Sent(ctx, "ResetDeregister")
     \/ ctx' = [cloud_manager_stop(cloud_store_initialize(ctx))
                  EXCEPT !.cps = "uninitialized"]
  /\ UNCHANGED <<polling, stored, tokens>>

(* A power cycle, or a crash of the process after a callback was freed     *)
(* twice: cloud_store_load                                                 *)
Reboot ==
  /\ Counted
  /\ ctx' = Booted(stored)
  /\ polling' = FALSE
  /\ UNCHANGED <<stored, tokens>>

Next == \/ TimersExpire \/ Fire
        \/ Answer \/ Expire \/ ApiCall
        \/ SessionStarts \/ SessionEnds \/ InterfaceUp
        \/ ManagerStart \/ ManagerStop \/ Provision \/ Reset
        \/ Reboot

Spec == Init /\ [][Next]_vars

-----------------------------------------------------------------------------
(* Properties *)

Timer == [cb : Callbacks, when : {"now", "later", "due"}]

Store == [status : SUBSET Flags, cps : Cps, token : Nat, refresh : Nat]

(* Type invariant: the counters stay within a uint8_t, and no entry of the *)
(* list is marked as running between two callbacks.                        *)
TypeOK ==
  /\ ctx.status \subseteq Flags /\ ctx.cps \in Cps
  /\ ctx.retry \in 0..(CounterSize - 1)
  /\ ctx.refreshes \in 0..(CounterSize - 1)
  /\ ctx.token \in Nat /\ ctx.refresh \in Nat
  /\ \A x \in {ctx.expires, ctx.manager, ctx.at, ctx.seen, ctx.live, ctx.ending} :
       x \in BOOLEAN
  /\ \A i \in DOMAIN ctx.timers : ctx.timers[i] \in Timer
  /\ \A i \in DOMAIN ctx.reqs : ctx.reqs[i] \in ManagerRequests \cup ApiRequests
  /\ polling \in BOOLEAN
  /\ stored \in Store

(* A device that is logged in, in memory or on disk, is registered: an     *)
(* answer to a login that comes after the device was deregistered, reset   *)
(* or given another cloud does not log it in (_login_handler).             *)
LoggedInRegistered ==
  \A s \in {ctx.status, stored.status} : "loggedin" \in s => "registered" \in s

Pending(fs) == \E i \in DOMAIN ctx.timers : ctx.timers[i].cb \in fs

(* While the registration, the access token or the refresh token in memory *)
(* is not the one on disk, writing it is pending: nothing that stops,      *)
(* restarts or reconnects the manager cancels the write, and it is not     *)
(* lost either when a callback that freed its own entry returns and        *)
(* another entry is removed in its place.                                  *)
Persisted ==
  /\ "registered" \in ctx.status
  /\ \/ "registered" \notin stored.status
     \/ ctx.token # stored.token
     \/ ctx.refresh # stored.refresh
  => Pending({"cloud_store_dump_handler"})
=============================================================================
