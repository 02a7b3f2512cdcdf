------------------------------ MODULE Observers ------------------------------
(***************************************************************************)
(* The server side of a request: access control (security/oc_acl.c), the   *)
(* dispatch of a request to a resource (oc_ri_invoke_coap_entity_handler   *)
(* in api/oc_ri.c), observation (messaging/coap/observe.c) and separate    *)
(* responses (messaging/coap/separate.c, api/oc_server_api.c).             *)
(*                                                                         *)
(* Requests are decrypted when they arrive and handled later, from the     *)
(* event queue: sessions may end, the device may change state and the      *)
(* access control list may be replaced in between.  A handler is one step, *)
(* for everything runs on the main thread.                                 *)
(*                                                                         *)
(* The resources are those of the application: not collections, observable *)
(* and without interface selection.  Peers are authenticated by            *)
(* certificates, and a secured endpoint stands for its peer's UUID.  The   *)
(* transport is UDP; how often a message is retransmitted is the subject   *)
(* of CoapExchange.  The two lists, of observers and of the requests of a  *)
(* separate response, are sets: where their order decides, any outcome is  *)
(* possible.  The URI of a separate response to an observer has a leading  *)
(* slash that the URI of a request does not have; the two are one here.    *)
(***************************************************************************)
EXTENDS Integers, FiniteSets, Sequences

CONSTANTS Endpoint, Secured,  \* clients, and those reached through DTLS
          Resource,           \* resources of the application
          Public,             \* those without OC_SECURE
          Discoverable,       \* those with OC_DISCOVERABLE
          Periodic,           \* those with OC_PERIODIC
          Large,              \* those larger than a block
          Slow,               \* those whose GET handler answers separately
          Role, OwnerRole,    \* roles; "oic.role.owner"
          Acls,               \* access control lists an owner may provision
          MaxToken,           \* tokens; clients choose them independently of each other
          Requests,           \* requests the clients may send
          RefreshInterval,    \* COAP_OBSERVE_REFRESH_INTERVAL (5 in the code)
          CountSize,          \* values of num_observers, a uint8_t (256 in the code)
          MaxInbox, MaxCounter, MaxDelayed \* bounds on inbox, observe_counter, delayed

ASSUME SetsAssumption == Slow \subseteq Resource /\ Secured \subseteq Endpoint
ASSUME BoundsAssumption == /\ MaxInbox \in Nat /\ MaxDelayed \in Nat
                           /\ MaxCounter \in Nat /\ MaxCounter >= 3
                           /\ RefreshInterval \in Nat \ {0} /\ CountSize \in Nat \ {0, 1}

VARIABLES
  dos,               \* pstat.s
  acl,               \* the access control entries
  tls_peers,         \* endpoints with a DTLS session
  roles,             \* roles asserted in each session
  asserted,          \* history: roles asserted since the session began
  app_resources,
  inbox,             \* requests posted as INBOUND_RI_EVENT
  observers,         \* observers_list
  num_observers,
  observe_counter,
  shown,             \* history: the highest number shown to each client
  observe_callbacks, \* resources with a periodic callback
  delayed,           \* pending calls of oc_observe_notification_delayed
  transfers,         \* clients and resources with an unfinished block transfer
  unacked,           \* confirmable notifications not yet acknowledged
  separate,          \* requests of the separate response of a slow resource
  active,            \* separate responses with active = 1
  owed,              \* history: requests accepted since the response was last sent
  hung               \* a traversal of the observers does not end

access == <<dos, acl, tls_peers, roles, asserted>>
list == <<observers, num_observers, observe_callbacks>>
numbers == <<observe_counter, shown>>
separates == <<separate, active, owed>>
vars == <<access, app_resources, inbox, list, numbers, delayed, transfers,
          unacked, separates, hung>>

Token == 1..MaxToken
Request == [method : {"GET"}, e : Endpoint, r : Resource, t : Token, observe : 0..2]
           \cup [method : {"POST"}, e : Endpoint, r : Resource, t : Token, observe : {2}]
\* coap_separate_t
Stored == [e : Endpoint, t : Token, observe : 0..2]
ASSUME RequestsAssumption == Requests \subseteq Request

Observer == [e : Endpoint, r : Resource, t : Token, counter : 3..MaxCounter,
             notified : BOOLEAN]
Pair == Endpoint \X Resource

TypeOK ==
  /\ dos \in {"RFOTM", "RFPRO", "RFNOP", "SRESET"} /\ acl \in Acls \cup {{}}
  /\ tls_peers \subseteq Secured
  /\ roles \in [Endpoint -> SUBSET Role] /\ asserted \in [Endpoint -> SUBSET Role]
  /\ \A e \in Endpoint : roles[e] \subseteq asserted[e] /\ (e \notin tls_peers => asserted[e] = {})
  /\ inbox \in Seq(Requests) /\ Len(inbox) <= MaxInbox
  /\ observers \subseteq Observer /\ num_observers \in [Resource -> 0..CountSize - 1]
  /\ observe_counter \in 3..MaxCounter /\ shown \in [Pair -> 0..MaxCounter]
  /\ observe_callbacks \subseteq Periodic \cap app_resources
  /\ delayed \in [Resource -> 0..MaxDelayed] /\ app_resources \subseteq Resource
  /\ \A r \in Resource : delayed[r] > 0 => r \in app_resources
  /\ transfers \subseteq Pair /\ unacked \subseteq Pair
  /\ separate \in [Slow -> SUBSET Stored] /\ owed \in [Slow -> SUBSET Stored]
  /\ active \subseteq Slow /\ hung \in BOOLEAN

Init ==
  /\ dos = "RFNOP" /\ acl \in Acls /\ tls_peers = {}
  /\ roles = [e \in Endpoint |-> {}] /\ asserted = roles
  /\ app_resources = Resource /\ inbox = <<>>
  /\ observers = {} /\ num_observers = [r \in Resource |-> 0]
  /\ observe_counter = 3 /\ shown = [p \in Pair |-> 0]
  /\ observe_callbacks = {} /\ delayed = [r \in Resource |-> 0]
  /\ transfers = {} /\ unacked = {}
  /\ separate = [r \in Slow |-> {}] /\ active = {} /\ owed = separate
  /\ hung = FALSE

-----------------------------------------------------------------------------
(* Access control.  An entry names a subject, resources by href or wildcard *)
(* and permissions; the wildcards are sets of bits.                         *)

WcAll == {"secured", "public", "hidden"}

\* the wildcards under which a resource that is not of the device's own configuration is found
WildcardOf(r) == IF r \notin Discoverable THEN WcAll
                 ELSE IF r \in Public THEN {"secured", "public"} ELSE {"secured"}

\* oc_sec_ace_find_resource
Covers(res, r) ==
  LET wc == WildcardOf(r)
      named == res.href = {r}
      wild == res.wildcard # {}
  IN /\ res.href \in {{}, {r}}
     /\ wild => IF wc # WcAll THEN wc \cap res.wildcard # {} ELSE res.wildcard = WcAll
     /\ named \/ wild

\* the subjects oc_sec_check_acl looks for
Subjects(e, rs) ==
  (IF e \in tls_peers THEN {[type |-> "uuid", id |-> e]}
                           \cup {[type |-> "role", id |-> x] : x \in rs} ELSE {})
  \cup {[type |-> "conn", id |-> c] : c \in IF e \in Secured THEN {"auth-crypt", "anon-clear"}
                                            ELSE {"anon-clear"}}

Permission(e, r, rs) ==
  UNION {a.permission : a \in {x \in acl : /\ x.subject \in Subjects(e, rs)
                                           /\ \E res \in x.resources : Covers(res, r)}}

Needs(method) == IF method = "GET" THEN {"RETRIEVE", "NOTIFY"} ELSE {"CREATE", "UPDATE"}

\* oc_sec_check_acl for a resource of the application, in the state RFNOP
Permitted(method, e, r, rs) ==
  (e \in tls_peers /\ OwnerRole \in rs) \/ Permission(e, r, rs) \cap Needs(method) # {}

oc_sec_check_acl(method, e, r) == dos = "RFNOP" /\ Permitted(method, e, r, roles[e])

-----------------------------------------------------------------------------
(* The list of observers.                                                   *)

\* the counts after the observers S were removed
CountWithout(S) ==
  [r \in Resource |-> (num_observers[r] - Cardinality({o \in S : o.r = r})) % CountSize]

\* coap_remove_observer marks the block-wise response of the observer to be freed
Released(S, trs) == trs \ {<<o.e, o.r>> : o \in S}

coap_remove_observers(S) ==
  /\ observers' = observers \ S /\ num_observers' = CountWithout(S)
  /\ transfers' = Released(S, transfers)

ByClient(e) == {o \in observers : o.e = e}
ByResource(r) == {o \in observers : o.r = r}
SameUri(e, r) == {o \in observers : o.e = e /\ o.r = r}
ByToken(e, t) == {o \in observers : o.e = e /\ o.t = t}

\* coap_remove_observer_by_token removes the first it finds
FirstByToken(e, t) == IF ByToken(e, t) = {} THEN {{}} ELSE {{o} : o \in ByToken(e, t)}

Registration(q, n) == [e |-> q.e, r |-> q.r, t |-> q.t, counter |-> n, notified |-> FALSE]

\* Faulty add_observer: the count of the replaced observation is kept
add_observerRecounts(q) ==
  /\ observers' = (observers \ SameUri(q.e, q.r)) \cup {Registration(q, observe_counter)}
  /\ num_observers' = [num_observers EXCEPT ![q.r] = (@ + 1) % CountSize]

\* Faulty add_observer: every observation starts at the first number
add_observerRestarts(q) ==
  /\ observers' = (observers \ SameUri(q.e, q.r)) \cup {Registration(q, 3)}
  /\ num_observers' = [CountWithout(SameUri(q.e, q.r)) EXCEPT ![q.r] = (@ + 1) % CountSize]

\* add_observer: replaces the observation of the same client and URI, if any
add_observer(q) ==
  /\ observers' = (observers \ SameUri(q.e, q.r)) \cup {Registration(q, observe_counter)}
  /\ num_observers' = [CountWithout(SameUri(q.e, q.r)) EXCEPT ![q.r] = (@ + 1) % CountSize]

-----------------------------------------------------------------------------
(* Separate responses.                                                      *)

\* coap_separate_accept recognises a request by its token and observe option only
SameRequest(x, y) == x.t = y.t /\ x.observe = y.observe

\* and the later one takes the place of the earlier, whichever client sent it
Latest(qs) == {K \in SUBSET qs : /\ \A q \in qs : \E k \in K : SameRequest(k, q)
                                 /\ \A k, l \in K : SameRequest(k, l) => k = l}

Accepted(requests, K) == {x \in requests : \A k \in K : ~SameRequest(x, k)} \cup K

\* Faulty coap_separate_accept: the list is made new for every request
coap_separate_acceptAnew(r, qs) ==
  /\ \E K \in Latest(qs) : separate' = [separate EXCEPT ![r] = K]
  /\ active' = active \cup {r}
  /\ owed' = [owed EXCEPT ![r] = @ \cup qs]

\* coap_separate_accept, for each of the requests qs
coap_separate_accept(r, qs) ==
  /\ \E K \in Latest(qs) :
       separate' = [separate EXCEPT ![r] = Accepted(IF r \in active THEN @ ELSE {}, K)]
  /\ active' = active \cup {r}
  /\ owed' = [owed EXCEPT ![r] = @ \cup qs]

-----------------------------------------------------------------------------
(* coap_notify_observers.                                                   *)

Notifiable(r) == dos = "RFNOP" /\ num_observers[r] > 0

\* a notification is confirmable at every RefreshInterval-th number, and
\* always when it is the first block of a transfer
Confirmable(o) == o.r \in Large \/ o.counter % RefreshInterval = 0

Unfinished(r) == \E o \in ByResource(r) : <<o.e, r>> \in transfers

\* the slow resource is asked once and answers its observers later
NotifyLater(r) ==
  /\ coap_separate_accept(r, {[e |-> o.e, t |-> o.t, observe |-> 0] : o \in ByResource(r)})
  /\ UNCHANGED <<observers, numbers, transfers, unacked, hung>>

\* the traversal meets an unfinished transfer to an observer and stays there
NotifyHangs(r) ==
  /\ hung' = TRUE
  /\ UNCHANGED <<observers, numbers, transfers, unacked, separates>>

\* the handler answers the GET with an error: the observe option is 1 and no
\* number is used up
NotifyError(r) ==
  LET to == ByResource(r)
      clients == {<<o.e, r>> : o \in to}
  IN /\ shown' = [p \in Pair |-> IF p \in clients /\ shown[p] < 1 THEN 1 ELSE shown[p]]
     /\ observers' = (observers \ to) \cup {[o EXCEPT !.notified = TRUE] : o \in to}
     /\ unacked' = unacked \cup {<<o.e, r>> : o \in {x \in to : x.counter % RefreshInterval = 0}}
     /\ UNCHANGED <<observe_counter, transfers, separates, hung>>

Told(o) == [o EXCEPT !.counter = @ + 1, !.notified = TRUE]

NotifyNow(r) ==
  LET to == ByResource(r)
      clients == {<<o.e, r>> : o \in to}
  IN /\ observe_counter + Cardinality(to) <= MaxCounter
     /\ observe_counter' = observe_counter + Cardinality(to)
     /\ shown' = [p \in Pair |-> IF p \in clients
                                 THEN (CHOOSE o \in to : <<o.e, r>> = p).counter
                                 ELSE shown[p]]
     /\ observers' = (observers \ to) \cup {Told(o) : o \in to}
     /\ transfers' = transfers \cup {p \in clients : r \in Large}
     /\ unacked' = unacked \cup {<<o.e, r>> : o \in {x \in to : Confirmable(x)}}
     /\ UNCHANGED <<separates, hung>>

coap_notify_observers(r) ==
  \/ /\ ~Notifiable(r)
     /\ UNCHANGED <<observers, numbers, transfers, unacked, separates, hung>>
  \/ /\ Notifiable(r) /\ r \in Slow
     /\ NotifyLater(r)
  \/ /\ Notifiable(r) /\ r \notin Slow
     /\ NotifyError(r)
  \/ /\ Notifiable(r) /\ r \in Large \ Slow /\ Unfinished(r)
     /\ NotifyHangs(r)
  \/ /\ Notifiable(r) /\ r \notin Slow /\ ~(r \in Large /\ Unfinished(r))
     /\ NotifyNow(r)

-----------------------------------------------------------------------------
(* Requests.                                                                *)

\* A client sends a request; one of a secured client is decrypted with its session.
ClientSends(q) ==
  /\ Len(inbox) < MaxInbox /\ (q.e \in Secured => q.e \in tls_peers)
  /\ inbox' = Append(inbox, q)
  /\ UNCHANGED <<access, app_resources, list, numbers, delayed, transfers, unacked, separates, hung>>

Granted(q) == q.r \in app_resources /\ oc_sec_check_acl(q.method, q.e, q.r)

\* the response buffer of the request: a new one, kept while blocks remain; the
\* first answer of a slow resource is empty
Answering(q) ==
  IF q.method = "GET" /\ q.r \in Large \ Slow
  THEN transfers \cup {<<q.e, q.r>>} ELSE transfers \ {<<q.e, q.r>>}

\* the observe option of a granted GET; the answer to a registration, now or
\* separate, carries the number 0, which is no higher than any shown before
Observe(q) ==
  \/ /\ q.observe = 0
     /\ add_observer(q)
     /\ observe_callbacks' = observe_callbacks \cup ({q.r} \cap Periodic)
     /\ transfers' = Answering(q)
  \/ /\ q.observe = 1
     /\ \E S \in FirstByToken(q.e, q.t) :
          /\ observers' = observers \ S /\ num_observers' = CountWithout(S)
          /\ transfers' = Released(S, Answering(q))
          /\ observe_callbacks' = IF S = {} THEN observe_callbacks ELSE observe_callbacks \ {q.r}
  \/ /\ q.observe = 2
     /\ transfers' = Answering(q) /\ UNCHANGED list

\* oc_ri_invoke_coap_entity_handler of a request that is refused, or that the
\* handler of the resource answers with an error
ReceiveRefused ==
  LET q == Head(inbox)
  IN /\ inbox # <<>>
     /\ inbox' = Tail(inbox) /\ transfers' = transfers \ {<<q.e, q.r>>}
     /\ UNCHANGED <<access, app_resources, list, numbers, delayed, unacked, separates, hung>>

ReceiveGet ==
  LET q == Head(inbox)
  IN /\ inbox # <<>> /\ q.method = "GET" /\ Granted(q)
     /\ inbox' = Tail(inbox) /\ Observe(q)
     /\ IF q.r \in Slow
        THEN coap_separate_accept(q.r, {[e |-> q.e, t |-> q.t, observe |-> q.observe]})
        ELSE UNCHANGED separates
     /\ UNCHANGED <<access, app_resources, numbers, delayed, unacked, hung>>

\* a successful POST schedules the notification of the observers
ReceivePost ==
  LET q == Head(inbox)
  IN /\ inbox # <<>> /\ q.method = "POST" /\ Granted(q)
     /\ delayed[q.r] < MaxDelayed
     /\ inbox' = Tail(inbox) /\ delayed' = [delayed EXCEPT ![q.r] = @ + 1]
     /\ transfers' = Answering(q)
     /\ UNCHANGED <<access, app_resources, list, numbers, unacked, separates, hung>>

-----------------------------------------------------------------------------
(* Timed callbacks and the application.                                     *)

\* oc_observe_notification_delayed
DelayedNotification(r) ==
  /\ delayed[r] > 0 /\ delayed' = [delayed EXCEPT ![r] = @ - 1]
  /\ coap_notify_observers(r)
  /\ UNCHANGED <<access, app_resources, inbox, num_observers, observe_callbacks>>

\* periodic_observe_handler: the callback ends when nobody was to be notified
PeriodicNotification(r) ==
  /\ r \in observe_callbacks
  /\ coap_notify_observers(r)
  /\ observe_callbacks' = IF Notifiable(r) THEN observe_callbacks ELSE observe_callbacks \ {r}
  /\ UNCHANGED <<access, app_resources, inbox, num_observers, delayed>>

\* oc_send_separate_response: every stored request is cleared.  A large response
\* leaves a transfer to the client behind, or is dropped when it finds one.
oc_send_separate_response(r) ==
  /\ r \in active
  /\ separate' = [separate EXCEPT ![r] = {}] /\ active' = active \ {r}
  /\ owed' = [owed EXCEPT ![r] = {}]
  /\ transfers' = transfers \cup {<<x.e, r>> : x \in {y \in separate[r] : r \in Large}}
  /\ UNCHANGED <<access, app_resources, inbox, list, numbers, delayed, unacked, hung>>

\* oc_delete_resource of a resource that no callback is going to use
oc_delete_resource(r) ==
  /\ r \in app_resources \ observe_callbacks /\ delayed[r] = 0
  /\ IF num_observers[r] > 0 THEN coap_remove_observers(ByResource(r))
     ELSE UNCHANGED <<observers, num_observers, transfers>>
  /\ app_resources' = app_resources \ {r}
  /\ UNCHANGED <<access, inbox, numbers, observe_callbacks, delayed, unacked, separates, hung>>

-----------------------------------------------------------------------------
(* Replies to notifications.                                                *)

Acknowledged(p) ==
  /\ p \in unacked /\ unacked' = unacked \ {p}
  /\ UNCHANGED <<access, app_resources, inbox, list, numbers, delayed, transfers, separates, hung>>

\* coap_remove_observer_by_mid: a client answers its last notification with RST
Rejected(o) ==
  /\ o.notified
  /\ coap_remove_observers({o})
  /\ unacked' = unacked \ {<<o.e, o.r>>}
  /\ UNCHANGED <<access, app_resources, inbox, numbers, observe_callbacks, delayed, separates, hung>>

\* the client has fetched the remaining blocks, or the buffer's lifetime ends
TransferEnds(p) ==
  /\ p \in transfers /\ transfers' = transfers \ {p}
  /\ UNCHANGED <<access, app_resources, inbox, list, numbers, delayed, unacked, separates, hung>>

-----------------------------------------------------------------------------
(* Sessions.                                                                *)

Handshake(e) ==
  /\ e \in Secured \ tls_peers /\ tls_peers' = tls_peers \cup {e}
  /\ UNCHANGED <<dos, acl, roles, asserted, app_resources, inbox, list, numbers, delayed,
                 transfers, unacked, separates, hung>>

\* POST and DELETE of /oic/sec/roles
AssertRole(e, x) ==
  /\ e \in tls_peers /\ dos # "RFOTM" /\ x \notin roles[e]
  /\ roles' = [roles EXCEPT ![e] = @ \cup {x}]
  /\ asserted' = [asserted EXCEPT ![e] = @ \cup {x}]
  /\ UNCHANGED <<dos, acl, tls_peers, app_resources, inbox, list, numbers, delayed,
                 transfers, unacked, separates, hung>>

DropRoles(e) ==
  /\ e \in tls_peers /\ dos # "RFOTM" /\ roles[e] # {}
  /\ roles' = [roles EXCEPT ![e] = {}]
  /\ UNCHANGED <<dos, acl, tls_peers, asserted, app_resources, inbox, list, numbers, delayed,
                 transfers, unacked, separates, hung>>

\* Faulty FreePeers: the roles of the session are forgotten about
FreePeersKeepRoles(E) ==
  /\ tls_peers' = tls_peers \ E /\ roles' = roles
  /\ asserted' = [e \in Endpoint |-> IF e \in E THEN {} ELSE asserted[e]]

\* oc_tls_free_peer for the peers in E
FreePeers(E) ==
  /\ tls_peers' = tls_peers \ E
  /\ roles' = [e \in Endpoint |-> IF e \in E THEN {} ELSE roles[e]]
  /\ asserted' = [e \in Endpoint |-> IF e \in E THEN {} ELSE asserted[e]]

NotOf(E) == {p \in unacked : p[1] \notin E}

SessionEnds(e) ==
  /\ e \in tls_peers /\ FreePeers({e})
  /\ coap_remove_observers(ByClient(e)) /\ unacked' = NotOf({e})
  /\ UNCHANGED <<dos, acl, app_resources, inbox, numbers, observe_callbacks, delayed, separates, hung>>

\* coap_send_transaction after the last retransmission of a notification
NotificationTimesOut(p) ==
  /\ p \in unacked
  /\ coap_remove_observers(ByClient(p[1]))
  /\ FreePeers({p[1]} \cap tls_peers)
  /\ unacked' = IF p[1] \in tls_peers THEN NotOf({p[1]}) ELSE unacked \ {p}
  /\ UNCHANGED <<dos, acl, app_resources, inbox, numbers, observe_callbacks, delayed, separates, hung>>

-----------------------------------------------------------------------------
(* Provisioning.  The conditions on owners and credentials are the subject  *)
(* of SecureDevice.                                                         *)

\* POST and DELETE of /oic/sec/acl2 are refused in RFNOP
ProvisionAcl(a) ==
  /\ dos \in {"RFPRO", "SRESET"} /\ acl' = a
  /\ UNCHANGED <<dos, tls_peers, roles, asserted, app_resources, inbox, list, numbers, delayed,
                 transfers, unacked, separates, hung>>

\* oc_pstat_handle_state for RFPRO and SRESET
ToProvisioning(s) ==
  /\ s \in {"RFPRO", "SRESET"} /\ dos # s /\ (dos = "RFOTM" => s = "RFPRO")
  /\ dos' = s
  /\ UNCHANGED <<acl, tls_peers, roles, asserted, app_resources, inbox, list, numbers, delayed,
                 transfers, unacked, separates, hung>>

\* Faulty Unauthorised: only unsecured clients are examined
UnauthorisedClear ==
  {o \in observers : o.e \notin Secured /\ ~Permitted("GET", o.e, o.r, roles[o.e])}

\* and for RFNOP: coap_remove_observers_on_dos_change(device, false)
Unauthorised == {o \in observers : ~Permitted("GET", o.e, o.r, roles[o.e])}

ToOperational ==
  /\ dos \in {"RFOTM", "RFPRO", "RFNOP"} /\ dos' = "RFNOP"
  /\ coap_remove_observers(Unauthorised)
  /\ UNCHANGED <<acl, tls_peers, roles, asserted, app_resources, inbox, numbers,
                 observe_callbacks, delayed, unacked, separates, hung>>

\* and for RESET; a request closes every session after its response, the
\* application's oc_reset does not
ResetDevice(request) ==
  /\ dos' = "RFOTM" /\ acl' = {}
  /\ coap_remove_observers(observers)
  /\ IF request
     THEN FreePeers(Endpoint) /\ unacked' = NotOf(tls_peers)
     ELSE /\ roles' = [e \in Endpoint |-> {}] /\ asserted' = roles'
          /\ UNCHANGED <<tls_peers, unacked>>
  /\ UNCHANGED <<app_resources, inbox, numbers, observe_callbacks, delayed, separates, hung>>

-----------------------------------------------------------------------------
\* the main thread runs round the loop of coap_notify_observers
Spinning == hung /\ UNCHANGED vars

\* Observers of a deleted resource refer to freed memory: the next removal or
\* examination of one may do anything, and the model ends here.
Dangling == \E o \in observers : o.r \notin app_resources

Undefined == Dangling /\ UNCHANGED vars

Step ==
    \/ \E q \in Requests : ClientSends(q)
    \/ ReceiveRefused \/ ReceiveGet \/ ReceivePost
    \/ \E r \in Resource : \/ DelayedNotification(r) \/ PeriodicNotification(r)
                           \/ oc_delete_resource(r)
    \/ \E r \in Slow : oc_send_separate_response(r)
    \/ \E p \in Pair : \/ Acknowledged(p) \/ TransferEnds(p) \/ NotificationTimesOut(p)
    \/ \E o \in observers : Rejected(o)
    \/ \E e \in Secured : \/ Handshake(e) \/ DropRoles(e) \/ SessionEnds(e)
                          \/ \E x \in Role : AssertRole(e, x)
    \/ \E a \in Acls \cup {{}} : ProvisionAcl(a)
    \/ \E s \in {"RFPRO", "SRESET"} : ToProvisioning(s)
    \/ ToOperational
    \/ \E request \in BOOLEAN : ResetDevice(request)

Next == (~hung /\ ~Dangling /\ Step) \/ Spinning \/ Undefined

Spec == Init /\ [][Next]_vars

-----------------------------------------------------------------------------
(* Properties.                                                              *)

(* The count of observers that decides whether a resource notifies anybody *)
(* (resource->num_observers, a uint8_t) is the number of its observers in  *)
(* the list modulo CountSize, whatever mixture of registrations,           *)
(* cancellations, RST, timeouts, lost sessions, resets and deletions       *)
(* changed them; and a deleted resource leaves observers behind only when  *)
(* their number was a multiple of CountSize.  Such a number, 256 in the    *)
(* code, is taken for no observers at all: then nobody is notified, and    *)
(* the observers outlive their resource.                                   *)
CountsMatch ==
  /\ \A r \in Resource : num_observers[r] = Cardinality(ByResource(r)) % CountSize
  /\ \A o \in observers : o.r \in app_resources \/ num_observers[o.r] = 0

(* While the device is operational, every client that is notified of a     *)
(* resource may retrieve it: by the access control list in force, although *)
(* that list was replaced and sessions ended after it registered, and by   *)
(* roles it asserted in the session it has.  A role it asserted and        *)
(* dropped since then counts: observers are not examined again then.       *)
ObserversAuthorised ==
  dos = "RFNOP" =>
    \A o \in observers : Permitted("GET", o.e, o.r, asserted[o.e])

(* A client that observes a resource, registers again, loses its session   *)
(* or is removed and comes back, is notified of a new representation under *)
(* a number above every number it was shown before for that resource: so   *)
(* what it holds as the newest is not overtaken by what it is shown later. *)
(* This is about the numbers of notifications.  The answer to every        *)
(* registration carries 0, as does every notification of a slow resource,  *)
(* and an error carries 1: those numbers repeat.                           *)
NumbersFresh ==
  /\ \A o \in observers : shown[<<o.e, o.r>>] < o.counter
  /\ \A p \in Pair : shown[p] < observe_counter

(* Every request that a slow resource accepted is in the list of its       *)
(* separate response until that is sent, however many requests and         *)
(* notifications come in between: under its client, or under another       *)
(* client that asked with the same token and observe option and has taken  *)
(* its place.  The second case is a response lost: tokens of different     *)
(* clients are not told apart.                                             *)
SeparateOwed ==
  \A r \in Slow : \A q \in owed[r] :
    \E x \in separate[r] : SameRequest(x, q) /\ x \in owed[r]

(* "The resource will periodically notify observing clients" (oc_api.h):   *)
(* while the device is operational, an observed periodic resource has its  *)
(* periodic callback.                                                      *)
ObservedPolled ==
  dos = "RFNOP" => \A o \in observers : o.r \in Periodic => o.r \in observe_callbacks

=============================================================================
