# A TLA+ model of the smart garage device service

The repository is a garage-door device built on IoTivity-Lite, an OCF stack in C:
an event loop, CoAP messaging, a resource layer, the OCF security resources and
DTLS, an onboarding tool, a cloud client and ports to several platforms.  This
directory holds TLA+ modules of its core logic, TLC configurations that check
them on small instances, and proofs that TLAPS checks for every instance.
Paths below are relative to `src/`.

## 1. The system

| Component | State | Operations | Interacts with |
|---|---|---|---|
| event kernel, `util/oc_process.c` | ring of events, list of processes, `needspoll`, `poll_requested` | `oc_process_post`, `oc_process_poll`, `oc_process_run` | every process; network threads poll it without a lock |
| event timers, `util/oc_etimer.c`, `oc_timer.c` | `timerlist`, `next_expiration` | set, restart, stop, the poll of `oc_etimer_process` | event kernel, timed callbacks, CoAP transactions |
| main loop, `api/oc_main.c`, `apps/device_builder_server.c` | condition variable, mutex, `quit` | `oc_main_poll`, sleep, `signal_event_loop`, `handle_signal` | network threads, signals |
| network hand-over, `api/oc_network_events.c`, `api/oc_buffer.c`, `port/linux/ipadapter.c` | list of received messages | `oc_network_event`, `oc_process_network_event`, `message_buffer_handler` | network threads to main thread |
| CoAP engine, `messaging/coap/` | transactions, observers, separate responses, duplicate history | receive, send, retransmit, notify | timers, client callbacks, DTLS |
| resource layer and client API, `api/oc_ri.c`, `oc_client_api.c`, `oc_server_api.c` | resources, client callbacks, timed callbacks | dispatch, callbacks with timeouts | CoAP engine, application |
| block-wise transfer, `api/oc_blockwise.c` | request and response buffers | alloc, append, dispatch, free | CoAP engine |
| security resources, `security/oc_pstat.c`, `oc_doxm.c`, `oc_cred.c`, `oc_acl.c` | state, owners, credentials, entries | POST, DELETE, reset, load | storage, DTLS, every request (access control) |
| storage, `security/oc_store.c`, `port/linux/storage.c` | one file per resource | dump, load | security resources |
| DTLS, `security/oc_tls.c` | peers with their send and receive queues | handshake, send, close | CoAP engine, client callbacks |
| onboarding tool, `security/oc_obt*.c`, `onboarding_tool/` | one context per running procedure | ownership transfer, provisioning | client API |
| cloud client, `api/cloud/` | registration status, tokens, retry counters | register, log in, refresh, ping, publish | client API, TCP sessions |
| software update, `api/oc_swupdate.c`; easy setup, `api/easysetup/` | their resources | POST, platform callbacks | pstat; platform |
| garage application, `apps/device_builder_server.c`, `api/gpio/` | `/doorstate`, `/openlevel` | GET, POST | GPIO |

What is hard to get right here, and which properties would catch it:

* *Threads.* Everything runs on the main thread except the adapters' threads,
  which set two flags and signal a condition variable.  No message may be
  forgotten (`MessagePolled`), and every one must be taken (`MessageTaken`).
* *Time.* The loop sleeps until a time it computed earlier from clock values that
  wrap.  It must not sleep past a timer (`NeverOversleeps`), and every timer must
  be served (`TimersServed`).
* *A ring that grows while it wraps* (`ImplementsFifo`).
* *Persistence.* Security decisions are made on memory; files follow one by one.
  An operational device must be an owned one (`OperationalOwned`), its files must
  hold it (`Durable`), no accepted request may take away the credentials its owners need
  (`AcceptedKeepsReachable`), and no failure may hand it to somebody else
  (`OwnedNamesOwner`, `OwnerKeptUntilReset`).
* *Retransmission, callbacks and teardown.* A response, a timeout and the end of a
  session race for the same handler, which must run at most once (`ToldOnce`) and
  leave no timer behind (`LifetimeMatches`).  Handlers run inside traversals, make
  requests and close sessions; a teardown must still reach everything that was there
  before it (`TeardownComplete`).  Every request must end (`RequestsEnd`,
  `TransactionsEnd`).
* *Procedures made of handlers.* The onboarding tool runs chains of up to fifteen
  requests, each made by the handler of the one before; closing a session runs the
  handlers of other chains.  The tool must be able to talk to the devices it calls its
  own (`OwnedHaveCreds`), a transfer must fit the device's own rules (`TransferFits`),
  success must be true (`TransferTrue`) and every procedure must end
  (`EndsUnlessUnheard`: all do but those whose request was acknowledged and never
  answered).  That no record is used after it was freed is left to the application.
* *Retries that cancel each other.* The cloud client is driven by delayed callbacks
  that answers, lost sessions, interface events, the application and resets set and
  remove.  A logged-in device is registered (`LoggedInRegistered`), and its registration
  and its latest tokens reach the disk (`Persisted`).
* *Decisions that outlive their reasons.* An observer is authorised once and notified
  for as long as it stays (`ObserversAuthorised`); seven operations remove observers
  and must agree on their number, kept in eight bits (`CountsMatch`); the numbers of
  notifications grow (`NumbersFresh`); slow requests and notifications share a list (`SeparateOwed`);
  a periodic resource goes on notifying (`ObservedPolled`).
* *Reassembly.* Block-wise transfers share buffers and nothing recognises repeated
  confirmable requests: blocks at their offsets (`InPlace`), whole payloads
  (`UploadWhole`, `DownloadWhole`), one call of the handler (`HandledOnce`), and an
  answer that means what it says (`AnswerTrue`).

`PROJECT.json` lists the components, these hazards at their lines, and the line
ranges behind every definition.

## 2. Modules

**EventFifo, EventQueue, EventQueueProofs.** `EventQueue` is the ring of
`oc_process.c`: `num` is `OC_PROCESS_NUMEVENTS`, `events`, `nevents` and `fevent`
have the code's names.  `Post` and `PostGrow` are the outcomes of `oc_process_post`
that change anything (a static build, `Dynamic` FALSE, refuses a post to a full ring),
`TakeEvent` is the head of `do_event`.  The copy loop of the growth
is written as the array it produces (`Grown`).  `EventFifo` is the promise: a queue
that appends and delivers in order; `Pending` is the refinement mapping.

**EventLoop, MCEventLoop, EventLoopProofs.** The main thread moves through the
program points of `oc_main_poll`, `do_poll`, `do_event` and the loop of `main`
(variable `pc`), the network threads through those of `oc_network_event`
(`tpc`); each access to a shared flag is a step of its own.  A list operation
under its mutex is one step.  Times are relative to `Wrap`, the number of values
of `oc_clock_time_t`, and `UpdateTime` subtracts modulo `Wrap` as `update_time`
does.  Of the processes the model has the two that are polled,
`oc_network_events` and `oc_etimer_process`; the handler of a CoAP message and the
callbacks of the application appear as what they do to timers: register or remove
a timed callback (at most one each time), continue or finish.  The queue is
unbounded, as in the dynamic build (the ring itself is the subject of
`EventQueue`).

**SecureDevice, MCSecureDevice, SecureDeviceProofs.** The four resources in memory
(`pstat`, `doxm`, `cred`, `acl`), their files (`store`), and the files the running
handler has still to write (`dirty`, in the code's order; `open` while one is
truncated).  `unsaved` says that a refused POST changed the credentials in memory and
nothing has written or read their file since.  One action per POST or DELETE handler,
`Reset` for `oc_pstat_handle_state` with RESET, `Boot` for the loads of `oc_main_init`.
`/oic/sec/roles` is served by the handlers of `/oic/sec/cred` without their test of the
state: `PostRoles` replaces the owner of cred in any state and writes the file,
`DeleteRoles` only writes it.  A refused request that changes nothing is no step; those
that do change something are `PostCredRejected` and `PostRolesRejected`.  The constant `Env` names what the environment may
do besides well-formed requests: restarts, power failures between two files,
power failures inside one, refused credential requests.  A request is any that
access control admits.  The factory-presets callback of the garage application, which a
reset runs, installs manufacturer certificates whose subject is the device itself or
`*`; a credential of the model is one of a peer, so they do not appear.

**CoapExchange, MCCoapExchange, CoapExchangeProofs.** Client requests over UDP:
`client_cbs` (`busy` are those with `ref_count` 1, `lifetime` those whose delayed
`oc_ri_remove_client_cb` is armed), `transactions` in list order with `armed` timers
and `retrans_counter`, and the endpoints with a DTLS peer.  All of it runs on one
thread; what makes it hard is that handlers are called from inside the traversals of
the lists.  So `stack` is the part of the call stack that matters, one frame per call
that can be interrupted by a handler, with its local variables (`r` the current
element, `next` the saved one, `len` the saved length): `check` and `checked` are
`coap_check_transactions` before and after `coap_send_transaction`, `send` and
`timedout` the latter, `freeTx`, `freeTxNext`, `byEndpoint` and `freed` the parts of
`oc_tls_free_peer`, `byMid` `oc_ri_free_client_cbs_by_mid`, `response` and
`unavailable` a running handler.  An event starts only on the empty stack.
`before` holds, for each endpoint, the requests that had been made to it when its session
last began to be torn down.  Following a pointer to a transaction that is no longer in
the list sets `stale`; nothing is known of the program from there on, and the model stops
(`Undefined`).  A handler of a response may make requests and close sessions; what one
that is told 5.03 may do is the constant `Does503`, and the handlers of the onboarding
tool do both (`oc_obt.c:350, 730, 789, 861, 1350, 2170`).  Requests
stand for their message IDs and tokens, each used once; any reply to a request that
was made may come at any time or never.  Memory does not run out.  Left out:
multicast, discovery, observation, transactions of responses, TCP; block-wise requests
are the subject of `Blockwise`.

**Onboarding, MCOnboarding, OnboardingProofs.** The procedures of `oc_obt.c` and of the three ownership
transfer methods.  A procedure is a script of steps, one per request; a context (`ctx`)
is at a position of its script, holds one or two device records (`list`, `uuid`) and
has one request outstanding.  `Reply`, `Refuse`, `GiveUp` and `Silence` are what can become
of a request.  In `Silence` the device acknowledged it, which ends the retransmission, and
the response never comes: `oc_ri_remove_client_cb` frees the callback without calling the
handler, and the procedure stays where it is for good (`unheard`).  `PeerGone` ends a session from outside, and discovery (`CheckOwned`,
`OwnedAnswers`, `GetEndpoints`) makes the records; every answer to a discovery sends a
query of its own (`asking` counts them, up to `MaxAsked`).  `oc_tls_close_connection` answers
5.03 to every request that waits on the session, so `stack` holds the calls in
progress, as in `CoapExchange`.  `Accepts` and `Apply` are the device: the rules
of `SecureDevice`, reduced to what the steps set.  Certificate based transfer has the
steps of just works and shares its script; procedures of the same shape (installing a
certificate, a role, an access control entry; deleting one) differ only in the last
request.  `Guarded` says whether the application keeps procedures on one record, and
discovery and the procedures that free records, apart (`Apart`).  This is an assumption
about code outside the tool: `oc_obt.c` does not check it and the menu of `obtmain.c`
leaves it to its user.  Without it a procedure goes on with a record that another freed,
and nothing can be said.  Identities are a finite set, and a procedure
starts only while more are left than procedures are in progress (`IdentitiesLeft`).  Devices come with identities of their own
(`IdentityAssumption`).  Left out: contents of credentials, the tool's own file,
shutdown.

**CloudManager, MCCloudManager, CloudManagerProofs.** The cloud context is one record; each C function is
an operator from a context to a context, so that calls nest as in the code, and each
event is an action: an answer, a request given up, a due callback, a session or an
interface event, a call of the application, a POST to the configuration resource, a
reset, a power cycle.  `timers` is the `timed_callbacks` list in order.  A callback
that removes itself while it runs (`reconnect` called by `refresh_token`) is freed a
second time by the traversal, or its successor is: both outcomes are there.  The tokens
the cloud hands out are numbered (`Numbered`), so that a refreshed token differs from the
one on disk.  Left out: publishing to
the resource directory and the length of delays.

**Observers, MCObservers, ObserversProofs.** The server side: `ClientSends` decrypts and queues a
request, `ReceiveRefused`, `ReceiveGet` and `ReceivePost` are
`oc_ri_invoke_coap_entity_handler` with access control (`oc_sec_check_acl`, entries
for clients, roles, connection types and wildcards) and with the registration of
observers.  Delayed and periodic notifications, resets, timeouts, ended transfers,
deleted resources, sessions, roles, access control lists and state changes are the
other actions.  `hung` is the endless loop at `observe.c:775`.  Tokens are bytes that the
clients choose independently, so two clients may choose the same; observers are found by
token and endpoint, separate requests by token and observe option alone.  `num_observers`
is a `uint8_t`: `CountSize`, 256 in the code, is the number of its values.  When a resource
is deleted with a multiple of that many observers they are kept and point to freed memory,
where the model stops (`Dangling`, `Undefined`).  Answers to registrations and
notifications of slow resources show the number 0, errors (`NotifyError`) 1.  A separate
response larger than a block is dropped while an earlier transfer to its client is
unfinished.  Only resources of the
application: no collections, no interface selection, certificates as credentials, UDP.
A resource is deleted only while no callback refers to it.  The order of the list of
observers decides only which of two with one token is removed first (`FirstByToken` takes
either), that of the requests of a separate response nothing, so both are sets.

**Blockwise, MCBlockwise, BlockwiseProofs.** Uploads (POST) and downloads (GET) in blocks between one
client and one server over unsecured UDP: buffers on both sides, transactions,
retransmission, and two channels that lose and reorder.  A block is its source and its
number.  `faults` records what the code does not guard against: a datagram
overtaking another, a request after its transfer, a transfer abandoned by a timeout,
two transfers at once, a buffer that expires.  `served` holds, for each download, the
versions of the resource that the GET handler returned to it: more than one when a
repeated GET found the resource changed, since block requests do not compare ETags.
`Together` names the sets of transfers that one behaviour may make.

Message IDs of the two sides are taken to be disjoint (`MidsAssumption`).  In the code
each side counts up from a random start of its own (`coap.c:933-939`), so they are
likely, not certain, to differ while they are in use; this is the usual abstraction of
identifiers as unique, and `AnswerTrue` and `UploadAnswersTrue` rest on it.  Payloads
fit the buffers of both sides: the bound `OC_MAX_APP_DATA_SIZE` of
`oc_blockwise_handle_block` is left out.

Left out: observation, raw payloads, multicast, 4.13 over TCP, DTLS,
handlers that fail, exhausted pools.  An upload of one block is handled again when its
request is repeated, so `HandledOnce` is about longer ones.

## 3. Runs

| Run | Expectation | What it shows |
|---|---|---|
| `queue_dyn` | pass | a ring of 2 slots, grown to 4 and 8 from every head position, implements the FIFO |
| `device_restart` | pass | with restarts between handlers and refused POSTs: types, `OperationalOwned`, `Durable` |
| `device_power` | pass | all failures: `OwnedNamesOwner`, `OwnerKeptUntilReset`, `AcceptedKeepsReachable` |
| `device_reset_crash` | violation | power fails inside a reset: the device comes back operational and unowned |
| `loop_serves` | pass | two network threads and two timed callbacks: types, `MessagePolled`, `NeverOversleeps`, `TimersServed` |
| `loop_wakeup` | violation | the signal between `oc_main_poll` and the wait is lost |
| `coap_exchange` | pass | handlers, also those told 5.03, make requests and close sessions: types, `TeardownComplete`, `ToldOnce`, `LifetimeMatches`, `RequestsEnd`, `TransactionsEnd` |
| `obt` | pass | two procedures on two devices, for an application that keeps them apart: types, `OwnedHaveCreds`, `TransferFits`, `TransferTrue`, `EndsUnlessUnheard` |
| `cloud` | pass | types, `LoggedInRegistered`, `Persisted` |
| `observe` | pass | types, `CountsMatch`, `ObserversAuthorised`, `NumbersFresh`, `SeparateOwed` |
| `observe_periodic` | violation | the periodic callback ticks outside RFNOP and ends; the observer that is kept is no longer notified periodically |
| `blockwise` | pass | types, `InPlace`, `UploadWhole`, `HandledOnce`, `AnswerTrue`, `DownloadWhole` |

Every property of a passing run has a mutant, a plausible mistake in a mapped
definition (a dropped guard, a forgotten dump, a flag cleared too late) under which
TLC finds the property violated.  The mutated forms stand before the definitions
they replace, with a comment that starts with "Faulty".

*Bounds.* `EventQueue`: `MaxNum` 8 allows two doublings, the second of a ring whose
head is anywhere; two events suffice to see a wrong order.  `SecureDevice`: two
identities are enough for one owner to be replaced by another or for the resource
owners to differ; the state space is finite without further bounds, and
identities are interchangeable (symmetry; no liveness is checked with it).
`EventLoop`: `MaxTime` and `MaxMessages` bound the clock and the messages.
Intervals of 1 and 2 ticks with 4 ticks let a callback be restarted and expire
while another is armed; with two messages each of two threads hands over, or one does
so twice, while the main thread is at any point.  `Wrap` is larger than twice the
clock's bound: the 64-bit clock of the Linux port does not wrap, but the distance to
a timer that is due does.

`CoapExchange`: three requests, two of them to one server, so that a teardown or a
timeout removes another transaction than the current one, before or after it in the
list, and a third is left to be followed; `Does503` allows everything.  One of the two
servers is secured; a teardown inside that of another session needs two, and was checked
once with four requests and two secured servers (2.2 million states).  `MaxRetransmit` is
1 instead of 4: the traversals see only whether the limit is reached.  `CounterSize` is
just above it, so that the counter of a transaction that is never cleared wraps.

`Onboarding`: two contexts, devices and records let a procedure run inside a call of
another on the same or another device; four identities give each device an old and a new
one; `MaxStarts` 2 bounds the procedures, `MaxAsked` 2 the queries outstanding for one
record.  `Kinds` has one procedure of each shape (416 000 states).  `CloudManager`:
`MaxRetry` 2 tells the first, a middle and the last attempt apart, `CounterSize` 4 makes
`refresh_token`'s counter wrap; one request outstanding, three callbacks, two answers with
a token, so that a refresh replaces one that was stored, and one event from outside (2.7
million states).  `Observers`: a secured and an unsecured client, each with the same two
tokens; a large periodic resource and one that is large and slow; `CountSize` 2, so that
two observers wrap the count; `RefreshInterval` 2 instead of 5 makes every second
notification confirmable; one request waits in the inbox while everything else may change,
and a second pending notification of a resource does what another POST does (1.4 million
states).  Checked once with three clients and `CountSize` 3.  `Blockwise`: uploads of two
blocks and of one, versions of three and of two blocks, two transfers in a behaviour, one
retransmission and at most one kind of fault (2.4 million states; the identical uploads
are symmetric).  The versions have lengths for which a fault-free download can end without
content, and mix two versions.

*Deadlock* is checked except where Ctrl-C is possible (`main` then ends), where the
events of the environment are bounded and the device rests (`cloud`), where an unheard
procedure may leave an application that keeps procedures apart nothing to do (`obt`), and
where each transfer is made once (`blockwise`).

*Fairness.* `EventLoop`: the operating system runs every thread that can run
(weak fairness of the main thread's steps and of each thread's hand-over), and time
passes.  Nothing is assumed of the network, of spurious wake-ups or of Ctrl-C.
`CoapExchange`: calls return (weak fairness of the steps on the stack), and each armed
timer is served although other events keep arriving (strong fairness, since every
event empties and fills the stack); this is what `TimersServed` of `EventLoop` says.
Nothing is assumed of servers, sessions and replies.  `Onboarding`: calls return, and a
request does not wait for ever: `coap_check_transactions` gives it up and tells its
handler, or, when it was acknowledged, `oc_ri_remove_client_cb` ends it without (strong
fairness of the two together, because a call of another procedure disables them for a
while; which of them happens is not assumed).  Nothing is assumed of devices, the network
and the user.  `CloudManager`, `Observers` and `Blockwise` have no fairness and no liveness
property.

*What handlers may do.* Handlers told 5.03 that make requests or close sessions reach
two reads of freed memory.  `TimedOut` (`transactions.c:174`) reads the transaction that
its handler's teardown freed.  In `CheckTransaction` a new request makes up for one of two
removed transactions, and the test of the length at `transactions.c:232` trusts a freed
`next`.  Nothing in the repository says that handlers may not do so, and the onboarding
tool's do; nor can any property hold of what follows, so both are recorded as hazards, the
model stops there and the liveness properties say "or `stale`".  A request that a handler
makes to an endpoint while `oc_ri_free_client_cbs_by_endpoint` runs for it is told 5.03 at
once and its transaction stays open, although the comment at `oc_tls.c:305` speaks of all
transactions.  `TeardownComplete` is therefore about the requests made before the session
broke.

*Findings.* The three violations are described under "findings" in `PROJECT.json`.  In
`device_reset_crash` the state that results is one that `oc_pstat_handle_state` refuses
to enter and reports as an error; it is reached because `oc_sec_decode_pstat` believes a
stored state without its conditions.  The window of `loop_wakeup` also swallows Ctrl-C:
`handle_signal` signals before it sets `quit`, which is not tested again before the
wait.  `observe_periodic` contradicts the documentation of
`oc_resource_set_periodic_observable`.

*Observations.* TLC also finds the following.  No line of the repository promises
otherwise, so the properties are stated around them:

* A device becomes operational on credentials that a refused request left in memory, and
  loses them in a restart (`oc_cred.c:1281`).
* A POST to `/oic/sec/roles` replaces the owner of the cred resource of an operational
  device (`oc_cred.c:899, 930-934`), also when it is refused at a later entry.
* `switch_dos` takes 5.03 for success (`oc_obt.c:730`), so a hard reset can be reported
  as done for a device that still has its owner.
* With `Guarded = FALSE` a procedure goes on with a record another one freed.
* A procedure of the onboarding tool whose request is acknowledged and never answered
  stays for good: no handler is told (`oc_ri.c:1211-1216`), and it has no timeout.
* A session lost while the cloud client is registering leaves `OC_CLOUD_FAILURE` set
  without the callback that clears it, and the manager stops (`oc_cloud.c:71`);
  `start_manager` replaces the endpoint and keeps `cloud_ep_state` (`oc_cloud.c:62`), so that
  the end of the old session is not recognised and a registered device may be left without
  anything that would make it log in again;
  a stopped manager's closed session sets its retries again (`oc_cloud.c:315`); an answer
  after the last attempt indexes `message_timeout` past its end
  (`oc_cloud_manager.c:235`).
* `coap_notify_observers` does not advance past an observer with an unfinished transfer
  (`observe.c:775`) and runs for ever.
* A client that dropped the role it registered with is still notified (`oc_cred.c:1215`).
* With 256 observers `num_observers` is 0: nobody is notified, and a deleted resource
  leaves its observers pointing to it.
* Separate requests are recognised by token and observe option alone (`separate.c:99-102`):
  of two clients with equal tokens the first is never answered.  A large separate response
  is dropped while a transfer to its client is unfinished (`oc_server_api.c:498-504`).
* The observe numbers of registrations, of slow resources (0) and of errors (1) repeat.
* Each of the faults overtaken, late, abandoned, expired and overlapped mixes or
  truncates uploads; overtaken, late and overlapped ones run a handler twice; all but
  overlapped spoil downloads.  Without any fault, a repeated GET of a resource that changed
  mixes two versions, or cuts the first one short when the second is of one block, and a
  download of three blocks can end with `OC_STATUS_OK` and no payload, when the
  retransmission of an older block request frees the response buffer (`engine.c:386`).
  `DownloadWhole` therefore says of content what versions it is of, and that it is whole
  when the handler returned one version only.
* When a later block of an unsecured transfer is given up, nobody is told, since only
  the first request has the message ID of the client callback (`transactions.c:167`).
* A secured transaction that times out when its session is gone is not cleared
  (`transactions.c:175`) and its counter wraps.

## 4. Proofs

Theorems hold for all values of the constants that satisfy the modules' `ASSUME`s.

* `RingTypeCorrect`, `RingSlotsFilled`, `RingImplementsFifo` (EventQueueProofs), for
  any initial size and both builds.  The inductive invariant `RingInv` adds to the
  types that the slots in use are filled and that a static ring keeps its size.
  Each operation is related to the pending sequence by a lemma
  (`PostPending`, `PostGrowPending`, `TakePending`); `SlotIndex` replaces the
  modulo by a case distinction.
* `DeviceTypeCorrect` (any environment); `OperationalStaysOwned` and
  `FilesHoldDevice` in a `CalmEnv`, which excludes power failures inside a handler only:
  refused requests and restarts are in it.  `OwnedInv` adds that files not being written
  agree with memory, the cred file unless a refused request changed memory alone, and that
  this file is never empty between handlers, so that a restart changes nothing else.
* `AcceptedTakesNoOwner` in every environment: each handler that is accepted in RFNOP, or
  leads there, is looked at on its own, and needs no invariant beyond the types.
* `OwnedAlwaysNamesOwner`, `OwnerNeverSwapped` in every environment.  A power failure
  pairs a new file with an old one, so `PowerInv` says what every stored pair
  satisfies: beside a pstat file past ownership transfer the doxm file is empty or
  names an owner if it is owned, and it names the same owner as memory or none.
* `LoopTypeCorrect`, `MessageNeverForgotten` (any number of threads; inductive with
  the types), `LoopNeverOversleeps` (any timers and intervals).  The value that is
  slept on is read before events are delivered, so `SleepInv` follows it:
  `next_expiration` accounts for every timer that is not due (`UpdateTimeSound`);
  what was read accounts for them until the etimer process is polled, which removes
  those that are due; afterwards it accounts for all, unless a poll is requested.
* `ExchangeTypeCorrect`, `HandlerToldOnce`, `LifetimeAlwaysMatches`
  (CoapExchangeProofs), for any requests and servers and any `Does503`.  `TypeInv` adds
  to the types what the frames of each call refer to.  `CbInv` ties the callbacks to
  the stack: a callback in the list with `ref_count` 1 has a running handler on the
  stack, so on the empty stack none has; one that waits has not been told; one being
  told 5.03 has no timer.  `HandledPush` and `HandledTop` say how calls and returns
  change the set of running handlers; `QuietStep` covers all steps that change neither
  it nor the callbacks.

* `TeardownLeavesNothing` (CoapExchangeProofs), for every `Does503` and teardowns inside
  teardowns.  `TearInv` says what each call in progress knows: while the transactions to an
  endpoint are freed, those of the requests made before are at or behind the element the
  traversal goes on with (`Behind`), then there are none, then none of these requests
  waits.  Handlers only append transactions and take some out, which keeps that as long as
  the list has no repetitions (`ListInv`); a traversal whose next element is gone sets
  `stale`.
* `TypeCorrect`, `ObserverCounts`, `ObserversMayRetrieve`, `ObserveNumbersFresh`,
  `SeparateResponsesOwed` (ObserversProofs), for any clients, resources, lists of entries
  and requests, any tokens and any width of the count.  `CountsMatch` needs that a client
  observes a resource once (`ListOK`): then every removal, by token, message, client,
  resource or session, subtracts what it takes away, modulo `CountSize` (`CountLeft`,
  `Removing`), and an observer that outlives its resource is one of a number that counts as
  none (`LeftOK`).  `NumbersFresh` needs
  that no observer is ahead of the counter from which new observations start;
  `ObserversAuthorised` that roles are kept only in sessions; `SeparateOwed` that what is
  owed belongs to an active separate response.
* `TypeCorrect`, `BlocksInPlace` (BlockwiseProofs), for any transfers, sizes, message IDs
  and faults.  The blocks in every buffer, and in what was handled and told, are at their
  own offsets (`Placed`), which holds because a block is appended only at the length so
  far (`HandleBlockPlaced`).
* `DownloadsWhole` (BlockwiseProofs).  `DownInv` says that a request for a further block,
  and a block, exist only after the GET was answered, and that a block is asked for only
  when those before it are in the client's buffer (`Fitting`); without faults the blocks under way, in the server's response
  buffer and in the client's are of versions the handler returned (`OfVersions`), because
  at most one download is listed.  With one version, content that ends at its last block
  is then all of it (`BlockAdds`, `MoreBlocks`).
* `UploadsWhole`, `UploadsHandledOnce`, `UploadAnswersTrue` (BlockwiseProofs).  `UpInv` has
  three parts, each resting on the one before:
  * `OrderInv`, with any faults: a first block and the answer to it have one message ID;
    once a later block, or an answer that asks for one, exists, no transaction holds the
    first block any more, and in the network no first block is behind a later one (`Never`);
    messages with the message ID of a request buffer belong to its upload;
  * `OnceInv`, while datagrams stay in order and within their transfer: at most one upload
    is listed, and when the last block of an upload was handled no first block of it is
    left to create a buffer again;
  * `WholeInv`, without faults: the server's buffer holds the beginning of the upload under
    way, no block is ahead of it (`Reached`), and an empty message with the ID of a request
    buffer was sent only when the upload was handled and is behind every 2.31 (`Ending`),
    which is why the client never takes an acknowledgement or a 2.31 for the end.

  Most steps send nothing of an upload (`Calm`) or do nothing for one at all (`Still`);
  `CalmOrder`, `CalmOnce` and `StillWhole` cover them, and there is one lemma for each of
  the others.  The order of messages is carried by lemmas on taking out and appending
  (`RemoveAtKeeps`, `FrontRemoved`, `TailKeeps`, `JoinKeeps`).  The proofs use that 0, the
  token of empty messages, is no transfer.
* `InductiveInvariant` and from it `TypeCorrect`, `LoggedInIsRegistered`,
  `RegistrationPersisted` (CloudManagerProofs), for any counters, bounds, answers and
  application calls, with and without session events.  The handlers are operators on the
  context that call one another, so there is one lemma per operator.  `Keeps` is what
  all of them do to the list of callbacks: a write of the store stays pending and an entry
  being run stays unless it was freed; `Quiet` says of most that they neither register the
  device nor change its tokens.  An entry freed in place of the one that freed itself is not
  the write of the store (`SparesDump`).  Requests told 5.03 when a session ends are
  followed by a recursive function; the proof that it keeps these facts goes by the least
  number of requests for which it would not.
* `InductiveInvariant` and from it `TypeCorrect`, `DevicesAreOwned`, `TransfersFit`, `TransfersReportTrue` (OnboardingProofs), for any
  number of procedures, devices, records and identities, assuming `Guarded`.  The
  invariant has ten parts, none of which is inductive alone:
  * `TypeInv`, and `StackInv`: a context either waits for an answer or is held by exactly
    one call in progress, and only the innermost call can be a callback of the
    application; `UnheardInv`: a procedure that is unheard waits;
  * `ApartInv`: a procedure that may free its record has the record to itself, and the
    device too unless one of the two is unheard for good;
  * `UniqueInv` and `BoundInv`: identities differ, and the device of a procedure has the
    identity of its record, except between the requests that name it and tell it so;
  * `CredsInv`: records in `oc_devices` have a credential, and a credential of a device
    without an owner belongs to a transfer in progress;
  * `DeviceInv` and `TransferInv`: a device without an owner is in RFOTM, and each request
    of a transfer finds on the device what the requests before it set (`Progress`), a
    finished transfer what all of them did (`Finished`);
  * `LeftInv`: as many identities are left as the procedures in progress will still take.

  The argument: the scripts are in the order that `Follows` gives (`TransferOrdered`);
  what a reply, a refusal, a request given up or the end of a session does to a procedure
  is one relation, `AnswerStep`, which is shown to keep each part; calls and returns are
  pushes and pops that leave the contexts they hold alone (`SameCalls`); starting and
  ending procedures and discovery come last.

`Guarded`, the only hypothesis about code outside the modules, is that of the run `obt`:
it is what an application must see to, since without it TLC finds records used after they
were freed.  `CalmEnv` is what `device_reset_crash` shows to be needed.

Only model-checked:

* `TimersServed`, `RequestsEnd`, `TransactionsEnd`, `EndsUnlessUnheard` and the temporal violation:
  liveness is out of the prover's reach.

Every invariant of a passing run is stated by a theorem, under the hypotheses named above.

## 5. Not modelled, and the plan

A question the proofs leave open is whether some of the Onboarding theorems hold without
`Guarded`, so that the records they are about may be freed.  The liveness properties stay
with TLC.

State machines that could still be modelled:

* the duplicate history of `engine.c` (it only suppresses requests, which the models
  admit in any number);
* the hand-over of session and interface events from the adapters' threads
  (`oc_session_events.c`), whose shape is that of `EventLoop`'s messages;
* collections and their observers, publishing to the resource directory
  (`oc_cloud_rd.c`, `rd_client.c`), the CoAP signals of TCP (`coap_signal.c`), the event
  log (`oc_ael.c`), software update (platform callbacks left to the application), the
  pool of `oc_mmem.c`, the two resources of the garage application (a value behind a GPIO).

The mapped definitions cover about a seventh of the implementation's lines.  Most of the
rest is not state that a model would tell apart:

* wire formats and conversions: `coap.c`, `oc_rep.c`, `oc_base64.c`, `oc_helpers.c`,
  `oc_uuid.c`, `oc_endpoint.c` and the encoders and decoders of every resource are
  sequential byte manipulation that unit tests reach;
* cryptography: mbedTLS, `oc_certs.c`, `oc_pki.c`, `oc_csr.c`, `oc_obt_certs.c`;
* sockets and interfaces: the adapters of `port/linux`, and the ports to Windows,
  Android, Arduino, Zephyr and OpenThread, which repeat the same code for other systems
  (some 7000 lines for the first two);
* some 8000 lines of headers in `include/`, most of them declarations and their
  documentation;
* the sample applications in `apps/` (14 000 lines), the menus of `onboarding_tool/`,
  and the Java bindings of `swig/`.
