---------------------------- MODULE CoapExchange ----------------------------
(***************************************************************************)
(* Client requests over UDP: the client callbacks of api/oc_ri.c and       *)
(* api/oc_client_api.c, the transactions of messaging/coap/transactions.c  *)
(* that retransmit confirmable requests, and the DTLS peers of             *)
(* security/oc_tls.c whose removal ends both.                              *)
(*                                                                         *)
(* Everything runs on the main thread, but response handlers of the        *)
(* application are called from inside traversals of the lists and may      *)
(* start requests and close sessions.  The variable stack is the part of   *)
(* the call stack that matters; it is empty between two events.            *)
(*                                                                         *)
(* A request stands for its message ID and its token.  Multicast,          *)
(* discovery, observation and block-wise requests are left out, and so are *)
(* the transactions of responses.  The network and the servers are the     *)
(* most general ones: any kind of reply to a request that was sent may     *)
(* arrive at any time, never, or several times.                            *)
(***************************************************************************)
EXTENDS Integers, Sequences

CONSTANTS Request,       \* requests, each made once
          Con,           \* those made with HIGH_QOS: confirmable
          Endpoint, Secured, \* servers, and those reached through DTLS
          To,            \* the server of each request
          Nil,           \* NULL
          MaxRetransmit, \* COAP_MAX_RETRANSMIT (4 in the code)
          CounterSize,   \* number of values of retrans_counter (256)
          Does503        \* what handlers may do when told 5.03

ASSUME RequestAssumption ==
  /\ Con \subseteq Request /\ Secured \subseteq Endpoint
  /\ To \in [Request -> Endpoint] /\ Nil \notin Request \cup Endpoint
ASSUME CounterAssumption ==
  MaxRetransmit \in Nat \ {0} /\ CounterSize \in Nat /\ MaxRetransmit < CounterSize
ASSUME HandlerAssumption == Does503 \subseteq {"start", "close"}

VARIABLES
  used,         \* requests made so far
  client_cbs,   \* client callbacks in the list
  busy,         \* those with ref_count 1: their handler is running
  told,         \* how often the handler of a request was called
  lifetime,     \* delayed callbacks oc_ri_remove_client_cb that are armed
  transactions, \* transactions_list, in its order
  armed,        \* transactions whose retrans_timer is running
  retrans_counter,
  tls_peers,    \* endpoints with a DTLS peer
  stack,        \* the calls in progress, innermost first
  stale,        \* freed memory was used: nothing is known from here on
  before        \* history: the requests made before the last teardown of each session

cbVars == <<used, client_cbs, busy, told, lifetime>>
txVars == <<transactions, armed, retrans_counter>>
vars == <<cbVars, txVars, tls_peers, stack, stale, before>>

Op == {"check", "checked", "send", "timedout", "byMid", "freeTx", "freeTxNext",
       "byEndpoint", "freed", "response", "unavailable"}
Frame == [op : Op, r : Request \cup {Nil}, e : Endpoint \cup {Nil},
          next : Request \cup {Nil}, len : Nat]

TypeOK == /\ used \subseteq Request /\ client_cbs \subseteq used
          /\ busy \subseteq used /\ lifetime \subseteq used
          /\ told \in [Request -> Nat]
          /\ transactions \in Seq(Con) /\ armed \subseteq Con
          /\ retrans_counter \in [Request -> 0 .. CounterSize - 1]
          /\ tls_peers \subseteq Secured
          /\ stack \in Seq(Frame)
          /\ stale \in BOOLEAN
          /\ before \in [Endpoint -> SUBSET Request]

Init == /\ used = {} /\ client_cbs = {} /\ busy = {} /\ lifetime = {}
        /\ told = [r \in Request |-> 0]
        /\ transactions = <<>> /\ armed = {}
        /\ retrans_counter = [r \in Request |-> 0]
        /\ tls_peers = {}
        /\ stack = <<>>
        /\ stale = FALSE
        /\ before = [e \in Endpoint |-> {}]

-----------------------------------------------------------------------------
(* The list of transactions *)

Listed(t) == \E i \in 1 .. Len(transactions) : transactions[i] = t
Position(t) == CHOOSE i \in 1 .. Len(transactions) : transactions[i] = t
First == IF transactions = <<>> THEN Nil ELSE Head(transactions)

(* Faulty traversal: it ends at the first transaction. *)
NextOfEnds(t) == Nil

(* next = t->next, read before anything is called *)
NextOf(t) == IF Position(t) < Len(transactions) THEN transactions[Position(t) + 1] ELSE Nil

(* oc_list_remove *)
Without(t) ==
  IF Listed(t)
  THEN [i \in 1 .. Len(transactions) - 1 |->
          IF i < Position(t) THEN transactions[i] ELSE transactions[i + 1]]
  ELSE transactions

(* coap_clear_transaction *)
Clear(t) == /\ transactions' = Without(t)
            /\ armed' = armed \ {t}
            /\ UNCHANGED retrans_counter

(* The call stack *)

Idle == stack = <<>> /\ ~stale
Top == Head(stack)
In(op) == stack # <<>> /\ Top.op = op /\ ~stale
Call(op, r, e) == [op |-> op, r |-> r, e |-> e, next |-> Nil, len |-> 0]
Push(f) == stack' = <<f>> \o stack
GoOn(f) == stack' = <<f>> \o Tail(stack)
GoOnAndPush(f, g) == stack' = <<g, f>> \o Tail(stack)
Return == stack' = Tail(stack)

(* oc_tls_free_peer takes the peer out of the list before anything else. *)
Teardown(e) == /\ tls_peers' = tls_peers \ {e}
               /\ before' = [before EXCEPT ![e] = {r \in used : To[r] = e}]

(* A pointer to a transaction that is no longer in the list is followed. *)
UseFreed == /\ stale' = TRUE
            /\ UNCHANGED <<cbVars, txVars, tls_peers, before, stack>>

-----------------------------------------------------------------------------
(* oc_do_get and its like: oc_ri_alloc_client_cb, prepare_coap_request,
   dispatch_coap_request.  The transaction of a request that is not
   confirmable is cleared as soon as it is sent.                            *)
MakeRequest(r) ==
  /\ r \notin used
  /\ used' = used \cup {r}
  /\ client_cbs' = client_cbs \cup {r}
  /\ lifetime' = lifetime \cup {r}
  /\ IF r \in Con
     THEN /\ transactions' = Append(transactions, r)
          /\ armed' = armed \cup {r}
          /\ retrans_counter' = [retrans_counter EXCEPT ![r] = 0]
     ELSE UNCHANGED txVars
  /\ UNCHANGED <<busy, told, tls_peers, before, stale>>

(* The application makes a request between two events. *)
Start(r) == Idle /\ MakeRequest(r) /\ UNCHANGED stack

(* coap_receive of an acknowledgement without a response, or of a reset *)
ReceiveEmpty(r) ==
  /\ Idle
  /\ r \in used /\ Listed(r)
  /\ Clear(r)
  /\ UNCHANGED <<cbVars, tls_peers, before, stack, stale>>

(* coap_receive of a response with the token of r.  It clears the transaction
   with its message ID: that of r when the response comes with the
   acknowledgement; in a message of its own the server chose the ID, and it
   may be that of any transaction.                                          *)
ReceiveResponse(r, mid) ==
  /\ Idle
  /\ r \in used
  /\ IF Listed(mid) THEN Clear(mid) ELSE UNCHANGED txVars
  /\ IF r \in client_cbs
     THEN /\ busy' = busy \cup {r}
          /\ told' = [told EXCEPT ![r] = @ + 1]
          /\ Push(Call("response", r, Nil))
     ELSE UNCHANGED <<busy, told, stack>>
  /\ UNCHANGED <<used, client_cbs, lifetime, tls_peers, before, stale>>

(* ... whose payload does not parse: the request is over, its handler is not
   called.                                                                  *)
ReceiveUnparsable(r, mid) ==
  /\ Idle
  /\ r \in client_cbs
  /\ IF Listed(mid) THEN Clear(mid) ELSE UNCHANGED txVars
  /\ client_cbs' = client_cbs \ {r}
  /\ busy' = busy \ {r}
  /\ lifetime' = lifetime \ {r}
  /\ UNCHANGED <<used, told, tls_peers, before, stack, stale>>

(* Faulty delayed callback: it lets a request live as long as its session. *)
RemoveClientCbOpen(r) ==
  /\ Idle
  /\ r \in lifetime /\ To[r] \notin tls_peers
  /\ client_cbs' = client_cbs \ {r}
  /\ lifetime' = lifetime \ {r}
  /\ UNCHANGED <<used, busy, told, txVars, tls_peers, before, stack, stale>>

(* The delayed callback oc_ri_remove_client_cb *)
RemoveClientCb(r) ==
  /\ Idle
  /\ r \in lifetime
  /\ client_cbs' = client_cbs \ {r}
  /\ lifetime' = lifetime \ {r}
  /\ UNCHANGED <<used, busy, told, txVars, tls_peers, before, stack, stale>>

(* oc_tls_init_connection for a message to e, or a session e opened *)
NewPeer(e) ==
  /\ Idle
  /\ e \in Secured \ tls_peers
  /\ tls_peers' = tls_peers \cup {e}
  /\ UNCHANGED <<cbVars, txVars, stack, stale, before>>

-----------------------------------------------------------------------------
(* Handlers *)

May(what) == In("response") \/ (In("unavailable") /\ what \in Does503)

(* A handler makes another request ... *)
HandlerStarts(r) == May("start") /\ MakeRequest(r) /\ UNCHANGED stack

(* ... or calls oc_tls_close_connection *)
HandlerCloses(e) ==
  /\ May("close")
  /\ e \in tls_peers
  /\ Teardown(e)
  /\ Push(Call("freeTx", First, e))
  /\ UNCHANGED <<cbVars, txVars, stale>>

(* Faulty end of oc_ri_invoke_client_cb: the lifetime keeps running. *)
ResponseHandledKeepsTimer ==
  /\ In("response")
  /\ client_cbs' = client_cbs \ {Top.r}
  /\ busy' = busy \ {Top.r}
  /\ Return
  /\ UNCHANGED <<used, told, lifetime, txVars, tls_peers, before, stale>>

(* The rest of oc_ri_invoke_client_cb, after the handler *)
ResponseHandled ==
  /\ In("response")
  /\ IF Top.r \in client_cbs
     THEN /\ client_cbs' = client_cbs \ {Top.r}
          /\ busy' = busy \ {Top.r}
          /\ lifetime' = lifetime \ {Top.r}
     ELSE UNCHANGED <<client_cbs, busy, lifetime>>
  /\ Return
  /\ UNCHANGED <<used, told, txVars, tls_peers, before, stale>>

(* The start of notify_client_cb_503 for a callback its caller found *)
Notify(r) ==
  /\ busy' = busy \cup {r}
  /\ lifetime' = lifetime \ {r}
  /\ told' = [told EXCEPT ![r] = @ + 1]
  /\ Push(Call("unavailable", r, Nil))
  /\ UNCHANGED <<used, client_cbs, txVars, tls_peers, before, stale>>

(* The rest of notify_client_cb_503: free_client_cb *)
UnavailableHandled ==
  /\ In("unavailable")
  /\ client_cbs' = client_cbs \ {Top.r}
  /\ busy' = busy \ {Top.r}
  /\ Return
  /\ UNCHANGED <<used, told, lifetime, txVars, tls_peers, before, stale>>

(* oc_ri_free_client_cbs_by_mid, which starts again after each callback *)
FreeCbsByMid ==
  /\ In("byMid")
  /\ IF Top.r \in client_cbs \ busy
     THEN Notify(Top.r)
     ELSE Return /\ UNCHANGED <<cbVars, txVars, tls_peers, before, stale>>

(* Faulty oc_ri_free_client_cbs_by_endpoint: ref_count is not looked at. *)
FreeCbsByEndpointAgain ==
  /\ In("byEndpoint")
  /\ LET waiting == {r \in client_cbs : To[r] = Top.e}
     IN  IF waiting # {}
         THEN \E r \in waiting : Notify(r)
         ELSE /\ GoOn(Call("freed", Nil, Top.e))
              /\ UNCHANGED <<cbVars, txVars, tls_peers, before, stale>>

(* oc_ri_free_client_cbs_by_endpoint *)
FreeCbsByEndpoint ==
  /\ In("byEndpoint")
  /\ LET waiting == {r \in client_cbs \ busy : To[r] = Top.e}
     IN  IF waiting # {}
         THEN \E r \in waiting : Notify(r)
         ELSE /\ GoOn(Call("freed", Nil, Top.e))
              /\ UNCHANGED <<cbVars, txVars, tls_peers, before, stale>>

-----------------------------------------------------------------------------
(* oc_tls_free_peer, the peer being out of the list already *)

(* coap_free_transactions_by_endpoint at transaction Top.r *)
FreeTransactions ==
  /\ In("freeTx")
  /\ \/ /\ Top.r = Nil
        /\ GoOn(Call("byEndpoint", Nil, Top.e))
        /\ UNCHANGED <<cbVars, txVars, tls_peers, before, stale>>
     \/ /\ Top.r # Nil /\ ~Listed(Top.r)
        /\ UseFreed
     \/ /\ Top.r # Nil /\ Listed(Top.r)
        /\ IF To[Top.r] = Top.e
           THEN GoOnAndPush([op |-> "freeTxNext", r |-> Top.r, e |-> Top.e,
                             next |-> NextOf(Top.r), len |-> Len(transactions)],
                            Call("byMid", Top.r, Nil))
           ELSE GoOn(Call("freeTx", NextOf(Top.r), Top.e))
        /\ UNCHANGED <<cbVars, txVars, tls_peers, before, stale>>

(* ... and after the callbacks of that transaction were told *)
FreeTransactionsNext ==
  /\ In("freeTxNext")
  /\ \/ /\ Top.len - Len(transactions) > 0
        /\ GoOn(Call("freeTx", First, Top.e))
        /\ UNCHANGED <<txVars, stale>>
     \/ /\ Top.len - Len(transactions) <= 0
        /\ Clear(Top.r)
        /\ stale' = ~Listed(Top.r)
        /\ GoOn(Call("freeTx", Top.next, Top.e))
  /\ UNCHANGED <<cbVars, tls_peers, before>>

(* The peer is freed. *)
PeerFreed == /\ In("freed")
             /\ Return
             /\ UNCHANGED <<cbVars, txVars, tls_peers, before, stale>>

(* The server closes the session, the handshake fails, the session is idle for
   too long or the application closes it between two events.                *)
ClosePeer(e) ==
  /\ Idle
  /\ e \in tls_peers
  /\ Teardown(e)
  /\ Push(Call("freeTx", First, e))
  /\ UNCHANGED <<cbVars, txVars, stale>>

-----------------------------------------------------------------------------
(* Retransmission *)

(* The timers of some transactions expire and coap_engine is given the event. *)
TimersExpire(ts) ==
  /\ Idle
  /\ ts # {} /\ ts \subseteq armed
  /\ armed' = armed \ ts
  /\ Push(Call("check", First, Nil))
  /\ UNCHANGED <<cbVars, transactions, retrans_counter, tls_peers, before, stale>>

(* Faulty increment: the counter is wider than uint8_t. *)
IncrementedWide(n) == n + 1

(* ++(t->retrans_counter) *)
Incremented(n) == (n + 1) % CounterSize

(* coap_check_transactions at transaction Top.r *)
CheckTransaction ==
  /\ In("check")
  /\ \/ /\ Top.r = Nil
        /\ Return
        /\ UNCHANGED <<cbVars, txVars, tls_peers, before, stale>>
     \/ /\ Top.r # Nil /\ ~Listed(Top.r)
        /\ UseFreed
     \/ /\ Top.r # Nil /\ Listed(Top.r) /\ Top.r \in armed
        /\ GoOn(Call("check", NextOf(Top.r), Nil))
        /\ UNCHANGED <<cbVars, txVars, tls_peers, before, stale>>
     \/ /\ Top.r # Nil /\ Listed(Top.r) /\ Top.r \notin armed
        /\ retrans_counter' = [retrans_counter EXCEPT ![Top.r] = Incremented(@)]
        /\ GoOnAndPush([op |-> "checked", r |-> Nil, e |-> Nil,
                        next |-> NextOf(Top.r), len |-> Len(transactions)],
                       Call("send", Top.r, Nil))
        /\ UNCHANGED <<cbVars, transactions, armed, tls_peers, before, stale>>

(* ... and after coap_send_transaction *)
Checked ==
  /\ In("checked")
  /\ GoOn(Call("check", IF Top.len - Len(transactions) > 1 THEN First ELSE Top.next, Nil))
  /\ UNCHANGED <<cbVars, txVars, tls_peers, before, stale>>

(* coap_send_transaction of a transaction whose timer expired *)
SendTransaction ==
  /\ In("send")
  /\ IF retrans_counter[Top.r] < MaxRetransmit
     THEN /\ armed' = armed \cup {Top.r}
          /\ Return
     ELSE /\ GoOnAndPush(Call("timedout", Top.r, Nil), Call("byMid", Top.r, Nil))
          /\ UNCHANGED armed
  /\ UNCHANGED <<cbVars, transactions, retrans_counter, tls_peers, before, stale>>

(* Faulty coap_send_transaction: what timed out stays in the list. *)
TimedOutKept ==
  /\ In("timedout")
  /\ \/ /\ ~Listed(Top.r)
        /\ UseFreed
     \/ /\ Listed(Top.r) /\ To[Top.r] \in tls_peers
        /\ Teardown(To[Top.r])
        /\ GoOn(Call("freeTx", First, To[Top.r]))
        /\ UNCHANGED <<cbVars, txVars, stale>>
     \/ /\ Listed(Top.r) /\ To[Top.r] \notin tls_peers
        /\ Return
        /\ UNCHANGED <<cbVars, txVars, tls_peers, before, stale>>

(* ... its end after a timeout: oc_tls_close_connection, which does nothing
   without a peer, or coap_clear_transaction                                *)
TimedOut ==
  /\ In("timedout")
  /\ \/ /\ ~Listed(Top.r)
        /\ UseFreed
     \/ /\ Listed(Top.r) /\ To[Top.r] \in tls_peers
        /\ Teardown(To[Top.r])
        /\ GoOn(Call("freeTx", First, To[Top.r]))
        /\ UNCHANGED <<cbVars, txVars, stale>>
     \/ /\ Listed(Top.r) /\ To[Top.r] \in Secured \ tls_peers
        /\ Return
        /\ UNCHANGED <<cbVars, txVars, tls_peers, before, stale>>
     \/ /\ Listed(Top.r) /\ To[Top.r] \notin Secured
        /\ Clear(Top.r)
        /\ Return
        /\ UNCHANGED <<cbVars, tls_peers, before, stale>>

-----------------------------------------------------------------------------
Step == \/ ResponseHandled \/ UnavailableHandled
        \/ FreeCbsByMid \/ FreeCbsByEndpoint
        \/ FreeTransactions \/ FreeTransactionsNext \/ PeerFreed
        \/ CheckTransaction \/ Checked \/ SendTransaction \/ TimedOut

(* Nothing is said of a program that has used freed memory. *)
Undefined == stale /\ UNCHANGED vars

Next == \/ Step \/ Undefined
        \/ \E r \in Request : \/ Start(r) \/ HandlerStarts(r)
                              \/ ReceiveEmpty(r) \/ RemoveClientCb(r)
                              \/ \E mid \in Con \cup {Nil} : \/ ReceiveResponse(r, mid)
                                                              \/ ReceiveUnparsable(r, mid)
        \/ \E e \in Endpoint : NewPeer(e) \/ ClosePeer(e) \/ HandlerCloses(e)
        \/ \E ts \in SUBSET Con : TimersExpire(ts)

(* Calls return, and the event loop serves every timer however many other
   events there are.                                                        *)
Fairness == /\ WF_vars(Step)
            /\ \A r \in Request : SF_vars(RemoveClientCb(r))
            /\ \A r \in {c \in Con : To[c] \notin Secured} :
                 SF_vars(\E ts \in SUBSET Con : r \in ts /\ TimersExpire(ts))

Spec == Init /\ [][Next]_vars /\ Fairness

-----------------------------------------------------------------------------
(* The handler of a request runs at most once, whatever duplicates, timeouts
   and closed sessions come together and although handlers that are running
   close the session their own request used.                                *)
ToldOnce == \A r \in Request : told[r] <= 1

(* The delayed callback that frees a client callback is armed while the
   callback waits, so that it is not leaked, and never once it is freed, so
   that it is not freed twice.                                              *)
LifetimeMatches == client_cbs \ busy \subseteq lifetime /\ lifetime \subseteq client_cbs

(* oc_tls_free_peer, "remove all open transactions associated to this
   endpoint": when the peer is freed, no request to it that was made before
   the session broke has a transaction left or waits to be told, although the
   handlers told meanwhile make requests and close other sessions, whose
   teardown runs inside this one.  What they ask of the same server meanwhile
   may be left over.                                                        *)
TeardownComplete ==
  In("freed") => \A r \in before[Top.e] : ~Listed(r) /\ r \notin client_cbs \ busy

(* Every request comes to an end, unless a handler told 5.03 made a traversal
   use a transaction that it had freed.                                     *)
RequestsEnd == \A r \in Request : r \in client_cbs ~> r \notin client_cbs \/ stale

(* So does every transaction with a server that is reached without DTLS. *)
TransactionsEnd ==
  \A t \in Con : To[t] \notin Secured => (Listed(t) ~> ~Listed(t) \/ stale)
=============================================================================
