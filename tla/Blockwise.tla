----------------------------- MODULE Blockwise ------------------------------
(***************************************************************************)
(* Block-wise transfer between one client and one server over unsecured    *)
(* UDP: api/oc_blockwise.c, the block options in coap_receive              *)
(* (messaging/coap/engine.c), the requests of api/oc_client_api.c and the  *)
(* part of api/oc_ri.c that hands assembled payloads to the application.   *)
(*                                                                         *)
(* The client POSTs payloads to, and GETs, one resource.  The server finds *)
(* its buffers by endpoint, method, path and query, so one buffer serves   *)
(* all uploads and one all downloads.  Offsets count blocks.  A block is   *)
(* <<source, number>>, where the source is the upload or the version of    *)
(* the resource it belongs to; that is all the properties tell apart.      *)
(* Every request is confirmable (HIGH_QOS, or the first block forces it)   *)
(* and carries CBOR.  A transfer stands for its token and its client       *)
(* callback.  Observation, raw payloads, multicast, the 4.13 answer that   *)
(* starts a block-wise upload over TCP and handlers that fail are left out.*)
(***************************************************************************)
EXTENDS Integers, FiniteSets, SequencesExt

CONSTANTS
  Uploads, Downloads, \* POST and GET requests, each made once
  Size,               \* number of blocks of each upload
  VersionSize,        \* number of blocks of each version of the resource
  ClientMids, ServerMids, \* message IDs, taken to be disjoint
  MaxCallbacks,       \* size of the pool of client callbacks
  MaxRetransmit,      \* COAP_MAX_RETRANSMIT (4 in the code)
  MaxNet,             \* bound on the datagrams under way in one direction
  Together,           \* bound: the transfers that one behaviour may make
  MaxFaults           \* bound on the kinds of faults in a behaviour

ASSUME TransfersAssumption ==
  /\ Uploads \cap Downloads = {} /\ 0 \notin Uploads \cup Downloads
  /\ Size \in [Uploads -> Nat \ {0}]
  /\ VersionSize \in Seq(Nat \ {0}) /\ VersionSize # <<>>
ASSUME MidsAssumption ==
  /\ ClientMids \subseteq Nat \ {0} /\ ServerMids \subseteq Nat \ {0}
  /\ ClientMids \cap ServerMids = {}
ASSUME BoundsAssumption ==
  /\ MaxCallbacks \in Nat /\ MaxRetransmit \in Nat /\ MaxNet \in Nat
  /\ Together \subseteq SUBSET (Uploads \cup Downloads) /\ MaxFaults \in Nat

Transfers == Uploads \cup Downloads
Versions == 1..Len(VersionSize)

VARIABLES
  client_cb, \* the client callback of a transfer: unused, in the list, freed
  told,      \* what the response handler of a transfer was called with
  creq,      \* mid of the client's request buffer of an upload, 0 without one
  cres,      \* the client's response buffer of a transfer: its data and mid
  ctrans,    \* the client's transactions
  sreq,      \* the server's request buffer: the blocks in it
  sres,      \* the server's response buffer: the version in it (0: no
             \* buffer) and its next_block_offset
  strans,    \* the server's transactions with a confirmable response
  toServer, toClient, \* datagrams under way
  version,   \* the version of the resource
  handled,   \* payloads that the POST handler was given
  runs,      \* how often it was given the last block of an upload, up to 2
  served,    \* versions that the GET handler returned to a download
  faults     \* what happened so far that the code does not guard against

clientVars == <<client_cb, told, creq, cres, ctrans>>
bufVars == <<sreq, sres>>
ghosts == <<handled, runs, served>>
vars == <<clientVars, bufVars, strans, toServer, toClient, version, ghosts, faults>>

Fault == {"overtaken",  \* a datagram was received before an older one
          "late",       \* the server got a request of a transfer that is over
          "abandoned",  \* a client callback was freed without an answer
          "overlapped", \* two transfers of one method were under way at once
          "expired"}    \* a buffer reached OC_EXCHANGE_LIFETIME

Block == (Uploads \cup Versions) \X Nat
Msg == [kind : {"post", "block1", "get", "block2", "ack", "continue", "changed", "content", "rst"},
        t : Transfers \cup {0}, mid : ClientMids \cup ServerMids,
        num : Nat, more : BOOLEAN, v : Versions \cup {0}]
Answer == [code : {"none", "changed", "content", "ok", "unavailable"}, data : Seq(Block)]

TypeOK ==
  /\ client_cb \in [Transfers -> {"unused", "listed", "freed"}]
  /\ told \in [Transfers -> Answer]
  /\ creq \in [Uploads -> ClientMids \cup {0}]
  /\ cres \in [Downloads -> [data : Seq(Block), mid : ClientMids \cup {0}]]
  /\ \A c \in ctrans \cup strans : c.msg \in Msg /\ c.tries \in 0..MaxRetransmit
  /\ sreq \in Seq(Block)
  /\ sres \in [v : Versions \cup {0}, next : Nat]
  /\ toServer \in Seq(Msg) /\ toClient \in Seq(Msg)
  /\ version \in Versions
  /\ handled \subseteq Seq(Block)
  /\ runs \in [Uploads -> 0..2]
  /\ served \in [Downloads -> SUBSET Versions]
  /\ faults \subseteq Fault

NoAnswer == [code |-> "none", data |-> <<>>]
NoResponse == [data |-> <<>>, mid |-> 0]

Init ==
  /\ client_cb = [t \in Transfers |-> "unused"]
  /\ told = [t \in Transfers |-> NoAnswer]
  /\ creq = [t \in Uploads |-> 0]
  /\ cres = [t \in Downloads |-> NoResponse]
  /\ ctrans = {} /\ strans = {}
  /\ sreq = <<>> /\ sres = [v |-> 0, next |-> 0]
  /\ toServer = <<>> /\ toClient = <<>>
  /\ version = 1
  /\ handled = {} /\ runs = [t \in Uploads |-> 0] /\ served = [t \in Downloads |-> {}]
  /\ faults = {}

-----------------------------------------------------------------------------
(* Messages, transactions and the network. *)

Listed == {t \in Transfers : client_cb[t] = "listed"}

Message(kind, t, mid, num, more) ==
  [kind |-> kind, t |-> t, mid |-> mid, num |-> num, more |-> more, v |-> 0]
Ack(mid) == Message("ack", 0, mid, 0, FALSE)
Rst(mid) == Message("rst", 0, mid, 0, FALSE)

\* coap_get_mid: the IDs count up, so an ID that nobody remembers any more will do.
MidsKnown ==
  {c.msg.mid : c \in ctrans \cup strans} \cup ToSet(creq) \cup
  {cres[d].mid : d \in Downloads} \cup
  {m.mid : m \in ToSet(toServer) \cup ToSet(toClient)}
FreshMid(mids) == Min(mids \ MidsKnown)
MidLeft(mids) == mids \ MidsKnown # {}

Transaction(m) == [msg |-> m, tries |-> 0]

\* coap_clear_transaction of the transaction with a message ID.
ClearMid(trans, mid) == {c \in trans : c.msg.mid # mid}

\* Faults are remembered.
Happens(fs) == faults' = faults \cup fs /\ Cardinality(faults') <= MaxFaults

SendToServer(ms) == toServer' = toServer \o ms /\ Len(toServer') <= MaxNet
SendToClient(ms) == toClient' = toClient \o ms /\ Len(toClient') <= MaxNet

\* A datagram leaves the network; taking one that is not the oldest is a fault.
ServerGets(i, m, fs) ==
  /\ i \in DOMAIN toServer /\ m = toServer[i]
  /\ toServer' = RemoveAt(toServer, i)
  /\ Happens(fs \cup {f \in {"overtaken"} : i > 1}
               \cup {f \in {"late"} : m.t # 0 /\ m.t \notin Listed})

ClientGets(i, m, ms) ==
  /\ i \in DOMAIN toClient /\ m = toClient[i]
  /\ toClient' = RemoveAt(toClient, i)
  /\ SendToServer((IF m.mid \in ServerMids THEN <<Ack(m.mid)>> ELSE <<>>) \o ms)
  /\ Happens({f \in {"overtaken"} : i > 1})

LoseToServer ==
  /\ toServer # <<>> /\ toServer' = Tail(toServer)
  /\ UNCHANGED <<clientVars, bufVars, strans, toClient, version, ghosts, faults>>

LoseToClient ==
  /\ toClient # <<>> /\ toClient' = Tail(toClient)
  /\ UNCHANGED <<clientVars, bufVars, strans, toServer, version, ghosts, faults>>

-----------------------------------------------------------------------------
(* The client's application. *)

\* oc_ri_alloc_client_cb.
MayAlloc(t) ==
  /\ client_cb[t] = "unused" /\ Cardinality(Listed) < MaxCallbacks
  /\ \E ts \in Together : {t} \cup {x \in Transfers : client_cb[x] # "unused"} \subseteq ts

Concurrent(ts) == {f \in {"overlapped"} : Listed \cap ts # {}}

\* Faulty Post: the first block does not say that there are more.
PostNoMore(u) ==
  LET m == Message(IF Size[u] > 1 THEN "block1" ELSE "post", u,
                   FreshMid(ClientMids), 0, FALSE)
  IN /\ MayAlloc(u) /\ MidLeft(ClientMids)
     /\ client_cb' = [client_cb EXCEPT ![u] = "listed"]
     /\ creq' = [creq EXCEPT ![u] = IF Size[u] > 1 THEN m.mid ELSE 0]
     /\ ctrans' = ctrans \cup {Transaction(m)}
     /\ SendToServer(<<m>>) /\ Happens(Concurrent(Uploads))
     /\ UNCHANGED <<told, cres, bufVars, strans, toClient, version, ghosts>>

\* oc_init_post and oc_do_post: prepare_coap_request and dispatch_coap_request.
Post(u) ==
  LET m == Message(IF Size[u] > 1 THEN "block1" ELSE "post", u,
                   FreshMid(ClientMids), 0, Size[u] > 1)
  IN /\ MayAlloc(u) /\ MidLeft(ClientMids)
     /\ client_cb' = [client_cb EXCEPT ![u] = "listed"]
     /\ creq' = [creq EXCEPT ![u] = IF Size[u] > 1 THEN m.mid ELSE 0]
     /\ ctrans' = ctrans \cup {Transaction(m)}
     /\ SendToServer(<<m>>) /\ Happens(Concurrent(Uploads))
     /\ UNCHANGED <<told, cres, bufVars, strans, toClient, version, ghosts>>

\* oc_do_get.
Get(d) ==
  LET m == Message("get", d, FreshMid(ClientMids), 0, FALSE)
  IN /\ MayAlloc(d) /\ MidLeft(ClientMids)
     /\ client_cb' = [client_cb EXCEPT ![d] = "listed"]
     /\ ctrans' = ctrans \cup {Transaction(m)}
     /\ SendToServer(<<m>>) /\ Happens(Concurrent(Downloads))
     /\ UNCHANGED <<told, creq, cres, bufVars, strans, toClient, version, ghosts>>

\* free_client_cb: the callback leaves the list and, by
\* oc_blockwise_scrub_buffers_for_client_cb, its buffers are freed.
FreeClientCb(t) ==
  /\ client_cb' = [client_cb EXCEPT ![t] = "freed"]
  /\ creq' = [u \in Uploads |-> IF u = t THEN 0 ELSE creq[u]]
  /\ cres' = [d \in Downloads |-> IF d = t THEN NoResponse ELSE cres[d]]

\* oc_ri_invoke_client_cb, of a callback that does not observe.
InvokeClientCb(t, code, data) ==
  told' = [told EXCEPT ![t] = [code |-> code, data |-> data]] /\ FreeClientCb(t)

-----------------------------------------------------------------------------
(* The server: coap_receive with a request. *)

\* Faulty HandleBlock: a repeated block is copied as well.
HandleBlockAgain(data, num, block) ==
  [ok |-> num <= Len(data), data |-> IF num <= Len(data) THEN Append(data, block) ELSE data]

\* oc_blockwise_handle_block: a gap is refused, a repetition is skipped.  That
\* a block fits into OC_MAX_APP_DATA_SIZE is not tested here: both sides are of
\* one build, and no side sends what is larger than its own buffer.
HandleBlock(data, num, block) ==
  [ok |-> num <= Len(data), data |-> IF num = Len(data) THEN Append(data, block) ELSE data]

\* The entity handler runs with the assembled payload, whose buffer is freed.
Handle(payload, u) ==
  /\ handled' = handled \cup {payload}
  /\ runs' = [runs EXCEPT ![u] = Min({@ + 1, 2})]
  /\ sreq' = <<>>

\* A request without block options replaces what is left of an upload.
ReceivePost(i, m) ==
  /\ m.kind = "post" /\ ServerGets(i, m, {})
  /\ Handle(<< <<m.t, 0>> >>, m.t)
  /\ SendToClient(<<Message("changed", m.t, m.mid, 0, FALSE)>>)
  /\ UNCHANGED <<clientVars, sres, strans, version, served>>

\* The block1 option.  Without a buffer only the first block creates one.
Assembled(m) == HandleBlock(sreq, m.num, <<m.t, m.num>>)

ReceiveBlock1(i, m) ==
  /\ m.kind = "block1" /\ Assembled(m).ok /\ m.more /\ ServerGets(i, m, {})
  /\ sreq' = Assembled(m).data
  /\ SendToClient(<<Message("continue", m.t, m.mid, m.num, TRUE)>>)
  /\ UNCHANGED <<clientVars, sres, strans, version, ghosts>>

\* Faulty ReceiveLastBlock1: the buffer of a handled payload is kept.
ReceiveLastBlock1Keeps(i, m) ==
  LET r == Message("changed", m.t, FreshMid(ServerMids), m.num, FALSE)
  IN /\ m.kind = "block1" /\ Assembled(m).ok /\ ~m.more /\ MidLeft(ServerMids)
     /\ ServerGets(i, m, {})
     /\ handled' = handled \cup {Assembled(m).data}
     /\ runs' = [runs EXCEPT ![m.t] = Min({@ + 1, 2})]
     /\ sreq' = Assembled(m).data
     /\ strans' = strans \cup {Transaction(r)}
     /\ SendToClient(<<Ack(m.mid), r>>)
     /\ UNCHANGED <<clientVars, sres, version, served>>

\* The last block: the request is acknowledged, then answered on its own.
ReceiveLastBlock1(i, m) ==
  LET r == Message("changed", m.t, FreshMid(ServerMids), m.num, FALSE)
  IN /\ m.kind = "block1" /\ Assembled(m).ok /\ ~m.more /\ MidLeft(ServerMids)
     /\ ServerGets(i, m, {})
     /\ Handle(Assembled(m).data, m.t)
     /\ strans' = strans \cup {Transaction(r)}
     /\ SendToClient(<<Ack(m.mid), r>>)
     /\ UNCHANGED <<clientVars, sres, version, served>>

\* A gap, or a later block without a buffer: the buffer is given up.
ReceiveGap(i, m) ==
  /\ m.kind = "block1" /\ ~Assembled(m).ok /\ ServerGets(i, m, {})
  /\ sreq' = <<>>
  /\ SendToClient(<<Rst(m.mid)>>)
  /\ UNCHANGED <<clientVars, sres, strans, version, ghosts>>

\* Faulty Content: the block before the last one is taken for the last.
ContentShort(m, mid, v) ==
  [kind |-> "content", t |-> m.t, mid |-> mid, num |-> m.num,
   more |-> m.num + 2 < VersionSize[v], v |-> v]

\* oc_blockwise_dispatch_block of a response buffer.
Content(m, mid, v) ==
  [kind |-> "content", t |-> m.t, mid |-> mid, num |-> m.num,
   more |-> m.num + 1 < VersionSize[v], v |-> v]

\* A request without block options is answered from a new response buffer,
\* which is kept when there is more than one block.
ReceiveGet(i, m) ==
  /\ m.kind = "get" /\ ServerGets(i, m, {})
  /\ served' = [served EXCEPT ![m.t] = @ \cup {version}]
  /\ sres' = IF VersionSize[version] > 1 THEN [v |-> version, next |-> 1]
             ELSE [v |-> 0, next |-> 0]
  /\ SendToClient(<<Content(m, m.mid, version)>>)
  /\ UNCHANGED <<clientVars, sreq, strans, version, handled, runs>>

\* The block2 option: only the block sent last or the one after it can be
\* asked for (the difference of the offsets is unsigned).
Continues(m) == /\ sres.v # 0 /\ m.num <= sres.next /\ sres.next - m.num <= 1
                /\ m.num < VersionSize[sres.v]
ReceiveBlock2(i, m) ==
  /\ m.kind = "block2" /\ Continues(m) /\ ServerGets(i, m, {})
  /\ sres' = [sres EXCEPT !.next = m.num + 1]
  /\ IF m.num + 1 < VersionSize[sres.v]
     THEN SendToClient(<<Content(m, m.mid, sres.v)>>) /\ UNCHANGED strans
     ELSE LET r == Content(m, FreshMid(ServerMids), sres.v)
          IN /\ MidLeft(ServerMids)
             /\ strans' = strans \cup {Transaction(r)}
             /\ SendToClient(<<Ack(m.mid), r>>)
  /\ UNCHANGED <<clientVars, sreq, version, ghosts>>

RefuseBlock2(i, m) ==
  /\ m.kind = "block2" /\ ~Continues(m) /\ ServerGets(i, m, {})
  /\ sres' = [v |-> 0, next |-> 0]
  /\ SendToClient(<<Rst(m.mid)>>)
  /\ UNCHANGED <<clientVars, sreq, strans, version, ghosts>>

ServerGetsAck(i, m) ==
  /\ m.kind = "ack" /\ ServerGets(i, m, {})
  /\ strans' = ClearMid(strans, m.mid)
  /\ UNCHANGED <<clientVars, bufVars, toClient, version, ghosts>>

-----------------------------------------------------------------------------
(* The client: coap_receive with a response. *)

Request(kind, t, num, more) == Message(kind, t, FreshMid(ClientMids), num, more)

\* The next block of an upload, dispatched from the request buffer.
ReceiveContinue(i, m) ==
  LET r == Request("block1", m.t, m.num + 1, m.num + 2 < Size[m.t])
  IN /\ m.kind = "continue" /\ m.t \in Listed /\ creq[m.t] # 0 /\ MidLeft(ClientMids)
     /\ ClientGets(i, m, <<r>>)
     /\ creq' = [creq EXCEPT ![m.t] = r.mid]
     /\ ctrans' = ClearMid(ctrans, m.mid) \cup {Transaction(r)}
     /\ UNCHANGED <<client_cb, told, cres, bufVars, strans, version, ghosts>>

\* Faulty ReceiveChanged: 2.31 always ends an upload.
ReceiveChangedEarly(i, m) ==
  /\ m.kind \in {"changed", "continue"} /\ m.t \in Listed
  /\ ClientGets(i, m, <<>>)
  /\ InvokeClientCb(m.t, IF m.kind = "changed" THEN "changed" ELSE "ok", <<>>)
  /\ ctrans' = ClearMid(ctrans, m.mid)
  /\ UNCHANGED <<bufVars, strans, version, ghosts>>

\* An answer that ends an upload.  2.31 without a request buffer is one too:
\* its code is in no table, so the handler is told OC_STATUS_OK.
ReceiveChanged(i, m) ==
  /\ \/ m.kind = "changed" /\ m.t \in Listed
     \/ m.kind = "continue" /\ m.t \in Listed /\ creq[m.t] = 0
  /\ ClientGets(i, m, <<>>)
  /\ InvokeClientCb(m.t, IF m.kind = "changed" THEN "changed" ELSE "ok", <<>>)
  /\ ctrans' = ClearMid(ctrans, m.mid)
  /\ UNCHANGED <<bufVars, strans, version, ghosts>>

\* A block of a download that is not the last one: the next one is asked for,
\* also when the block was skipped as a repetition.  Nobody looks at the ETag.
Received(m) == HandleBlock(cres[m.t].data, m.num, <<m.v, m.num>>)
ReceiveContent(i, m) ==
  LET r == Request("block2", m.t, m.num + 1, FALSE)
  IN /\ m.kind = "content" /\ m.t \in Listed /\ Received(m).ok /\ m.more
     /\ MidLeft(ClientMids) /\ ClientGets(i, m, <<r>>)
     /\ cres' = [cres EXCEPT ![m.t] = [data |-> Received(m).data, mid |-> r.mid]]
     /\ ctrans' = ClearMid(ctrans, m.mid) \cup {Transaction(r)}
     /\ UNCHANGED <<client_cb, told, creq, bufVars, strans, version, ghosts>>

\* The last block completes the payload; after a gap the payload is empty.
ReceiveLastContent(i, m) ==
  /\ m.kind = "content" /\ m.t \in Listed /\ ~(Received(m).ok /\ m.more)
  /\ ClientGets(i, m, <<>>)
  /\ InvokeClientCb(m.t, "content", IF Received(m).ok THEN Received(m).data ELSE <<>>)
  /\ ctrans' = ClearMid(ctrans, m.mid)
  /\ UNCHANGED <<bufVars, strans, version, ghosts>>

\* An empty message finds buffers by the message ID of the latest request.
\* A request buffer is freed.  A download goes on after an acknowledgement,
\* and after a reset its handler is told OC_STATUS_OK without a payload.
ClientGetsEmpty(i, m) ==
  LET rejected == {d \in Downloads : m.kind = "rst" /\ cres[d].mid = m.mid}
  IN /\ m.kind \in {"ack", "rst"} /\ ClientGets(i, m, <<>>)
     /\ IF rejected # {}
        THEN \E d \in rejected : InvokeClientCb(d, "ok", <<>>)
        ELSE /\ creq' = [u \in Uploads |-> IF creq[u] = m.mid THEN 0 ELSE creq[u]]
             /\ UNCHANGED <<client_cb, told, cres>>
     /\ ctrans' = ClearMid(ctrans, m.mid)
     /\ UNCHANGED <<bufVars, strans, version, ghosts>>

\* A response whose token nobody knows any more.
ClientIgnores(i, m) ==
  /\ m.kind \in {"continue", "changed", "content"} /\ m.t \notin Listed
  /\ ClientGets(i, m, <<>>)
  /\ ctrans' = ClearMid(ctrans, m.mid)
  /\ UNCHANGED <<client_cb, told, creq, cres, bufVars, strans, version, ghosts>>

-----------------------------------------------------------------------------
(* Timers, and the resource. *)

\* Faulty ClientRetransmits: there is no limit.
ClientRetransmitsOn(c) ==
  /\ ctrans' = (ctrans \ {c}) \cup {[c EXCEPT !.tries = @ + 1]}
  /\ SendToServer(<<c.msg>>)
  /\ UNCHANGED <<client_cb, told, creq, cres, bufVars, strans, toClient, version, ghosts, faults>>

\* coap_check_transactions, while retrans_counter is below its limit.
ClientRetransmits(c) ==
  /\ c.tries < MaxRetransmit
  /\ ctrans' = (ctrans \ {c}) \cup {[c EXCEPT !.tries = @ + 1]}
  /\ SendToServer(<<c.msg>>)
  /\ UNCHANGED <<client_cb, told, creq, cres, bufVars, strans, toClient, version, ghosts, faults>>

ServerRetransmits(c) ==
  /\ c.tries < MaxRetransmit
  /\ strans' = (strans \ {c}) \cup {[c EXCEPT !.tries = @ + 1]}
  /\ SendToClient(<<c.msg>>)
  /\ UNCHANGED <<clientVars, bufVars, toServer, version, ghosts, faults>>

\* The limit: only the first request of a transfer has the callback's mid.
ClientTimesOut(c) ==
  /\ c.tries = MaxRetransmit
  /\ ctrans' = ctrans \ {c}
  /\ IF c.msg.num = 0 /\ c.msg.t \in Listed
     THEN InvokeClientCb(c.msg.t, "unavailable", <<>>) /\ Happens({"abandoned"})
     ELSE UNCHANGED <<client_cb, told, creq, cres, faults>>
  /\ UNCHANGED <<bufVars, strans, toServer, toClient, version, ghosts>>

ServerTimesOut(c) ==
  /\ c.tries = MaxRetransmit
  /\ strans' = strans \ {c}
  /\ UNCHANGED <<clientVars, bufVars, toServer, toClient, version, ghosts, faults>>

\* oc_ri_remove_client_cb after OC_EXCHANGE_LIFETIME: nobody is told.
RemoveClientCb(t) ==
  /\ t \in Listed /\ FreeClientCb(t) /\ Happens({"abandoned"})
  /\ UNCHANGED <<told, ctrans, bufVars, strans, toServer, toClient, version, ghosts>>

\* oc_blockwise_request_timeout and oc_blockwise_response_timeout.  A response
\* buffer of the client outlives its callback's timer, so it never gets there.
BufferExpires ==
  /\ \/ \E u \in Uploads : creq[u] # 0 /\ creq' = [creq EXCEPT ![u] = 0] /\ UNCHANGED bufVars
     \/ sreq # <<>> /\ sreq' = <<>> /\ UNCHANGED <<creq, sres>>
     \/ sres.v # 0 /\ sres' = [v |-> 0, next |-> 0] /\ UNCHANGED <<creq, sreq>>
  /\ Happens({"expired"})
  /\ UNCHANGED <<client_cb, told, cres, ctrans, strans, toServer, toClient, version, ghosts>>

\* The application changes the resource.
Change ==
  /\ version < Len(VersionSize) /\ version' = version + 1
  /\ UNCHANGED <<clientVars, bufVars, strans, toServer, toClient, ghosts, faults>>

Receive ==
  \/ \E i \in DOMAIN toServer : LET m == toServer[i] IN
       \/ ReceivePost(i, m) \/ ReceiveBlock1(i, m) \/ ReceiveLastBlock1(i, m)
       \/ ReceiveGap(i, m) \/ ReceiveGet(i, m) \/ ReceiveBlock2(i, m)
       \/ RefuseBlock2(i, m) \/ ServerGetsAck(i, m)
  \/ \E i \in DOMAIN toClient : LET m == toClient[i] IN
       \/ ReceiveContinue(i, m) \/ ReceiveChanged(i, m) \/ ReceiveContent(i, m)
       \/ ReceiveLastContent(i, m) \/ ClientGetsEmpty(i, m) \/ ClientIgnores(i, m)

Next ==
  \/ \E u \in Uploads : Post(u)
  \/ \E d \in Downloads : Get(d)
  \/ Receive \/ LoseToServer \/ LoseToClient
  \/ \E c \in ctrans : ClientRetransmits(c) \/ ClientTimesOut(c)
  \/ \E c \in strans : ServerRetransmits(c) \/ ServerTimesOut(c)
  \/ \E t \in Transfers : RemoveClientCb(t)
  \/ BufferExpires \/ Change

Spec == Init /\ [][Next]_vars

-----------------------------------------------------------------------------
WholeUpload(u) == [i \in 1..Size[u] |-> <<u, i - 1>>]
WholeVersion(v) == [i \in 1..VersionSize[v] |-> <<v, i - 1>>]

\* Whatever the network, the timers and the application do, a payload that is
\* handed to a handler on either side has every block at its own offset: a
\* repeated block is not copied twice and no gap is skipped
\* (oc_blockwise_handle_block).
InPlace ==
  \A p \in handled \cup {told[d].data : d \in Downloads} :
    \A i \in DOMAIN p : p[i][2] = i - 1

\* Without faults the POST handler is only given payloads that were posted,
\* complete and not mixed, although blocks and answers are lost and repeated
\* and the server's buffer is found by everything but the upload.
UploadWhole == faults = {} => handled \subseteq {WholeUpload(u) : u \in Uploads}

\* The server does not recognise repeated confirmable requests, yet it runs
\* the handler once for an upload of several blocks, as long as datagrams stay
\* in order and stay within their transfer: only the first block creates a
\* buffer, and no copy of it is sent once the second block was.
HandledOnce ==
  faults \subseteq {"abandoned", "expired"} =>
    \A u \in Uploads : Size[u] > 1 => runs[u] <= 1

\* Without faults an answer to an upload means that the handler was given it.
AnswerTrue ==
  faults = {} =>
    \A u \in Uploads : told[u].code # "none" =>
      told[u].code = "changed" /\ WholeUpload(u) \in handled

\* Without faults a download that is answered with content is given blocks of
\* the versions that the GET handler returned to it, and when the handler ran
\* for one version only, that version whole: no repetition of a request or of a
\* block cuts, skips or doubles one.  More cannot be said.  A repeated GET finds
\* the version of the day and nobody compares the ETags (oc_blockwise.c,
\* engine.c): then versions are mixed, or the end of one is missing.  And a
\* repeated request for a block may have the server drop its buffer, after
\* which the download ends with OC_STATUS_OK and no content.
DownloadWhole ==
  faults = {} =>
    \A d \in Downloads : told[d].code = "content" =>
      /\ \A i \in DOMAIN told[d].data : told[d].data[i][1] \in served[d]
      /\ \A v \in Versions : served[d] = {v} => told[d].data = WholeVersion(v)
=============================================================================
