--------------------------- MODULE BlockwiseProofs ---------------------------
(***************************************************************************)
(* Proofs about Blockwise, for any transfers, sizes and versions and any   *)
(* number of message IDs, faults and datagrams under way.  First the types *)
(* and the places of blocks, then what order the messages under way are    *)
(* in, the downloads, and the uploads.                                     *)
(***************************************************************************)
EXTENDS Blockwise, WellFoundedInduction, TLAPS

(* Messages to the server and to the client: the kind of a message tells *)
(* what its token belongs to.                                            *)
Up == {m \in Msg : \/ m.kind \in {"post", "block1"} /\ m.t \in Uploads
                   \/ m.kind \in {"get", "block2"} /\ m.t \in Downloads
                   \/ m.kind = "ack"}
Down == {m \in Msg : \/ m.kind \in {"continue", "changed"} /\ m.t \in Uploads
                     \/ m.kind = "content" /\ m.t \in Downloads /\ m.v \in Versions
                     \/ m.kind \in {"ack", "rst"}}

(* Payloads with every block at its own offset *)
Placed == {p \in Seq(Block) : \A i \in DOMAIN p : p[i][2] = i - 1}

ClientOK ==
  /\ client_cb \in [Transfers -> {"unused", "listed", "freed"}]
  /\ told \in [Transfers -> Answer] /\ \A d \in Downloads : told[d].data \in Placed
  /\ creq \in [Uploads -> ClientMids \cup {0}]
  /\ cres \in [Downloads -> [data : Placed, mid : ClientMids \cup {0}]]

ServerOK ==
  /\ sreq \in Placed /\ sres \in [v : Versions \cup {0}, next : Nat] /\ version \in Versions
  /\ handled \subseteq Placed /\ runs \in [Uploads -> 0..2]
  /\ served \in [Downloads -> SUBSET Versions]

NetOK ==
  /\ ctrans \subseteq [msg : Up, tries : 0..MaxRetransmit]
  /\ strans \subseteq [msg : Down, tries : 0..MaxRetransmit]
  /\ toServer \in Seq(Up) /\ toClient \in Seq(Down) /\ faults \subseteq Fault

(* The inductive invariant *)
IInv == ClientOK /\ ServerOK /\ NetOK

-----------------------------------------------------------------------------
(* A set of natural numbers has a least one. *)
LEMMA MinNat ==
  ASSUME NEW S, S \subseteq Nat, S # {}
  PROVE  Min(S) \in S
<1>1. PICK x \in S : \A y \in S : ~(<<y, x>> \in OpToRel(<, Nat))
  BY WFMin, NatLessThanWellFounded
<1>2. \A y \in S : y < x => <<y, x>> \in OpToRel(<, Nat)
  BY Zenon DEF OpToRel
<1>3. \A y \in S : ~(y < x)
  BY <1>1, <1>2, Zenon
<1>4. \A y \in S : x <= y
  BY <1>3
<1> QED BY <1>4 DEF Min

(* A fresh message ID is one of those it is taken from. *)
LEMMA FreshMidType ==
  ASSUME NEW mids, mids \subseteq Nat, MidLeft(mids)
  PROVE  FreshMid(mids) \in mids
BY MinNat DEF FreshMid, MidLeft

(* Taking a datagram out leaves a sequence of datagrams. *)
LEMMA RemoveAtType ==
  ASSUME NEW S, NEW s \in Seq(S), NEW i \in DOMAIN s
  PROVE  RemoveAt(s, i) \in Seq(S)
<1>1. i \in 1..Len(s)
  OBVIOUS
<1>2. SubSeq(s, 1, i - 1) \in Seq(S) /\ SubSeq(s, i + 1, Len(s)) \in Seq(S)
  BY <1>1
<1> QED BY <1>2 DEF RemoveAt

(* A payload that is assembled block by block has its blocks in place: a *)
(* block is appended only when its number is the length so far.          *)
LEMMA HandleBlockPlaced ==
  ASSUME NEW data \in Placed, NEW num \in Nat, NEW block \in Block, block[2] = num
  PROVE  HandleBlock(data, num, block).data \in Placed
<1>1. CASE num = Len(data)
  <2>1. data \in Seq(Block) /\ \A i \in 1..Len(data) : data[i][2] = i - 1
    BY DEF Placed
  <2>2. /\ Append(data, block) \in Seq(Block) /\ Len(Append(data, block)) = Len(data) + 1
        /\ \A i \in 1..Len(data) : Append(data, block)[i] = data[i]
        /\ Append(data, block)[Len(data) + 1] = block
    BY <2>1
  <2>3. \A i \in 1..(Len(data) + 1) : Append(data, block)[i][2] = i - 1
    BY <1>1, <2>1, <2>2
  <2>4. DOMAIN Append(data, block) = 1..(Len(data) + 1)
    BY <2>1
  <2>5. Append(data, block) \in Placed
    BY <2>2, <2>3, <2>4, Zenon DEF Placed
  <2> QED BY <1>1, <2>5 DEF HandleBlock
<1>2. CASE num # Len(data)
  BY <1>2 DEF HandleBlock
<1> QED BY <1>1, <1>2

(* The empty payload is in place. *)
LEMMA EmptyPlaced == <<>> \in Placed
BY DEF Placed

(* What a message holds. *)
LEMMA MsgFields ==
  ASSUME NEW m \in Msg
  PROVE  /\ m.t \in Transfers \cup {0} /\ m.mid \in ClientMids \cup ServerMids
         /\ m.num \in Nat /\ m.more \in BOOLEAN /\ m.v \in Versions \cup {0}
BY DEF Msg

(* Messages made by Message, with the token that suits their kind. *)
LEMMA MessageUp ==
  ASSUME NEW kind, NEW t, NEW mid \in ClientMids, NEW num \in Nat, NEW more \in BOOLEAN,
         \/ kind \in {"post", "block1"} /\ t \in Uploads
         \/ kind \in {"get", "block2"} /\ t \in Downloads
  PROVE  Message(kind, t, mid, num, more) \in Up
BY DEF Message, Up, Msg, Transfers

(* The same for answers of the server, ... *)
LEMMA MessageDown ==
  ASSUME NEW kind \in {"continue", "changed"}, NEW t \in Uploads,
         NEW mid \in ClientMids \cup ServerMids, NEW num \in Nat, NEW more \in BOOLEAN
  PROVE  Message(kind, t, mid, num, more) \in Down
BY DEF Message, Down, Msg, Transfers

(* ... for blocks of the resource ... *)
LEMMA ContentDown ==
  ASSUME NEW m \in Up, m.t \in Downloads, NEW mid \in ClientMids \cup ServerMids, NEW v \in Versions
  PROVE  Content(m, mid, v) \in Down
<1>1. m.num \in Nat
  BY MsgFields DEF Up
<1>2. (m.num + 1 < VersionSize[v]) \in BOOLEAN
  OBVIOUS
<1> QED BY <1>1, <1>2 DEF Content, Down, Msg, Transfers

(* ... and for empty messages. *)
LEMMA EmptyMessage ==
  ASSUME NEW mid \in ClientMids \cup ServerMids
  PROVE  Ack(mid) \in Up /\ Ack(mid) \in Down /\ Rst(mid) \in Down
BY DEF Ack, Rst, Message, Up, Down, Msg

(* A transaction starts without retransmissions. *)
LEMMA TransactionType ==
  ASSUME NEW S, NEW m \in S
  PROVE  Transaction(m) \in [msg : S, tries : 0..MaxRetransmit]
BY BoundsAssumption DEF Transaction

(* A sequence of one message. *)
LEMMA Single ==
  ASSUME NEW S, NEW x \in S
  PROVE  <<x>> \in Seq(S)
OBVIOUS

(* Sending keeps the datagrams under way what they should be. *)
LEMMA SendType ==
  ASSUME IInv
  PROVE  /\ \A ms \in Seq(Up) : SendToServer(ms) => toServer' \in Seq(Up)
         /\ \A ms \in Seq(Down) : SendToClient(ms) => toClient' \in Seq(Down)
<1>1. toServer \in Seq(Up) /\ toClient \in Seq(Down)
  BY DEF IInv, NetOK
<1>2. ASSUME NEW ms \in Seq(Up), SendToServer(ms)
      PROVE  toServer' \in Seq(Up)
  <2>1. toServer' = toServer \o ms
    BY <1>2 DEF SendToServer
  <2> QED BY <1>1, <2>1
<1>3. ASSUME NEW ms \in Seq(Down), SendToClient(ms)
      PROVE  toClient' \in Seq(Down)
  <2>1. toClient' = toClient \o ms
    BY <1>3 DEF SendToClient
  <2> QED BY <1>1, <2>1
<1> QED BY <1>2, <1>3

(* Faults that are remembered are faults. *)
LEMMA HappensType ==
  ASSUME IInv, NEW fs \in SUBSET Fault, Happens(fs)
  PROVE  faults' \subseteq Fault
BY DEF IInv, NetOK, Happens

(* A datagram the server takes out of the network. *)
LEMMA ServerGetsType ==
  ASSUME IInv, NEW i, NEW m, NEW fs \in SUBSET Fault, ServerGets(i, m, fs)
  PROVE  m \in Up /\ toServer' \in Seq(Up) /\ faults' \subseteq Fault
<1>1. toServer \in Seq(Up)
  BY DEF IInv, NetOK
<1>2. m \in Up /\ toServer' \in Seq(Up)
  BY <1>1, RemoveAtType DEF ServerGets
<1>3. (fs \cup {f \in {"overtaken"} : i > 1} \cup {f \in {"late"} : m.t # 0 /\ m.t \notin Listed})
        \in SUBSET Fault
  BY DEF Fault
<1> QED BY <1>2, <1>3, HappensType DEF ServerGets

(* A datagram the client takes out of the network and the answer to it. *)
LEMMA ClientGetsType ==
  ASSUME IInv, NEW i, NEW m, NEW ms \in Seq(Up), ClientGets(i, m, ms)
  PROVE  m \in Down /\ toClient' \in Seq(Down) /\ toServer' \in Seq(Up) /\ faults' \subseteq Fault
<1>1. toClient \in Seq(Down)
  BY DEF IInv, NetOK
<1>2. m \in Down /\ toClient' \in Seq(Down)
  BY <1>1, RemoveAtType DEF ClientGets
<1>3. Ack(m.mid) \in Up
  BY <1>2, EmptyMessage, MsgFields DEF Down
<1>4. (IF m.mid \in ServerMids THEN <<Ack(m.mid)>> ELSE <<>>) \o ms \in Seq(Up)
  BY <1>3
<1>5. {f \in {"overtaken"} : i > 1} \in SUBSET Fault
  BY DEF Fault
<1> QED BY <1>2, <1>4, <1>5, HappensType, SendType DEF ClientGets

(* What a step leaves alone stays as it should be. *)
LEMMA Frame ==
  ASSUME IInv
  PROVE  /\ UNCHANGED <<client_cb, told, creq, cres>> => ClientOK'
         /\ UNCHANGED <<bufVars, version, ghosts>> => ServerOK'
         /\ ctrans' \subseteq ctrans => ctrans' \subseteq [msg : Up, tries : 0..MaxRetransmit]
         /\ strans' \subseteq strans => strans' \subseteq [msg : Down, tries : 0..MaxRetransmit]
BY DEF IInv, ClientOK, ServerOK, NetOK, bufVars, ghosts

-----------------------------------------------------------------------------
(* Requests of the application. *)
LEMMA PostInv ==
  ASSUME IInv, NEW u \in Uploads, Post(u)
  PROVE  IInv'
<1> DEFINE m == Message(IF Size[u] > 1 THEN "block1" ELSE "post", u,
                        FreshMid(ClientMids), 0, Size[u] > 1)
<1>1. /\ MidLeft(ClientMids)
      /\ client_cb' = [client_cb EXCEPT ![u] = "listed"]
      /\ creq' = [creq EXCEPT ![u] = IF Size[u] > 1 THEN m.mid ELSE 0]
      /\ ctrans' = ctrans \cup {Transaction(m)}
      /\ SendToServer(<<m>>) /\ Happens(Concurrent(Uploads))
      /\ UNCHANGED <<told, cres, bufVars, strans, toClient, version, ghosts>>
  BY DEF Post
<1>2. FreshMid(ClientMids) \in ClientMids
  BY <1>1, FreshMidType, MidsAssumption
<1>3. m \in Up /\ m.mid \in ClientMids
  <2>1. (Size[u] > 1) \in BOOLEAN
    OBVIOUS
  <2> QED BY <1>2, <2>1, MessageUp DEF Message
<1> HIDE DEF m
<1>4. ClientOK'
  BY <1>1, <1>3 DEF IInv, ClientOK, Transfers
<1>5. toServer' \in Seq(Up) /\ faults' \subseteq Fault
  <2>1. Concurrent(Uploads) \in SUBSET Fault
    BY DEF Concurrent, Fault
  <2>2. <<m>> \in Seq(Up)
    BY <1>3
  <2> QED BY <1>1, <2>1, <2>2, SendType, HappensType
<1>6. ctrans' \subseteq [msg : Up, tries : 0..MaxRetransmit]
  BY <1>1, <1>3, TransactionType DEF IInv, NetOK
<1>7. NetOK'
  BY <1>1, <1>5, <1>6 DEF IInv, NetOK
<1> QED BY <1>1, <1>4, <1>7, Frame DEF IInv

(* A GET likewise. *)
LEMMA GetInv ==
  ASSUME IInv, NEW d \in Downloads, Get(d)
  PROVE  IInv'
<1> DEFINE m == Message("get", d, FreshMid(ClientMids), 0, FALSE)
<1>1. /\ MidLeft(ClientMids)
      /\ client_cb' = [client_cb EXCEPT ![d] = "listed"]
      /\ ctrans' = ctrans \cup {Transaction(m)}
      /\ SendToServer(<<m>>) /\ Happens(Concurrent(Downloads))
      /\ UNCHANGED <<told, creq, cres, bufVars, strans, toClient, version, ghosts>>
  BY DEF Get
<1>2. FreshMid(ClientMids) \in ClientMids
  BY <1>1, FreshMidType, MidsAssumption
<1>3. m \in Up
  BY <1>2, MessageUp
<1> HIDE DEF m
<1>4. ClientOK'
  BY <1>1 DEF IInv, ClientOK, Transfers
<1>5. toServer' \in Seq(Up) /\ faults' \subseteq Fault
  <2>1. Concurrent(Downloads) \in SUBSET Fault
    BY DEF Concurrent, Fault
  <2>2. <<m>> \in Seq(Up)
    BY <1>3
  <2> QED BY <1>1, <2>1, <2>2, SendType, HappensType
<1>6. ctrans' \subseteq [msg : Up, tries : 0..MaxRetransmit]
  BY <1>1, <1>3, TransactionType DEF IInv, NetOK
<1>7. NetOK'
  BY <1>1, <1>5, <1>6 DEF IInv, NetOK
<1> QED BY <1>1, <1>4, <1>7, Frame DEF IInv

(* Freeing a client callback, with or without telling its handler. *)
LEMMA FreeClientCbType ==
  ASSUME IInv, NEW t \in Transfers, FreeClientCb(t),
         \/ UNCHANGED told
         \/ \E a \in Answer : a.data \in Placed /\ told' = [told EXCEPT ![t] = a]
  PROVE  ClientOK'
<1>1. ClientOK
  BY DEF IInv
<1>2. client_cb' \in [Transfers -> {"unused", "listed", "freed"}]
  BY <1>1 DEF ClientOK, FreeClientCb
<1>3. creq' \in [Uploads -> ClientMids \cup {0}]
  BY <1>1 DEF ClientOK, FreeClientCb
<1>4. cres' \in [Downloads -> [data : Placed, mid : ClientMids \cup {0}]]
  BY <1>1, EmptyPlaced DEF ClientOK, FreeClientCb, NoResponse
<1>5. told' \in [Transfers -> Answer] /\ \A d \in Downloads : told'[d].data \in Placed
  BY <1>1 DEF ClientOK, Transfers
<1> QED BY <1>2, <1>3, <1>4, <1>5 DEF ClientOK

(* Invoking it with an answer. *)
LEMMA InvokeType ==
  ASSUME IInv, NEW t \in Transfers, NEW code \in {"changed", "content", "ok", "unavailable"},
         NEW data \in Placed, InvokeClientCb(t, code, data)
  PROVE  ClientOK'
<1>1. data \in Seq(Block)
  BY DEF Placed
<1>2. [code |-> code, data |-> data] \in Answer
  BY <1>1 DEF Answer
<1> QED BY <1>2, FreeClientCbType DEF InvokeClientCb

-----------------------------------------------------------------------------
(* The server.  Handling a payload keeps what the server holds in place. *)
LEMMA HandleType ==
  ASSUME IInv, NEW payload \in Placed, NEW u \in Uploads, Handle(payload, u),
         UNCHANGED <<sres, version, served>>
  PROVE  ServerOK'
<1>1. ServerOK
  BY DEF IInv
<1>2. runs[u] + 1 \in Nat
  BY <1>1 DEF ServerOK
<1>3. Min({runs[u] + 1, 2}) \in {runs[u] + 1, 2} /\ Min({runs[u] + 1, 2}) <= 2
  <2> DEFINE S == {runs[u] + 1, 2}
  <2>1. \E x \in S : \A y \in S : x <= y
    BY <1>2
  <2>2. Min(S) \in S /\ \A y \in S : Min(S) <= y
    BY <2>1 DEF Min
  <2> QED BY <2>2
<1>4. Min({runs[u] + 1, 2}) \in 0..2
  BY <1>2, <1>3
<1>5. runs' = [runs EXCEPT ![u] = Min({runs[u] + 1, 2})]
  BY DEF Handle
<1>6. runs' \in [Uploads -> 0..2]
  BY <1>1, <1>4, <1>5 DEF ServerOK
<1>7. handled' \subseteq Placed /\ sreq' \in Placed
  BY <1>1, EmptyPlaced DEF ServerOK, Handle
<1> QED BY <1>1, <1>6, <1>7 DEF ServerOK

(* The token of a request of each kind. *)
LEMMA UpToken ==
  ASSUME NEW m \in Up
  PROVE  /\ m \in Msg /\ m.num \in Nat /\ m.mid \in ClientMids \cup ServerMids /\ m.more \in BOOLEAN
         /\ m.kind \in {"post", "block1"} => m.t \in Uploads
         /\ m.kind \in {"get", "block2"} => m.t \in Downloads
BY MsgFields DEF Up

(* The blocks of an upload, with the one that is received. *)
LEMMA AssembledPlaced ==
  ASSUME IInv, NEW m \in Up, m.kind = "block1"
  PROVE  Assembled(m).data \in Placed
<1>1. <<m.t, m.num>> \in Block /\ <<m.t, m.num>>[2] = m.num /\ m.num \in Nat
  BY UpToken DEF Block
<1>2. sreq \in Placed
  BY DEF IInv, ServerOK
<1> QED BY <1>1, <1>2, HandleBlockPlaced DEF Assembled

(* A request of one block. *)
LEMMA ReceivePostInv ==
  ASSUME IInv, NEW i, NEW m, ReceivePost(i, m)
  PROVE  IInv'
<1>1. /\ m.kind = "post" /\ ServerGets(i, m, {})
      /\ Handle(<< <<m.t, 0>> >>, m.t)
      /\ SendToClient(<<Message("changed", m.t, m.mid, 0, FALSE)>>)
      /\ UNCHANGED <<clientVars, sres, strans, version, served>>
  BY DEF ReceivePost
<1>2. m \in Up /\ toServer' \in Seq(Up) /\ faults' \subseteq Fault
  BY <1>1, ServerGetsType
<1>3. m.t \in Uploads /\ m.mid \in ClientMids \cup ServerMids
  BY <1>1, <1>2, UpToken
<1>4. << <<m.t, 0>> >> \in Placed
  <2>1. <<m.t, 0>> \in Block
    BY <1>3 DEF Block
  <2> QED BY <2>1 DEF Placed
<1>5. ServerOK'
  BY <1>1, <1>3, <1>4, HandleType
<1>6. toClient' \in Seq(Down)
  <2>1. Message("changed", m.t, m.mid, 0, FALSE) \in Down
    BY <1>3, MessageDown
  <2>2. <<Message("changed", m.t, m.mid, 0, FALSE)>> \in Seq(Down)
    BY <2>1, Single, Zenon
  <2> QED BY <1>1, <2>2, SendType
<1>7. ClientOK' /\ NetOK'
  BY <1>1, <1>2, <1>6, Frame DEF clientVars, IInv, NetOK
<1> QED BY <1>5, <1>7 DEF IInv

(* A block of an upload that is not the last one. *)
LEMMA ReceiveBlock1Inv ==
  ASSUME IInv, NEW i, NEW m, ReceiveBlock1(i, m)
  PROVE  IInv'
<1>1. /\ m.kind = "block1" /\ ServerGets(i, m, {}) /\ sreq' = Assembled(m).data
      /\ SendToClient(<<Message("continue", m.t, m.mid, m.num, TRUE)>>)
      /\ UNCHANGED <<clientVars, sres, strans, version, ghosts>>
  BY DEF ReceiveBlock1
<1>2. m \in Up /\ toServer' \in Seq(Up) /\ faults' \subseteq Fault
  BY <1>1, ServerGetsType
<1>3. m.t \in Uploads /\ m.mid \in ClientMids \cup ServerMids /\ m.num \in Nat
  BY <1>1, <1>2, UpToken
<1>4. ServerOK'
  <2>1. sreq' \in Placed
    BY <1>1, <1>2, AssembledPlaced
  <2> QED BY <1>1, <2>1 DEF IInv, ServerOK, ghosts
<1>5. toClient' \in Seq(Down)
  <2>1. Message("continue", m.t, m.mid, m.num, TRUE) \in Down
    BY <1>3, MessageDown
  <2>2. <<Message("continue", m.t, m.mid, m.num, TRUE)>> \in Seq(Down)
    BY <2>1, Single, Zenon
  <2> QED BY <1>1, <2>2, SendType
<1>6. ClientOK' /\ NetOK'
  BY <1>1, <1>2, <1>5, Frame DEF clientVars, IInv, NetOK
<1> QED BY <1>4, <1>6 DEF IInv

(* The last block of an upload. *)
LEMMA ReceiveLastBlock1Inv ==
  ASSUME IInv, NEW i, NEW m, ReceiveLastBlock1(i, m)
  PROVE  IInv'
<1> DEFINE r == Message("changed", m.t, FreshMid(ServerMids), m.num, FALSE)
<1>1. /\ m.kind = "block1" /\ MidLeft(ServerMids) /\ ServerGets(i, m, {})
      /\ Handle(Assembled(m).data, m.t)
      /\ strans' = strans \cup {Transaction(r)}
      /\ SendToClient(<<Ack(m.mid), r>>)
      /\ UNCHANGED <<clientVars, sres, version, served>>
  BY DEF ReceiveLastBlock1
<1>2. m \in Up /\ toServer' \in Seq(Up) /\ faults' \subseteq Fault
  BY <1>1, ServerGetsType
<1>3. m.t \in Uploads /\ m.mid \in ClientMids \cup ServerMids /\ m.num \in Nat
  BY <1>1, <1>2, UpToken
<1>4. r \in Down
  <2>1. FreshMid(ServerMids) \in ServerMids
    BY <1>1, FreshMidType, MidsAssumption
  <2> QED BY <1>3, <2>1, MessageDown
<1> HIDE DEF r
<1>5. ServerOK'
  BY <1>1, <1>2, <1>3, AssembledPlaced, HandleType
<1>6. toClient' \in Seq(Down)
  <2>1. <<Ack(m.mid), r>> \in Seq(Down)
    BY <1>3, <1>4, EmptyMessage
  <2> QED BY <1>1, <2>1, SendType
<1>7. strans' \subseteq [msg : Down, tries : 0..MaxRetransmit]
  BY <1>1, <1>4, TransactionType DEF IInv, NetOK
<1>8. ClientOK' /\ NetOK'
  BY <1>1, <1>2, <1>6, <1>7, Frame DEF clientVars, IInv, NetOK
<1> QED BY <1>5, <1>8 DEF IInv

(* Requests that are refused with RST. *)
LEMMA RefusedInv ==
  ASSUME IInv, NEW i, NEW m, ReceiveGap(i, m) \/ RefuseBlock2(i, m)
  PROVE  IInv'
<1>1. /\ ServerGets(i, m, {}) /\ SendToClient(<<Rst(m.mid)>>)
      /\ \/ sreq' = <<>> /\ UNCHANGED sres
         \/ sres' = [v |-> 0, next |-> 0] /\ UNCHANGED sreq
      /\ UNCHANGED <<clientVars, strans, version, ghosts>>
  BY DEF ReceiveGap, RefuseBlock2
<1>2. m \in Up /\ toServer' \in Seq(Up) /\ faults' \subseteq Fault
  BY <1>1, ServerGetsType
<1>3. toClient' \in Seq(Down)
  <2>1. Rst(m.mid) \in Down
    BY <1>2, UpToken, EmptyMessage
  <2>2. <<Rst(m.mid)>> \in Seq(Down)
    BY <2>1
  <2> QED BY <1>1, <2>2, SendType
<1>4. ServerOK'
  BY <1>1, EmptyPlaced DEF IInv, ServerOK, ghosts
<1>5. ClientOK' /\ NetOK'
  BY <1>1, <1>2, <1>3, Frame DEF clientVars, IInv, NetOK
<1> QED BY <1>4, <1>5 DEF IInv

(* A GET. *)
LEMMA ReceiveGetInv ==
  ASSUME IInv, NEW i, NEW m, ReceiveGet(i, m)
  PROVE  IInv'
<1>1. /\ m.kind = "get" /\ ServerGets(i, m, {})
      /\ served' = [served EXCEPT ![m.t] = @ \cup {version}]
      /\ sres' = IF VersionSize[version] > 1 THEN [v |-> version, next |-> 1]
                 ELSE [v |-> 0, next |-> 0]
      /\ SendToClient(<<Content(m, m.mid, version)>>)
      /\ UNCHANGED <<clientVars, sreq, strans, version, handled, runs>>
  BY DEF ReceiveGet
<1>3. m \in Up /\ toServer' \in Seq(Up) /\ faults' \subseteq Fault
  BY <1>1, ServerGetsType
<1>4. m.t \in Downloads /\ m.mid \in ClientMids \cup ServerMids /\ version \in Versions
  BY <1>1, <1>3, UpToken DEF IInv, ServerOK
<1>5. toClient' \in Seq(Down)
  <2>1. Content(m, m.mid, version) \in Down
    BY <1>3, <1>4, ContentDown
  <2>2. <<Content(m, m.mid, version)>> \in Seq(Down)
    BY <2>1
  <2> QED BY <1>1, <2>2, SendType
<1>6. ServerOK'
  <2>1. sres' \in [v : Versions \cup {0}, next : Nat]
    BY <1>1, <1>4
  <2>2. served' \in [Downloads -> SUBSET Versions]
    BY <1>1, <1>4 DEF IInv, ServerOK
  <2> QED BY <1>1, <2>1, <2>2 DEF IInv, ServerOK
<1>7. ClientOK' /\ NetOK'
  BY <1>1, <1>3, <1>5, Frame DEF clientVars, IInv, NetOK
<1> QED BY <1>6, <1>7 DEF IInv

(* A request for a further block. *)
LEMMA ReceiveBlock2Inv ==
  ASSUME IInv, NEW i, NEW m, ReceiveBlock2(i, m)
  PROVE  IInv'
<1> DEFINE r == Content(m, FreshMid(ServerMids), sres.v)
<1>1. /\ m.kind = "block2" /\ Continues(m) /\ ServerGets(i, m, {})
      /\ sres' = [sres EXCEPT !.next = m.num + 1]
      /\ IF m.num + 1 < VersionSize[sres.v]
         THEN SendToClient(<<Content(m, m.mid, sres.v)>>) /\ UNCHANGED strans
         ELSE /\ MidLeft(ServerMids)
              /\ strans' = strans \cup {Transaction(r)}
              /\ SendToClient(<<Ack(m.mid), r>>)
      /\ UNCHANGED <<clientVars, sreq, version, ghosts>>
  BY DEF ReceiveBlock2
<1>2. m \in Up /\ toServer' \in Seq(Up) /\ faults' \subseteq Fault
  BY <1>1, ServerGetsType
<1>3. /\ m.t \in Downloads /\ m.mid \in ClientMids \cup ServerMids /\ m.num \in Nat
      /\ sres.v \in Versions
  BY <1>1, <1>2, UpToken DEF IInv, ServerOK, Continues
<1>4. toClient' \in Seq(Down) /\ strans' \subseteq [msg : Down, tries : 0..MaxRetransmit]
  <2>1. CASE m.num + 1 < VersionSize[sres.v]
    <3>1. Content(m, m.mid, sres.v) \in Down
      BY <1>2, <1>3, ContentDown
    <3>2. <<Content(m, m.mid, sres.v)>> \in Seq(Down)
      BY <3>1
    <3> QED BY <1>1, <2>1, <3>2, SendType, Frame
  <2>2. CASE ~(m.num + 1 < VersionSize[sres.v])
    <3>1. FreshMid(ServerMids) \in ServerMids
      BY <1>1, <2>2, FreshMidType, MidsAssumption
    <3>2. r \in Down
      BY <1>2, <1>3, <3>1, ContentDown
    <3> HIDE DEF r
    <3>3. <<Ack(m.mid), r>> \in Seq(Down)
      BY <1>3, <3>2, EmptyMessage
    <3>4. strans' = strans \cup {Transaction(r)} /\ SendToClient(<<Ack(m.mid), r>>)
      BY <1>1, <2>2
    <3>5. strans' \subseteq [msg : Down, tries : 0..MaxRetransmit]
      BY <3>2, <3>4, TransactionType DEF IInv, NetOK
    <3> QED BY <3>3, <3>4, <3>5, SendType
  <2> QED BY <2>1, <2>2
<1> HIDE DEF r
<1>5. ServerOK'
  <2>1. sres' \in [v : Versions \cup {0}, next : Nat]
    BY <1>1, <1>3 DEF IInv, ServerOK
  <2> QED BY <1>1, <2>1 DEF IInv, ServerOK, ghosts
<1>6. ClientOK' /\ NetOK'
  BY <1>1, <1>2, <1>4, Frame DEF clientVars, IInv, NetOK
<1> QED BY <1>5, <1>6 DEF IInv

(* An acknowledgement. *)
LEMMA ServerGetsAckInv ==
  ASSUME IInv, NEW i, NEW m, ServerGetsAck(i, m)
  PROVE  IInv'
<1>1. /\ ServerGets(i, m, {}) /\ strans' = ClearMid(strans, m.mid)
      /\ UNCHANGED <<clientVars, bufVars, toClient, version, ghosts>>
  BY DEF ServerGetsAck
<1>2. toServer' \in Seq(Up) /\ faults' \subseteq Fault
  BY <1>1, ServerGetsType
<1>3. strans' \subseteq strans
  BY <1>1 DEF ClearMid
<1>4. ClientOK' /\ ServerOK' /\ NetOK'
  BY <1>1, <1>2, <1>3, Frame DEF clientVars, IInv, NetOK
<1> QED BY <1>4 DEF IInv

-----------------------------------------------------------------------------
(* The client.  The token of a response of each kind. *)
LEMMA DownToken ==
  ASSUME NEW m \in Down
  PROVE  /\ m \in Msg /\ m.num \in Nat /\ m.mid \in ClientMids \cup ServerMids /\ m.more \in BOOLEAN
         /\ m.kind \in {"continue", "changed"} => m.t \in Uploads
         /\ m.kind = "content" => m.t \in Downloads /\ m.v \in Versions
BY MsgFields DEF Down

(* The blocks of a download, with the one that is received. *)
LEMMA ReceivedPlaced ==
  ASSUME IInv, NEW m \in Down, m.kind = "content"
  PROVE  Received(m).data \in Placed
<1>1. <<m.v, m.num>> \in Block /\ <<m.v, m.num>>[2] = m.num /\ m.num \in Nat /\ m.t \in Downloads
  BY DownToken DEF Block
<1>2. cres[m.t].data \in Placed
  BY <1>1 DEF IInv, ClientOK
<1> QED BY <1>1, <1>2, HandleBlockPlaced DEF Received

(* 2.31 Continue. *)
LEMMA ReceiveContinueInv ==
  ASSUME IInv, NEW i, NEW m, ReceiveContinue(i, m)
  PROVE  IInv'
<1> DEFINE r == Request("block1", m.t, m.num + 1, m.num + 2 < Size[m.t])
<1>1. /\ m.kind = "continue" /\ MidLeft(ClientMids)
      /\ ClientGets(i, m, <<r>>)
      /\ creq' = [creq EXCEPT ![m.t] = r.mid]
      /\ ctrans' = ClearMid(ctrans, m.mid) \cup {Transaction(r)}
      /\ UNCHANGED <<client_cb, told, cres, bufVars, strans, version, ghosts>>
  BY DEF ReceiveContinue
<1>2. m \in Down
  BY <1>1 DEF ClientGets, IInv, NetOK
<1>3. m.t \in Uploads /\ m.num + 1 \in Nat
  BY <1>1, <1>2, DownToken
<1>4. r \in Up /\ r.mid \in ClientMids
  <2>1. FreshMid(ClientMids) \in ClientMids
    BY <1>1, FreshMidType, MidsAssumption
  <2>2. (m.num + 2 < Size[m.t]) \in BOOLEAN
    OBVIOUS
  <2> QED BY <1>3, <2>1, <2>2, MessageUp DEF Request, Message
<1> HIDE DEF r
<1>5. toClient' \in Seq(Down) /\ toServer' \in Seq(Up) /\ faults' \subseteq Fault
  BY <1>1, <1>4, Single, ClientGetsType
<1>6. ctrans' \subseteq [msg : Up, tries : 0..MaxRetransmit]
  BY <1>1, <1>4, TransactionType DEF IInv, NetOK, ClearMid
<1>7. ClientOK'
  BY <1>1, <1>3, <1>4 DEF IInv, ClientOK
<1>8. ServerOK' /\ NetOK'
  BY <1>1, <1>5, <1>6, Frame DEF IInv, NetOK
<1> QED BY <1>7, <1>8 DEF IInv

(* The steps in which the client sends nothing but an acknowledgement. *)
LEMMA ClientQuietNet ==
  ASSUME IInv, NEW i, NEW m, ClientGets(i, m, <<>>), ctrans' = ClearMid(ctrans, m.mid),
         UNCHANGED <<bufVars, strans, version, ghosts>>
  PROVE  m \in Down /\ ServerOK' /\ NetOK'
<1>0. <<>> \in Seq(Up)
  OBVIOUS
<1>1. m \in Down /\ toClient' \in Seq(Down) /\ toServer' \in Seq(Up) /\ faults' \subseteq Fault
  BY <1>0, ClientGetsType, Zenon
<1>2. ctrans' \subseteq ctrans
  BY DEF ClearMid
<1> QED BY <1>1, <1>2, Frame DEF IInv, NetOK

(* The answer to an upload. *)
LEMMA ReceiveChangedInv ==
  ASSUME IInv, NEW i, NEW m, ReceiveChanged(i, m)
  PROVE  IInv'
<1> DEFINE code == IF m.kind = "changed" THEN "changed" ELSE "ok"
<1>1. /\ m.t \in Listed /\ ClientGets(i, m, <<>>)
      /\ InvokeClientCb(m.t, code, <<>>)
      /\ ctrans' = ClearMid(ctrans, m.mid)
      /\ UNCHANGED <<bufVars, strans, version, ghosts>>
  BY DEF ReceiveChanged
<1>2. m.t \in Transfers /\ code \in {"changed", "content", "ok", "unavailable"}
  BY <1>1 DEF Listed
<1> HIDE DEF code
<1> QED BY <1>1, <1>2, ClientQuietNet, InvokeType, EmptyPlaced DEF IInv

(* A block of a download that is not the last one. *)
LEMMA ReceiveContentInv ==
  ASSUME IInv, NEW i, NEW m, ReceiveContent(i, m)
  PROVE  IInv'
<1> DEFINE r == Request("block2", m.t, m.num + 1, FALSE)
<1>1. /\ m.kind = "content" /\ MidLeft(ClientMids)
      /\ ClientGets(i, m, <<r>>)
      /\ cres' = [cres EXCEPT ![m.t] = [data |-> Received(m).data, mid |-> r.mid]]
      /\ ctrans' = ClearMid(ctrans, m.mid) \cup {Transaction(r)}
      /\ UNCHANGED <<client_cb, told, creq, bufVars, strans, version, ghosts>>
  BY DEF ReceiveContent
<1>2. m \in Down
  BY <1>1 DEF ClientGets, IInv, NetOK
<1>3. m.t \in Downloads /\ m.num + 1 \in Nat
  BY <1>1, <1>2, DownToken
<1>4. r \in Up /\ r.mid \in ClientMids
  <2>1. FreshMid(ClientMids) \in ClientMids
    BY <1>1, FreshMidType, MidsAssumption
  <2> QED BY <1>3, <2>1, MessageUp DEF Request, Message
<1> HIDE DEF r
<1>5. toClient' \in Seq(Down) /\ toServer' \in Seq(Up) /\ faults' \subseteq Fault
  BY <1>1, <1>4, Single, ClientGetsType
<1>6. ctrans' \subseteq [msg : Up, tries : 0..MaxRetransmit]
  BY <1>1, <1>4, TransactionType DEF IInv, NetOK, ClearMid
<1>7. ClientOK'
  <2>1. Received(m).data \in Placed
    BY <1>1, <1>2, ReceivedPlaced
  <2>2. cres' \in [Downloads -> [data : Placed, mid : ClientMids \cup {0}]]
    BY <1>1, <1>3, <1>4, <2>1 DEF IInv, ClientOK
  <2> QED BY <1>1, <2>2 DEF IInv, ClientOK
<1>8. ServerOK' /\ NetOK'
  BY <1>1, <1>5, <1>6, Frame DEF IInv, NetOK
<1> QED BY <1>7, <1>8 DEF IInv

(* The last one. *)
LEMMA ReceiveLastContentInv ==
  ASSUME IInv, NEW i, NEW m, ReceiveLastContent(i, m)
  PROVE  IInv'
<1> DEFINE data == IF Received(m).ok THEN Received(m).data ELSE <<>>
<1>1. /\ m.kind = "content" /\ m.t \in Listed /\ ClientGets(i, m, <<>>)
      /\ InvokeClientCb(m.t, "content", data)
      /\ ctrans' = ClearMid(ctrans, m.mid)
      /\ UNCHANGED <<bufVars, strans, version, ghosts>>
  BY DEF ReceiveLastContent
<1>2. m.t \in Transfers
  BY <1>1 DEF Listed
<1>3. m \in Down /\ ServerOK' /\ NetOK'
  BY <1>1, ClientQuietNet
<1>4. data \in Placed
  BY <1>1, <1>3, ReceivedPlaced, EmptyPlaced
<1> HIDE DEF data
<1> QED BY <1>1, <1>2, <1>3, <1>4, InvokeType DEF IInv

(* Empty messages. *)
LEMMA ClientGetsEmptyInv ==
  ASSUME IInv, NEW i, NEW m, ClientGetsEmpty(i, m)
  PROVE  IInv'
<1> DEFINE rejected == {d \in Downloads : m.kind = "rst" /\ cres[d].mid = m.mid}
<1>1. /\ ClientGets(i, m, <<>>)
      /\ IF rejected # {}
         THEN \E d \in rejected : InvokeClientCb(d, "ok", <<>>)
         ELSE /\ creq' = [u \in Uploads |-> IF creq[u] = m.mid THEN 0 ELSE creq[u]]
              /\ UNCHANGED <<client_cb, told, cres>>
      /\ ctrans' = ClearMid(ctrans, m.mid)
      /\ UNCHANGED <<bufVars, strans, version, ghosts>>
  BY DEF ClientGetsEmpty
<1>2. m \in Down /\ ServerOK' /\ NetOK'
  BY <1>1, ClientQuietNet
<1>3. \A d \in rejected : d \in Transfers
  BY DEF Transfers
<1> HIDE DEF rejected
<1>4. CASE rejected # {}
  <2>1. PICK d \in rejected : InvokeClientCb(d, "ok", <<>>)
    BY <1>1, <1>4
  <2> QED BY <1>2, <1>3, <2>1, InvokeType, EmptyPlaced DEF IInv
<1>5. CASE rejected = {}
  <2>1. ClientOK'
    BY <1>1, <1>5 DEF IInv, ClientOK
  <2> QED BY <1>2, <2>1 DEF IInv
<1> QED BY <1>4, <1>5

(* A response to nobody. *)
LEMMA ClientIgnoresInv ==
  ASSUME IInv, NEW i, NEW m, ClientIgnores(i, m)
  PROVE  IInv'
<1>1. /\ ClientGets(i, m, <<>>) /\ ctrans' = ClearMid(ctrans, m.mid)
      /\ UNCHANGED <<client_cb, told, creq, cres, bufVars, strans, version, ghosts>>
  BY DEF ClientIgnores
<1>2. ServerOK' /\ NetOK'
  BY <1>1, ClientQuietNet
<1>3. ClientOK'
  BY <1>1, Frame
<1> QED BY <1>2, <1>3 DEF IInv

-----------------------------------------------------------------------------
(* The network and the timers. *)
LEMMA LoseInv ==
  ASSUME IInv, LoseToServer \/ LoseToClient
  PROVE  IInv'
<1>1. toServer \in Seq(Up) /\ toClient \in Seq(Down)
  BY DEF IInv, NetOK
<1>2. /\ UNCHANGED <<clientVars, bufVars, strans, version, ghosts, faults>>
      /\ \/ toServer # <<>> /\ toServer' = Tail(toServer) /\ UNCHANGED toClient
         \/ toClient # <<>> /\ toClient' = Tail(toClient) /\ UNCHANGED toServer
  BY DEF LoseToServer, LoseToClient
<1>3. /\ toServer # <<>> => Tail(toServer) \in Seq(Up)
      /\ toClient # <<>> => Tail(toClient) \in Seq(Down)
  BY <1>1
<1>4. toServer' \in Seq(Up) /\ toClient' \in Seq(Down)
  BY <1>1, <1>2, <1>3, Zenon
<1>5. ClientOK' /\ ServerOK' /\ NetOK'
  BY <1>2, <1>4, Frame DEF clientVars, IInv, NetOK
<1> QED BY <1>5 DEF IInv

(* A retransmission counts one more try. *)
LEMMA OneMoreTry ==
  ASSUME NEW S, NEW c \in [msg : S, tries : 0..MaxRetransmit], c.tries < MaxRetransmit
  PROVE  [c EXCEPT !.tries = @ + 1] \in [msg : S, tries : 0..MaxRetransmit]
<1>1. c.tries + 1 \in 0..MaxRetransmit
  BY BoundsAssumption
<1> QED BY <1>1

(* Retransmissions. *)
LEMMA RetransmitInv ==
  ASSUME IInv, \/ \E c \in ctrans : ClientRetransmits(c)
               \/ \E c \in strans : ServerRetransmits(c)
  PROVE  IInv'
<1>1. ASSUME NEW c \in ctrans, ClientRetransmits(c) PROVE IInv'
  <2>1. /\ c.tries < MaxRetransmit
        /\ ctrans' = (ctrans \ {c}) \cup {[c EXCEPT !.tries = @ + 1]}
        /\ SendToServer(<<c.msg>>)
        /\ UNCHANGED <<client_cb, told, creq, cres, bufVars, strans, toClient,
                       version, ghosts, faults>>
    BY <1>1 DEF ClientRetransmits
  <2>2. c \in [msg : Up, tries : 0..MaxRetransmit] /\ c.msg \in Up
    BY DEF IInv, NetOK
  <2>3. ctrans' \subseteq [msg : Up, tries : 0..MaxRetransmit]
    BY <2>1, <2>2, OneMoreTry DEF IInv, NetOK
  <2>4. toServer' \in Seq(Up)
    BY <2>1, <2>2, Single, SendType
  <2>5. ClientOK' /\ ServerOK' /\ NetOK'
    BY <2>1, <2>3, <2>4, Frame DEF IInv, NetOK
  <2> QED BY <2>5 DEF IInv
<1>2. ASSUME NEW c \in strans, ServerRetransmits(c) PROVE IInv'
  <2>1. /\ c.tries < MaxRetransmit
        /\ strans' = (strans \ {c}) \cup {[c EXCEPT !.tries = @ + 1]}
        /\ SendToClient(<<c.msg>>)
        /\ UNCHANGED <<clientVars, bufVars, toServer, version, ghosts, faults>>
    BY <1>2 DEF ServerRetransmits
  <2>2. c \in [msg : Down, tries : 0..MaxRetransmit] /\ c.msg \in Down
    BY DEF IInv, NetOK
  <2>3. strans' \subseteq [msg : Down, tries : 0..MaxRetransmit]
    BY <2>1, <2>2, OneMoreTry DEF IInv, NetOK
  <2>4. toClient' \in Seq(Down)
    BY <2>1, <2>2, Single, SendType
  <2>5. ClientOK' /\ ServerOK' /\ NetOK'
    BY <2>1, <2>3, <2>4, Frame DEF clientVars, IInv, NetOK
  <2> QED BY <2>5 DEF IInv
<1> QED BY <1>1, <1>2

(* The end of the retransmissions, of a callback and of a buffer. *)
LEMMA TimeoutInv ==
  ASSUME IInv, \/ \E c \in ctrans : ClientTimesOut(c)
               \/ \E c \in strans : ServerTimesOut(c)
               \/ \E t \in Transfers : RemoveClientCb(t)
  PROVE  IInv'
<1>1. ASSUME NEW c \in ctrans, ClientTimesOut(c) PROVE IInv'
  <2>1. /\ ctrans' \subseteq ctrans
        /\ UNCHANGED <<bufVars, strans, toServer, toClient, version, ghosts>>
    BY <1>1 DEF ClientTimesOut
  <2>2. ClientOK' /\ faults' \subseteq Fault
    <3>1. CASE c.msg.num = 0 /\ c.msg.t \in Listed
      <4>1. InvokeClientCb(c.msg.t, "unavailable", <<>>) /\ Happens({"abandoned"})
        BY <1>1, <3>1 DEF ClientTimesOut
      <4>2. c.msg.t \in Transfers /\ {"abandoned"} \in SUBSET Fault
        BY <3>1 DEF Listed, Fault
      <4> QED BY <4>1, <4>2, InvokeType, HappensType, EmptyPlaced
    <3>2. CASE ~(c.msg.num = 0 /\ c.msg.t \in Listed)
      BY <1>1, <3>2, Frame DEF ClientTimesOut, IInv, NetOK
    <3> QED BY <3>1, <3>2
  <2>3. ServerOK' /\ NetOK'
    BY <2>1, <2>2, Frame DEF IInv, NetOK
  <2> QED BY <2>2, <2>3 DEF IInv
<1>2. ASSUME NEW c \in strans, ServerTimesOut(c) PROVE IInv'
  <2>1. /\ strans' \subseteq strans
        /\ UNCHANGED <<clientVars, bufVars, toServer, toClient, version, ghosts, faults>>
    BY <1>2 DEF ServerTimesOut
  <2>2. ClientOK' /\ ServerOK' /\ NetOK'
    BY <2>1, Frame DEF clientVars, IInv, NetOK
  <2> QED BY <2>2 DEF IInv
<1>3. ASSUME NEW t \in Transfers, RemoveClientCb(t) PROVE IInv'
  <2>1. /\ FreeClientCb(t) /\ Happens({"abandoned"})
        /\ UNCHANGED <<told, ctrans, bufVars, strans, toServer, toClient, version, ghosts>>
    BY <1>3 DEF RemoveClientCb
  <2>2. {"abandoned"} \in SUBSET Fault
    BY DEF Fault
  <2>3. ClientOK' /\ ServerOK' /\ NetOK'
    BY <2>1, <2>2, FreeClientCbType, HappensType, Frame DEF IInv, NetOK
  <2> QED BY <2>3 DEF IInv
<1> QED BY <1>1, <1>2, <1>3

(* A buffer that reaches its lifetime. *)
LEMMA BufferExpiresInv ==
  ASSUME IInv, BufferExpires
  PROVE  IInv'
<1>1. /\ Happens({"expired"})
      /\ UNCHANGED <<client_cb, told, cres, ctrans, strans, toServer, toClient, version, ghosts>>
  BY DEF BufferExpires
<1>2. {"expired"} \in SUBSET Fault
  BY DEF Fault
<1>3. NetOK'
  BY <1>1, <1>2, HappensType, Frame DEF IInv, NetOK
<1>4. CASE \E u \in Uploads : creq[u] # 0 /\ creq' = [creq EXCEPT ![u] = 0] /\ UNCHANGED bufVars
  BY <1>1, <1>3, <1>4, Frame DEF IInv, ClientOK
<1>5. CASE sreq' = <<>> /\ UNCHANGED <<creq, sres>>
  BY <1>1, <1>3, <1>5, Frame, EmptyPlaced DEF IInv, ServerOK, ghosts
<1>6. CASE sres' = [v |-> 0, next |-> 0] /\ UNCHANGED <<creq, sreq>>
  BY <1>1, <1>3, <1>6, Frame DEF IInv, ServerOK, ghosts
<1> QED BY <1>4, <1>5, <1>6 DEF BufferExpires

(* The resource changes. *)
LEMMA ChangeInv ==
  ASSUME IInv, Change
  PROVE  IInv'
<1>1. /\ version < Len(VersionSize) /\ version' = version + 1
      /\ UNCHANGED <<clientVars, bufVars, strans, toServer, toClient, ghosts, faults>>
  BY DEF Change
<1>2. version' \in Versions
  BY <1>1, TransfersAssumption DEF IInv, ServerOK, Versions
<1>3. ServerOK'
  BY <1>1, <1>2 DEF IInv, ServerOK, bufVars, ghosts
<1>4. ClientOK' /\ NetOK'
  BY <1>1, Frame DEF clientVars, IInv, NetOK
<1> QED BY <1>3, <1>4 DEF IInv

-----------------------------------------------------------------------------
(* The inductive invariant holds initially ... *)
LEMMA InitInv == Init => IInv
<1> SUFFICES ASSUME Init PROVE IInv
  OBVIOUS
<1>1. ClientOK
  <2>1. NoAnswer \in Answer /\ NoAnswer.data \in Placed
    BY EmptyPlaced DEF NoAnswer, Answer
  <2>2. NoResponse \in [data : Placed, mid : ClientMids \cup {0}]
    BY EmptyPlaced DEF NoResponse
  <2> QED BY <2>1, <2>2 DEF Init, ClientOK, Transfers
<1>2. ServerOK
  <2>1. 1 \in Versions
    BY TransfersAssumption DEF Versions
  <2> QED BY <2>1, EmptyPlaced DEF Init, ServerOK
<1>3. NetOK
  BY DEF Init, NetOK
<1> QED BY <1>1, <1>2, <1>3 DEF IInv

(* ... and is kept by every step. *)
LEMMA StepInv == IInv /\ [Next]_vars => IInv'
<1> SUFFICES ASSUME IInv, [Next]_vars PROVE IInv'
  OBVIOUS
<1>1. CASE UNCHANGED vars
  BY <1>1, Frame DEF vars, clientVars, IInv, NetOK
<1>2. ASSUME NEW u \in Uploads, Post(u) PROVE IInv'
  BY <1>2, PostInv
<1>3. ASSUME NEW d \in Downloads, Get(d) PROVE IInv'
  BY <1>3, GetInv
<1>4. CASE Receive
  BY <1>4, ReceivePostInv, ReceiveBlock1Inv, ReceiveLastBlock1Inv, RefusedInv, ReceiveGetInv,
     ReceiveBlock2Inv, ServerGetsAckInv, ReceiveContinueInv, ReceiveChangedInv, ReceiveContentInv,
     ReceiveLastContentInv, ClientGetsEmptyInv, ClientIgnoresInv DEF Receive
<1>5. CASE LoseToServer \/ LoseToClient
  BY <1>5, LoseInv
<1>6. CASE \/ \E c \in ctrans : ClientRetransmits(c) \/ ClientTimesOut(c)
           \/ \E c \in strans : ServerRetransmits(c) \/ ServerTimesOut(c)
           \/ \E t \in Transfers : RemoveClientCb(t)
  BY <1>6, RetransmitInv, TimeoutInv
<1>7. CASE BufferExpires \/ Change
  BY <1>7, BufferExpiresInv, ChangeInv
<1> QED BY <1>1, <1>2, <1>3, <1>4, <1>5, <1>6, <1>7 DEF Next

(* The inductive invariant holds in every behaviour. *)
LEMMA Invariant == Spec => []IInv
BY InitInv, StepInv, PTL DEF Spec

(* Buffers, transactions and datagrams keep their types, whatever is lost, *)
(* repeated or reordered: no handler gets a message of the wrong kind.     *)
THEOREM TypeCorrect == Spec => []TypeOK
<1>1. ASSUME IInv PROVE TypeOK
  <2>1. Placed \subseteq Seq(Block) /\ Up \subseteq Msg /\ Down \subseteq Msg
    BY DEF Placed, Up, Down
  <2>2. toServer \in Seq(Msg) /\ toClient \in Seq(Msg)
    BY <1>1, <2>1 DEF IInv, NetOK
  <2>3. \A c \in ctrans \cup strans : c.msg \in Msg /\ c.tries \in 0..MaxRetransmit
    BY <1>1, <2>1 DEF IInv, NetOK
  <2>4. cres \in [Downloads -> [data : Seq(Block), mid : ClientMids \cup {0}]]
    BY <1>1, <2>1 DEF IInv, ClientOK
  <2> QED BY <1>1, <2>1, <2>2, <2>3, <2>4 DEF IInv, ClientOK, ServerOK, NetOK, TypeOK
<1> QED BY <1>1, Invariant, PTL

(* A payload that is handed to a handler, on either side, has every block  *)
(* at its own offset, for any sizes and any sequence of faults.            *)
THEOREM BlocksInPlace == Spec => []InPlace
<1>1. IInv => InPlace
  BY DEF IInv, ClientOK, ServerOK, Placed, InPlace
<1> QED BY <1>1, Invariant, PTL

-----------------------------------------------------------------------------
(* Messages that are under way or may be sent again *)
Requests == {c.msg : c \in ctrans}
UpMsgs == ToSet(toServer) \cup Requests
DownMsgs == ToSet(toClient) \cup {c.msg : c \in strans}

OneListed(ts) == \A t, x \in ts : t \in Listed /\ x \in Listed => t = x

(* The client's acknowledgement of a response *)
IsAck(x) == x.kind = "ack" /\ x.t = 0 /\ x.mid \in ServerMids

(* A message of X is never followed by one of Y. *)
Never(s, X, Y) == \A i, j \in DOMAIN s : i < j /\ s[i] \in X => s[j] \notin Y

(* Taking out a message moves those behind it up by one. *)
LEMMA RemoveAtIs ==
  ASSUME NEW S, NEW s \in Seq(S), NEW i \in DOMAIN s
  PROVE  /\ DOMAIN RemoveAt(s, i) = 1..(Len(s) - 1)
         /\ \A k \in 1..(Len(s) - 1) : RemoveAt(s, i)[k] = s[IF k < i THEN k ELSE k + 1]
<1>1. i \in 1..Len(s) /\ Len(s) \in Nat
  OBVIOUS
<1> DEFINE a == SubSeq(s, 1, i - 1)
           b == SubSeq(s, i + 1, Len(s))
<1>2. /\ a \in Seq(S) /\ Len(a) = i - 1 /\ \A k \in 1..(i - 1) : a[k] = s[k]
      /\ b \in Seq(S) /\ Len(b) = Len(s) - i /\ \A k \in 1..(Len(s) - i) : b[k] = s[i + k]
  BY <1>1
<1>3. RemoveAt(s, i) = a \o b
  BY DEF RemoveAt
<1> HIDE DEF a, b
<1>4. DOMAIN (a \o b) = 1..(Len(s) - 1)
  BY <1>1, <1>2
<1>5. ASSUME NEW k \in 1..(Len(s) - 1)
      PROVE  (a \o b)[k] = s[IF k < i THEN k ELSE k + 1]
  <2>1. CASE k < i
    BY <1>1, <1>2, <2>1
  <2>2. CASE ~(k < i)
    <3>1. (a \o b)[k] = b[k - (i - 1)] /\ k - (i - 1) \in 1..(Len(s) - i)
      BY <1>1, <1>2, <2>2
    <3>2. i + (k - (i - 1)) = k + 1
      BY <1>1
    <3> QED BY <1>2, <2>2, <3>1, <3>2
  <2> QED BY <2>1, <2>2
<1> QED BY <1>3, <1>4, <1>5

(* It leaves no others and keeps their order. *)
LEMMA RemoveAtKeeps ==
  ASSUME NEW S, NEW s \in Seq(S), NEW i \in DOMAIN s
  PROVE  /\ ToSet(RemoveAt(s, i)) \subseteq ToSet(s)
         /\ \A X, Y : Never(s, X, Y) => Never(RemoveAt(s, i), X, Y)
<1> DEFINE t == RemoveAt(s, i)
           at(k) == IF k < i THEN k ELSE k + 1
<1>1. /\ DOMAIN t = 1..(Len(s) - 1) /\ DOMAIN s = 1..Len(s) /\ Len(s) \in Nat /\ i \in 1..Len(s)
      /\ \A k \in 1..(Len(s) - 1) : t[k] = s[at(k)]
  BY RemoveAtIs
<1>2. \A k \in DOMAIN t : at(k) \in DOMAIN s /\ t[k] = s[at(k)]
  BY <1>1
<1>3. \A j, k \in DOMAIN t : j < k => at(j) < at(k)
  BY <1>1
<1> HIDE DEF t, at
<1>4. ToSet(t) \subseteq ToSet(s)
  BY <1>2 DEF ToSet
<1>5. ASSUME NEW X, NEW Y, Never(s, X, Y)
      PROVE  Never(t, X, Y)
  BY <1>2, <1>3, <1>5 DEF Never
<1> QED BY <1>4, <1>5 DEF t

(* A message of X in front leaves none of Y. *)
LEMMA FrontRemoved ==
  ASSUME NEW S, NEW s \in Seq(S), NEW X, NEW Y, Never(s, X, Y), 1 \in DOMAIN s, s[1] \in X
  PROVE  ToSet(RemoveAt(s, 1)) \cap Y = {}
<1>1. /\ DOMAIN RemoveAt(s, 1) = 1..(Len(s) - 1) /\ DOMAIN s = 1..Len(s) /\ Len(s) \in Nat
      /\ \A k \in 1..(Len(s) - 1) : RemoveAt(s, 1)[k] = s[k + 1]
  BY RemoveAtIs
<1>2. \A k \in 1..(Len(s) - 1) : k + 1 \in DOMAIN s /\ 1 < k + 1
  BY <1>1
<1>3. \A k \in DOMAIN RemoveAt(s, 1) : RemoveAt(s, 1)[k] \notin Y
  BY <1>1, <1>2 DEF Never
<1> QED BY <1>3 DEF ToSet

(* The oldest message is lost. *)
LEMMA TailKeeps ==
  ASSUME NEW S, NEW s \in Seq(S), s # <<>>
  PROVE  /\ ToSet(Tail(s)) \subseteq ToSet(s)
         /\ \A X, Y : Never(s, X, Y) => Never(Tail(s), X, Y)
<1> DEFINE t == Tail(s)
<1>1. /\ DOMAIN t = 1..(Len(s) - 1) /\ DOMAIN s = 1..Len(s) /\ Len(s) \in Nat
      /\ \A k \in 1..(Len(s) - 1) : t[k] = s[k + 1]
  OBVIOUS
<1>2. \A k \in DOMAIN t : k + 1 \in DOMAIN s /\ t[k] = s[k + 1]
  BY <1>1
<1>3. \A j, k \in DOMAIN t : j < k => j + 1 < k + 1
  BY <1>1
<1> HIDE DEF t
<1>4. ToSet(t) \subseteq ToSet(s)
  BY <1>2 DEF ToSet
<1>5. ASSUME NEW X, NEW Y, Never(s, X, Y)
      PROVE  Never(t, X, Y)
  BY <1>2, <1>3, <1>5 DEF Never
<1> QED BY <1>4, <1>5 DEF t

(* Messages are sent after those under way. *)
LEMMA JoinKeeps ==
  ASSUME NEW S, NEW s \in Seq(S), NEW r \in Seq(S)
  PROVE  /\ ToSet(s \o r) = ToSet(s) \cup ToSet(r)
         /\ \A X, Y : /\ Never(s, X, Y) /\ Never(r, X, Y)
                      /\ ToSet(s) \cap X = {} \/ ToSet(r) \cap Y = {}
                      => Never(s \o r, X, Y)
<1> DEFINE t == s \o r
           n == Len(s)
           k == Len(r)
<1>1. /\ DOMAIN t = 1..(n + k) /\ DOMAIN s = 1..n /\ DOMAIN r = 1..k /\ n \in Nat /\ k \in Nat
      /\ \A i \in 1..n : t[i] = s[i]
      /\ \A i \in 1..(n + k) : i > n => t[i] = r[i - n]
  OBVIOUS
<1>2. \A i \in 1..k : n + i \in 1..(n + k) /\ n + i > n /\ (n + i) - n = i
  BY <1>1
<1>3. \A i \in 1..(n + k) : i > n => i - n \in 1..k
  BY <1>1
<1>4. 1..n \subseteq 1..(n + k) /\ \A i \in 1..(n + k) : i > n \/ i \in 1..n
  BY <1>1
<1>5. \A i, j \in 1..(n + k) : /\ i < j /\ i > n => j > n /\ i - n < j - n
                               /\ i < j /\ j \in 1..n => i \in 1..n
  BY <1>1
<1> HIDE DEF t, n, k
<1>6. \A i \in DOMAIN t : \/ i \in DOMAIN s /\ t[i] = s[i]
                          \/ i > n /\ i - n \in DOMAIN r /\ t[i] = r[i - n]
  BY <1>1, <1>3, <1>4
<1>7. ToSet(t) = ToSet(s) \cup ToSet(r)
  <2>1. ToSet(t) \subseteq ToSet(s) \cup ToSet(r)
    BY <1>6 DEF ToSet
  <2>2. ToSet(s) \subseteq ToSet(t)
    BY <1>1, <1>4 DEF ToSet
  <2>3. \A i \in DOMAIN r : r[i] = t[n + i] /\ n + i \in DOMAIN t
    BY <1>1, <1>2
  <2>4. ToSet(r) \subseteq ToSet(t)
    BY <2>3 DEF ToSet
  <2> QED BY <2>1, <2>2, <2>4
<1>8. ASSUME NEW X, NEW Y, Never(s, X, Y), Never(r, X, Y),
             ToSet(s) \cap X = {} \/ ToSet(r) \cap Y = {}
      PROVE  Never(t, X, Y)
  <2> SUFFICES ASSUME NEW i \in DOMAIN t, NEW j \in DOMAIN t, i < j, t[i] \in X, t[j] \in Y
               PROVE  FALSE
    BY DEF Never
  <2>1. CASE i > n
    <3>1. i - n \in DOMAIN r /\ j - n \in DOMAIN r /\ i - n < j - n
      BY <1>1, <1>3, <1>5, <2>1
    <3>2. t[i] = r[i - n] /\ t[j] = r[j - n]
      BY <1>1, <1>5, <2>1
    <3> QED BY <1>8, <3>1, <3>2 DEF Never
  <2>2. CASE i \in 1..n
    <3>1. t[i] \in ToSet(s) /\ t[i] = s[i]
      BY <1>1, <2>2 DEF ToSet
    <3>2. CASE j \in 1..n
      <4>1. t[j] = s[j] /\ i \in DOMAIN s /\ j \in DOMAIN s
        BY <1>1, <2>2, <3>2
      <4> QED BY <1>8, <3>1, <4>1 DEF Never
    <3>3. CASE j > n
      <4>1. t[j] = r[j - n] /\ j - n \in DOMAIN r
        BY <1>1, <1>3, <3>3
      <4>2. t[j] \in ToSet(r)
        BY <4>1 DEF ToSet
      <4> QED BY <1>8, <3>1, <4>2
    <3> QED BY <1>1, <1>4, <3>2, <3>3
  <2> QED BY <1>1, <1>4, <2>1, <2>2
<1> QED BY <1>7, <1>8 DEF t

(* One message, and none *)
LEMMA OneMessage ==
  /\ \A x : ToSet(<<x>>) = {x} /\ \A X, Y : Never(<<x>>, X, Y)
  /\ ToSet(<<>>) = {} /\ \A X, Y : Never(<<>>, X, Y)
  /\ \A x, y : ToSet(<<x, y>>) = {x, y}
                 /\ \A X, Y : x \notin X \/ y \notin Y => Never(<<x, y>>, X, Y)
<1>1. ASSUME NEW x
      PROVE  ToSet(<<x>>) = {x} /\ \A X, Y : Never(<<x>>, X, Y)
  <2>1. DOMAIN <<x>> = {1} /\ <<x>>[1] = x
    OBVIOUS
  <2>2. \A X, Y : Never(<<x>>, X, Y)
    BY <2>1 DEF Never
  <2> QED BY <2>1, <2>2 DEF ToSet
<1>2. ToSet(<<>>) = {} /\ \A X, Y : Never(<<>>, X, Y)
  <2> DEFINE e == <<>>
  <2>1. DOMAIN e = {}
    OBVIOUS
  <2> HIDE DEF e
  <2>2. ToSet(e) = {} /\ \A X, Y : Never(e, X, Y)
    BY <2>1 DEF ToSet, Never
  <2> QED BY <2>2 DEF e
<1>3. ASSUME NEW x, NEW y
      PROVE  ToSet(<<x, y>>) = {x, y} /\ \A X, Y : x \notin X \/ y \notin Y => Never(<<x, y>>, X, Y)
  <2>1. DOMAIN <<x, y>> = {1, 2} /\ <<x, y>>[1] = x /\ <<x, y>>[2] = y
    OBVIOUS
  <2>2. \A i, j \in {1, 2} : i < j => i = 1 /\ j = 2
    OBVIOUS
  <2>3. \A X, Y : x \notin X \/ y \notin Y => Never(<<x, y>>, X, Y)
    BY <2>1, <2>2 DEF Never
  <2> QED BY <2>1, <2>3 DEF ToSet
<1> QED BY <1>1, <1>2, <1>3

(* A message of those that are under way or may be sent again *)
LEMMA Messages ==
  ASSUME IInv
  PROVE  /\ toServer \in Seq(Up) /\ toClient \in Seq(Down)
         /\ UpMsgs \subseteq Up /\ DownMsgs \subseteq Down /\ Requests \subseteq UpMsgs
<1>1. toServer \in Seq(Up) /\ toClient \in Seq(Down)
  BY DEF IInv, NetOK
<1>2. ToSet(toServer) \subseteq Up /\ ToSet(toClient) \subseteq Down
  BY <1>1 DEF ToSet
<1>3. Requests \subseteq Up /\ {c.msg : c \in strans} \subseteq Down
  BY DEF Requests, IInv, NetOK
<1> QED BY <1>1, <1>2, <1>3 DEF UpMsgs, DownMsgs

(* A fresh message ID is one that no message and no buffer has. *)
LEMMA FreshMidNew ==
  ASSUME IInv, NEW mids, mids \subseteq Nat, MidLeft(mids)
  PROVE  /\ FreshMid(mids) \in mids
         /\ \A m \in UpMsgs \cup DownMsgs : m.mid # FreshMid(mids)
         /\ \A u \in Uploads : creq[u] # FreshMid(mids)
<1>1. FreshMid(mids) \in mids \ MidsKnown
  BY MinNat DEF FreshMid, MidLeft
<1>2. \A m \in UpMsgs \cup DownMsgs : m.mid \in MidsKnown
  BY DEF UpMsgs, DownMsgs, Requests, MidsKnown
<1>3. \A u \in Uploads : creq[u] \in MidsKnown
  <2>1. DOMAIN creq = Uploads
    BY DEF IInv, ClientOK
  <2> QED BY <2>1 DEF MidsKnown, ToSet
<1> QED BY <1>1, <1>2, <1>3

(* What the server's taking a message out of the network means *)
LEMMA ServerTakes ==
  ASSUME IInv, NEW i, NEW m, NEW fs, ServerGets(i, m, fs)
  PROVE  /\ m \in Up /\ m \in UpMsgs /\ i \in DOMAIN toServer /\ m = toServer[i]
         /\ ToSet(toServer') \subseteq ToSet(toServer)
         /\ \A X, Y : Never(toServer, X, Y) => Never(toServer', X, Y)
         /\ faults \subseteq faults' /\ fs \subseteq faults'
         /\ "late" \notin faults' => m.t = 0 \/ m.t \in Listed
         /\ "overtaken" \notin faults' =>
              \A X, Y : Never(toServer, X, Y) /\ m \in X => ToSet(toServer') \cap Y = {}
<1>1. /\ i \in DOMAIN toServer /\ m = toServer[i] /\ toServer' = RemoveAt(toServer, i)
      /\ faults' = faults \cup (fs \cup {f \in {"overtaken"} : i > 1}
                                   \cup {f \in {"late"} : m.t # 0 /\ m.t \notin Listed})
  BY DEF ServerGets, Happens
<1>2. toServer \in Seq(Up)
  BY Messages
<1>3. m \in Up /\ m \in UpMsgs
  BY <1>1, <1>2 DEF UpMsgs, ToSet
<1>4. /\ ToSet(toServer') \subseteq ToSet(toServer)
      /\ \A X, Y : Never(toServer, X, Y) => Never(toServer', X, Y)
  BY <1>1, <1>2, RemoveAtKeeps
<1>5. "overtaken" \notin faults' => i = 1
  <2>1. i \in 1..Len(toServer)
    BY <1>1, <1>2
  <2> QED BY <1>1, <2>1
<1>6. "overtaken" \notin faults' =>
        \A X, Y : Never(toServer, X, Y) /\ m \in X => ToSet(toServer') \cap Y = {}
  BY <1>1, <1>2, <1>5, FrontRemoved
<1> QED BY <1>1, <1>3, <1>4, <1>6

(* What the client's taking one out and answering with ms means *)
LEMMA ClientTakes ==
  ASSUME IInv, NEW i, NEW m, NEW ms \in Seq(Up), ClientGets(i, m, ms)
  PROVE  /\ m \in Down /\ m \in DownMsgs /\ m \in ToSet(toClient)
         /\ ToSet(toClient') \subseteq ToSet(toClient)
         /\ \A X, Y : Never(toClient, X, Y) => Never(toClient', X, Y)
         /\ faults \subseteq faults'
         /\ "overtaken" \notin faults' =>
              \A X, Y : Never(toClient, X, Y) /\ m \in X => ToSet(toClient') \cap Y = {}
         /\ \A x \in ToSet(toServer') :
              x \in ToSet(toServer) \/ x \in ToSet(ms) \/ IsAck(x)
         /\ \A X, Y : /\ Never(toServer, X, Y) /\ Never(ms, X, Y)
                      /\ ToSet(ms) \cap Y = {} /\ \A x \in Y : x.t # 0
                      => Never(toServer', X, Y)
<1> DEFINE a == IF m.mid \in ServerMids THEN <<Ack(m.mid)>> ELSE <<>>
<1>1. /\ i \in DOMAIN toClient /\ m = toClient[i] /\ toClient' = RemoveAt(toClient, i)
      /\ faults' = faults \cup {f \in {"overtaken"} : i > 1}
      /\ toServer' = toServer \o (a \o ms)
  BY DEF ClientGets, Happens, SendToServer
<1>2. toClient \in Seq(Down) /\ toServer \in Seq(Up)
  BY Messages
<1>3. m \in Down /\ m \in DownMsgs /\ m \in ToSet(toClient)
  BY <1>1, <1>2 DEF DownMsgs, ToSet
<1>4. /\ ToSet(toClient') \subseteq ToSet(toClient)
      /\ \A X, Y : Never(toClient, X, Y) => Never(toClient', X, Y)
  BY <1>1, <1>2, RemoveAtKeeps
<1>5. "overtaken" \notin faults' => i = 1
  <2>1. i \in 1..Len(toClient)
    BY <1>1, <1>2
  <2> QED BY <1>1, <2>1
<1>6. "overtaken" \notin faults' =>
        \A X, Y : Never(toClient, X, Y) /\ m \in X => ToSet(toClient') \cap Y = {}
  BY <1>1, <1>2, <1>5, FrontRemoved
<1>7. /\ a \in Seq(Up) /\ \A x \in ToSet(a) : IsAck(x)
      /\ \A X, Y : Never(a, X, Y)
  <2>1. Ack(m.mid) \in Up /\ (m.mid \in ServerMids => IsAck(Ack(m.mid)))
    <3>1. m.mid \in ClientMids \cup ServerMids
      BY <1>3, DownToken
    <3> QED BY <3>1, EmptyMessage DEF Ack, Message, IsAck
  <2>2. CASE m.mid \in ServerMids
    <3>1. a = <<Ack(m.mid)>>
      BY <2>2
    <3>2. ToSet(a) = {Ack(m.mid)} /\ \A X, Y : Never(a, X, Y)
      BY <3>1, OneMessage
    <3>3. a \in Seq(Up)
      BY <2>1, <3>1, Single
    <3> HIDE DEF a
    <3> QED BY <2>1, <2>2, <3>2, <3>3
  <2>3. CASE m.mid \notin ServerMids
    <3>1. a = <<>>
      BY <2>3
    <3>2. ToSet(a) = {} /\ \A X, Y : Never(a, X, Y)
      BY <3>1, OneMessage
    <3>3. a \in Seq(Up)
      BY <3>1
    <3> HIDE DEF a
    <3> QED BY <3>2, <3>3
  <2> QED BY <2>2, <2>3
<1> HIDE DEF a
<1> DEFINE b == a \o ms
<1>8. b \in Seq(Up)
  BY <1>7
<1>9. ToSet(b) = ToSet(a) \cup ToSet(ms)
  BY <1>7, JoinKeeps
<1>10. toServer' = toServer \o b
  BY <1>1
<1>11. ASSUME NEW X, NEW Y, Never(ms, X, Y), ToSet(ms) \cap Y = {}
       PROVE  Never(b, X, Y)
  BY <1>7, <1>11, JoinKeeps
<1> HIDE DEF b
<1>12. ToSet(toServer') = ToSet(toServer) \cup ToSet(b)
  BY <1>2, <1>8, <1>10, JoinKeeps
<1>13. ASSUME NEW X, NEW Y, Never(toServer, X, Y), Never(ms, X, Y), ToSet(ms) \cap Y = {},
              \A x \in Y : x.t # 0
       PROVE  Never(toServer', X, Y)
  <2>1. ToSet(b) \cap Y = {}
    BY <1>7, <1>9, <1>13 DEF IsAck
  <2>2. Never(b, X, Y)
    BY <1>11, <1>13
  <2> QED BY <1>2, <1>8, <1>10, <1>13, <2>1, <2>2, JoinKeeps
<1>14. \A x \in ToSet(toServer') :
         x \in ToSet(toServer) \/ x \in ToSet(ms) \/ IsAck(x)
  BY <1>7, <1>9, <1>12
<1>15. faults \subseteq faults'
  BY <1>1
<1> QED BY <1>3, <1>4, <1>6, <1>13, <1>14, <1>15, Zenon

(* Sending to the client, and to the server *)
LEMMA Sends ==
  ASSUME IInv
  PROVE  /\ \A ms \in Seq(Down) : SendToClient(ms) =>
              /\ ToSet(toClient') = ToSet(toClient) \cup ToSet(ms)
              /\ \A X, Y : /\ Never(toClient, X, Y) /\ Never(ms, X, Y)
                           /\ ToSet(toClient) \cap X = {} \/ ToSet(ms) \cap Y = {}
                           => Never(toClient', X, Y)
         /\ \A ms \in Seq(Up) : SendToServer(ms) =>
              /\ ToSet(toServer') = ToSet(toServer) \cup ToSet(ms)
              /\ \A X, Y : /\ Never(toServer, X, Y) /\ Never(ms, X, Y)
                           /\ ToSet(toServer) \cap X = {} \/ ToSet(ms) \cap Y = {}
                           => Never(toServer', X, Y)
<1>1. toClient \in Seq(Down) /\ toServer \in Seq(Up)
  BY Messages
<1>2. ASSUME NEW ms \in Seq(Down), SendToClient(ms)
      PROVE  /\ ToSet(toClient') = ToSet(toClient) \cup ToSet(ms)
             /\ \A X, Y : /\ Never(toClient, X, Y) /\ Never(ms, X, Y)
                          /\ ToSet(toClient) \cap X = {} \/ ToSet(ms) \cap Y = {}
                          => Never(toClient', X, Y)
  <2>1. toClient' = toClient \o ms
    BY <1>2 DEF SendToClient
  <2> QED BY <1>1, <2>1, JoinKeeps
<1>3. ASSUME NEW ms \in Seq(Up), SendToServer(ms)
      PROVE  /\ ToSet(toServer') = ToSet(toServer) \cup ToSet(ms)
             /\ \A X, Y : /\ Never(toServer, X, Y) /\ Never(ms, X, Y)
                          /\ ToSet(toServer) \cap X = {} \/ ToSet(ms) \cap Y = {}
                          => Never(toServer', X, Y)
  <2>1. toServer' = toServer \o ms
    BY <1>3 DEF SendToServer
  <2> QED BY <1>1, <2>1, JoinKeeps
<1> QED BY <1>2, <1>3

-----------------------------------------------------------------------------
(* Downloads.  The blocks of a download are those of the versions its GET was
   answered with, as long as nothing happens the code does not guard against.
   Requests for further blocks and blocks exist only after that answer, and
   they never leave a gap: a block is asked for once those before it are there. *)
OfVersions(data, vs) ==
  /\ \A i \in DOMAIN data : data[i][1] \in vs
  /\ \A v \in Versions : vs = {v} /\ data # <<>> => Len(data) < VersionSize[v]
AsksOK(m, sv) == /\ m.kind = "block2" => sv[m.t] # {}
                 /\ m.kind = "get" => m.num = 0
ContentOK(m, sv) == m.kind = "content" => /\ sv[m.t] # {} /\ m.num < VersionSize[m.v]
                                          /\ m.more = (m.num + 1 < VersionSize[m.v])
Buffered(d) == served[d] # {} => sres.v = 0 \/ sres.v \in served[d]
Fits(m, cbs, bufs) == cbs[m.t] = "freed" \/ m.num <= Len(bufs[m.t].data)
Fitting ==
  /\ \A m \in UpMsgs : m.kind = "block2" => Fits(m, client_cb, cres)
  /\ \A m \in DownMsgs : m.kind = "content" => Fits(m, client_cb, cres)
  /\ \A d \in Downloads : told[d].code # "none" => client_cb[d] = "freed"
DownInv ==
  /\ Fitting
  /\ \A m \in UpMsgs : AsksOK(m, served)
  /\ \A m \in DownMsgs : ContentOK(m, served)
  /\ \A d \in Downloads : cres[d].data # <<>> => served[d] # {}
  /\ faults = {} =>
       /\ OneListed(Downloads)
       /\ \A m \in DownMsgs : m.kind = "content" => m.v \in served[m.t]
       /\ \A d \in Downloads :
            /\ client_cb[d] = "unused" => served[d] = {}
            /\ d \in Listed => Buffered(d)
            /\ OfVersions(cres[d].data, served[d])
       /\ DownloadWhole

(* Steps that make no request for, and no block of, a download: they may only
   end one or drop the server's buffer.                                     *)
LEMMA DownQuiet ==
  ASSUME IInv, DownInv,
         \A m \in UpMsgs' : m \in UpMsgs \/ m.kind \notin {"get", "block2"},
         \A m \in DownMsgs' : m \in DownMsgs \/ m.kind # "content",
         served' = served, sres'.v \in {sres.v, 0}, faults \subseteq faults',
         \A d \in Downloads : /\ client_cb'[d] = client_cb[d] \/ client_cb'[d] = "freed"
                              /\ \/ cres'[d] = cres[d]
                                 \/ client_cb'[d] = "freed" /\ cres'[d] = NoResponse
                              /\ \/ told'[d] = told[d]
                                 \/ client_cb'[d] = "freed" /\ told'[d].code # "content"
  PROVE  DownInv'
<1>0. Fitting'
  <2>1. /\ \A x \in UpMsgs : x.kind = "block2" => x.t \in Downloads
        /\ \A x \in DownMsgs : x.kind = "content" => x.t \in Downloads
    BY Messages, UpToken, DownToken
  <2>2. /\ \A x \in UpMsgs' : x.kind = "block2" => Fits(x, client_cb', cres')
        /\ \A x \in DownMsgs' : x.kind = "content" => Fits(x, client_cb', cres')
    BY <2>1 DEF DownInv, Fitting, Fits
  <2>3. \A d \in Downloads : told'[d].code # "none" => client_cb'[d] = "freed"
    BY DEF DownInv, Fitting
  <2> QED BY <2>2, <2>3 DEF Fitting
<1>1. \A m \in UpMsgs' : AsksOK(m, served')
  BY DEF DownInv, AsksOK
<1>2. \A m \in DownMsgs' : ContentOK(m, served')
  BY DEF DownInv, ContentOK
<1>3. \A d \in Downloads : cres'[d].data # <<>> => served'[d] # {}
  BY DEF DownInv, NoResponse
<1>4. ASSUME faults' = {}
      PROVE  /\ OneListed(Downloads)'
             /\ \A m \in DownMsgs' : m.kind = "content" => m.v \in served'[m.t]
             /\ \A d \in Downloads :
                  /\ client_cb'[d] = "unused" => served'[d] = {}
                  /\ d \in Listed' => Buffered(d)'
                  /\ OfVersions(cres'[d].data, served'[d])
             /\ DownloadWhole'
  <2>1. /\ faults = {} /\ OneListed(Downloads)
        /\ \A m \in DownMsgs : m.kind = "content" => m.v \in served[m.t]
        /\ \A d \in Downloads :
            /\ client_cb[d] = "unused" => served[d] = {}
            /\ d \in Listed => Buffered(d)
            /\ OfVersions(cres[d].data, served[d])
        /\ DownloadWhole
    BY <1>4 DEF DownInv
  <2>2. \A d \in Downloads : d \in Listed' => d \in Listed
    BY DEF Listed
  <2>3. OneListed(Downloads)'
    BY <2>1, <2>2 DEF OneListed
  <2>4. \A m \in DownMsgs' : m.kind = "content" => m.v \in served'[m.t]
    BY <2>1
  <2>5. \A v : OfVersions(<<>>, v)
    BY DEF OfVersions
  <2>6. ASSUME NEW d \in Downloads
        PROVE  /\ client_cb'[d] = "unused" => served'[d] = {}
               /\ d \in Listed' => Buffered(d)'
               /\ OfVersions(cres'[d].data, served'[d])
    <3>1. client_cb'[d] = "unused" => served'[d] = {}
      BY <2>1
    <3>2. d \in Listed' => Buffered(d)'
      BY <2>1, <2>2 DEF Buffered
    <3>3. OfVersions(cres'[d].data, served'[d])
      BY <2>1, <2>5 DEF NoResponse
    <3> QED BY <3>1, <3>2, <3>3
  <2>7. DownloadWhole'
    BY <2>1, <1>4 DEF DownloadWhole
  <2> QED BY <2>3, <2>4, <2>6, <2>7
<1> QED BY <1>0, <1>1, <1>2, <1>3, <1>4 DEF DownInv

(* Which messages there are when one is sent *)
LEMMA SentUp ==
  ASSUME IInv, NEW r \in Up, SendToServer(<<r>>), ctrans' = ctrans \cup {Transaction(r)},
         UNCHANGED <<strans, toClient>>
  PROVE  UpMsgs' = UpMsgs \cup {r} /\ DownMsgs' = DownMsgs /\ Requests' = Requests \cup {r}
<1>1. Requests' = Requests \cup {r}
  <2>1. Transaction(r).msg = r
    BY DEF Transaction
  <2>2. \A x : x \in Requests' <=> \E c \in ctrans \cup {Transaction(r)} : x = c.msg
    BY DEF Requests
  <2>3. \A x : x \in Requests <=> \E c \in ctrans : x = c.msg
    BY DEF Requests
  <2> QED BY <2>1, <2>2, <2>3, Zenon
<1>2. <<r>> \in Seq(Up)
  BY Single
<1>3. ToSet(<<r>>) = {r}
  BY OneMessage
<1>4. ToSet(toServer') = ToSet(toServer) \cup {r}
  BY <1>2, <1>3, Sends, Zenon
<1> QED BY <1>1, <1>4 DEF UpMsgs, DownMsgs

(* oc_do_get *)
LEMMA GetDown ==
  ASSUME IInv, DownInv, NEW d \in Downloads, Get(d)
  PROVE  DownInv'
<1> DEFINE m == Message("get", d, FreshMid(ClientMids), 0, FALSE)
<1>1. /\ client_cb[d] = "unused" /\ MidLeft(ClientMids)
      /\ client_cb' = [client_cb EXCEPT ![d] = "listed"]
      /\ ctrans' = ctrans \cup {Transaction(m)}
      /\ SendToServer(<<m>>) /\ Happens(Concurrent(Downloads))
      /\ UNCHANGED <<told, creq, cres, bufVars, strans, toClient, version, ghosts>>
  BY DEF Get, MayAlloc
<1>2. m \in Up /\ m.kind = "get" /\ m.num = 0
  <2>1. FreshMid(ClientMids) \in ClientMids
    BY <1>1, FreshMidType, MidsAssumption
  <2> QED BY <2>1, MessageUp DEF Message
<1> HIDE DEF m
<1>3. UpMsgs' = UpMsgs \cup {m} /\ DownMsgs' = DownMsgs
  BY <1>1, <1>2, SentUp
<1>4. served' = served /\ sres' = sres /\ cres' = cres /\ told' = told
  BY <1>1 DEF bufVars, ghosts
<1>5. /\ \A x \in UpMsgs' : AsksOK(x, served')
      /\ \A x \in DownMsgs' : ContentOK(x, served')
      /\ \A x \in Downloads : cres'[x].data # <<>> => served'[x] # {}
  BY <1>2, <1>3, <1>4 DEF DownInv, AsksOK
<1>7. Fitting'
  <2>1. /\ \A x \in UpMsgs : x.kind = "block2" => x.t \in Downloads
        /\ \A x \in DownMsgs : x.kind = "content" => x.t \in Downloads
    BY Messages, UpToken, DownToken
  <2>2. \A x \in Downloads : client_cb[x] = "freed" => client_cb'[x] = "freed"
    BY <1>1 DEF IInv, ClientOK, Transfers
  <2>3. /\ \A x \in UpMsgs' : x.kind = "block2" => Fits(x, client_cb', cres')
        /\ \A x \in DownMsgs' : x.kind = "content" => Fits(x, client_cb', cres')
    BY <1>2, <1>3, <1>4, <2>1, <2>2 DEF DownInv, Fitting, Fits
  <2> QED BY <1>4, <2>2, <2>3 DEF DownInv, Fitting
<1>6. ASSUME faults' = {}
      PROVE  /\ OneListed(Downloads)'
             /\ \A x \in DownMsgs' : x.kind = "content" => x.v \in served'[x.t]
             /\ \A x \in Downloads :
                  /\ client_cb'[x] = "unused" => served'[x] = {}
                  /\ x \in Listed' => Buffered(x)'
                  /\ OfVersions(cres'[x].data, served'[x])
             /\ DownloadWhole'
  <2>1. faults = {} /\ Listed \cap Downloads = {}
    BY <1>1, <1>6 DEF Happens, Concurrent
  <2>2. \A x \in Downloads : /\ x # d => client_cb'[x] = client_cb[x]
                             /\ client_cb'[d] = "listed"
    BY <1>1 DEF IInv, ClientOK, Transfers
  <2>3. \A x \in Downloads : x \in Listed' => x = d
    BY <2>1, <2>2 DEF Listed
  <2>4. OneListed(Downloads)'
    BY <2>3 DEF OneListed
  <2>5. served[d] = {}
    BY <1>1, <2>1 DEF DownInv
  <2>6. \A x \in Downloads : x \in Listed' => Buffered(x)'
    BY <1>4, <2>3, <2>5 DEF Buffered
  <2>7. DownloadWhole'
    BY <1>4, <2>1 DEF DownInv, DownloadWhole
  <2> QED BY <1>3, <1>4, <2>1, <2>2, <2>4, <2>6, <2>7 DEF DownInv
<1> QED BY <1>5, <1>6, <1>7 DEF DownInv

(* The message that ServerGets takes, and the answers to it *)
LEMMA ServerAnswers ==
  ASSUME IInv, NEW i, NEW m, NEW fs, ServerGets(i, m, fs), NEW ms \in Seq(Down),
         SendToClient(ms), UNCHANGED clientVars
  PROVE  /\ m \in Up /\ m \in UpMsgs /\ UpMsgs' \subseteq UpMsgs /\ Requests' = Requests
         /\ \A x \in DownMsgs' : \/ x \in DownMsgs \/ x \in ToSet(ms)
                                 \/ \E c \in strans' : c \notin strans /\ x = c.msg
<1>1. /\ m \in Up /\ m \in UpMsgs /\ ToSet(toServer') \subseteq ToSet(toServer)
  BY ServerTakes
<1>2. ToSet(toClient') = ToSet(toClient) \cup ToSet(ms)
  BY Sends, Zenon
<1>3. Requests' = Requests
  BY DEF Requests, clientVars
<1> QED BY <1>1, <1>2, <1>3 DEF UpMsgs, DownMsgs

(* A GET is answered from a new buffer. *)
LEMMA ReceiveGetDown ==
  ASSUME IInv, DownInv, NEW i, NEW m, ReceiveGet(i, m)
  PROVE  DownInv'
<1> DEFINE r == Content(m, m.mid, version)
<1>1. /\ m.kind = "get" /\ ServerGets(i, m, {})
      /\ served' = [served EXCEPT ![m.t] = @ \cup {version}]
      /\ sres' = IF VersionSize[version] > 1 THEN [v |-> version, next |-> 1]
                 ELSE [v |-> 0, next |-> 0]
      /\ SendToClient(<<r>>)
      /\ UNCHANGED <<clientVars, sreq, strans, version, handled, runs>>
  BY DEF ReceiveGet
<1>2. m \in Up /\ m \in UpMsgs /\ faults \subseteq faults'
  BY <1>1, ServerTakes
<1>3. /\ m.t \in Downloads /\ m.mid \in ClientMids \cup ServerMids /\ version \in Versions
      /\ version # 0 /\ m.num = 0 /\ served \in [Downloads -> SUBSET Versions]
  BY <1>1, <1>2, UpToken DEF IInv, ServerOK, DownInv, AsksOK, Versions
<1>4. /\ r \in Down /\ r.kind = "content" /\ r.t = m.t /\ r.v = version
      /\ r.num = m.num /\ r.more = (m.num + 1 < VersionSize[version])
  BY <1>2, <1>3, ContentDown DEF Content
<1>5. VersionSize[version] \in Nat \ {0}
  BY <1>3, TransfersAssumption DEF Versions
<1>6. "late" \notin faults' => m.t \in Listed
  <2>1. m.t # 0
    BY <1>3, TransfersAssumption
  <2>2. "late" \notin faults' => m.t = 0 \/ m.t \in Listed
    BY <1>1, ServerTakes
  <2> QED BY <2>1, <2>2
<1> HIDE DEF r
<1>7. /\ UpMsgs' \subseteq UpMsgs /\ \A x \in DownMsgs' : x \in DownMsgs \/ x = r
  <2>1. <<r>> \in Seq(Down) /\ ToSet(<<r>>) = {r}
    BY <1>4, Single, OneMessage
  <2> QED BY <1>1, <2>1, ServerAnswers
<1>8. /\ \A d \in Downloads : served[d] \subseteq served'[d]
      /\ served'[m.t] = served[m.t] \cup {version}
      /\ \A d \in Downloads : d # m.t => served'[d] = served[d]
  BY <1>1, <1>3
<1>9. \A x \in UpMsgs' : AsksOK(x, served')
  <2>1. \A x \in UpMsgs : x.kind = "block2" => x.t \in Downloads
    BY Messages, UpToken
  <2> QED BY <1>7, <1>8, <2>1 DEF DownInv, AsksOK
<1>10. \A x \in DownMsgs' : ContentOK(x, served')
  <2>1. \A x \in DownMsgs : x.kind = "content" => x.t \in Downloads
    BY Messages, DownToken
  <2>2. \A x \in DownMsgs : ContentOK(x, served')
    BY <1>8, <2>1 DEF DownInv, ContentOK
  <2>3. ContentOK(r, served')
    BY <1>3, <1>4, <1>5, <1>8 DEF ContentOK
  <2> QED BY <1>7, <2>2, <2>3
<1>11. \A d \in Downloads : cres'[d].data # <<>> => served'[d] # {}
  BY <1>1, <1>8 DEF DownInv, clientVars
<1>12. ASSUME faults' = {}
       PROVE  /\ OneListed(Downloads)'
              /\ \A x \in DownMsgs' : x.kind = "content" => x.v \in served'[x.t]
              /\ \A x \in Downloads :
                   /\ client_cb'[x] = "unused" => served'[x] = {}
                   /\ x \in Listed' => Buffered(x)'
                   /\ OfVersions(cres'[x].data, served'[x])
              /\ DownloadWhole'
  <2>1. faults = {} /\ m.t \in Listed
    BY <1>2, <1>6, <1>12
  <2>2. Listed' = Listed /\ client_cb' = client_cb /\ cres' = cres /\ told' = told
    BY <1>1 DEF clientVars, Listed
  <2>3. OneListed(Downloads)'
    BY <2>1, <2>2 DEF DownInv, OneListed
  <2>4. \A x \in Downloads : x \in Listed' => x = m.t
    BY <1>3, <2>1, <2>2 DEF DownInv, OneListed
  <2>5. Buffered(m.t)'
    BY <1>1, <1>8 DEF Buffered
  <2>6. \A x \in DownMsgs' : x.kind = "content" => x.v \in served'[x.t]
    <3>1. \A x \in DownMsgs : x.kind = "content" => x.t \in Downloads /\ x.v \in served[x.t]
      BY <2>1, Messages, DownToken DEF DownInv
    <3>2. \A x \in DownMsgs : x.kind = "content" => x.v \in served'[x.t]
      BY <1>8, <3>1
    <3> QED BY <1>4, <1>7, <1>8, <3>2
  <2>7. client_cb[m.t] # "unused"
    BY <2>1 DEF Listed
  <2>8. \A x \in Downloads : client_cb'[x] = "unused" => served'[x] = {}
    BY <1>8, <2>1, <2>2, <2>7 DEF DownInv
  <2>9. \A x \in Downloads : OfVersions(cres'[x].data, served'[x])
    <3>1. \A x \in Downloads : OfVersions(cres[x].data, served[x])
                                   /\ (cres[x].data # <<>> => served[x] # {})
      BY <2>1 DEF DownInv
    <3>2. \A v : OfVersions(<<>>, v)
      BY DEF OfVersions
    <3>3. \A x \in Downloads : cres[x].data # <<>> => OfVersions(cres[x].data, served'[x])
      <4>1. \A x \in Downloads : \A v :
              served[x] # {} /\ served'[x] = {v} => served[x] = {v}
        BY <1>8
      <4> QED BY <1>8, <3>1, <4>1 DEF OfVersions
    <3> QED BY <2>2, <3>2, <3>3
  <2>10. DownloadWhole'
    <3>1. told[m.t].code # "content"
      BY <1>3, <2>1 DEF DownInv, Fitting, Listed
    <3> QED BY <1>8, <1>12, <2>1, <2>2, <3>1 DEF DownInv, DownloadWhole
  <2> QED BY <2>3, <2>4, <2>5, <2>6, <2>8, <2>9, <2>10
<1>13. Fitting'
  <2>1. client_cb' = client_cb /\ cres' = cres /\ told' = told
    BY <1>1 DEF clientVars
  <2>2. Fits(r, client_cb, cres)
    <3>1. Len(cres[m.t].data) \in Nat
      BY <1>3 DEF IInv, ClientOK, Placed
    <3> QED BY <1>3, <1>4, <3>1 DEF Fits
  <2>3. /\ \A x \in UpMsgs' : x.kind = "block2" => Fits(x, client_cb, cres)
        /\ \A x \in DownMsgs' : x.kind = "content" => Fits(x, client_cb, cres)
    BY <1>7, <2>2 DEF DownInv, Fitting
  <2> QED BY <2>1, <2>3 DEF DownInv, Fitting
<1> QED BY <1>9, <1>10, <1>11, <1>12, <1>13 DEF DownInv

(* A further block is answered from the buffer. *)
LEMMA ReceiveBlock2Down ==
  ASSUME IInv, DownInv, NEW i, NEW m, ReceiveBlock2(i, m)
  PROVE  DownInv'
<1>1. /\ m.kind = "block2" /\ Continues(m) /\ ServerGets(i, m, {})
      /\ sres' = [sres EXCEPT !.next = m.num + 1]
      /\ UNCHANGED <<clientVars, sreq, version, ghosts>>
  BY DEF ReceiveBlock2
<1>2. m \in Up /\ m \in UpMsgs /\ faults \subseteq faults'
  BY <1>1, ServerTakes
<1>3. /\ m.t \in Downloads /\ m.mid \in ClientMids \cup ServerMids /\ m.num \in Nat
      /\ sres.v \in Versions /\ sres.v # 0 /\ m.num < VersionSize[sres.v]
  BY <1>1, <1>2, UpToken DEF IInv, ServerOK, Continues
<1>4. served[m.t] # {} /\ Fits(m, client_cb, cres)
  BY <1>1, <1>2 DEF DownInv, AsksOK, Fitting
<1>5. PICK r \in Down :
        /\ r.kind = "content" /\ r.t = m.t /\ r.v = sres.v /\ r.num = m.num
        /\ r.more = (m.num + 1 < VersionSize[sres.v])
        /\ UpMsgs' \subseteq UpMsgs
        /\ \A x \in DownMsgs' : x \in DownMsgs \/ x = r \/ x.kind = "ack"
  <2>1. ASSUME NEW mid \in ClientMids \cup ServerMids
        PROVE  LET r == Content(m, mid, sres.v)
               IN  /\ r \in Down /\ r.kind = "content" /\ r.t = m.t /\ r.v = sres.v
                   /\ r.num = m.num /\ r.more = (m.num + 1 < VersionSize[sres.v])
    BY <1>2, <1>3, ContentDown DEF Content
  <2>2. CASE m.num + 1 < VersionSize[sres.v]
    <3> DEFINE r == Content(m, m.mid, sres.v)
    <3>1. SendToClient(<<r>>) /\ UNCHANGED strans
      BY <2>2 DEF ReceiveBlock2
    <3>2. r \in Down
      BY <1>3, <2>1
    <3> HIDE DEF r
    <3>3. <<r>> \in Seq(Down) /\ ToSet(<<r>>) = {r}
      BY <3>2, Single, OneMessage
    <3>4. UpMsgs' \subseteq UpMsgs /\ \A x \in DownMsgs' : x \in DownMsgs \/ x = r
      BY <1>1, <3>1, <3>3, ServerAnswers
    <3> QED BY <1>3, <2>1, <3>4 DEF r
  <2>3. CASE ~(m.num + 1 < VersionSize[sres.v])
    <3> DEFINE r == Content(m, FreshMid(ServerMids), sres.v)
    <3>1. /\ MidLeft(ServerMids) /\ strans' = strans \cup {Transaction(r)}
          /\ SendToClient(<<Ack(m.mid), r>>)
      BY <2>3 DEF ReceiveBlock2
    <3>2. FreshMid(ServerMids) \in ServerMids
      BY <3>1, FreshMidType, MidsAssumption
    <3>3. r \in Down
      BY <2>1, <3>2
    <3> HIDE DEF r
    <3>4. <<Ack(m.mid), r>> \in Seq(Down) /\ Ack(m.mid).kind = "ack"
      BY <1>3, <3>3, EmptyMessage DEF Ack, Message
    <3>5. ToSet(<<Ack(m.mid), r>>) = {Ack(m.mid), r}
      BY OneMessage
    <3>6. \A c \in strans' : c \in strans \/ c.msg = r
      BY <3>1 DEF Transaction
    <3>7. UpMsgs' \subseteq UpMsgs /\ \A x \in DownMsgs' : x \in DownMsgs \/ x = r \/ x.kind = "ack"
      BY <1>1, <3>1, <3>4, <3>5, <3>6, ServerAnswers
    <3> QED BY <3>2, <2>1, <3>7 DEF r
  <2> QED BY <2>2, <2>3
<1>6. served' = served /\ cres' = cres /\ told' = told /\ client_cb' = client_cb /\ Listed' = Listed
  BY <1>1 DEF clientVars, ghosts, Listed
<1>7. VersionSize[sres.v] \in Nat
  BY <1>3, TransfersAssumption DEF Versions
<1>8. /\ \A x \in UpMsgs' : AsksOK(x, served')
      /\ \A x \in DownMsgs' : ContentOK(x, served')
      /\ \A x \in Downloads : cres'[x].data # <<>> => served'[x] # {}
  <2>1. ContentOK(r, served)
    BY <1>3, <1>4, <1>5 DEF ContentOK
  <2>2. \A x : x.kind = "ack" => ContentOK(x, served)
    BY DEF ContentOK
  <2> QED BY <1>5, <1>6, <2>1, <2>2 DEF DownInv
<1>9. ASSUME faults' = {}
      PROVE  /\ OneListed(Downloads)'
             /\ \A x \in DownMsgs' : x.kind = "content" => x.v \in served'[x.t]
             /\ \A x \in Downloads :
                  /\ client_cb'[x] = "unused" => served'[x] = {}
                  /\ x \in Listed' => Buffered(x)'
                  /\ OfVersions(cres'[x].data, served'[x])
             /\ DownloadWhole'
  <2>1. faults = {}
    BY <1>2, <1>9
  <2>2. m.t \in Listed
    <3>1. m.t # 0
      BY <1>3, TransfersAssumption
    <3> QED BY <1>1, <1>9, <3>1, ServerTakes
  <2>3. sres.v \in served[m.t]
    BY <1>3, <1>4, <2>1, <2>2 DEF DownInv, Buffered
  <2>4. sres'.v = sres.v
    BY <1>1, <1>3 DEF IInv, ServerOK
  <2>5. \A x \in Downloads : x \in Listed' => Buffered(x)'
    BY <1>6, <2>1, <2>4 DEF DownInv, Buffered
  <2>6. \A x \in DownMsgs' : x.kind = "content" => x.v \in served'[x.t]
    BY <1>5, <1>6, <2>1, <2>3 DEF DownInv
  <2>7. DownloadWhole' /\ OneListed(Downloads)'
    BY <1>6, <1>9, <2>1 DEF DownInv, DownloadWhole, OneListed
  <2> QED BY <1>6, <2>1, <2>5, <2>6, <2>7 DEF DownInv
<1>10. Fitting'
  <2>1. Fits(r, client_cb, cres)
    BY <1>4, <1>5 DEF Fits
  <2>2. /\ \A x \in UpMsgs' : x.kind = "block2" => Fits(x, client_cb, cres)
        /\ \A x \in DownMsgs' : x.kind = "content" => Fits(x, client_cb, cres)
    BY <1>5, <2>1 DEF DownInv, Fitting
  <2> QED BY <1>6, <2>2 DEF DownInv, Fitting
<1> QED BY <1>8, <1>9, <1>10 DEF DownInv

(* Which messages there are when the client takes one and answers with ms *)
LEMMA ClientAnswers ==
  ASSUME IInv, NEW i, NEW m, NEW ms \in Seq(Up), ClientGets(i, m, ms), UNCHANGED strans,
         \A c \in ctrans' : (c \in ctrans /\ c.msg.mid # m.mid) \/ c.msg \in ToSet(ms)
  PROVE  /\ m \in Down /\ m \in DownMsgs /\ DownMsgs' \subseteq DownMsgs
         /\ faults \subseteq faults'
         /\ \A x \in UpMsgs' : x \in UpMsgs \/ x \in ToSet(ms) \/ IsAck(x)
         /\ \A x \in Requests' : (x \in Requests /\ x.mid # m.mid) \/ x \in ToSet(ms)
<1>1. /\ m \in Down /\ m \in DownMsgs /\ ToSet(toClient') \subseteq ToSet(toClient)
      /\ faults \subseteq faults'
      /\ \A x \in ToSet(toServer') :
           x \in ToSet(toServer) \/ x \in ToSet(ms) \/ IsAck(x)
  BY ClientTakes
<1>2. \A x \in Requests' : (x \in Requests /\ x.mid # m.mid) \/ x \in ToSet(ms)
  BY DEF Requests
<1> QED BY <1>1, <1>2 DEF UpMsgs, DownMsgs

(* Blocks of v at their offsets, and the next one *)
LEMMA NextBlock ==
  ASSUME NEW data \in Seq(Block), NEW v, <<v, Len(data)>> \in Block,
         \A i \in DOMAIN data : data[i][1] = v /\ data[i][2] = i - 1
  PROVE  LET new == Append(data, <<v, Len(data)>>)
         IN  /\ Len(new) = Len(data) + 1 /\ new # <<>>
             /\ \A i \in DOMAIN new : new[i][1] = v
             /\ new = [i \in 1..(Len(data) + 1) |-> <<v, i - 1>>]
<1> DEFINE n == Len(data)
           b == <<v, n>>
           new == Append(data, b)
<1>1. \A x \in Block : x = <<x[1], x[2]>>
  BY DEF Block
<1>2. /\ n \in Nat /\ DOMAIN data = 1..n /\ \A i \in 1..n : data[i] \in Block
  OBVIOUS
<1>3. \A i \in 1..n : data[i] = <<v, i - 1>>
  BY <1>1, <1>2
<1>4. b \in Block
  OBVIOUS
<1> HIDE DEF b
<1>5. /\ new = [i \in 1..(n + 1) |-> IF i <= n THEN data[i] ELSE b]
      /\ Len(new) = n + 1 /\ DOMAIN new = 1..(n + 1) /\ new # <<>>
  <2>1. /\ new \in Seq(Block) /\ Len(new) = n + 1 /\ \A i \in 1..n : new[i] = data[i]
        /\ new[n + 1] = b
    BY <1>2, <1>4
  <2>2. DOMAIN new = 1..(n + 1) /\ new # <<>>
    BY <1>2, <2>1
  <2>3. \A i \in 1..(n + 1) : new[i] = IF i <= n THEN data[i] ELSE b
    BY <1>2, <2>1
  <2> HIDE DEF new
  <2>4. new \in [1..(n + 1) -> Block]
    <3>1. new \in [1..Len(new) -> Block]
      BY <2>1
    <3> QED BY <2>1, <3>1
  <2>5. new = [i \in 1..(n + 1) |-> new[i]]
    BY <2>4, Zenon
  <2> QED BY <2>1, <2>2, <2>3, <2>5, Zenon
<1>6. \A i \in 1..(n + 1) : (IF i <= n THEN data[i] ELSE b) = <<v, i - 1>>
  <2> SUFFICES ASSUME NEW i \in 1..(n + 1)
               PROVE  (IF i <= n THEN data[i] ELSE b) = <<v, i - 1>>
    OBVIOUS
  <2>1. CASE i <= n
    <3>1. i \in 1..n
      BY <1>2, <2>1
    <3> QED BY <1>3, <2>1, <3>1
  <2>2. CASE ~(i <= n)
    <3>1. i - 1 = n
      BY <1>2, <2>2
    <3> QED BY <2>2, <3>1 DEF b
  <2> QED BY <2>1, <2>2
<1> DEFINE w == [i \in 1..(n + 1) |-> <<v, i - 1>>]
<1>7. new = w
  BY <1>5, <1>6, Zenon
<1>8. \A i \in 1..(n + 1) : w[i][1] = v
  OBVIOUS
<1> HIDE DEF new, w
<1>9. /\ Len(new) = n + 1 /\ new # <<>> /\ new = w /\ \A i \in DOMAIN new : new[i][1] = v
  BY <1>5, <1>7, <1>8
<1> QED BY <1>9 DEF new, w, b

(* Blocks of one version, one more at the end *)
LEMMA OneMoreBlock ==
  ASSUME NEW data \in Placed, NEW v \in Versions, NEW num \in Nat, OfVersions(data, {v}),
         num <= Len(data), num < VersionSize[v]
  PROVE  /\ num + 1 < VersionSize[v] => OfVersions(HandleBlock(data, num, <<v, num>>).data, {v})
         /\ num + 1 = VersionSize[v] =>
              HandleBlock(data, num, <<v, num>>).data = WholeVersion(v)
<1>1. /\ data \in Seq(Block) /\ \A i \in DOMAIN data : data[i][1] = v /\ data[i][2] = i - 1
      /\ data # <<>> => Len(data) < VersionSize[v]
  BY DEF Placed, OfVersions
<1>2. /\ <<v, num>> \in Block /\ VersionSize[v] \in Nat \ {0} /\ v # 0
  BY TransfersAssumption DEF Block, Versions
<1>3. Len(data) < VersionSize[v] /\ Len(data) \in Nat
  <2>1. data = <<>> => Len(data) = 0
    BY <1>1
  <2> QED BY <1>1, <1>2, <2>1
<1>4. CASE num = Len(data)
  <2> DEFINE new == Append(data, <<v, num>>)
  <2>1. HandleBlock(data, num, <<v, num>>).data = new
    BY <1>4 DEF HandleBlock
  <2>2. /\ Len(new) = num + 1 /\ new # <<>> /\ \A i \in DOMAIN new : new[i][1] = v
        /\ new = [i \in 1..(num + 1) |-> <<v, i - 1>>]
    BY <1>1, <1>2, <1>4, NextBlock
  <2> HIDE DEF new
  <2>3. num + 1 < VersionSize[v] => OfVersions(new, {v})
    BY <1>2, <2>2 DEF OfVersions
  <2>4. num + 1 = VersionSize[v] => new = WholeVersion(v)
    BY <2>2 DEF WholeVersion
  <2> QED BY <2>1, <2>3, <2>4
<1>5. CASE num < Len(data)
  <2>1. HandleBlock(data, num, <<v, num>>).data = data
    BY <1>3, <1>5 DEF HandleBlock
  <2>2. num + 1 # VersionSize[v]
    BY <1>2, <1>3, <1>5
  <2> QED BY <2>1, <2>2
<1> QED BY <1>3, <1>4, <1>5

(* A block that is taken is there afterwards. *)
LEMMA BlockAdds ==
  ASSUME NEW data \in Seq(Block), NEW num \in Nat, NEW b \in Block, num <= Len(data)
  PROVE  LET new == HandleBlock(data, num, b).data
         IN  Len(data) <= Len(new) /\ num + 1 <= Len(new)
<1> DEFINE new == HandleBlock(data, num, b).data
<1>1. CASE num = Len(data)
  <2>1. new = Append(data, b)
    BY <1>1 DEF HandleBlock
  <2>2. Len(new) = num + 1
    BY <1>1, <2>1
  <2> QED BY <1>1, <2>2
<1>2. CASE num < Len(data)
  <2>1. new = data
    BY <1>2 DEF HandleBlock
  <2> QED BY <1>2, <2>1
<1> QED BY <1>1, <1>2

(* A block of one of the versions of a download, and what it adds *)
LEMMA MoreBlocks ==
  ASSUME NEW data \in Placed, NEW vs \in SUBSET Versions, NEW v \in vs, NEW num \in Nat,
         OfVersions(data, vs), num <= Len(data), num < VersionSize[v]
  PROVE  LET new == HandleBlock(data, num, <<v, num>>).data
         IN  /\ \A i \in DOMAIN new : new[i][1] \in vs
             /\ num + 1 < VersionSize[v] => OfVersions(new, vs)
             /\ vs = {v} /\ num + 1 = VersionSize[v] => new = WholeVersion(v)
<1> DEFINE b == <<v, num>>
           new == HandleBlock(data, num, b).data
<1>1. /\ data \in Seq(Block) /\ Len(data) \in Nat /\ b \in Block
      /\ \A i \in DOMAIN data : data[i][1] \in vs
  BY DEF Placed, OfVersions, Block, Versions
<1>2. b[1] = v
  OBVIOUS
<1> HIDE DEF b
<1>3. \A i \in DOMAIN new : new[i][1] \in vs
  <2>1. CASE num = Len(data)
    <3>1. new = Append(data, b)
      BY <2>1 DEF HandleBlock
    <3>2. /\ DOMAIN new = 1..(num + 1) /\ new[num + 1] = b /\ \A i \in 1..num : new[i] = data[i]
      BY <1>1, <2>1, <3>1
    <3>3. \A i \in 1..(num + 1) : i \in 1..num \/ i = num + 1
      OBVIOUS
    <3>4. \A i \in 1..num : i \in DOMAIN data
      BY <1>1, <2>1
    <3> HIDE DEF new
    <3> QED BY <1>1, <1>2, <2>1, <3>2, <3>3, <3>4
  <2>2. CASE num < Len(data)
    <3>1. new = data
      BY <1>1, <2>2 DEF HandleBlock
    <3> QED BY <1>1, <2>2, <3>1
  <2> QED BY <1>1, <2>1, <2>2
<1> HIDE DEF new
<1>4. CASE vs = {v}
  <2>1. v \in Versions /\ OfVersions(data, {v})
    BY <1>4
  <2>2. /\ num + 1 < VersionSize[v] => OfVersions(new, {v})
        /\ num + 1 = VersionSize[v] => new = WholeVersion(v)
    BY <2>1, OneMoreBlock DEF new, b
  <2> QED BY <1>3, <1>4, <2>2 DEF new, b
<1>5. CASE vs # {v}
  <2>1. OfVersions(new, vs)
    BY <1>3, <1>5 DEF OfVersions
  <2> QED BY <1>3, <1>5, <2>1 DEF new, b
<1> QED BY <1>4, <1>5

(* A block of a download that is not the last one *)
LEMMA ReceiveContentDown ==
  ASSUME IInv, DownInv, NEW i, NEW m, ReceiveContent(i, m)
  PROVE  DownInv'
<1> DEFINE r == Request("block2", m.t, m.num + 1, FALSE)
<1>1. /\ m.kind = "content" /\ MidLeft(ClientMids) /\ m.t \in Listed /\ Received(m).ok /\ m.more
      /\ ClientGets(i, m, <<r>>)
      /\ cres' = [cres EXCEPT ![m.t] = [data |-> Received(m).data, mid |-> r.mid]]
      /\ ctrans' = ClearMid(ctrans, m.mid) \cup {Transaction(r)}
      /\ UNCHANGED <<client_cb, told, creq, bufVars, strans, version, ghosts>>
  BY DEF ReceiveContent
<1>2. m \in Down /\ m \in DownMsgs
  <2>1. toClient \in Seq(Down) /\ m \in ToSet(toClient)
    BY <1>1, Messages DEF ClientGets, ToSet
  <2> QED BY <2>1, Messages DEF DownMsgs
<1>3. m.t \in Downloads /\ m.num \in Nat /\ m.v \in Versions
  BY <1>1, <1>2, DownToken
<1>4. r \in Up /\ r.kind = "block2" /\ r.t = m.t /\ r.num = m.num + 1
  <2>1. FreshMid(ClientMids) \in ClientMids
    BY <1>1, FreshMidType, MidsAssumption
  <2>2. m.num + 1 \in Nat
    BY <1>3
  <2>3. r = Message("block2", m.t, FreshMid(ClientMids), m.num + 1, FALSE)
    BY DEF Request
  <2>4. r \in Up
    BY <1>3, <2>1, <2>2, <2>3, MessageUp
  <2>5. r.kind = "block2" /\ r.t = m.t /\ r.num = m.num + 1
    BY DEF Request, Message
  <2> QED BY <2>4, <2>5
<1> HIDE DEF r
<1>5. /\ DownMsgs' \subseteq DownMsgs /\ faults \subseteq faults'
      /\ \A x \in UpMsgs' : x \in UpMsgs \/ x = r \/ IsAck(x)
  <2>1. <<r>> \in Seq(Up) /\ ToSet(<<r>>) = {r}
    BY <1>4, Single, OneMessage
  <2>2. \A c \in ctrans' : (c \in ctrans /\ c.msg.mid # m.mid) \/ c.msg \in ToSet(<<r>>)
    BY <1>1, <2>1 DEF ClearMid, Transaction
  <2> HIDE DEF r
  <2> QED BY <1>1, <2>1, <2>2, ClientAnswers
<1>6. /\ served' = served /\ sres' = sres /\ told' = told /\ client_cb' = client_cb
      /\ Listed' = Listed
  BY <1>1 DEF bufVars, ghosts, Listed
<1>7. served[m.t] # {} /\ m.num < VersionSize[m.v] /\ m.num + 1 < VersionSize[m.v]
  BY <1>1, <1>2 DEF DownInv, ContentOK
<1>8. /\ cres'[m.t].data = Received(m).data
      /\ \A d \in Downloads : d # m.t => cres'[d] = cres[d]
  BY <1>1, <1>3 DEF IInv, ClientOK
<1>9. /\ \A x \in UpMsgs' : AsksOK(x, served')
      /\ \A x \in DownMsgs' : ContentOK(x, served')
      /\ \A x \in Downloads : cres'[x].data # <<>> => served'[x] # {}
  <2>1. AsksOK(r, served) /\ \A x : IsAck(x) => AsksOK(x, served)
    BY <1>4, <1>7 DEF AsksOK, IsAck
  <2> QED BY <1>5, <1>6, <1>7, <1>8, <2>1 DEF DownInv
<1>10. ASSUME faults' = {}
       PROVE  /\ OneListed(Downloads)'
              /\ \A x \in DownMsgs' : x.kind = "content" => x.v \in served'[x.t]
              /\ \A x \in Downloads :
                   /\ client_cb'[x] = "unused" => served'[x] = {}
                   /\ x \in Listed' => Buffered(x)'
                   /\ OfVersions(cres'[x].data, served'[x])
              /\ DownloadWhole'
  <2>1. faults = {}
    BY <1>5, <1>10
  <2>2. /\ m.v \in served[m.t] /\ OfVersions(cres[m.t].data, served[m.t])
        /\ served[m.t] \subseteq Versions
    BY <1>1, <1>2, <1>3, <2>1 DEF DownInv, IInv, ServerOK
  <2>3. cres[m.t].data \in Placed
    BY <1>3 DEF IInv, ClientOK
  <2>4. m.num <= Len(cres[m.t].data)
    BY <1>1 DEF Received, HandleBlock
  <2>5. OfVersions(Received(m).data, served[m.t])
    BY <1>3, <1>7, <2>2, <2>3, <2>4, MoreBlocks DEF Received
  <2>6. \A x \in Downloads : OfVersions(cres'[x].data, served'[x])
    BY <1>6, <1>8, <2>1, <2>2, <2>5 DEF DownInv
  <2>7. DownloadWhole' /\ OneListed(Downloads)'
        /\ \A x \in Downloads : x \in Listed' => Buffered(x)'
    BY <1>6, <1>10, <2>1 DEF DownInv, DownloadWhole, OneListed, Buffered
  <2> QED BY <1>5, <1>6, <2>1, <2>6, <2>7 DEF DownInv
<1>11. Fitting'
  <2>1. /\ cres[m.t].data \in Placed /\ Received(m).data \in Placed
        /\ m.num <= Len(cres[m.t].data)
    BY <1>1, <1>2, <1>3, ReceivedPlaced DEF IInv, ClientOK, Received, HandleBlock
  <2>2. Len(cres[m.t].data) <= Len(Received(m).data) /\ m.num + 1 <= Len(Received(m).data)
    <3>1. <<m.v, m.num>> \in Block /\ cres[m.t].data \in Seq(Block)
      BY <1>3, <2>1 DEF Block, Placed
    <3> QED BY <1>3, <2>1, <3>1, BlockAdds DEF Received
  <2>3. /\ Len(cres[m.t].data) \in Nat /\ Len(Received(m).data) \in Nat
    BY <2>1 DEF Placed
  <2>4. Fits(r, client_cb', cres')
    BY <1>4, <1>8, <2>2 DEF Fits
  <2>5. /\ \A x \in UpMsgs : x.kind = "block2" => x.t \in Downloads /\ x.num \in Nat
        /\ \A x \in DownMsgs : x.kind = "content" => x.t \in Downloads /\ x.num \in Nat
    BY Messages, UpToken, DownToken
  <2>6. ASSUME NEW x, x.t \in Downloads, x.num \in Nat, Fits(x, client_cb, cres)
        PROVE  Fits(x, client_cb', cres')
    <3>1. CASE x.t = m.t
      BY <1>6, <1>8, <2>2, <2>3, <2>6, <3>1 DEF Fits
    <3>2. CASE x.t # m.t
      BY <1>6, <1>8, <2>6, <3>2 DEF Fits
    <3> QED BY <3>1, <3>2
  <2>7. /\ \A x \in UpMsgs' : x.kind = "block2" => Fits(x, client_cb', cres')
        /\ \A x \in DownMsgs' : x.kind = "content" => Fits(x, client_cb', cres')
    <3>1. ASSUME NEW x \in UpMsgs', x.kind = "block2"
          PROVE  Fits(x, client_cb', cres')
      <4>1. x \in UpMsgs \/ x = r
        BY <1>5, <3>1 DEF IsAck
      <4>2. CASE x \in UpMsgs
        BY <2>5, <2>6, <3>1, <4>2 DEF DownInv, Fitting
      <4> QED BY <2>4, <4>1, <4>2
    <3>2. ASSUME NEW x \in DownMsgs', x.kind = "content"
          PROVE  Fits(x, client_cb', cres')
      BY <1>5, <2>5, <2>6, <3>2 DEF DownInv, Fitting
    <3> QED BY <3>1, <3>2
  <2> QED BY <1>6, <2>7 DEF DownInv, Fitting
<1> QED BY <1>9, <1>10, <1>11 DEF DownInv

(* Callbacks freed, with or without telling their handlers *)
LEMMA FreedIs ==
  ASSUME IInv, NEW t \in Transfers, FreeClientCb(t)
  PROVE  /\ client_cb'[t] = "freed"
         /\ \A x \in Transfers : x # t => client_cb'[x] = client_cb[x]
         /\ \A d \in Downloads : cres'[d] = IF d = t THEN NoResponse ELSE cres[d]
         /\ \A u \in Uploads : creq'[u] = IF u = t THEN 0 ELSE creq[u]
         /\ Listed' = Listed \ {t}
<1>1. /\ client_cb'[t] = "freed"
      /\ \A x \in Transfers : x # t => client_cb'[x] = client_cb[x]
  BY DEF FreeClientCb, IInv, ClientOK
<1>2. /\ \A d \in Downloads : cres'[d] = IF d = t THEN NoResponse ELSE cres[d]
      /\ \A u \in Uploads : creq'[u] = IF u = t THEN 0 ELSE creq[u]
  BY DEF FreeClientCb
<1>3. Listed' = Listed \ {t}
  BY <1>1 DEF Listed
<1> QED BY <1>1, <1>2, <1>3

(* The last block completes what is told. *)
LEMMA ReceiveLastContentDown ==
  ASSUME IInv, DownInv, NEW i, NEW m, ReceiveLastContent(i, m)
  PROVE  DownInv'
<1> DEFINE data == IF Received(m).ok THEN Received(m).data ELSE <<>>
<1>1. /\ m.kind = "content" /\ m.t \in Listed /\ ~(Received(m).ok /\ m.more)
      /\ ClientGets(i, m, <<>>) /\ FreeClientCb(m.t)
      /\ told' = [told EXCEPT ![m.t] = [code |-> "content", data |-> data]]
      /\ ctrans' = ClearMid(ctrans, m.mid)
      /\ UNCHANGED <<bufVars, strans, version, ghosts>>
  BY DEF ReceiveLastContent, InvokeClientCb
<1>2. /\ m \in Down /\ m \in DownMsgs /\ DownMsgs' \subseteq DownMsgs /\ faults \subseteq faults'
      /\ \A x \in UpMsgs' : x \in UpMsgs \/ IsAck(x)
  <2>1. <<>> \in Seq(Up) /\ ToSet(<<>>) = {}
    BY OneMessage
  <2>2. \A c \in ctrans' : c \in ctrans /\ c.msg.mid # m.mid
    BY <1>1 DEF ClearMid
  <2> QED BY <1>1, <2>1, <2>2, ClientAnswers
<1>3. m.t \in Downloads /\ m.t \in Transfers /\ m.num \in Nat /\ m.v \in Versions
  BY <1>1, <1>2, DownToken DEF Transfers
<1>4. served' = served /\ sres' = sres
  BY <1>1 DEF bufVars, ghosts
<1>5. /\ client_cb'[m.t] = "freed" /\ Listed' = Listed \ {m.t}
      /\ \A x \in Transfers : x # m.t => client_cb'[x] = client_cb[x]
      /\ \A d \in Downloads : cres'[d] = IF d = m.t THEN NoResponse ELSE cres[d]
  BY <1>1, <1>3, FreedIs
<1>6. /\ \A x \in UpMsgs' : AsksOK(x, served')
      /\ \A x \in DownMsgs' : ContentOK(x, served')
      /\ \A x \in Downloads : cres'[x].data # <<>> => served'[x] # {}
  <2>1. \A x : IsAck(x) => AsksOK(x, served)
    BY DEF AsksOK, IsAck
  <2> QED BY <1>2, <1>4, <1>5, <2>1 DEF DownInv, NoResponse
<1>7. ASSUME faults' = {}
       PROVE  /\ OneListed(Downloads)'
              /\ \A x \in DownMsgs' : x.kind = "content" => x.v \in served'[x.t]
              /\ \A x \in Downloads :
                   /\ client_cb'[x] = "unused" => served'[x] = {}
                   /\ x \in Listed' => Buffered(x)'
                   /\ OfVersions(cres'[x].data, served'[x])
              /\ DownloadWhole'
  <2>1. faults = {}
    BY <1>2, <1>7
  <2>2. /\ m.v \in served[m.t] /\ OfVersions(cres[m.t].data, served[m.t])
        /\ served[m.t] \subseteq Versions
    BY <1>1, <1>2, <1>3, <2>1 DEF DownInv, IInv, ServerOK
  <2>3. cres[m.t].data \in Placed
    BY <1>3 DEF IInv, ClientOK
  <2>4. /\ \A j \in DOMAIN data : data[j][1] \in served[m.t]
        /\ \A v \in Versions : served[m.t] = {v} => data = WholeVersion(v)
    <3>1. m.num <= Len(cres[m.t].data)
      BY <1>1, <1>2 DEF DownInv, Fitting, Fits, Listed
    <3>2. Received(m).ok /\ data = Received(m).data
      BY <3>1 DEF Received, HandleBlock
    <3>3. m.num < VersionSize[m.v] /\ ~(m.num + 1 < VersionSize[m.v])
      BY <1>1, <1>2, <3>2 DEF DownInv, ContentOK
    <3>4. VersionSize[m.v] \in Nat
      BY <1>3, TransfersAssumption DEF Versions
    <3>5. m.num + 1 = VersionSize[m.v]
      BY <1>3, <3>3, <3>4
    <3>6. /\ \A j \in DOMAIN Received(m).data : Received(m).data[j][1] \in served[m.t]
          /\ served[m.t] = {m.v} => Received(m).data = WholeVersion(m.v)
      BY <1>3, <2>2, <2>3, <3>1, <3>3, <3>5, MoreBlocks DEF Received
    <3>7. \A v \in Versions : served[m.t] = {v} => v = m.v
      BY <2>2
    <3> HIDE DEF data
    <3> QED BY <3>2, <3>6, <3>7
  <2> HIDE DEF data
  <2>5. /\ told'[m.t].data = data
        /\ \A d \in Downloads : d # m.t => told'[d] = told[d]
    BY <1>1, <1>3 DEF IInv, ClientOK, Transfers
  <2>6. DownloadWhole'
    BY <1>3, <1>4, <2>1, <2>4, <2>5 DEF DownInv, DownloadWhole
  <2>7. \A v : OfVersions(<<>>, v)
    BY DEF OfVersions
  <2>8. \A x \in Downloads : OfVersions(cres'[x].data, served'[x])
    BY <1>4, <1>5, <2>1, <2>7 DEF DownInv, NoResponse
  <2>9. OneListed(Downloads)' /\ \A x \in Downloads : x \in Listed' => Buffered(x)'
    BY <1>4, <1>5, <2>1 DEF DownInv, OneListed, Buffered
  <2>10. \A x \in Downloads : client_cb'[x] = "unused" => served'[x] = {}
    BY <1>4, <1>5, <2>1 DEF DownInv, Transfers
  <2> QED BY <1>2, <1>4, <2>1, <2>6, <2>8, <2>9, <2>10 DEF DownInv
<1>8. Fitting'
  <2>1. /\ \A x \in UpMsgs : x.kind = "block2" => x.t \in Downloads
        /\ \A x \in DownMsgs : x.kind = "content" => x.t \in Downloads
    BY Messages, UpToken, DownToken
  <2>2. ASSUME NEW x, x.t \in Downloads, Fits(x, client_cb, cres)
        PROVE  Fits(x, client_cb', cres')
    BY <1>3, <1>5, <2>2 DEF Fits, Transfers
  <2>3. /\ \A x \in UpMsgs' : x.kind = "block2" => Fits(x, client_cb', cres')
        /\ \A x \in DownMsgs' : x.kind = "content" => Fits(x, client_cb', cres')
    BY <1>2, <2>1, <2>2 DEF DownInv, Fitting, IsAck
  <2>4. \A d \in Downloads : told'[d].code # "none" => client_cb'[d] = "freed"
    <3>1. \A d \in Downloads : d # m.t => told'[d] = told[d] /\ client_cb'[d] = client_cb[d]
      BY <1>1, <1>3, <1>5 DEF IInv, ClientOK, Transfers
    <3> QED BY <1>5, <3>1 DEF DownInv, Fitting
  <2> QED BY <2>3, <2>4 DEF Fitting
<1> QED BY <1>6, <1>7, <1>8 DEF DownInv

(* A message that is sent again is one that may be. *)
LEMMA RetransmittedUp ==
  ASSUME IInv, NEW c \in ctrans, ClientRetransmits(c)
  PROVE  /\ UpMsgs' = UpMsgs /\ Requests' = Requests /\ DownMsgs' = DownMsgs
         /\ c.msg \in Up /\ c.msg \in Requests
<1>1. /\ ctrans' = (ctrans \ {c}) \cup {[c EXCEPT !.tries = @ + 1]} /\ SendToServer(<<c.msg>>)
      /\ UNCHANGED <<strans, toClient>>
  BY DEF ClientRetransmits
<1>2. c.msg \in Up /\ c \in [msg : Up, tries : 0..MaxRetransmit] /\ c.msg \in Requests
  BY DEF IInv, NetOK, Requests
<1>3. [c EXCEPT !.tries = @ + 1].msg = c.msg
  BY <1>2
<1>4. Requests' = Requests
  <2>1. \A x : x \in Requests' <=> \E b \in ctrans' : x = b.msg
    BY DEF Requests
  <2>2. \A x : x \in Requests <=> \E b \in ctrans : x = b.msg
    BY DEF Requests
  <2> QED BY <1>1, <1>3, <2>1, <2>2, Zenon
<1>5. <<c.msg>> \in Seq(Up) /\ ToSet(<<c.msg>>) = {c.msg}
  BY <1>2, Single, OneMessage
<1>6. ToSet(toServer') = ToSet(toServer) \cup {c.msg}
  BY <1>1, <1>5, Sends
<1> QED BY <1>1, <1>2, <1>4, <1>6 DEF UpMsgs, DownMsgs

(* Likewise for the server. *)
LEMMA RetransmittedDown ==
  ASSUME IInv, NEW c \in strans, ServerRetransmits(c)
  PROVE  /\ UpMsgs' = UpMsgs /\ Requests' = Requests /\ DownMsgs' = DownMsgs
         /\ c.msg \in Down /\ c.msg \in DownMsgs
<1> DEFINE R == {b.msg : b \in strans}
<1>1. /\ strans' = (strans \ {c}) \cup {[c EXCEPT !.tries = @ + 1]} /\ SendToClient(<<c.msg>>)
      /\ UNCHANGED <<ctrans, toServer>>
  BY DEF ServerRetransmits, clientVars
<1>2. c.msg \in Down /\ c \in [msg : Down, tries : 0..MaxRetransmit] /\ c.msg \in R
  BY DEF IInv, NetOK
<1>3. [c EXCEPT !.tries = @ + 1].msg = c.msg
  BY <1>2
<1>4. {b.msg : b \in strans'} = R
  <2>1. \A x : x \in {b.msg : b \in strans'} <=> \E b \in strans' : x = b.msg
    OBVIOUS
  <2>2. \A x : x \in R <=> \E b \in strans : x = b.msg
    OBVIOUS
  <2> QED BY <1>1, <1>3, <2>1, <2>2, Zenon
<1>5. <<c.msg>> \in Seq(Down) /\ ToSet(<<c.msg>>) = {c.msg}
  BY <1>2, Single, OneMessage
<1>6. ToSet(toClient') = ToSet(toClient) \cup {c.msg}
  BY <1>1, <1>5, Sends
<1> QED BY <1>1, <1>2, <1>4, <1>6 DEF UpMsgs, DownMsgs, Requests

(* A step that no download takes part in *)
LEMMA DownStep ==
  ASSUME IInv, DownInv, [Next]_vars
  PROVE  DownInv'
<1> DEFINE NoUp == \A m \in UpMsgs' : m \in UpMsgs \/ m.kind \notin {"get", "block2"}
           NoDown == \A m \in DownMsgs' : m \in DownMsgs \/ m.kind # "content"
           NoClient == \A d \in Downloads :
                         /\ client_cb'[d] = client_cb[d] \/ client_cb'[d] = "freed"
                         /\ \/ cres'[d] = cres[d]
                            \/ client_cb'[d] = "freed" /\ cres'[d] = NoResponse
                         /\ \/ told'[d] = told[d]
                            \/ client_cb'[d] = "freed" /\ told'[d].code # "content"
<1>1. ASSUME NoUp, NoDown, NoClient, served' = served, sres'.v \in {sres.v, 0},
             faults \subseteq faults'
      PROVE  DownInv'
  BY <1>1, DownQuiet
<1>2. ASSUME UNCHANGED <<client_cb, cres, told>>
      PROVE  NoClient
  BY <1>2
<1>3. ASSUME NEW t \in Transfers, FreeClientCb(t),
             \A d \in Downloads : told'[d] = told[d] \/ (d = t /\ told'[d].code # "content")
      PROVE  NoClient
  BY <1>3, FreedIs DEF Transfers
<1>4. ASSUME NEW t \in Transfers, NEW code, code # "content", InvokeClientCb(t, code, <<>>)
      PROVE  NoClient
  <2>1. \A d \in Downloads : told'[d] = told[d] \/ (d = t /\ told'[d].code # "content")
    BY <1>4 DEF InvokeClientCb, IInv, ClientOK, Transfers
  <2> QED BY <1>3, <1>4, <2>1 DEF InvokeClientCb
<1>5. ASSUME NEW i, NEW m, NEW fs, ServerGets(i, m, fs), NEW ms \in Seq(Down), SendToClient(ms),
             UNCHANGED clientVars,
             \A x \in ToSet(ms) : x.kind # "content",
             \A c \in strans' : c \in strans \/ c.msg \in ToSet(ms)
      PROVE  NoUp /\ NoDown /\ NoClient /\ faults \subseteq faults'
  <2>1. NoUp /\ NoDown
    BY <1>5, ServerAnswers
  <2>2. NoClient
    BY <1>2, <1>5 DEF clientVars
  <2> QED BY <1>5, <2>1, <2>2, ServerTakes
<1>6. ASSUME NEW i, NEW m, ClientGets(i, m, <<>>), UNCHANGED strans,
             ctrans' = ClearMid(ctrans, m.mid)
      PROVE  NoUp /\ NoDown /\ faults \subseteq faults'
  <2>1. <<>> \in Seq(Up) /\ ToSet(<<>>) = {}
    BY OneMessage
  <2>2. \A c \in ctrans' : c \in ctrans /\ c.msg.mid # m.mid
    BY <1>6 DEF ClearMid
  <2>3. /\ DownMsgs' \subseteq DownMsgs /\ faults \subseteq faults'
        /\ \A x \in UpMsgs' : x \in UpMsgs \/ IsAck(x)
    BY <1>6, <2>1, <2>2, ClientAnswers
  <2> QED BY <2>3 DEF IsAck
<1>7. CASE UNCHANGED vars
  <2>1. UNCHANGED <<client_cb, cres, told, served, sres, faults,
                     toServer, toClient, ctrans, strans>>
    BY <1>7 DEF vars, clientVars, bufVars, ghosts
  <2>2. UpMsgs' = UpMsgs /\ DownMsgs' = DownMsgs
    BY <2>1 DEF UpMsgs, DownMsgs, Requests
  <2> QED BY <1>1, <1>2, <2>1, <2>2
<1>8. ASSUME NEW u \in Uploads, Post(u)
      PROVE  DownInv'
  <2> DEFINE m == Message(IF Size[u] > 1 THEN "block1" ELSE "post", u,
                          FreshMid(ClientMids), 0, Size[u] > 1)
  <2>1. /\ MidLeft(ClientMids)
        /\ client_cb' = [client_cb EXCEPT ![u] = "listed"]
        /\ ctrans' = ctrans \cup {Transaction(m)}
        /\ SendToServer(<<m>>) /\ Happens(Concurrent(Uploads))
        /\ UNCHANGED <<told, cres, bufVars, strans, toClient, version, ghosts>>
    BY <1>8 DEF Post
  <2>2. m \in Up /\ m.kind \in {"block1", "post"}
    <3>1. FreshMid(ClientMids) \in ClientMids
      BY <2>1, FreshMidType, MidsAssumption
    <3>2. (Size[u] > 1) \in BOOLEAN
      OBVIOUS
    <3>3. m \in Up
      BY <3>1, <3>2, MessageUp
    <3>4. m.kind \in {"block1", "post"}
      BY DEF Message
    <3> QED BY <3>3, <3>4
  <2> HIDE DEF m
  <2>3. UpMsgs' = UpMsgs \cup {m} /\ DownMsgs' = DownMsgs
    BY <2>1, <2>2, SentUp
  <2>4. NoUp /\ NoDown
    BY <2>2, <2>3
  <2>5. NoClient
    BY <2>1, TransfersAssumption DEF IInv, ClientOK, Transfers
  <2>6. served' = served /\ sres' = sres /\ faults \subseteq faults'
    BY <2>1 DEF bufVars, ghosts, Happens
  <2> QED BY <1>1, <2>4, <2>5, <2>6
<1>9. ASSUME NEW d \in Downloads, Get(d)
      PROVE  DownInv'
  BY <1>9, GetDown
<1>10. ASSUME NEW i, NEW m, ReceivePost(i, m)
       PROVE  DownInv'
  <2> DEFINE r == Message("changed", m.t, m.mid, 0, FALSE)
  <2>1. /\ m.kind = "post" /\ ServerGets(i, m, {}) /\ SendToClient(<<r>>)
        /\ UNCHANGED <<clientVars, sres, strans, version, served>>
    BY <1>10 DEF ReceivePost
  <2>2. m \in Up
    BY <2>1, ServerTakes
  <2>3. r \in Down /\ r.kind # "content"
    <3>1. m.t \in Uploads /\ m.mid \in ClientMids \cup ServerMids
      BY <2>1, <2>2, UpToken
    <3>2. r \in Down
      BY <3>1, MessageDown
    <3>3. r.kind # "content"
      BY DEF Message
    <3> QED BY <3>2, <3>3
  <2> HIDE DEF r
  <2>4. <<r>> \in Seq(Down) /\ ToSet(<<r>>) = {r}
    BY <2>3, Single, OneMessage
  <2>5. NoUp /\ NoDown /\ NoClient /\ faults \subseteq faults'
    BY <1>5, <2>1, <2>3, <2>4
  <2> QED BY <1>1, <2>1, <2>5
<1>11. ASSUME NEW i, NEW m, ReceiveBlock1(i, m)
       PROVE  DownInv'
  <2> DEFINE r == Message("continue", m.t, m.mid, m.num, TRUE)
  <2>1. /\ m.kind = "block1" /\ ServerGets(i, m, {}) /\ SendToClient(<<r>>)
        /\ UNCHANGED <<clientVars, sres, strans, version, ghosts>>
    BY <1>11 DEF ReceiveBlock1
  <2>2. m \in Up
    BY <2>1, ServerTakes
  <2>3. r \in Down /\ r.kind # "content"
    <3>1. m.t \in Uploads /\ m.mid \in ClientMids \cup ServerMids /\ m.num \in Nat
      BY <2>1, <2>2, UpToken
    <3>2. r \in Down
      BY <3>1, MessageDown
    <3>3. r.kind # "content"
      BY DEF Message
    <3> QED BY <3>2, <3>3
  <2> HIDE DEF r
  <2>4. <<r>> \in Seq(Down) /\ ToSet(<<r>>) = {r}
    BY <2>3, Single, OneMessage
  <2>5. NoUp /\ NoDown /\ NoClient /\ faults \subseteq faults'
    BY <1>5, <2>1, <2>3, <2>4
  <2> QED BY <1>1, <2>1, <2>5 DEF ghosts
<1>12. ASSUME NEW i, NEW m, ReceiveLastBlock1(i, m)
       PROVE  DownInv'
  <2> DEFINE r == Message("changed", m.t, FreshMid(ServerMids), m.num, FALSE)
             a == Ack(m.mid)
  <2>1. /\ m.kind = "block1" /\ ServerGets(i, m, {}) /\ SendToClient(<<a, r>>)
        /\ MidLeft(ServerMids)
        /\ strans' = strans \cup {Transaction(r)}
        /\ UNCHANGED <<clientVars, sres, version, served>>
    BY <1>12 DEF ReceiveLastBlock1
  <2>2. m \in Up
    BY <2>1, ServerTakes
  <2>3. r \in Down /\ r.kind # "content" /\ a \in Down /\ a.kind # "content"
    <3>1. m.t \in Uploads /\ m.mid \in ClientMids \cup ServerMids /\ m.num \in Nat
      BY <2>1, <2>2, UpToken
    <3>2. FreshMid(ServerMids) \in ServerMids
      BY <2>1, FreshMidType, MidsAssumption
    <3>3. r \in Down
      BY <3>1, <3>2, MessageDown
    <3>4. r.kind # "content" /\ a.kind # "content"
      BY DEF Message, Ack
    <3>5. a \in Down
      BY <3>1, EmptyMessage
    <3> QED BY <3>3, <3>4, <3>5
  <2>4. Transaction(r).msg = r
    BY DEF Transaction
  <2> HIDE DEF r, a
  <2>5. <<a, r>> \in Seq(Down) /\ ToSet(<<a, r>>) = {a, r}
    BY <2>3, OneMessage
  <2>6. \A c \in strans' : c \in strans \/ c.msg \in ToSet(<<a, r>>)
    BY <2>1, <2>4, <2>5
  <2>7. NoUp /\ NoDown /\ NoClient /\ faults \subseteq faults'
    BY <1>5, <2>1, <2>3, <2>5, <2>6
  <2> QED BY <1>1, <2>1, <2>7
<1>13. ASSUME NEW i, NEW m, ReceiveGap(i, m) \/ RefuseBlock2(i, m)
       PROVE  DownInv'
  <2> DEFINE r == Rst(m.mid)
  <2>1. /\ ServerGets(i, m, {}) /\ SendToClient(<<r>>)
        /\ UNCHANGED <<clientVars, strans, version, ghosts>>
        /\ sres' = sres \/ sres' = [v |-> 0, next |-> 0]
    BY <1>13 DEF ReceiveGap, RefuseBlock2
  <2>2. r \in Down /\ r.kind # "content"
    <3>1. m.mid \in ClientMids \cup ServerMids
      BY <2>1, ServerTakes, UpToken
    <3>2. r \in Down
      BY <3>1, EmptyMessage
    <3>3. r.kind # "content"
      BY DEF Rst, Message
    <3> QED BY <3>2, <3>3
  <2> HIDE DEF r
  <2>3. <<r>> \in Seq(Down) /\ ToSet(<<r>>) = {r}
    BY <2>2, Single, OneMessage
  <2>4. NoUp /\ NoDown /\ NoClient /\ faults \subseteq faults'
    BY <1>5, <2>1, <2>2, <2>3
  <2>5. sres'.v \in {sres.v, 0}
    BY <2>1
  <2> QED BY <1>1, <2>1, <2>4, <2>5 DEF ghosts
<1>14. ASSUME NEW i, NEW m, ReceiveGet(i, m) \/ ReceiveBlock2(i, m) \/ ReceiveContent(i, m)
                              \/ ReceiveLastContent(i, m)
       PROVE  DownInv'
  BY <1>14, ReceiveGetDown, ReceiveBlock2Down, ReceiveContentDown, ReceiveLastContentDown
<1>15. ASSUME NEW i, NEW m, ServerGetsAck(i, m)
       PROVE  DownInv'
  <2>1. /\ ServerGets(i, m, {}) /\ strans' \subseteq strans
        /\ UNCHANGED <<clientVars, bufVars, toClient, version, ghosts>>
    BY <1>15 DEF ServerGetsAck, ClearMid
  <2>2. ToSet(toServer') \subseteq ToSet(toServer) /\ faults \subseteq faults'
    BY <2>1, ServerTakes
  <2>3. NoUp /\ NoDown
    BY <2>1, <2>2 DEF UpMsgs, DownMsgs, Requests, clientVars
  <2> QED BY <1>1, <1>2, <2>1, <2>2, <2>3 DEF clientVars, bufVars, ghosts
<1>16. ASSUME NEW i, NEW m, ReceiveContinue(i, m)
       PROVE  DownInv'
  <2> DEFINE r == Request("block1", m.t, m.num + 1, m.num + 2 < Size[m.t])
  <2>1. /\ m.kind = "continue" /\ MidLeft(ClientMids) /\ ClientGets(i, m, <<r>>)
        /\ ctrans' = ClearMid(ctrans, m.mid) \cup {Transaction(r)}
        /\ UNCHANGED <<client_cb, told, cres, bufVars, strans, version, ghosts>>
    BY <1>16 DEF ReceiveContinue
  <2>2. m \in Down
    BY <2>1 DEF ClientGets, IInv, NetOK
  <2>3. r \in Up /\ r.kind = "block1"
    <3>1. FreshMid(ClientMids) \in ClientMids
      BY <2>1, FreshMidType, MidsAssumption
    <3>2. m.t \in Uploads /\ m.num + 1 \in Nat
      BY <2>1, <2>2, DownToken
    <3>3. (m.num + 2 < Size[m.t]) \in BOOLEAN
      OBVIOUS
    <3>4. r.kind = "block1"
      BY DEF Request, Message
    <3>5. r \in Up
      BY <3>1, <3>2, <3>3, MessageUp DEF Request
    <3> QED BY <3>4, <3>5
  <2>4. Transaction(r).msg = r
    BY DEF Transaction
  <2> HIDE DEF r
  <2>5. <<r>> \in Seq(Up) /\ ToSet(<<r>>) = {r}
    BY <2>3, Single, OneMessage
  <2>6. \A c \in ctrans' : (c \in ctrans /\ c.msg.mid # m.mid) \/ c.msg \in ToSet(<<r>>)
    BY <2>1, <2>4, <2>5 DEF ClearMid
  <2>7. /\ DownMsgs' \subseteq DownMsgs /\ faults \subseteq faults'
        /\ \A x \in UpMsgs' : x \in UpMsgs \/ x \in ToSet(<<r>>) \/ IsAck(x)
    BY <2>1, <2>5, <2>6, ClientAnswers
  <2>8. NoUp /\ NoDown
    BY <2>3, <2>5, <2>7 DEF IsAck
  <2> QED BY <1>1, <1>2, <2>1, <2>7, <2>8 DEF bufVars, ghosts
<1>17. ASSUME NEW i, NEW m, ReceiveChanged(i, m) \/ ClientGetsEmpty(i, m) \/ ClientIgnores(i, m)
       PROVE  DownInv'
  <2>1. /\ ClientGets(i, m, <<>>) /\ ctrans' = ClearMid(ctrans, m.mid)
        /\ UNCHANGED <<bufVars, strans, version, ghosts>>
    BY <1>17 DEF ReceiveChanged, ClientGetsEmpty, ClientIgnores
  <2>2. NoUp /\ NoDown /\ faults \subseteq faults'
    BY <1>6, <2>1
  <2>3. NoClient
    <3>1. CASE ReceiveChanged(i, m)
      <4>1. PICK code \in {"changed", "ok"} : InvokeClientCb(m.t, code, <<>>)
        BY <3>1 DEF ReceiveChanged
      <4>2. m.t \in Transfers
        BY <3>1 DEF ReceiveChanged, Listed
      <4> QED BY <1>4, <4>1, <4>2
    <3>2. CASE ClientGetsEmpty(i, m)
      <4>1. \/ \E d \in Downloads : InvokeClientCb(d, "ok", <<>>)
            \/ UNCHANGED <<client_cb, told, cres>>
        BY <3>2 DEF ClientGetsEmpty
      <4> QED BY <1>2, <1>4, <4>1 DEF Transfers
    <3>3. CASE ClientIgnores(i, m)
      BY <1>2, <3>3 DEF ClientIgnores
    <3> QED BY <1>17, <3>1, <3>2, <3>3
  <2> QED BY <1>1, <2>1, <2>2, <2>3 DEF bufVars, ghosts
<1>18. CASE LoseToServer \/ LoseToClient
  <2>1. /\ UNCHANGED <<clientVars, bufVars, strans, version, ghosts, faults>>
        /\ ToSet(toServer') \subseteq ToSet(toServer) /\ ToSet(toClient') \subseteq ToSet(toClient)
    BY <1>18, Messages, TailKeeps DEF LoseToServer, LoseToClient
  <2>2. NoUp /\ NoDown
    BY <2>1 DEF UpMsgs, DownMsgs, Requests, clientVars
  <2> QED BY <1>1, <1>2, <2>1, <2>2 DEF clientVars, bufVars, ghosts
<1>19. ASSUME NEW c \in ctrans, ClientRetransmits(c)
       PROVE  DownInv'
  <2>1. /\ ctrans' = (ctrans \ {c}) \cup {[c EXCEPT !.tries = @ + 1]} /\ SendToServer(<<c.msg>>)
        /\ UNCHANGED <<client_cb, told, creq, cres, bufVars, strans, toClient,
                       version, ghosts, faults>>
    BY <1>19 DEF ClientRetransmits
  <2>2. UpMsgs' = UpMsgs /\ Requests' = Requests /\ DownMsgs' = DownMsgs
    BY <1>19, RetransmittedUp
  <2> QED BY <1>1, <1>2, <2>1, <2>2 DEF bufVars, ghosts
<1>20. ASSUME NEW c \in strans, ServerRetransmits(c)
       PROVE  DownInv'
  <2>1. UNCHANGED <<clientVars, bufVars, toServer, version, ghosts, faults>>
    BY <1>20 DEF ServerRetransmits
  <2>2. UpMsgs' = UpMsgs /\ DownMsgs' = DownMsgs
    BY <1>20, RetransmittedDown
  <2> QED BY <1>1, <1>2, <2>1, <2>2 DEF clientVars, bufVars, ghosts
<1>21. ASSUME NEW c \in ctrans, ClientTimesOut(c)
       PROVE  DownInv'
  <2>1. /\ ctrans' \subseteq ctrans
        /\ UNCHANGED <<bufVars, strans, toServer, toClient, version, ghosts>>
        /\ \/ /\ c.msg.t \in Transfers /\ InvokeClientCb(c.msg.t, "unavailable", <<>>)
              /\ Happens({"abandoned"})
           \/ UNCHANGED <<client_cb, told, creq, cres, faults>>
    BY <1>21 DEF ClientTimesOut, Listed
  <2>2. NoUp /\ NoDown
    BY <2>1 DEF UpMsgs, DownMsgs, Requests
  <2>3. NoClient /\ faults \subseteq faults'
    BY <1>2, <1>4, <2>1 DEF Happens
  <2> QED BY <1>1, <2>1, <2>2, <2>3 DEF bufVars, ghosts
<1>22. ASSUME NEW c \in strans, ServerTimesOut(c)
       PROVE  DownInv'
  <2>1. /\ strans' \subseteq strans
        /\ UNCHANGED <<clientVars, bufVars, toServer, toClient, version, ghosts, faults>>
    BY <1>22 DEF ServerTimesOut
  <2>2. NoUp /\ NoDown
    BY <2>1 DEF UpMsgs, DownMsgs, Requests, clientVars
  <2> QED BY <1>1, <1>2, <2>1, <2>2 DEF clientVars, bufVars, ghosts
<1>23. ASSUME NEW t \in Transfers, RemoveClientCb(t)
       PROVE  DownInv'
  <2>1. /\ FreeClientCb(t) /\ faults \subseteq faults'
        /\ UNCHANGED <<told, ctrans, bufVars, strans, toServer, toClient, version, ghosts>>
    BY <1>23 DEF RemoveClientCb, Happens
  <2>2. NoUp /\ NoDown
    BY <2>1 DEF UpMsgs, DownMsgs, Requests
  <2> QED BY <1>1, <1>3, <2>1, <2>2 DEF bufVars, ghosts
<1>24. CASE BufferExpires \/ Change
  <2>1. /\ UNCHANGED <<client_cb, told, cres, ctrans, strans, toServer, toClient, served>>
        /\ faults \subseteq faults' /\ (sres' = sres \/ sres' = [v |-> 0, next |-> 0])
    BY <1>24 DEF BufferExpires, Change, Happens, clientVars, bufVars, ghosts
  <2>2. NoUp /\ NoDown
    BY <2>1 DEF UpMsgs, DownMsgs, Requests
  <2>3. sres'.v \in {sres.v, 0}
    BY <2>1
  <2> QED BY <1>1, <1>2, <2>1, <2>2, <2>3
<1>25. CASE Receive
  BY <1>25, <1>10, <1>11, <1>12, <1>13, <1>14, <1>15, <1>16, <1>17 DEF Receive
<1> QED BY <1>7, <1>8, <1>9, <1>18, <1>19, <1>20, <1>21, <1>22, <1>23, <1>24, <1>25 DEF Next

(* Nothing has been asked for and nothing is told when a behaviour begins. *)
LEMMA DownInit == Init => DownInv
<1> SUFFICES ASSUME Init PROVE DownInv
  OBVIOUS
<1>1. UpMsgs = {} /\ DownMsgs = {}
  BY DEF Init, UpMsgs, DownMsgs, Requests, ToSet
<1>2. \A t \in Transfers : client_cb[t] = "unused" /\ told[t].code = "none"
  BY DEF Init, NoAnswer
<1>3. \A d \in Downloads : cres[d].data = <<>> /\ served[d] = {}
  BY DEF Init, NoResponse
<1>4. Listed = {}
  BY <1>2 DEF Listed
<1>5. OneListed(Downloads)
  BY <1>4 DEF OneListed
<1>6. DownloadWhole
  BY <1>2 DEF DownloadWhole, Transfers
<1>7. \A d \in Downloads : OfVersions(cres[d].data, served[d])
  BY <1>3 DEF OfVersions
<1>8. Fitting
  BY <1>1, <1>2 DEF Fitting, Transfers
<1> QED BY <1>1, <1>2, <1>3, <1>4, <1>5, <1>6, <1>7, <1>8 DEF DownInv, Transfers

(* Without faults a download that is answered with content is given blocks  *)
(* of the versions that the GET handler returned to it, and when that was    *)
(* one version, that version whole, for any sizes, versions and losses: a    *)
(* block is only asked for once those before it are there, the server        *)
(* answers from the version the GET was answered with, and a repeated block  *)
(* is skipped.  Where a repeated GET finds a new version, blocks of both may *)
(* be told as one payload: nobody compares ETags.                            *)
THEOREM DownloadsWhole == Spec => []DownloadWhole
<1>1. Spec => [](IInv /\ DownInv)
  BY InitInv, StepInv, DownInit, DownStep, PTL DEF Spec
<1>2. IInv /\ DownInv => DownloadWhole
  BY DEF DownInv, DownloadWhole
<1> QED BY <1>1, <1>2, PTL

-----------------------------------------------------------------------------
(* Uploads.  The first block of an upload, its later blocks, the answers that
   ask for more of it, and empty messages with a message ID                  *)
First(u) == {m \in Msg : m.kind = "block1" /\ m.t = u /\ m.num = 0}
Later(u) == {m \in Msg : m.kind = "block1" /\ m.t = u /\ m.num # 0}
Cont(u) == {m \in Msg : m.kind = "continue" /\ m.t = u}
Empty(mid) == {m \in Msg : m.kind \in {"ack", "rst"} /\ m.mid = mid}
FirstMid(u) == First(u) \cup {m \in Cont(u) : m.num = 0}
MoreOf(u) == Later(u) \cup {m \in Cont(u) : m.num # 0}
Done(u) == runs[u] >= 1

(* No copy of a first block is sent once a later block was: the answer to the
   first block has its message ID and ends its retransmission.               *)
PartOf(m) == /\ m.kind = "post" => Size[m.t] = 1
             /\ m.kind = "block1" => /\ Size[m.t] > 1 /\ m.num < Size[m.t]
                                     /\ m.more = (m.num + 1 < Size[m.t])
Ordered(u) ==
  /\ client_cb[u] = "unused" => runs[u] = 0 /\ \A m \in UpMsgs \cup DownMsgs : m.t # u
  /\ \A x, y \in (UpMsgs \cup DownMsgs) \cap FirstMid(u) : x.mid = y.mid
  /\ (UpMsgs \cup DownMsgs) \cap MoreOf(u) # {} => Requests \cap First(u) = {}
  /\ Never(toServer, Later(u), First(u))
  /\ creq[u] # 0 => \A m \in UpMsgs : m.mid = creq[u] => m.t = u
OrderInv ==
  /\ \A m \in UpMsgs : PartOf(m)
  /\ \A m \in DownMsgs : m.kind = "continue" => m.num + 1 < Size[m.t]
  /\ \A c \in strans : c.msg.kind \in {"changed", "content"}
  /\ \A u \in Uploads : Ordered(u)

(* As long as datagrams stay in order and within their transfers, nothing of
   the first block is left when the last one is handled.                     *)
HandledNow(u) == UpMsgs \cap First(u) = {} /\ runs[u] = 1 /\ (u \in Listed => sreq = <<>>)
OnceInv ==
  faults \subseteq {"abandoned", "expired"} =>
    OneListed(Uploads) /\ \A u \in Uploads : Done(u) /\ Size[u] > 1 => HandledNow(u)

(* Without faults the server's buffer holds the beginning of the upload that
   is under way, and a request buffer is freed, or an answer given, only when
   the upload was handled.                                                   *)
Assembling(u) == /\ Size[u] > 1 /\ ~Done(u) /\ Len(sreq) < Size[u]
                 /\ \A i \in DOMAIN sreq : sreq[i][1] = u
Reached(u) == /\ \A m \in UpMsgs : m.kind = "block1" /\ m.t = u => m.num <= Len(sreq)
              /\ \A m \in DownMsgs : m.kind = "continue" /\ m.t = u => m.num + 1 <= Len(sreq)
Freed(u) == Done(u) /\ ToSet(toClient) \cap Cont(u) = {}
Ending(u) == /\ ToSet(toClient) \cap Empty(creq[u]) # {} => Done(u)
             /\ Never(toClient, Empty(creq[u]), Cont(u))
WholeInv ==
  faults = {} =>
    /\ sreq # <<>> => \E u \in Uploads : u \in Listed /\ Assembling(u)
    /\ \A u \in Uploads :
         /\ u \in Listed /\ Size[u] > 1 /\ ~Done(u) => Reached(u)
         /\ Done(u) => WholeUpload(u) \in handled
         /\ u \in Listed /\ Size[u] > 1 /\ creq[u] = 0 => Freed(u)
         /\ creq[u] # 0 => Ending(u)
    /\ \A m \in DownMsgs : m.kind = "changed" => Done(m.t)
    /\ UploadWhole /\ AnswerTrue

(* Steps that send nothing of an upload *)
UpOther(m) == /\ m.kind \in {"get", "block2", "ack"} /\ m.t \notin Uploads
              /\ \A u \in Uploads : creq[u] = 0 \/ m.mid # creq[u]
DownOther(m) == m.kind \in {"ack", "rst", "content"} /\ m.t \notin Uploads
Calm ==
  /\ \A m \in UpMsgs' : m \in UpMsgs \/ UpOther(m)
  /\ \A m \in Requests' : m \in Requests \/ m.t \notin Uploads
  /\ \A m \in DownMsgs' : m \in DownMsgs \/ DownOther(m)
  /\ \A c \in strans' : c.msg.kind \in {"changed", "content"}
  /\ \A u \in Uploads : Never(toServer, Later(u), First(u)) => Never(toServer', Later(u), First(u))
  /\ \A u \in Uploads : client_cb'[u] \in {client_cb[u], "freed"} /\ creq'[u] \in {creq[u], 0}
  /\ runs' = runs /\ handled' = handled /\ sreq' \in {sreq, <<>>} /\ faults \subseteq faults'

(* They keep the order of an upload's messages, ... *)
LEMMA CalmOrder ==
  ASSUME IInv, OrderInv, Calm
  PROVE  OrderInv'
<1>1. /\ \A m \in UpMsgs' : m \in UpMsgs \/ UpOther(m)
      /\ \A m \in Requests' : m \in Requests \/ m.t \notin Uploads
      /\ \A m \in DownMsgs' : m \in DownMsgs \/ DownOther(m)
  BY DEF Calm
<1>2. \A m \in UpMsgs' : PartOf(m)
  BY <1>1 DEF OrderInv, PartOf, UpOther
<1>3. \A m \in DownMsgs' : m.kind = "continue" => m.num + 1 < Size[m.t]
  BY <1>1 DEF OrderInv, DownOther
<1>4. \A c \in strans' : c.msg.kind \in {"changed", "content"}
  BY DEF Calm
<1>5. ASSUME NEW u \in Uploads
      PROVE  Ordered(u)'
  <2>1. Ordered(u)
    BY DEF OrderInv
  <2>2. \A m \in UpMsgs' \cup DownMsgs' : m.t = u => m \in UpMsgs \cup DownMsgs
    BY <1>1 DEF UpOther, DownOther
  <2>3. \A m \in Requests' : m.t = u => m \in Requests
    BY <1>1
  <2>4. client_cb'[u] = "unused" => runs'[u] = 0 /\ \A m \in UpMsgs' \cup DownMsgs' : m.t # u
    BY <2>1, <2>2 DEF Calm, Ordered
  <2>5. \A x, y \in (UpMsgs' \cup DownMsgs') \cap FirstMid(u) : x.mid = y.mid
    <3>1. \A x \in FirstMid(u) : x.t = u
      BY DEF FirstMid, First, Cont
    <3> QED BY <2>1, <2>2, <3>1 DEF Ordered
  <2>6. (UpMsgs' \cup DownMsgs') \cap MoreOf(u) # {} => Requests' \cap First(u) = {}
    <3>1. \A x \in MoreOf(u) \cup First(u) : x.t = u
      BY DEF MoreOf, Later, First, Cont
    <3> QED BY <2>1, <2>2, <2>3, <3>1 DEF Ordered
  <2>7. Never(toServer', Later(u), First(u))
    BY <2>1 DEF Calm, Ordered
  <2>8. creq'[u] # 0 => \A m \in UpMsgs' : m.mid = creq'[u] => m.t = u
    BY <1>1, <2>1 DEF Calm, Ordered, UpOther
  <2> QED BY <2>4, <2>5, <2>6, <2>7, <2>8 DEF Ordered
<1> QED BY <1>2, <1>3, <1>4, <1>5 DEF OrderInv, PartOf

(* ... and hand nothing to the handler. *)
LEMMA CalmOnce ==
  ASSUME IInv, OnceInv, Calm
  PROVE  OnceInv'
<1> SUFFICES ASSUME faults' \subseteq {"abandoned", "expired"}
             PROVE  /\ OneListed(Uploads)'
                    /\ \A u \in Uploads : Done(u)' /\ Size[u] > 1 => HandledNow(u)'
  BY DEF OnceInv
<1>1. /\ OneListed(Uploads) /\ \A u \in Uploads : Done(u) /\ Size[u] > 1 => HandledNow(u)
  BY DEF OnceInv, Calm
<1>2. \A u \in Uploads : u \in Listed' => u \in Listed
  BY DEF Calm, Listed
<1>3. \A u \in Uploads : UpMsgs \cap First(u) = {} => UpMsgs' \cap First(u) = {}
  BY DEF Calm, UpOther, First
<1>4. runs' = runs /\ sreq' \in {sreq, <<>>}
  BY DEF Calm
<1>5. OneListed(Uploads)'
  BY <1>1, <1>2 DEF OneListed
<1>6. \A u \in Uploads : Done(u)' /\ Size[u] > 1 => HandledNow(u)'
  BY <1>1, <1>2, <1>3, <1>4 DEF HandledNow, Done
<1> QED BY <1>5, <1>6

(* They keep what is known of uploads without faults, when callbacks end only
   for uploads that were handled and request buffers are freed only then.    *)
LEMMA CalmWhole ==
  ASSUME IInv, WholeInv, Calm, faults' = {}, sreq' = sreq,
         \A u \in Uploads :
           /\ u \in Listed /\ ~Done(u) => u \in Listed'
           /\ told'[u] = told[u] \/ (told'[u].code = "changed" /\ Done(u))
           /\ u \in Listed' /\ Size[u] > 1 /\ creq'[u] = 0 => Freed(u)'
           /\ creq'[u] # 0 => Ending(u)'
  PROVE  WholeInv'
<1>1. faults = {} /\ sreq' = sreq /\ runs' = runs /\ handled' = handled
  BY DEF Calm
<1>2. \A u : Done(u)' = Done(u)
  BY <1>1 DEF Done
<1>3. \A u \in Uploads : u \in Listed' => u \in Listed
  BY DEF Calm, Listed
<1>4. sreq' # <<>> => \E u \in Uploads : u \in Listed' /\ Assembling(u)'
  BY <1>1, <1>2 DEF WholeInv, Assembling
<1>5. \A u \in Uploads : u \in Listed' /\ Size[u] > 1 /\ ~Done(u)' => Reached(u)'
  <2>1. \A u \in Uploads : Reached(u) => Reached(u)'
    BY <1>1 DEF Reached, Calm, UpOther, DownOther
  <2> QED BY <1>1, <1>2, <1>3, <2>1 DEF WholeInv
<1>6. \A u \in Uploads : Done(u)' => WholeUpload(u) \in handled'
  BY <1>1, <1>2 DEF WholeInv
<1>7. \A m \in DownMsgs' : m.kind = "changed" => Done(m.t)'
  BY <1>1, <1>2 DEF WholeInv, Calm, DownOther
<1>8. UploadWhole' /\ AnswerTrue'
  BY <1>1 DEF WholeInv, UploadWhole, AnswerTrue
<1> QED BY <1>4, <1>5, <1>6, <1>7, <1>8 DEF WholeInv

(* Steps that do nothing for an upload *)
DownSilent(m) == \A u \in Uploads : m \notin Cont(u) /\ (creq[u] # 0 => m \notin Empty(creq[u]))
Still ==
  /\ Calm
  /\ \A u \in Uploads : client_cb'[u] = client_cb[u] /\ creq'[u] = creq[u] /\ told'[u] = told[u]
  /\ sreq' = sreq
  /\ \A m \in ToSet(toClient') : m \in ToSet(toClient) \/ DownSilent(m)
  /\ \A u \in Uploads : creq[u] # 0 /\ Never(toClient, Empty(creq[u]), Cont(u)) =>
                          Never(toClient', Empty(creq[u]), Cont(u))

(* They keep it, and so do faults. *)
LEMMA StillWhole ==
  ASSUME IInv, WholeInv, Calm, faults' = {} => Still
  PROVE  WholeInv'
<1> SUFFICES ASSUME faults' = {}
             PROVE  WholeInv'
  BY DEF WholeInv
<1>1. faults = {} /\ Still
  BY DEF Calm
<1>2. \A u \in Uploads : /\ client_cb'[u] = client_cb[u] /\ creq'[u] = creq[u] /\ told'[u] = told[u]
                         /\ u \in Listed' <=> u \in Listed
  BY <1>1 DEF Still, Listed
<1>3. sreq' = sreq /\ \A u : Done(u)' = Done(u)
  BY <1>1 DEF Still, Calm, Done
<1>4. ASSUME NEW u \in Uploads
      PROVE  /\ u \in Listed' /\ Size[u] > 1 /\ creq'[u] = 0 => Freed(u)'
             /\ creq'[u] # 0 => Ending(u)'
  <2>1. /\ u \in Listed /\ Size[u] > 1 /\ creq[u] = 0 => Freed(u)
        /\ creq[u] # 0 => Ending(u)
    BY <1>1 DEF WholeInv
  <2>2. Freed(u) => Freed(u)'
    BY <1>1, <1>3 DEF Freed, Still, DownSilent
  <2>3. creq[u] # 0 /\ Ending(u) => Ending(u)'
    BY <1>1, <1>2, <1>3 DEF Ending, Still, DownSilent
  <2> QED BY <1>2, <2>1, <2>2, <2>3
<1> QED BY <1>2, <1>3, <1>4, CalmWhole

(* Nothing of Y comes behind anything where there is nothing of Y. *)
LEMMA NoneNever ==
  ASSUME NEW s, NEW X, NEW Y, ToSet(s) \cap Y = {}
  PROVE  Never(s, X, Y)
BY DEF Never, ToSet

(* The client's acknowledgements are nothing of an upload. *)
LEMMA AckOther ==
  ASSUME IInv, NEW x, IsAck(x)
  PROVE  UpOther(x)
<1>1. x.kind = "ack" /\ x.t = 0 /\ x.mid \in ServerMids
  BY DEF IsAck
<1>2. \A u \in Uploads : creq[u] \in ClientMids \cup {0}
  BY DEF IInv, ClientOK
<1>3. 0 \notin Uploads
  BY TransfersAssumption
<1>4. ServerMids \cap ClientMids = {}
  BY MidsAssumption
<1> QED BY <1>1, <1>2, <1>3, <1>4 DEF UpOther

(* The server answers with what is nothing of an upload. *)
LEMMA ServerCalm ==
  ASSUME IInv, OrderInv, NEW i, NEW m, NEW fs, ServerGets(i, m, fs), NEW ms \in Seq(Down),
         SendToClient(ms), UNCHANGED clientVars, runs' = runs, handled' = handled,
         sreq' \in {sreq, <<>>}, \A x \in ToSet(ms) : DownOther(x),
         \A c \in strans' : c \in strans \/ (c.msg \in ToSet(ms) /\ c.msg.kind = "content")
  PROVE  /\ Calm
         /\ sreq' = sreq /\ (\A x \in ToSet(ms) : DownSilent(x)) => Still
<1>1. /\ UpMsgs' \subseteq UpMsgs /\ Requests' = Requests
      /\ \A x \in DownMsgs' : \/ x \in DownMsgs \/ x \in ToSet(ms)
                              \/ \E c \in strans' : c \notin strans /\ x = c.msg
  BY ServerAnswers
<1>2. /\ faults \subseteq faults'
      /\ \A X, Y : Never(toServer, X, Y) => Never(toServer', X, Y)
  BY ServerTakes
<1>3. client_cb' = client_cb /\ creq' = creq /\ told' = told
  BY DEF clientVars
<1>4. \A x \in DownMsgs' : x \in DownMsgs \/ DownOther(x)
  BY <1>1
<1>5. \A c \in strans' : c.msg.kind \in {"changed", "content"}
  BY DEF OrderInv
<1>6. Calm
  BY <1>1, <1>2, <1>3, <1>4, <1>5 DEF Calm
<1>7. ASSUME sreq' = sreq, \A x \in ToSet(ms) : DownSilent(x)
      PROVE  Still
  <2>1. /\ ToSet(toClient') = ToSet(toClient) \cup ToSet(ms)
        /\ \A X, Y : /\ Never(toClient, X, Y) /\ Never(ms, X, Y)
                     /\ ToSet(toClient) \cap X = {} \/ ToSet(ms) \cap Y = {}
                     => Never(toClient', X, Y)
    BY Sends, Zenon
  <2>2. \A u \in Uploads : ToSet(ms) \cap Cont(u) = {}
    BY <1>7 DEF DownSilent
  <2>3. \A u \in Uploads : \A X : Never(ms, X, Cont(u))
    BY <2>2, NoneNever
  <2> QED BY <1>3, <1>6, <1>7, <2>1, <2>2, <2>3 DEF Still
<1> QED BY <1>6, <1>7

(* So does the client. *)
LEMMA ClientCalm ==
  ASSUME IInv, OrderInv, NEW i, NEW m, NEW ms \in Seq(Up), ClientGets(i, m, ms),
         UNCHANGED <<bufVars, strans, version, ghosts>>, \A x \in ToSet(ms) : UpOther(x),
         \A c \in ctrans' : (c \in ctrans /\ c.msg.mid # m.mid) \/ c.msg \in ToSet(ms),
         \A u \in Uploads : client_cb'[u] \in {client_cb[u], "freed"} /\ creq'[u] \in {creq[u], 0}
  PROVE  /\ Calm
         /\ (\A u \in Uploads : /\ client_cb'[u] = client_cb[u]
                                /\ creq'[u] = creq[u] /\ told'[u] = told[u]) => Still
<1>1. /\ DownMsgs' \subseteq DownMsgs /\ faults \subseteq faults'
      /\ \A x \in UpMsgs' : x \in UpMsgs \/ x \in ToSet(ms) \/ IsAck(x)
      /\ \A x \in Requests' : (x \in Requests /\ x.mid # m.mid) \/ x \in ToSet(ms)
  BY ClientAnswers
<1>2. /\ ToSet(toClient') \subseteq ToSet(toClient)
      /\ \A X, Y : Never(toClient, X, Y) => Never(toClient', X, Y)
      /\ \A X, Y : /\ Never(toServer, X, Y) /\ Never(ms, X, Y)
                   /\ ToSet(ms) \cap Y = {} /\ \A x \in Y : x.t # 0
                   => Never(toServer', X, Y)
  BY ClientTakes, Zenon
<1>3. \A x \in UpMsgs' : x \in UpMsgs \/ UpOther(x)
  BY <1>1, AckOther
<1>4. \A x \in Requests' : x \in Requests \/ x.t \notin Uploads
  BY <1>1 DEF UpOther
<1>5. \A u \in Uploads : Never(toServer, Later(u), First(u)) => Never(toServer', Later(u), First(u))
  <2>1. \A u \in Uploads : ToSet(ms) \cap First(u) = {} /\ \A x \in First(u) : x.t # 0
    BY TransfersAssumption DEF First, UpOther
  <2>2. \A u \in Uploads : Never(ms, Later(u), First(u))
    BY <2>1, NoneNever
  <2> QED BY <1>2, <2>1, <2>2
<1>6. sreq' = sreq /\ runs' = runs /\ handled' = handled
  BY DEF bufVars, ghosts
<1>7. \A c \in strans' : c.msg.kind \in {"changed", "content"}
  BY DEF OrderInv
<1>8. Calm
  BY <1>1, <1>3, <1>4, <1>5, <1>6, <1>7 DEF Calm
<1> QED BY <1>2, <1>6, <1>8 DEF Still

(* Nothing is under way that was not, and no more is known. *)
LEMMA NothingSent ==
  ASSUME IInv, OrderInv, UpMsgs' \subseteq UpMsgs, Requests' \subseteq Requests,
         DownMsgs' \subseteq DownMsgs, ToSet(toClient') \subseteq ToSet(toClient),
         \A X, Y : Never(toServer, X, Y) => Never(toServer', X, Y),
         \A X, Y : Never(toClient, X, Y) => Never(toClient', X, Y),
         \A c \in strans' : c.msg.kind \in {"changed", "content"},
         \A u \in Uploads : client_cb'[u] \in {client_cb[u], "freed"} /\ creq'[u] \in {creq[u], 0},
         runs' = runs, handled' = handled, sreq' \in {sreq, <<>>}, faults \subseteq faults'
  PROVE  /\ Calm
         /\ sreq' = sreq /\ (\A u \in Uploads : /\ client_cb'[u] = client_cb[u]
                                                /\ creq'[u] = creq[u] /\ told'[u] = told[u])
            => Still
<1>1. Calm
  BY DEF Calm
<1> QED BY <1>1 DEF Still

(* oc_do_get *)
LEMMA GetStill ==
  ASSUME IInv, OrderInv, NEW d \in Downloads, Get(d)
  PROVE  Calm /\ Still
<1> DEFINE m == Message("get", d, FreshMid(ClientMids), 0, FALSE)
<1>1. /\ MidLeft(ClientMids) /\ client_cb' = [client_cb EXCEPT ![d] = "listed"]
      /\ ctrans' = ctrans \cup {Transaction(m)}
      /\ SendToServer(<<m>>) /\ Happens(Concurrent(Downloads))
      /\ UNCHANGED <<told, creq, cres, bufVars, strans, toClient, version, ghosts>>
  BY DEF Get, MayAlloc
<1>2. m \in Up /\ m.kind = "get" /\ m.t = d /\ m.mid = FreshMid(ClientMids)
  <2>1. FreshMid(ClientMids) \in ClientMids
    BY <1>1, FreshMidType, MidsAssumption
  <2>2. m \in Up
    BY <2>1, MessageUp
  <2> QED BY <2>2 DEF Message
<1> HIDE DEF m
<1>3. UpMsgs' = UpMsgs \cup {m} /\ DownMsgs' = DownMsgs /\ Requests' = Requests \cup {m}
  BY <1>1, <1>2, SentUp
<1>4. UpOther(m) /\ m.t \notin Uploads
  <2>1. \A u \in Uploads : creq[u] # m.mid
    BY <1>1, <1>2, FreshMidNew, MidsAssumption
  <2>2. d \notin Uploads
    BY TransfersAssumption
  <2> QED BY <1>2, <2>1, <2>2 DEF UpOther
<1>5. \A u \in Uploads : Never(toServer, Later(u), First(u)) => Never(toServer', Later(u), First(u))
  <2>1. <<m>> \in Seq(Up) /\ ToSet(<<m>>) = {m} /\ \A X, Y : Never(<<m>>, X, Y)
    BY <1>2, Single, OneMessage
  <2>2. \A u \in Uploads : m \notin First(u)
    BY <1>2 DEF First
  <2>3. \A X, Y : /\ Never(toServer, X, Y) /\ Never(<<m>>, X, Y)
                  /\ ToSet(toServer) \cap X = {} \/ ToSet(<<m>>) \cap Y = {}
                  => Never(toServer', X, Y)
    BY <1>1, <2>1, Sends, Zenon
  <2> QED BY <2>1, <2>2, <2>3
<1>6. \A u \in Uploads : client_cb'[u] = client_cb[u] /\ creq'[u] = creq[u] /\ told'[u] = told[u]
  <2>1. \A u \in Uploads : u # d /\ u \in Transfers
    BY TransfersAssumption DEF Transfers
  <2> QED BY <1>1, <2>1 DEF IInv, ClientOK
<1>7. /\ sreq' = sreq /\ runs' = runs /\ handled' = handled /\ faults \subseteq faults'
      /\ toClient' = toClient /\ strans' = strans
  BY <1>1 DEF bufVars, ghosts, Happens
<1>8. Calm
  BY <1>3, <1>4, <1>5, <1>6, <1>7 DEF Calm, OrderInv
<1> QED BY <1>6, <1>7, <1>8 DEF Still

(* The server answers requests of downloads and takes acknowledgements. *)
LEMMA ServerStill ==
  ASSUME IInv, OrderInv, NEW i, NEW m,
         ReceiveGet(i, m) \/ ReceiveBlock2(i, m) \/ RefuseBlock2(i, m) \/ ServerGetsAck(i, m)
  PROVE  Calm /\ Still
<1>1. PICK fs : ServerGets(i, m, fs)
  BY DEF ReceiveGet, ReceiveBlock2, RefuseBlock2, ServerGetsAck
<1>2. /\ m \in Up /\ m \in UpMsgs /\ ToSet(toServer') \subseteq ToSet(toServer)
      /\ faults \subseteq faults' /\ \A X, Y : Never(toServer, X, Y) => Never(toServer', X, Y)
  BY <1>1, ServerTakes
<1>3. /\ UNCHANGED clientVars /\ runs' = runs /\ handled' = handled /\ sreq' = sreq
  BY DEF ReceiveGet, ReceiveBlock2, RefuseBlock2, ServerGetsAck, bufVars, ghosts
<1>4. \A mid : Ack(mid).kind = "ack" /\ Rst(mid).kind = "rst" /\ Ack(mid).t = 0 /\ Rst(mid).t = 0
               /\ Ack(mid).mid = mid /\ Rst(mid).mid = mid
  BY DEF Ack, Rst, Message
<1>5. 0 \notin Uploads /\ Uploads \cap Downloads = {}
  BY TransfersAssumption
<1>6. ASSUME m.t \in Downloads
      PROVE  /\ DownOther(Ack(m.mid)) /\ DownSilent(Ack(m.mid))
             /\ DownOther(Rst(m.mid)) /\ DownSilent(Rst(m.mid))
  <2>1. \A u \in Uploads : creq[u] # 0 => m.mid # creq[u]
    BY <1>2, <1>5, <1>6 DEF OrderInv, Ordered
  <2>2. DownOther(Ack(m.mid)) /\ DownOther(Rst(m.mid))
    BY <1>4, <1>5 DEF DownOther
  <2>3. \A u \in Uploads : Ack(m.mid) \notin Cont(u) /\ Rst(m.mid) \notin Cont(u)
    BY <1>4 DEF Cont
  <2>4. \A u \in Uploads : creq[u] # 0 =>
          Ack(m.mid) \notin Empty(creq[u]) /\ Rst(m.mid) \notin Empty(creq[u])
    BY <1>4, <2>1 DEF Empty
  <2> QED BY <2>2, <2>3, <2>4 DEF DownSilent
<1>7. ASSUME NEW r, r.kind = "content", r.t \in Downloads
      PROVE  DownOther(r) /\ DownSilent(r)
  BY <1>5, <1>7 DEF DownOther, DownSilent, Cont, Empty
<1>8. CASE ReceiveGet(i, m)
  <2> DEFINE r == Content(m, m.mid, version)
  <2>1. m.kind = "get" /\ SendToClient(<<r>>) /\ UNCHANGED strans
    BY <1>8 DEF ReceiveGet
  <2>2. m.t \in Downloads /\ m.mid \in ClientMids \cup ServerMids /\ version \in Versions
    BY <1>2, <2>1, UpToken DEF IInv, ServerOK
  <2>3. r \in Down /\ r.kind = "content" /\ r.t = m.t
    BY <1>2, <2>2, ContentDown DEF Content
  <2> HIDE DEF r
  <2>4. <<r>> \in Seq(Down) /\ ToSet(<<r>>) = {r}
    BY <2>3, Single, OneMessage
  <2> QED BY <1>1, <1>3, <1>7, <2>1, <2>2, <2>3, <2>4, ServerCalm
<1>9. CASE ReceiveBlock2(i, m)
  <2>1. m.kind = "block2" /\ sres.v # 0
    BY <1>9 DEF ReceiveBlock2, Continues
  <2>2. m.t \in Downloads /\ m.mid \in ClientMids \cup ServerMids /\ sres.v \in Versions
    BY <1>2, <2>1, UpToken DEF IInv, ServerOK
  <2>3. ASSUME NEW mid \in ClientMids \cup ServerMids
        PROVE  LET r == Content(m, mid, sres.v)
               IN  r \in Down /\ r.kind = "content" /\ r.t = m.t
    BY <1>2, <2>2, ContentDown DEF Content
  <2>4. CASE m.num + 1 < VersionSize[sres.v]
    <3> DEFINE r == Content(m, m.mid, sres.v)
    <3>1. SendToClient(<<r>>) /\ UNCHANGED strans
      BY <1>9, <2>4 DEF ReceiveBlock2
    <3>2. r \in Down /\ r.kind = "content" /\ r.t = m.t
      BY <2>2, <2>3
    <3> HIDE DEF r
    <3>3. <<r>> \in Seq(Down) /\ ToSet(<<r>>) = {r}
      BY <3>2, Single, OneMessage
    <3> QED BY <1>1, <1>3, <1>7, <2>2, <3>1, <3>2, <3>3, ServerCalm
  <2>5. CASE ~(m.num + 1 < VersionSize[sres.v])
    <3> DEFINE r == Content(m, FreshMid(ServerMids), sres.v)
               a == Ack(m.mid)
    <3>1. /\ MidLeft(ServerMids) /\ strans' = strans \cup {Transaction(r)}
          /\ SendToClient(<<a, r>>)
      BY <1>9, <2>5 DEF ReceiveBlock2
    <3>2. FreshMid(ServerMids) \in ServerMids
      BY <3>1, FreshMidType, MidsAssumption
    <3>3. r \in Down /\ r.kind = "content" /\ r.t = m.t
      BY <2>3, <3>2
    <3>4. a \in Down /\ DownOther(a) /\ DownSilent(a)
      BY <1>6, <2>2, EmptyMessage
    <3>5. Transaction(r).msg = r
      BY DEF Transaction
    <3> HIDE DEF r, a
    <3>6. <<a, r>> \in Seq(Down) /\ ToSet(<<a, r>>) = {a, r}
      BY <3>3, <3>4, OneMessage
    <3>7. \A c \in strans' : c \in strans \/ (c.msg \in ToSet(<<a, r>>) /\ c.msg.kind = "content")
      BY <3>1, <3>3, <3>5, <3>6
    <3>8. \A x \in ToSet(<<a, r>>) : DownOther(x) /\ DownSilent(x)
      BY <1>7, <2>2, <3>3, <3>4, <3>6
    <3> QED BY <1>1, <1>3, <3>1, <3>6, <3>7, <3>8, ServerCalm
  <2> QED BY <2>4, <2>5
<1>10. CASE RefuseBlock2(i, m)
  <2> DEFINE r == Rst(m.mid)
  <2>1. m.kind = "block2" /\ SendToClient(<<r>>) /\ UNCHANGED strans
    BY <1>10 DEF RefuseBlock2
  <2>2. m.t \in Downloads /\ m.mid \in ClientMids \cup ServerMids
    BY <1>2, <2>1, UpToken
  <2>3. r \in Down /\ DownOther(r) /\ DownSilent(r)
    BY <1>6, <2>2, EmptyMessage
  <2> HIDE DEF r
  <2>4. <<r>> \in Seq(Down) /\ ToSet(<<r>>) = {r}
    BY <2>3, Single, OneMessage
  <2> QED BY <1>1, <1>3, <2>1, <2>3, <2>4, ServerCalm
<1>11. CASE ServerGetsAck(i, m)
  <2>1. strans' \subseteq strans /\ toClient' = toClient
    BY <1>11 DEF ServerGetsAck, ClearMid
  <2>2. /\ client_cb' = client_cb /\ creq' = creq /\ told' = told /\ Requests' = Requests
    BY <1>3 DEF clientVars, Requests
  <2>3. UpMsgs' \subseteq UpMsgs /\ DownMsgs' \subseteq DownMsgs
    BY <1>2, <2>1, <2>2 DEF UpMsgs, DownMsgs
  <2>4. \A c \in strans' : c.msg.kind \in {"changed", "content"}
    BY <2>1 DEF OrderInv
  <2> QED BY <1>2, <1>3, <2>1, <2>2, <2>3, <2>4, NothingSent
<1> QED BY <1>8, <1>9, <1>10, <1>11

(* Freeing the callback of a download does nothing for uploads. *)
LEMMA FreedDownload ==
  ASSUME IInv, NEW d \in Downloads, NEW code, NEW data, InvokeClientCb(d, code, data)
  PROVE  \A u \in Uploads : client_cb'[u] = client_cb[u] /\ creq'[u] = creq[u] /\ told'[u] = told[u]
<1>1. d \in Transfers /\ \A u \in Uploads : u # d /\ u \in Transfers
  BY TransfersAssumption DEF Transfers
<1>2. FreeClientCb(d) /\ told' = [told EXCEPT ![d] = [code |-> code, data |-> data]]
  BY DEF InvokeClientCb
<1>3. \A u \in Uploads : client_cb'[u] = client_cb[u] /\ creq'[u] = creq[u]
  BY <1>1, <1>2, FreedIs
<1>4. \A u \in Uploads : told'[u] = told[u]
  BY <1>1, <1>2 DEF IInv, ClientOK
<1> QED BY <1>3, <1>4

(* The client takes blocks of downloads and messages nobody waits for. *)
LEMMA ClientStill ==
  ASSUME IInv, OrderInv, NEW i, NEW m,
         ReceiveContent(i, m) \/ ReceiveLastContent(i, m) \/ ClientIgnores(i, m)
  PROVE  Calm /\ Still
<1>1. UNCHANGED <<bufVars, strans, version, ghosts>>
  BY DEF ReceiveContent, ReceiveLastContent, ClientIgnores
<1>2. <<>> \in Seq(Up) /\ ToSet(<<>>) = {}
  BY OneMessage
<1>3. CASE ReceiveContent(i, m)
  <2> DEFINE r == Request("block2", m.t, m.num + 1, FALSE)
  <2>1. /\ m.kind = "content" /\ MidLeft(ClientMids) /\ ClientGets(i, m, <<r>>)
        /\ ctrans' = ClearMid(ctrans, m.mid) \cup {Transaction(r)}
        /\ UNCHANGED <<client_cb, told, creq>>
    BY <1>3 DEF ReceiveContent
  <2>2. m \in Down
    BY <2>1 DEF ClientGets, IInv, NetOK
  <2>3. m.t \in Downloads /\ m.num + 1 \in Nat /\ m.t \notin Uploads
    BY <2>1, <2>2, DownToken, TransfersAssumption
  <2>4. r \in Up /\ UpOther(r)
    <3>1. /\ FreshMid(ClientMids) \in ClientMids
          /\ \A u \in Uploads : creq[u] # FreshMid(ClientMids)
      BY <2>1, FreshMidNew, MidsAssumption
    <3>2. r = Message("block2", m.t, FreshMid(ClientMids), m.num + 1, FALSE)
      BY DEF Request
    <3>3. r \in Up
      BY <2>3, <3>1, <3>2, MessageUp
    <3>4. r.kind = "block2" /\ r.t = m.t /\ r.mid = FreshMid(ClientMids)
      BY DEF Request, Message
    <3> QED BY <2>3, <3>1, <3>3, <3>4 DEF UpOther
  <2>5. Transaction(r).msg = r
    BY DEF Transaction
  <2> HIDE DEF r
  <2>6. <<r>> \in Seq(Up) /\ ToSet(<<r>>) = {r}
    BY <2>4, Single, OneMessage
  <2>7. \A c \in ctrans' : (c \in ctrans /\ c.msg.mid # m.mid) \/ c.msg \in ToSet(<<r>>)
    BY <2>1, <2>5, <2>6 DEF ClearMid
  <2>8. \A u \in Uploads : client_cb'[u] = client_cb[u] /\ creq'[u] = creq[u] /\ told'[u] = told[u]
    BY <2>1
  <2> QED BY <1>1, <2>1, <2>4, <2>6, <2>7, <2>8, ClientCalm
<1>4. CASE ReceiveLastContent(i, m) \/ ClientIgnores(i, m)
  <2>1. ClientGets(i, m, <<>>) /\ ctrans' = ClearMid(ctrans, m.mid)
    BY <1>4 DEF ReceiveLastContent, ClientIgnores
  <2>2. m \in Down
    BY <2>1 DEF ClientGets, IInv, NetOK
  <2>3. \A u \in Uploads : client_cb'[u] = client_cb[u] /\ creq'[u] = creq[u] /\ told'[u] = told[u]
    <3>1. CASE ReceiveLastContent(i, m)
      <4>1. m.t \in Downloads
        BY <2>2, <3>1, DownToken DEF ReceiveLastContent
      <4> QED BY <3>1, <4>1, FreedDownload DEF ReceiveLastContent
    <3>2. CASE ClientIgnores(i, m)
      BY <3>2 DEF ClientIgnores
    <3> QED BY <1>4, <3>1, <3>2
  <2>4. \A c \in ctrans' : c \in ctrans /\ c.msg.mid # m.mid
    BY <2>1 DEF ClearMid
  <2> QED BY <1>1, <1>2, <2>1, <2>3, <2>4, ClientCalm
<1> QED BY <1>3, <1>4

(* Losses and timers *)
LEMMA TimersStill ==
  ASSUME IInv, OrderInv,
         \/ LoseToServer \/ LoseToClient \/ BufferExpires \/ Change
         \/ \E c \in ctrans : ClientTimesOut(c)
         \/ \E c \in strans : ServerTimesOut(c)
         \/ \E t \in Transfers : RemoveClientCb(t)
  PROVE  Calm /\ (faults' = {} => Still)
<1> DEFINE Same == \A u \in Uploads : /\ client_cb'[u] = client_cb[u]
                                      /\ creq'[u] = creq[u] /\ told'[u] = told[u]
           Less == \A u \in Uploads : /\ client_cb'[u] \in {client_cb[u], "freed"}
                                      /\ creq'[u] \in {creq[u], 0}
<1>1. /\ runs' = runs /\ handled' = handled /\ ctrans' \subseteq ctrans /\ strans' \subseteq strans
      /\ toServer' = toServer \/ (toServer # <<>> /\ toServer' = Tail(toServer))
      /\ toClient' = toClient \/ (toClient # <<>> /\ toClient' = Tail(toClient))
  BY DEF LoseToServer, LoseToClient, BufferExpires, Change, ClientTimesOut, ServerTimesOut,
         RemoveClientCb, ghosts, clientVars
<1>2. /\ ToSet(toServer') \subseteq ToSet(toServer) /\ ToSet(toClient') \subseteq ToSet(toClient)
      /\ \A X, Y : Never(toServer, X, Y) => Never(toServer', X, Y)
      /\ \A X, Y : Never(toClient, X, Y) => Never(toClient', X, Y)
  BY <1>1, Messages, TailKeeps
<1>3. Requests' \subseteq Requests /\ UpMsgs' \subseteq UpMsgs /\ DownMsgs' \subseteq DownMsgs
  BY <1>1, <1>2 DEF Requests, UpMsgs, DownMsgs
<1>4. \A c \in strans' : c.msg.kind \in {"changed", "content"}
  BY <1>1 DEF OrderInv
<1>5. ASSUME NEW t \in Transfers, FreeClientCb(t)
      PROVE  Less
  BY <1>5, FreedIs DEF Transfers
<1>6. /\ Less /\ sreq' \in {sreq, <<>>} /\ faults \subseteq faults'
      /\ faults' = {} => Same /\ sreq' = sreq
  <2>1. CASE LoseToServer \/ LoseToClient \/ Change \/ \E c \in strans : ServerTimesOut(c)
    BY <2>1 DEF LoseToServer, LoseToClient, Change, ServerTimesOut, clientVars, bufVars
  <2>2. CASE BufferExpires
    <3>1. /\ faults' # {} /\ faults \subseteq faults'
          /\ client_cb' = client_cb /\ sreq' \in {sreq, <<>>}
      BY <2>2 DEF BufferExpires, Happens, bufVars
    <3>2. creq' = creq \/ \E u \in Uploads : creq' = [creq EXCEPT ![u] = 0]
      BY <2>2 DEF BufferExpires
    <3>3. \A u \in Uploads : creq'[u] \in {creq[u], 0}
      BY <3>2 DEF IInv, ClientOK
    <3> QED BY <3>1, <3>3
  <2>3. ASSUME NEW c \in ctrans, ClientTimesOut(c)
        PROVE  /\ Less /\ sreq' \in {sreq, <<>>} /\ faults \subseteq faults'
               /\ faults' = {} => Same /\ sreq' = sreq
    <3>1. /\ sreq' = sreq
          /\ \/ /\ c.msg.t \in Transfers /\ FreeClientCb(c.msg.t)
                /\ faults' # {} /\ faults \subseteq faults'
             \/ UNCHANGED <<client_cb, told, creq, cres, faults>>
      BY <2>3 DEF ClientTimesOut, InvokeClientCb, Listed, Happens, bufVars
    <3> QED BY <1>5, <3>1
  <2>4. ASSUME NEW t \in Transfers, RemoveClientCb(t)
        PROVE  /\ Less /\ sreq' \in {sreq, <<>>} /\ faults \subseteq faults'
               /\ faults' = {} => Same /\ sreq' = sreq
    <3>1. sreq' = sreq /\ FreeClientCb(t) /\ faults' # {} /\ faults \subseteq faults'
      BY <2>4 DEF RemoveClientCb, Happens, bufVars
    <3> QED BY <1>5, <3>1
  <2> QED BY <2>1, <2>2, <2>3, <2>4
<1> QED BY <1>1, <1>2, <1>3, <1>4, <1>6, NothingSent

(* What is sent again was sent before. *)
LEMMA RetransmitStill ==
  ASSUME IInv, OrderInv, \/ \E c \in ctrans : ClientRetransmits(c)
                         \/ \E c \in strans : ServerRetransmits(c)
  PROVE  Calm /\ Still
<1>1. ASSUME NEW c \in ctrans, ClientRetransmits(c)
      PROVE  Calm /\ Still
  <2>1. /\ SendToServer(<<c.msg>>)
        /\ UNCHANGED <<client_cb, told, creq, cres, bufVars, strans, toClient,
                       version, ghosts, faults>>
    BY <1>1 DEF ClientRetransmits
  <2>2. UpMsgs' = UpMsgs /\ Requests' = Requests /\ DownMsgs' = DownMsgs
    BY <1>1, RetransmittedUp
  <2>3. c.msg \in Requests /\ c.msg \in Up
    BY DEF Requests, IInv, NetOK
  <2> DEFINE r == c.msg
  <2> HIDE DEF r
  <2>4. <<r>> \in Seq(Up) /\ ToSet(<<r>>) = {r} /\ \A X, Y : Never(<<r>>, X, Y)
    BY <2>3, Single, OneMessage DEF r
  <2>5. \A X, Y : /\ Never(toServer, X, Y) /\ Never(<<r>>, X, Y)
                  /\ ToSet(toServer) \cap X = {} \/ ToSet(<<r>>) \cap Y = {}
                  => Never(toServer', X, Y)
    BY <2>1, <2>4, Sends, Zenon DEF r
  <2>6. ASSUME NEW u \in Uploads, Never(toServer, Later(u), First(u))
        PROVE  Never(toServer', Later(u), First(u))
    <3>1. CASE r \in First(u)
      <4>1. UpMsgs \cap MoreOf(u) = {}
        BY <2>3, <3>1 DEF OrderInv, Ordered, r
      <4>2. ToSet(toServer) \cap Later(u) = {}
        BY <4>1 DEF UpMsgs, MoreOf
      <4> QED BY <2>4, <2>5, <2>6, <4>2
    <3>2. CASE r \notin First(u)
      BY <2>4, <2>5, <2>6, <3>2
    <3> QED BY <3>1, <3>2
  <2>7. Calm
    BY <2>1, <2>2, <2>6 DEF Calm, OrderInv, bufVars, ghosts
  <2> QED BY <2>1, <2>7 DEF Still, bufVars
<1>2. ASSUME NEW c \in strans, ServerRetransmits(c)
      PROVE  Calm /\ Still
  <2>1. /\ SendToClient(<<c.msg>>)
        /\ UNCHANGED <<clientVars, bufVars, toServer, version, ghosts, faults>>
    BY <1>2 DEF ServerRetransmits
  <2>2. UpMsgs' = UpMsgs /\ Requests' = Requests /\ DownMsgs' = DownMsgs
    BY <1>2, <2>1, RetransmittedDown DEF Requests, clientVars
  <2>3. c.msg.kind \in {"changed", "content"} /\ c.msg \in Down
    BY DEF OrderInv, IInv, NetOK
  <2>4. \A x \in strans' : x.msg.kind \in {"changed", "content"}
    <3>1. strans' = (strans \ {c}) \cup {[c EXCEPT !.tries = @ + 1]}
      BY <1>2 DEF ServerRetransmits
    <3>2. [c EXCEPT !.tries = @ + 1].msg = c.msg
      BY DEF IInv, NetOK
    <3> QED BY <2>3, <3>1, <3>2 DEF OrderInv
  <2> DEFINE r == c.msg
  <2>5. DownSilent(r)
    BY <2>3 DEF DownSilent, Cont, Empty
  <2> HIDE DEF r
  <2>6. <<r>> \in Seq(Down) /\ ToSet(<<r>>) = {r} /\ \A X, Y : Never(<<r>>, X, Y)
    BY <2>3, Single, OneMessage DEF r
  <2>7. /\ ToSet(toClient') = ToSet(toClient) \cup ToSet(<<r>>)
        /\ \A X, Y : /\ Never(toClient, X, Y) /\ Never(<<r>>, X, Y)
                     /\ ToSet(toClient) \cap X = {} \/ ToSet(<<r>>) \cap Y = {}
                     => Never(toClient', X, Y)
    BY <2>1, <2>6, Sends, Zenon DEF r
  <2>8. \A u \in Uploads : r \notin Cont(u)
    BY <2>5 DEF DownSilent
  <2>9. Calm
    BY <2>1, <2>2, <2>4 DEF Calm, clientVars, bufVars, ghosts
  <2> QED BY <2>1, <2>5, <2>6, <2>7, <2>8, <2>9 DEF Still, clientVars, bufVars
<1> QED BY <1>1, <1>2

(* Nothing is refused while an upload is assembled. *)
LEMMA ReceiveGapUp ==
  ASSUME IInv, OrderInv, OnceInv, WholeInv, NEW i, NEW m, ReceiveGap(i, m)
  PROVE  Calm /\ WholeInv'
<1> DEFINE r == Rst(m.mid)
<1>1. /\ m.kind = "block1" /\ ~Assembled(m).ok /\ ServerGets(i, m, {})
      /\ sreq' = <<>> /\ SendToClient(<<r>>)
      /\ UNCHANGED <<clientVars, sres, strans, version, ghosts>>
  BY DEF ReceiveGap
<1>2. m \in Up /\ m \in UpMsgs /\ faults \subseteq faults'
  BY <1>1, ServerTakes
<1>3. m.t \in Uploads /\ m.mid \in ClientMids \cup ServerMids /\ m.t # 0 /\ m.num \in Nat
  BY <1>1, <1>2, UpToken, TransfersAssumption
<1>4. /\ r \in Down /\ r.kind = "rst" /\ r.t = 0 /\ r.mid = m.mid
  <2>1. r \in Down
    BY <1>3, EmptyMessage
  <2> QED BY <2>1 DEF Rst, Message
<1> HIDE DEF r
<1>5. DownOther(r)
  BY <1>4, TransfersAssumption DEF DownOther
<1>6. <<r>> \in Seq(Down) /\ ToSet(<<r>>) = {r} /\ \A X, Y : Never(<<r>>, X, Y)
  BY <1>4, Single, OneMessage
<1>7. runs' = runs /\ handled' = handled
  BY <1>1 DEF ghosts
<1>8. Calm
  BY <1>1, <1>5, <1>6, <1>7, ServerCalm
<1>9. ASSUME faults' = {}
      PROVE  WholeInv'
  <2>1. faults = {} /\ m.t \in Listed
    BY <1>1, <1>2, <1>3, <1>9, ServerTakes
  <2>2. ~(m.num <= Len(sreq))
    BY <1>1 DEF Assembled, HandleBlock
  <2>3. Size[m.t] > 1
    BY <1>1, <1>2 DEF OrderInv, PartOf
  <2>4. Done(m.t)
    BY <1>1, <1>2, <1>3, <2>1, <2>2, <2>3 DEF WholeInv, Reached
  <2>5. sreq' = sreq
    BY <1>1, <1>3, <2>1, <2>3, <2>4 DEF OnceInv, HandledNow
  <2>6. client_cb' = client_cb /\ creq' = creq /\ told' = told /\ Listed' = Listed
    BY <1>1 DEF clientVars, Listed
  <2>7. \A u : Done(u)' = Done(u)
    BY <1>7 DEF Done
  <2>8. /\ ToSet(toClient') = ToSet(toClient) \cup ToSet(<<r>>)
        /\ \A X, Y : /\ Never(toClient, X, Y) /\ Never(<<r>>, X, Y)
                     /\ ToSet(toClient) \cap X = {} \/ ToSet(<<r>>) \cap Y = {}
                     => Never(toClient', X, Y)
    BY <1>1, <1>6, Sends, Zenon
  <2>9. \A u \in Uploads : r \notin Cont(u)
    BY <1>4 DEF Cont
  <2>10. \A u \in Uploads : u \in Listed /\ Size[u] > 1 /\ creq[u] = 0 => Freed(u)'
    BY <1>6, <2>1, <2>7, <2>8, <2>9 DEF WholeInv, Freed
  <2>11. ASSUME NEW u \in Uploads, creq[u] # 0
         PROVE  Ending(u)'
    <3>1. Ending(u)
      BY <2>1, <2>11 DEF WholeInv
    <3>2. r \in Empty(creq[u]) => Done(u)
      <4>1. r \in Empty(creq[u]) => m.mid = creq[u]
        BY <1>4 DEF Empty
      <4>2. m.mid = creq[u] => m.t = u
        BY <1>2, <2>11 DEF OrderInv, Ordered
      <4> QED BY <2>4, <4>1, <4>2
    <3>3. Never(toClient', Empty(creq[u]), Cont(u))
      BY <1>6, <2>8, <2>9, <3>1 DEF Ending
    <3> QED BY <1>6, <2>6, <2>7, <2>8, <3>1, <3>2, <3>3 DEF Ending
  <2> QED BY <1>8, <1>9, <2>5, <2>6, <2>10, <2>11, CalmWhole
<1> QED BY <1>8, <1>9 DEF WholeInv

(* An answer is given for an upload that was handled. *)
LEMMA ReceiveChangedUp ==
  ASSUME IInv, OrderInv, WholeInv, NEW i, NEW m, ReceiveChanged(i, m)
  PROVE  Calm /\ WholeInv'
<1> DEFINE code == IF m.kind = "changed" THEN "changed" ELSE "ok"
<1>1. /\ m.kind \in {"changed", "continue"} /\ m.t \in Listed /\ ClientGets(i, m, <<>>)
      /\ m.kind = "continue" => creq[m.t] = 0
      /\ FreeClientCb(m.t) /\ told' = [told EXCEPT ![m.t] = [code |-> code, data |-> <<>>]]
      /\ ctrans' = ClearMid(ctrans, m.mid) /\ UNCHANGED <<bufVars, strans, version, ghosts>>
  BY DEF ReceiveChanged, InvokeClientCb
<1>2. <<>> \in Seq(Up) /\ ToSet(<<>>) = {}
  BY OneMessage
<1>3. /\ m \in Down /\ m \in DownMsgs /\ m \in ToSet(toClient)
      /\ ToSet(toClient') \subseteq ToSet(toClient) /\ faults \subseteq faults'
      /\ \A X, Y : Never(toClient, X, Y) => Never(toClient', X, Y)
  BY <1>1, <1>2, ClientTakes
<1>4. m.t \in Uploads /\ m.t \in Transfers
  BY <1>1, <1>3, DownToken DEF Transfers
<1>5. /\ Listed' = Listed \ {m.t} /\ client_cb'[m.t] = "freed"
      /\ \A x \in Transfers : x # m.t => client_cb'[x] = client_cb[x]
      /\ \A u \in Uploads : creq'[u] = IF u = m.t THEN 0 ELSE creq[u]
  BY <1>1, <1>4, FreedIs
<1>6. \A c \in ctrans' : c \in ctrans /\ c.msg.mid # m.mid
  BY <1>1 DEF ClearMid
<1>7. \A u \in Uploads : client_cb'[u] \in {client_cb[u], "freed"} /\ creq'[u] \in {creq[u], 0}
  BY <1>5 DEF Transfers
<1>8. Calm
  BY <1>1, <1>2, <1>6, <1>7, ClientCalm
<1>9. ASSUME faults' = {}
      PROVE  WholeInv'
  <2>1. faults = {}
    BY <1>3, <1>9
  <2>2. m.kind = "changed"
    <3> SUFFICES ASSUME m.kind = "continue" PROVE FALSE
      BY <1>1
    <3>1. m.num + 1 < Size[m.t] /\ m.num \in Nat /\ Size[m.t] \in Nat
      BY <1>3, <1>4, DownToken, TransfersAssumption DEF OrderInv
    <3>2. Freed(m.t)
      BY <1>1, <1>4, <2>1, <3>1 DEF WholeInv
    <3>3. m \in Cont(m.t)
      BY <1>3 DEF Cont, Down
    <3> QED BY <1>3, <3>2, <3>3 DEF Freed
  <2>3. Done(m.t)
    BY <1>3, <2>1, <2>2 DEF WholeInv
  <2>4. told'[m.t].code = "changed" /\ \A u \in Uploads : u # m.t => told'[u] = told[u]
    <3>1. code = "changed"
      BY <2>2
    <3> HIDE DEF code
    <3>2. told'[m.t] = [code |-> code, data |-> <<>>]
      BY <1>1, <1>4 DEF IInv, ClientOK
    <3>3. \A u \in Uploads : u # m.t => told'[u] = told[u]
      BY <1>1, <1>4 DEF IInv, ClientOK, Transfers
    <3> QED BY <3>1, <3>2, <3>3
  <2>5. sreq' = sreq /\ \A u : Done(u)' = Done(u)
    BY <1>1 DEF bufVars, ghosts, Done
  <2>6. ASSUME NEW u \in Uploads
        PROVE  /\ u \in Listed' /\ Size[u] > 1 /\ creq'[u] = 0 => Freed(u)'
               /\ creq'[u] # 0 => Ending(u)'
    <3>1. u \in Listed' \/ creq'[u] # 0 => u # m.t /\ creq'[u] = creq[u]
      BY <1>5
    <3>2. /\ u \in Listed /\ Size[u] > 1 /\ creq[u] = 0 => Freed(u)
          /\ creq[u] # 0 => Ending(u)
      BY <2>1 DEF WholeInv
    <3>3. Freed(u) => Freed(u)'
      BY <1>3, <2>5 DEF Freed
    <3>4. creq'[u] = creq[u] /\ Ending(u) => Ending(u)'
      BY <1>3, <2>5 DEF Ending
    <3> QED BY <1>5, <3>1, <3>2, <3>3, <3>4
  <2> QED BY <1>5, <1>8, <1>9, <2>3, <2>4, <2>5, <2>6, CalmWhole
<1> QED BY <1>8, <1>9 DEF WholeInv

(* An empty message frees the request buffer of an upload that was handled. *)
LEMMA ClientGetsEmptyUp ==
  ASSUME IInv, OrderInv, WholeInv, NEW i, NEW m, ClientGetsEmpty(i, m)
  PROVE  Calm /\ WholeInv'
<1>1. /\ m.kind \in {"ack", "rst"} /\ ClientGets(i, m, <<>>)
      /\ \/ \E d \in Downloads : InvokeClientCb(d, "ok", <<>>)
         \/ /\ creq' = [u \in Uploads |-> IF creq[u] = m.mid THEN 0 ELSE creq[u]]
            /\ UNCHANGED <<client_cb, told, cres>>
      /\ ctrans' = ClearMid(ctrans, m.mid) /\ UNCHANGED <<bufVars, strans, version, ghosts>>
  BY DEF ClientGetsEmpty
<1>2. <<>> \in Seq(Up) /\ ToSet(<<>>) = {}
  BY OneMessage
<1>3. /\ m \in Down /\ m \in ToSet(toClient)
      /\ ToSet(toClient') \subseteq ToSet(toClient) /\ faults \subseteq faults'
      /\ \A X, Y : Never(toClient, X, Y) => Never(toClient', X, Y)
      /\ "overtaken" \notin faults' =>
           \A X, Y : Never(toClient, X, Y) /\ m \in X => ToSet(toClient') \cap Y = {}
  BY <1>1, <1>2, ClientTakes
<1>4. \A c \in ctrans' : c \in ctrans /\ c.msg.mid # m.mid
  BY <1>1 DEF ClearMid
<1>5. CASE \E d \in Downloads : InvokeClientCb(d, "ok", <<>>)
  <2>1. \A u \in Uploads : client_cb'[u] = client_cb[u] /\ creq'[u] = creq[u] /\ told'[u] = told[u]
    BY <1>5, FreedDownload
  <2>2. Calm /\ Still
    BY <1>1, <1>2, <1>4, <2>1, ClientCalm
  <2> QED BY <2>2, StillWhole
<1>6. CASE /\ creq' = [u \in Uploads |-> IF creq[u] = m.mid THEN 0 ELSE creq[u]]
           /\ UNCHANGED <<client_cb, told, cres>>
  <2>1. \A u \in Uploads : /\ client_cb'[u] = client_cb[u] /\ told'[u] = told[u]
                           /\ creq'[u] = IF creq[u] = m.mid THEN 0 ELSE creq[u]
    BY <1>6
  <2>2. Calm
    BY <1>1, <1>2, <1>4, <2>1, ClientCalm
  <2>3. ASSUME faults' = {}
        PROVE  WholeInv'
    <3>1. faults = {} /\ Listed' = Listed
      BY <1>3, <1>6, <2>3 DEF Listed
    <3>2. sreq' = sreq /\ \A u : Done(u)' = Done(u)
      BY <1>1 DEF bufVars, ghosts, Done
    <3>3. ASSUME NEW u \in Uploads
          PROVE  /\ u \in Listed' /\ Size[u] > 1 /\ creq'[u] = 0 => Freed(u)'
                 /\ creq'[u] # 0 => Ending(u)'
      <4>1. /\ u \in Listed /\ Size[u] > 1 /\ creq[u] = 0 => Freed(u)
            /\ creq[u] # 0 => Ending(u)
        BY <3>1 DEF WholeInv
      <4>2. Freed(u) => Freed(u)'
        BY <1>3, <3>2 DEF Freed
      <4>3. creq'[u] = creq[u] /\ Ending(u) => Ending(u)'
        BY <1>3, <3>2 DEF Ending
      <4>4. creq[u] = m.mid /\ creq[u] # 0 => Freed(u)'
        <5> SUFFICES ASSUME creq[u] = m.mid, creq[u] # 0 PROVE Freed(u)'
          OBVIOUS
        <5>1. m \in Empty(creq[u])
          BY <1>1, <1>3 DEF Empty, Down
        <5>2. Done(u) /\ Never(toClient, Empty(creq[u]), Cont(u))
          BY <1>3, <4>1, <5>1 DEF Ending
        <5>3. ToSet(toClient') \cap Cont(u) = {}
          BY <1>3, <2>3, <5>1, <5>2
        <5> QED BY <3>2, <5>2, <5>3 DEF Freed
      <4>5. creq[u] = 0 \/ creq[u] = m.mid \/ creq'[u] = creq[u]
        BY <2>1
      <4> QED BY <2>1, <3>1, <4>1, <4>2, <4>3, <4>4, <4>5
    <3> QED BY <2>1, <2>2, <2>3, <3>1, <3>2, <3>3, CalmWhole
  <2> QED BY <2>2, <2>3 DEF WholeInv
<1> QED BY <1>1, <1>5, <1>6

(* The server's answers to a message of an upload keep the order. *)
LEMMA ServerOrder ==
  ASSUME IInv, OrderInv, NEW i, NEW m, NEW fs, ServerGets(i, m, fs), m.t \in Uploads,
         UNCHANGED clientVars, UpMsgs' \subseteq UpMsgs,
         \A x \in DownMsgs' :
           \/ x \in DownMsgs \/ DownOther(x) \/ (x.kind = "changed" /\ x.t = m.t)
           \/ /\ m.kind = "block1" /\ m.more /\ x.kind = "continue" /\ x.t = m.t
              /\ x.num = m.num /\ x.mid = m.mid,
         \A c \in strans' : c.msg.kind \in {"changed", "content"},
         \A u \in Uploads : u # m.t => runs'[u] = runs[u]
  PROVE  OrderInv'
<1>1. /\ m \in Up /\ m \in UpMsgs /\ \A X, Y : Never(toServer, X, Y) => Never(toServer', X, Y)
  BY ServerTakes
<1>2. client_cb' = client_cb /\ creq' = creq /\ Requests' = Requests
  BY DEF clientVars, Requests
<1>3. \A x \in UpMsgs' : PartOf(x)
  BY DEF OrderInv
<1>4. \A x \in DownMsgs' : x.kind = "continue" => x.num + 1 < Size[x.t]
  <2>1. m.kind = "block1" /\ m.more => m.num + 1 < Size[m.t]
    BY <1>1 DEF OrderInv, PartOf
  <2> QED BY <2>1 DEF OrderInv, DownOther
<1>5. ASSUME NEW u \in Uploads
      PROVE  Ordered(u)'
  <2>1. Ordered(u)
    BY DEF OrderInv
  <2>2. \A x \in UpMsgs' \cup DownMsgs' : x.t = u => x \in UpMsgs \cup DownMsgs \/ u = m.t
    BY DEF DownOther
  <2>3. client_cb[u] = "unused" => u # m.t
    BY <1>1, <2>1 DEF Ordered
  <2>4. client_cb'[u] = "unused" => runs'[u] = 0 /\ \A x \in UpMsgs' \cup DownMsgs' : x.t # u
    BY <1>2, <2>1, <2>2, <2>3 DEF Ordered
  <2>5. m \in Msg
    BY <1>1 DEF Up
  <2>6. \A x, y \in (UpMsgs' \cup DownMsgs') \cap FirstMid(u) : x.mid = y.mid
    <3>1. \A x \in (UpMsgs' \cup DownMsgs') \cap FirstMid(u) :
            \/ x \in UpMsgs \cup DownMsgs
            \/ x.mid = m.mid /\ m \in FirstMid(u)
      BY <2>5 DEF FirstMid, First, Cont, DownOther
    <3> QED BY <1>1, <2>1, <3>1 DEF Ordered
  <2>7. (UpMsgs' \cup DownMsgs') \cap MoreOf(u) # {} => Requests' \cap First(u) = {}
    <3>1. \A x \in (UpMsgs' \cup DownMsgs') \cap MoreOf(u) :
            x \in UpMsgs \cup DownMsgs \/ m \in MoreOf(u)
      BY <2>5 DEF MoreOf, Later, Cont, DownOther
    <3> QED BY <1>1, <1>2, <2>1, <3>1 DEF Ordered
  <2>8. Never(toServer', Later(u), First(u))
    BY <1>1, <2>1 DEF Ordered
  <2>9. creq'[u] # 0 => \A x \in UpMsgs' : x.mid = creq'[u] => x.t = u
    BY <1>2, <2>1 DEF Ordered
  <2> QED BY <2>4, <2>6, <2>7, <2>8, <2>9 DEF Ordered
<1> QED BY <1>3, <1>4, <1>5 DEF OrderInv, PartOf

(* A payload of one block *)
LEMMA OneBlock ==
  ASSUME NEW u \in Uploads, Size[u] = 1
  PROVE  << <<u, 0>> >> = WholeUpload(u)
<1> DEFINE b == <<u, 0>>
           s == <<b>>
           w == [k \in 1..1 |-> <<u, k - 1>>]
<1>1. \A k \in 1..1 : k = 1 /\ <<u, k - 1>> = b
  OBVIOUS
<1> HIDE DEF b
<1>2. s \in [1..1 -> {b}] /\ s[1] = b
  OBVIOUS
<1> HIDE DEF s
<1>3. s = [k \in 1..1 |-> s[k]]
  BY <1>2, Zenon
<1>4. w = [k \in 1..1 |-> b]
  BY <1>1, Zenon
<1>5. \A k \in 1..1 : s[k] = b
  BY <1>1, <1>2
<1>6. s = w
  BY <1>3, <1>4, <1>5, Zenon
<1> QED BY <1>6 DEF WholeUpload, s, b

(* How often the handler was given an upload *)
LEMMA OneMoreRun ==
  ASSUME IInv, NEW u \in Uploads, runs' = [runs EXCEPT ![u] = Min({@ + 1, 2})]
  PROVE  /\ \A x \in Uploads : x # u => runs'[x] = runs[x]
         /\ runs'[u] >= 1 /\ (runs[u] = 0 => runs'[u] = 1)
<1>1. runs \in [Uploads -> 0..2]
  BY DEF IInv, ServerOK
<1>2. runs'[u] = Min({runs[u] + 1, 2}) /\ \A x \in Uploads : x # u => runs'[x] = runs[x]
  BY <1>1
<1>3. {runs[u] + 1, 2} \subseteq Nat /\ {runs[u] + 1, 2} # {}
  BY <1>1
<1>4. Min({runs[u] + 1, 2}) \in {runs[u] + 1, 2}
  BY <1>3, MinNat
<1>5. runs'[u] >= 1
  BY <1>1, <1>2, <1>4
<1>6. runs[u] = 0 => Min({runs[u] + 1, 2}) = 1
  BY DEF Min
<1> QED BY <1>2, <1>5, <1>6

(* A request without block options *)
LEMMA ReceivePostUp ==
  ASSUME IInv, OrderInv, OnceInv, WholeInv, NEW i, NEW m, ReceivePost(i, m)
  PROVE  OrderInv' /\ OnceInv' /\ WholeInv'
<1> DEFINE r == Message("changed", m.t, m.mid, 0, FALSE)
           p == << <<m.t, 0>> >>
<1>1. /\ m.kind = "post" /\ ServerGets(i, m, {}) /\ handled' = handled \cup {p}
      /\ runs' = [runs EXCEPT ![m.t] = Min({@ + 1, 2})] /\ sreq' = <<>>
      /\ SendToClient(<<r>>) /\ UNCHANGED <<clientVars, sres, strans, version, served>>
  BY DEF ReceivePost, Handle
<1>2. m \in Up /\ m \in UpMsgs /\ faults \subseteq faults'
  BY <1>1, ServerTakes
<1>3. /\ m.t \in Uploads /\ m.mid \in ClientMids \cup ServerMids /\ Size[m.t] = 1 /\ m.t # 0
  BY <1>1, <1>2, UpToken, TransfersAssumption DEF OrderInv, PartOf
<1>4. r \in Down /\ r.kind = "changed" /\ r.t = m.t
  <2>1. r \in Down
    BY <1>3, MessageDown
  <2> QED BY <2>1 DEF Message
<1>5. p = WholeUpload(m.t)
  BY <1>3, OneBlock
<1> HIDE DEF r, p
<1>6. <<r>> \in Seq(Down) /\ ToSet(<<r>>) = {r} /\ \A X, Y : Never(<<r>>, X, Y)
  BY <1>4, Single, OneMessage
<1>7. UpMsgs' \subseteq UpMsgs /\ \A x \in DownMsgs' : x \in DownMsgs \/ x = r
  BY <1>1, <1>6, ServerAnswers
<1>8. /\ \A u \in Uploads : u # m.t => runs'[u] = runs[u]
      /\ runs'[m.t] >= 1 /\ (runs[m.t] = 0 => runs'[m.t] = 1)
  BY <1>1, <1>3, OneMoreRun
<1>9. \A c \in strans' : c.msg.kind \in {"changed", "content"}
  BY <1>1 DEF OrderInv
<1>10. OrderInv'
  BY <1>1, <1>3, <1>4, <1>7, <1>8, <1>9, ServerOrder
<1>11. client_cb' = client_cb /\ creq' = creq /\ told' = told /\ Listed' = Listed
  BY <1>1 DEF clientVars, Listed
<1>12. \A u \in Uploads : /\ u # m.t => Done(u)' = Done(u)
                          /\ Done(u) => Done(u)' /\ Done(m.t)'
  BY <1>8 DEF Done
<1>13. OnceInv'
  <2> SUFFICES ASSUME faults' \subseteq {"abandoned", "expired"}
               PROVE  /\ OneListed(Uploads)'
                      /\ \A u \in Uploads : Done(u)' /\ Size[u] > 1 => HandledNow(u)'
    BY DEF OnceInv
  <2>1. OneListed(Uploads) /\ \A u \in Uploads : Done(u) /\ Size[u] > 1 => HandledNow(u)
    BY <1>2 DEF OnceInv
  <2>2. OneListed(Uploads)'
    BY <1>11, <2>1 DEF OneListed
  <2>3. \A u \in Uploads : Size[u] > 1 => u # m.t
    BY <1>3
  <2>4. \A u \in Uploads : Done(u)' /\ Size[u] > 1 => HandledNow(u)'
    BY <1>1, <1>7, <1>8, <1>12, <2>1, <2>3 DEF HandledNow
  <2> QED BY <2>2, <2>4
<1>14. ASSUME faults' = {}
       PROVE  WholeInv'
  <2>1. faults = {} /\ m.t \in Listed
    BY <1>1, <1>2, <1>3, <1>14, ServerTakes
  <2>2. \A u \in Uploads : u \in Listed => u = m.t
    BY <1>3, <2>1 DEF OnceInv, OneListed
  <2>3. \A u \in Uploads : u \in Listed' => ~(Size[u] > 1)
    BY <1>3, <1>11, <2>2
  <2>4. \A u \in Uploads : Done(u)' => WholeUpload(u) \in handled'
    BY <1>1, <1>5, <1>12, <2>1 DEF WholeInv
  <2>5. \A x \in DownMsgs' : x.kind = "changed" => Done(x.t)'
    <3>1. \A x \in DownMsgs : x.kind = "changed" => x.t \in Uploads
      BY Messages, DownToken
    <3>2. \A x \in DownMsgs : x.kind = "changed" => Done(x.t)
      BY <2>1 DEF WholeInv
    <3>3. \A x \in DownMsgs : x.kind = "changed" => Done(x.t)'
      BY <1>12, <3>1, <3>2
    <3>4. runs'[r.t] >= 1
      BY <1>4, <1>8
    <3> QED BY <1>7, <3>3, <3>4 DEF Done
  <2>6. /\ ToSet(toClient') = ToSet(toClient) \cup ToSet(<<r>>)
        /\ \A X, Y : /\ Never(toClient, X, Y) /\ Never(<<r>>, X, Y)
                     /\ ToSet(toClient) \cap X = {} \/ ToSet(<<r>>) \cap Y = {}
                     => Never(toClient', X, Y)
    BY <1>1, <1>6, Sends, Zenon
  <2>7. \A u \in Uploads : r \notin Cont(u) /\ r \notin Empty(creq[u])
    BY <1>4 DEF Cont, Empty
  <2>8. \A u \in Uploads : creq'[u] # 0 => Ending(u)'
    BY <1>6, <1>11, <1>12, <2>1, <2>6, <2>7 DEF WholeInv, Ending
  <2>9. UploadWhole' /\ AnswerTrue'
    BY <1>1, <1>3, <1>5, <1>11, <2>1 DEF WholeInv, UploadWhole, AnswerTrue
  <2> QED BY <1>1, <2>3, <2>4, <2>5, <2>8, <2>9 DEF WholeInv
<1> QED BY <1>10, <1>13, <1>14 DEF WholeInv

(* A block of an upload that is not refused, as long as messages stay within
   their transfers: the upload is listed and was not handled.               *)
LEMMA BlockTaken ==
  ASSUME IInv, OrderInv, OnceInv, NEW i, NEW m, m.kind = "block1", Assembled(m).ok,
         ServerGets(i, m, {}), faults' \subseteq {"abandoned", "expired"}
  PROVE  /\ m.t \in Listed /\ ~Done(m.t) /\ \A u \in Uploads : u \in Listed => u = m.t
<1>1. m \in Up /\ m \in UpMsgs /\ faults \subseteq faults'
  BY ServerTakes
<1>2. m.t \in Uploads /\ m.t # 0 /\ m.num \in Nat /\ Size[m.t] > 1
  BY <1>1, UpToken, TransfersAssumption DEF OrderInv, PartOf
<1>3. m.t \in Listed
  BY <1>2, ServerTakes
<1>4. \A u \in Uploads : u \in Listed => u = m.t
  BY <1>1, <1>2, <1>3 DEF OnceInv, OneListed
<1>5. ASSUME Done(m.t) PROVE FALSE
  <2>1. UpMsgs \cap First(m.t) = {} /\ sreq = <<>>
    BY <1>1, <1>2, <1>3, <1>5 DEF OnceInv, HandledNow
  <2>2. m.num <= Len(sreq)
    BY DEF Assembled, HandleBlock
  <2>3. m.num = 0
    BY <1>2, <2>1, <2>2
  <2>4. m \in First(m.t)
    BY <1>1, <2>3 DEF First, Up
  <2> QED BY <1>1, <2>1, <2>4
<1> QED BY <1>3, <1>4, <1>5

(* The buffer with one more block of the upload it belongs to *)
LEMMA OneMoreOfUpload ==
  ASSUME NEW data \in Placed, NEW u \in Uploads, NEW num \in Nat, num <= Len(data),
         num < Size[u], data # <<>> => Len(data) < Size[u],
         \A k \in DOMAIN data : data[k][1] = u
  PROVE  LET new == HandleBlock(data, num, <<u, num>>).data
         IN  /\ \A k \in DOMAIN new : new[k][1] = u
             /\ num + 1 < Size[u] => Len(new) < Size[u]
             /\ num + 1 <= Len(new) /\ Len(data) <= Len(new) /\ new # <<>>
             /\ num + 1 = Size[u] => new = WholeUpload(u)
<1> DEFINE new == HandleBlock(data, num, <<u, num>>).data
<1>1. /\ data \in Seq(Block) /\ \A k \in DOMAIN data : data[k][1] = u /\ data[k][2] = k - 1
      /\ Len(data) \in Nat
  BY DEF Placed
<1>2. /\ <<u, num>> \in Block /\ Size[u] \in Nat \ {0}
  BY TransfersAssumption DEF Block
<1>3. Len(data) < Size[u]
  <2>1. data = <<>> => Len(data) = 0
    BY <1>1
  <2> QED BY <1>1, <1>2, <2>1
<1>4. CASE num = Len(data)
  <2> DEFINE app == Append(data, <<u, num>>)
  <2>1. new = app
    BY <1>4 DEF HandleBlock
  <2>2. /\ Len(app) = num + 1 /\ app # <<>> /\ \A k \in DOMAIN app : app[k][1] = u
        /\ app = [k \in 1..(num + 1) |-> <<u, k - 1>>]
    BY <1>1, <1>2, <1>4, NextBlock
  <2> HIDE DEF new, app
  <2>3. num + 1 = Size[u] => app = WholeUpload(u)
    BY <2>2 DEF WholeUpload
  <2>4. /\ \A k \in DOMAIN new : new[k][1] = u
        /\ num + 1 < Size[u] => Len(new) < Size[u]
        /\ num + 1 <= Len(new) /\ Len(data) <= Len(new) /\ new # <<>>
        /\ num + 1 = Size[u] => new = WholeUpload(u)
    BY <1>1, <1>2, <1>4, <2>1, <2>2, <2>3
  <2> QED BY <2>4 DEF new
<1>5. CASE num < Len(data)
  <2>1. new = data
    BY <1>1, <1>5 DEF HandleBlock
  <2>2. num + 1 <= Len(data) /\ ~(num + 1 = Size[u]) /\ data # <<>>
    BY <1>1, <1>2, <1>3, <1>5
  <2> HIDE DEF new
  <2>3. /\ \A k \in DOMAIN new : new[k][1] = u
        /\ num + 1 < Size[u] => Len(new) < Size[u]
        /\ num + 1 <= Len(new) /\ Len(data) <= Len(new) /\ new # <<>>
        /\ num + 1 = Size[u] => new = WholeUpload(u)
    BY <1>1, <1>3, <2>1, <2>2
  <2> QED BY <2>3 DEF new
<1>6. num = Len(data) \/ num < Len(data)
  BY <1>1
<1> QED BY <1>4, <1>5, <1>6, Zenon

(* What is assembled belongs to the upload the block belongs to. *)
LEMMA AssembledIs ==
  ASSUME IInv, OrderInv, OnceInv, WholeInv, NEW i, NEW m, m.kind = "block1", Assembled(m).ok,
         ServerGets(i, m, {}), faults' = {}
  PROVE  /\ \A k \in DOMAIN Assembled(m).data : Assembled(m).data[k][1] = m.t
         /\ m.more => Len(Assembled(m).data) < Size[m.t]
         /\ m.num + 1 <= Len(Assembled(m).data) /\ Len(sreq) <= Len(Assembled(m).data)
         /\ ~m.more => Assembled(m).data = WholeUpload(m.t)
<1>1. m \in Up /\ m \in UpMsgs /\ faults = {}
  BY ServerTakes
<1>2. /\ m.t \in Uploads /\ m.num \in Nat /\ m.num < Size[m.t] /\ Size[m.t] \in Nat
  BY <1>1, UpToken, TransfersAssumption DEF OrderInv, PartOf
<1>3. \A u \in Uploads : u \in Listed => u = m.t
  BY BlockTaken
<1>4. sreq \in Placed /\ m.num <= Len(sreq)
  BY DEF IInv, ServerOK, Assembled, HandleBlock
<1>5. /\ sreq # <<>> => Len(sreq) < Size[m.t]
      /\ \A k \in DOMAIN sreq : sreq[k][1] = m.t
  <2>1. CASE sreq = <<>>
    BY <2>1
  <2>2. CASE sreq # <<>>
    BY <1>1, <1>3, <2>2 DEF WholeInv, Assembling
  <2> QED BY <2>1, <2>2
<1> DEFINE new == HandleBlock(sreq, m.num, <<m.t, m.num>>).data
<1>6. /\ \A k \in DOMAIN new : new[k][1] = m.t
      /\ m.num + 1 < Size[m.t] => Len(new) < Size[m.t]
      /\ m.num + 1 <= Len(new) /\ Len(sreq) <= Len(new)
      /\ m.num + 1 = Size[m.t] => new = WholeUpload(m.t)
  BY <1>2, <1>4, <1>5, OneMoreOfUpload
<1> HIDE DEF new
<1>7. (m.more => m.num + 1 < Size[m.t]) /\ (~m.more => m.num + 1 = Size[m.t])
  <2>1. (m.more => m.num + 1 < Size[m.t]) /\ (~m.more => ~(m.num + 1 < Size[m.t]))
    BY <1>1 DEF OrderInv, PartOf
  <2> QED BY <1>2, <2>1
<1>8. Assembled(m).data = new
  BY DEF Assembled, new
<1> QED BY <1>2, <1>6, <1>7, <1>8

(* A block of an upload that is not the last one *)
LEMMA ReceiveBlock1Up ==
  ASSUME IInv, OrderInv, OnceInv, WholeInv, NEW i, NEW m, ReceiveBlock1(i, m)
  PROVE  OrderInv' /\ OnceInv' /\ WholeInv'
<1> DEFINE r == Message("continue", m.t, m.mid, m.num, TRUE)
<1>1. /\ m.kind = "block1" /\ Assembled(m).ok /\ m.more /\ ServerGets(i, m, {})
      /\ sreq' = Assembled(m).data /\ SendToClient(<<r>>)
      /\ UNCHANGED <<clientVars, sres, strans, version, ghosts>>
  BY DEF ReceiveBlock1
<1>2. m \in Up /\ m \in UpMsgs /\ faults \subseteq faults'
  BY <1>1, ServerTakes
<1>3. /\ m.t \in Uploads /\ m.mid \in ClientMids \cup ServerMids /\ m.num \in Nat /\ Size[m.t] > 1
  BY <1>1, <1>2, UpToken DEF OrderInv, PartOf
<1>4. r \in Down /\ r.kind = "continue" /\ r.t = m.t /\ r.num = m.num /\ r.mid = m.mid
  <2>1. r \in Down
    BY <1>3, MessageDown
  <2> QED BY <2>1 DEF Message
<1> HIDE DEF r
<1>5. <<r>> \in Seq(Down) /\ ToSet(<<r>>) = {r} /\ \A X, Y : Never(<<r>>, X, Y)
  BY <1>4, Single, OneMessage
<1>6. UpMsgs' \subseteq UpMsgs /\ \A x \in DownMsgs' : x \in DownMsgs \/ x = r
  BY <1>1, <1>5, ServerAnswers
<1>7. \A c \in strans' : c.msg.kind \in {"changed", "content"}
  BY <1>1 DEF OrderInv
<1>8. runs' = runs /\ handled' = handled /\ \A u : Done(u)' = Done(u)
  BY <1>1 DEF ghosts, Done
<1>9. OrderInv'
  BY <1>1, <1>3, <1>4, <1>6, <1>7, <1>8, ServerOrder
<1>10. client_cb' = client_cb /\ creq' = creq /\ told' = told /\ Listed' = Listed
  BY <1>1 DEF clientVars, Listed
<1>11. OnceInv'
  <2> SUFFICES ASSUME faults' \subseteq {"abandoned", "expired"}
               PROVE  /\ OneListed(Uploads)'
                      /\ \A u \in Uploads : Done(u)' /\ Size[u] > 1 => HandledNow(u)'
    BY DEF OnceInv
  <2>1. OneListed(Uploads) /\ \A u \in Uploads : Done(u) /\ Size[u] > 1 => HandledNow(u)
    BY <1>2 DEF OnceInv
  <2>2. OneListed(Uploads)'
    BY <1>10, <2>1 DEF OneListed
  <2>3. ~Done(m.t) /\ \A u \in Uploads : u \in Listed => u = m.t
    BY <1>1, BlockTaken
  <2>4. \A u \in Uploads : Done(u)' /\ Size[u] > 1 => HandledNow(u)'
    BY <1>6, <1>8, <1>10, <2>1, <2>3 DEF HandledNow
  <2> QED BY <2>2, <2>4
<1>12. ASSUME faults' = {}
       PROVE  WholeInv'
  <2>1. faults = {}
    BY <1>2, <1>12
  <2>2. m.t \in Listed /\ ~Done(m.t) /\ \A u \in Uploads : u \in Listed => u = m.t
    BY <1>1, <1>12, BlockTaken
  <2>3. /\ \A k \in DOMAIN sreq' : sreq'[k][1] = m.t
        /\ Len(sreq') < Size[m.t] /\ m.num + 1 <= Len(sreq') /\ Len(sreq) <= Len(sreq')
    BY <1>1, <1>12, AssembledIs
  <2>4. m.t \in Listed' /\ Assembling(m.t)'
    BY <1>3, <1>8, <1>10, <2>2, <2>3 DEF Assembling
  <2>5. Reached(m.t)'
    <3>1. Reached(m.t)
      BY <1>3, <2>1, <2>2 DEF WholeInv
    <3>2. Len(sreq) \in Nat /\ Len(sreq') \in Nat
      <4>1. sreq \in Seq(Block)
        BY DEF IInv, ServerOK, Placed
      <4>2. sreq' \in Seq(Block)
        BY <1>1, <1>2, <1>3, AssembledPlaced DEF Placed
      <4> QED BY <4>1, <4>2
    <3>3. \A x \in UpMsgs \cup DownMsgs : x.num \in Nat
      BY Messages, MsgFields DEF Up, Down
    <3>4. \A x \in UpMsgs' : x.kind = "block1" /\ x.t = m.t => x.num <= Len(sreq')
      BY <1>6, <2>3, <3>1, <3>2, <3>3 DEF Reached
    <3>5. \A x \in DownMsgs' : x.kind = "continue" /\ x.t = m.t => x.num + 1 <= Len(sreq')
      BY <1>4, <1>6, <2>3, <3>1, <3>2, <3>3 DEF Reached
    <3> QED BY <3>4, <3>5 DEF Reached
  <2>6. \A u \in Uploads : u \in Listed' => u = m.t
    BY <1>10, <2>2
  <2>7. creq[m.t] # 0
    BY <1>3, <2>1, <2>2 DEF WholeInv, Freed
  <2>8. /\ ToSet(toClient') = ToSet(toClient) \cup ToSet(<<r>>)
        /\ \A X, Y : /\ Never(toClient, X, Y) /\ Never(<<r>>, X, Y)
                     /\ ToSet(toClient) \cap X = {} \/ ToSet(<<r>>) \cap Y = {}
                     => Never(toClient', X, Y)
    BY <1>1, <1>5, Sends, Zenon
  <2>9. ASSUME NEW u \in Uploads, creq[u] # 0
        PROVE  Ending(u)'
    <3>1. Ending(u)
      BY <2>1, <2>9 DEF WholeInv
    <3>2. r \notin Empty(creq[u])
      BY <1>4 DEF Empty
    <3>3. ToSet(toClient') \cap Empty(creq[u]) # {} => Done(u)
      BY <1>5, <2>8, <3>1, <3>2 DEF Ending
    <3>4. CASE u = m.t
      <4>1. ToSet(toClient) \cap Empty(creq[u]) = {}
        BY <2>2, <3>1, <3>4 DEF Ending
      <4>2. Never(toClient', Empty(creq[u]), Cont(u))
        BY <1>5, <2>8, <3>1, <4>1 DEF Ending
      <4> QED BY <1>8, <1>10, <3>3, <4>2 DEF Ending
    <3>5. CASE u # m.t
      <4>1. r \notin Cont(u)
        BY <1>4, <3>5 DEF Cont
      <4>2. Never(toClient', Empty(creq[u]), Cont(u))
        BY <1>5, <2>8, <3>1, <4>1 DEF Ending
      <4> QED BY <1>8, <1>10, <3>3, <4>2 DEF Ending
    <3> QED BY <3>4, <3>5
  <2>10. \A x \in DownMsgs' : x.kind = "changed" => Done(x.t)'
    BY <1>4, <1>6, <1>8, <2>1 DEF WholeInv
  <2>11. \A u \in Uploads : Done(u)' => WholeUpload(u) \in handled'
    BY <1>8, <2>1 DEF WholeInv
  <2>12. UploadWhole' /\ AnswerTrue'
    BY <1>8, <1>10, <2>1 DEF WholeInv, UploadWhole, AnswerTrue
  <2>13. \A u \in Uploads :
           /\ u \in Listed' /\ Size[u] > 1 /\ ~Done(u)' => Reached(u)'
           /\ u \in Listed' /\ Size[u] > 1 /\ creq'[u] = 0 => Freed(u)'
           /\ creq'[u] # 0 => Ending(u)'
    BY <1>10, <2>5, <2>6, <2>7, <2>9
  <2> QED BY <1>3, <2>4, <2>10, <2>11, <2>12, <2>13 DEF WholeInv
<1> QED BY <1>9, <1>11, <1>12 DEF WholeInv

(* The last block of an upload: the payload is handled and answered. *)
LEMMA ReceiveLastBlock1Up ==
  ASSUME IInv, OrderInv, OnceInv, WholeInv, NEW i, NEW m, ReceiveLastBlock1(i, m)
  PROVE  OrderInv' /\ OnceInv' /\ WholeInv'
<1> DEFINE r == Message("changed", m.t, FreshMid(ServerMids), m.num, FALSE)
           a == Ack(m.mid)
<1>1. /\ m.kind = "block1" /\ Assembled(m).ok /\ ~m.more /\ MidLeft(ServerMids)
      /\ ServerGets(i, m, {}) /\ handled' = handled \cup {Assembled(m).data}
      /\ runs' = [runs EXCEPT ![m.t] = Min({@ + 1, 2})] /\ sreq' = <<>>
      /\ strans' = strans \cup {Transaction(r)} /\ SendToClient(<<a, r>>)
      /\ UNCHANGED <<clientVars, sres, version, served>>
  BY DEF ReceiveLastBlock1, Handle
<1>2. /\ m \in Up /\ m \in UpMsgs /\ faults \subseteq faults'
      /\ "overtaken" \notin faults' =>
           \A X, Y : Never(toServer, X, Y) /\ m \in X => ToSet(toServer') \cap Y = {}
  BY <1>1, ServerTakes
<1>3. /\ m.t \in Uploads /\ m.mid \in ClientMids \cup ServerMids /\ m.num \in Nat /\ Size[m.t] > 1
      /\ Size[m.t] \in Nat
  BY <1>1, <1>2, UpToken, TransfersAssumption DEF OrderInv, PartOf
<1>4. m \in Later(m.t) /\ m \in MoreOf(m.t)
  <2>1. ~(m.num + 1 < Size[m.t])
    BY <1>1, <1>2 DEF OrderInv, PartOf
  <2>2. m.num # 0
    BY <1>3, <2>1
  <2> QED BY <1>1, <1>2, <2>2 DEF MoreOf, Later, Up
<1>5. /\ r \in Down /\ r.kind = "changed" /\ r.t = m.t
      /\ a \in Down /\ a.kind = "ack" /\ a.t = 0 /\ a.mid = m.mid
  <2>1. FreshMid(ServerMids) \in ServerMids
    BY <1>1, FreshMidType, MidsAssumption
  <2>2. r \in Down
    BY <1>3, <2>1, MessageDown
  <2>3. a \in Down
    BY <1>3, EmptyMessage
  <2>4. r.kind = "changed" /\ r.t = m.t
    BY DEF Message
  <2>5. a.kind = "ack" /\ a.t = 0 /\ a.mid = m.mid
    BY DEF Ack, Message
  <2> QED BY <2>2, <2>3, <2>4, <2>5
<1>6. Transaction(r).msg = r
  BY DEF Transaction
<1> HIDE DEF r, a
<1>7. DownOther(a)
  BY <1>5, TransfersAssumption DEF DownOther
<1>8. /\ <<a, r>> \in Seq(Down) /\ ToSet(<<a, r>>) = {a, r}
      /\ \A X, Y : a \notin X \/ r \notin Y => Never(<<a, r>>, X, Y)
  BY <1>5, OneMessage
<1>9. /\ UpMsgs' \subseteq UpMsgs /\ Requests' = Requests
      /\ \A x \in DownMsgs' : x \in DownMsgs \/ x = a \/ x = r
  <2>1. \A c \in strans' : c \in strans \/ c.msg = r
    BY <1>1, <1>6
  <2>2. /\ UpMsgs' \subseteq UpMsgs /\ Requests' = Requests
        /\ \A x \in DownMsgs' : \/ x \in DownMsgs \/ x \in ToSet(<<a, r>>)
                                \/ \E c \in strans' : c \notin strans /\ x = c.msg
    BY <1>1, <1>8, ServerAnswers
  <2> QED BY <1>8, <2>1, <2>2
<1>10. /\ \A u \in Uploads : u # m.t => runs'[u] = runs[u]
       /\ runs'[m.t] >= 1 /\ (runs[m.t] = 0 => runs'[m.t] = 1)
  BY <1>1, <1>3, OneMoreRun
<1>11. \A c \in strans' : c.msg.kind \in {"changed", "content"}
  BY <1>1, <1>5, <1>6 DEF OrderInv
<1>12. OrderInv'
  <2>1. \A x \in DownMsgs' : x \in DownMsgs \/ DownOther(x) \/ (x.kind = "changed" /\ x.t = m.t)
    BY <1>5, <1>7, <1>9
  <2> QED BY <1>1, <1>3, <1>9, <1>10, <1>11, <2>1, ServerOrder
<1>13. client_cb' = client_cb /\ creq' = creq /\ told' = told /\ Listed' = Listed
  BY <1>1 DEF clientVars, Listed
<1>14. \A u \in Uploads : /\ u # m.t => Done(u)' = Done(u)
                          /\ Done(u) \/ u = m.t => Done(u)'
  BY <1>10 DEF Done
<1>15. OnceInv'
  <2> SUFFICES ASSUME faults' \subseteq {"abandoned", "expired"}
               PROVE  /\ OneListed(Uploads)'
                      /\ \A u \in Uploads : Done(u)' /\ Size[u] > 1 => HandledNow(u)'
    BY DEF OnceInv
  <2>1. OneListed(Uploads) /\ \A u \in Uploads : Done(u) /\ Size[u] > 1 => HandledNow(u)
    BY <1>2 DEF OnceInv
  <2>2. OneListed(Uploads)'
    BY <1>13, <2>1 DEF OneListed
  <2>3. ~Done(m.t)
    BY <1>1, BlockTaken
  <2>4. runs'[m.t] = 1
    <3>1. runs[m.t] \in 0..2
      BY <1>3 DEF IInv, ServerOK
    <3>2. runs[m.t] = 0
      BY <2>3, <3>1 DEF Done
    <3> QED BY <1>10, <3>2
  <2>5. UpMsgs' \cap First(m.t) = {}
    <3>1. Requests \cap First(m.t) = {} /\ Never(toServer, Later(m.t), First(m.t))
      BY <1>2, <1>3, <1>4 DEF OrderInv, Ordered
    <3>2. ToSet(toServer') \cap First(m.t) = {}
      BY <1>2, <1>4, <3>1
    <3> QED BY <1>9, <3>1, <3>2 DEF UpMsgs
  <2>6. HandledNow(m.t)'
    BY <1>1, <2>4, <2>5 DEF HandledNow
  <2>7. \A u \in Uploads : u # m.t /\ Done(u)' /\ Size[u] > 1 => HandledNow(u)'
    BY <1>1, <1>9, <1>10, <1>14, <2>1 DEF HandledNow
  <2> QED BY <2>2, <2>6, <2>7
<1>16. ASSUME faults' = {}
       PROVE  WholeInv'
  <2>1. faults = {}
    BY <1>2, <1>16
  <2>2. \A u \in Uploads : u \in Listed => u = m.t
    BY <1>1, <1>16, BlockTaken
  <2>3. Assembled(m).data = WholeUpload(m.t)
    BY <1>1, <1>16, AssembledIs
  <2>4. \A u \in Uploads : Done(u)' => WholeUpload(u) \in handled'
    BY <1>1, <1>14, <2>1, <2>3 DEF WholeInv
  <2>5. \A u \in Uploads : u \in Listed' => Done(u)'
    BY <1>3, <1>13, <1>14, <2>2
  <2>6. \A x \in DownMsgs' : x.kind = "changed" => Done(x.t)'
    <3>1. \A x \in DownMsgs : x.kind = "changed" => x.t \in Uploads
      BY Messages, DownToken
    <3>2. \A x \in DownMsgs : x.kind = "changed" => Done(x.t)
      BY <2>1 DEF WholeInv
    <3>3. \A x \in DownMsgs : x.kind = "changed" => Done(x.t)'
      BY <1>14, <3>1, <3>2
    <3>4. runs'[r.t] >= 1 /\ a.kind # "changed"
      BY <1>5, <1>10
    <3> QED BY <1>9, <3>3, <3>4 DEF Done
  <2>7. /\ ToSet(toClient') = ToSet(toClient) \cup ToSet(<<a, r>>)
        /\ \A X, Y : /\ Never(toClient, X, Y) /\ Never(<<a, r>>, X, Y)
                     /\ ToSet(toClient) \cap X = {} \/ ToSet(<<a, r>>) \cap Y = {}
                     => Never(toClient', X, Y)
    BY <1>1, <1>8, Sends, Zenon
  <2>8. \A u \in Uploads : r \notin Cont(u) /\ a \notin Cont(u)
    BY <1>5 DEF Cont
  <2>9. \A u \in Uploads : u \in Listed' /\ Size[u] > 1 /\ creq'[u] = 0 => Freed(u)'
    <3>1. \A u \in Uploads : u \in Listed /\ Size[u] > 1 /\ creq[u] = 0 => Freed(u)
      BY <2>1 DEF WholeInv
    <3> QED BY <1>8, <1>13, <2>5, <2>7, <2>8, <3>1 DEF Freed
  <2>10. ASSUME NEW u \in Uploads, creq[u] # 0
         PROVE  Ending(u)'
    <3>1. Ending(u)
      BY <2>1, <2>10 DEF WholeInv
    <3>2. a \in Empty(creq[u]) => u = m.t
      <4>1. a \in Empty(creq[u]) => m.mid = creq[u]
        BY <1>5 DEF Empty
      <4> QED BY <1>2, <2>10, <4>1 DEF OrderInv, Ordered
    <3>3. r \notin Empty(creq[u])
      BY <1>5 DEF Empty
    <3>4. ToSet(toClient') \cap Empty(creq[u]) # {} => Done(u)'
      BY <1>8, <1>14, <2>7, <3>1, <3>2, <3>3 DEF Ending
    <3>5. Never(<<a, r>>, Empty(creq[u]), Cont(u))
      BY <1>8, <2>8
    <3>6. Never(toClient', Empty(creq[u]), Cont(u))
      BY <1>8, <2>7, <2>8, <3>1, <3>5 DEF Ending
    <3> QED BY <1>13, <3>4, <3>6 DEF Ending
  <2>11. UploadWhole' /\ AnswerTrue'
    BY <1>1, <1>3, <1>13, <2>1, <2>3 DEF WholeInv, UploadWhole, AnswerTrue
  <2> QED BY <1>1, <1>13, <2>4, <2>5, <2>6, <2>9, <2>10, <2>11 DEF WholeInv
<1> QED BY <1>12, <1>15, <1>16 DEF WholeInv

(* oc_do_post *)
LEMMA PostUp ==
  ASSUME IInv, OrderInv, OnceInv, WholeInv, NEW u \in Uploads, Post(u)
  PROVE  OrderInv' /\ OnceInv' /\ WholeInv'
<1> DEFINE more == Size[u] > 1
           kind == IF Size[u] > 1 THEN "block1" ELSE "post"
           m == Message(kind, u, FreshMid(ClientMids), 0, more)
<1>1. /\ client_cb[u] = "unused" /\ MidLeft(ClientMids)
      /\ client_cb' = [client_cb EXCEPT ![u] = "listed"]
      /\ creq' = [creq EXCEPT ![u] = IF Size[u] > 1 THEN m.mid ELSE 0]
      /\ ctrans' = ctrans \cup {Transaction(m)}
      /\ SendToServer(<<m>>) /\ Happens(Concurrent(Uploads))
      /\ UNCHANGED <<told, cres, bufVars, strans, toClient, version, ghosts>>
  BY DEF Post, MayAlloc
<1>2. /\ FreshMid(ClientMids) \in ClientMids
      /\ \A x \in UpMsgs \cup DownMsgs : x.mid # FreshMid(ClientMids)
      /\ \A x \in Uploads : creq[x] # FreshMid(ClientMids)
  BY <1>1, FreshMidNew, MidsAssumption
<1>3. /\ m \in Up /\ m.kind = kind /\ m.t = u /\ m.mid = FreshMid(ClientMids) /\ m.num = 0
      /\ PartOf(m)
  <2>1. more \in BOOLEAN /\ kind \in {"post", "block1"}
    OBVIOUS
  <2>2. Size[u] \in Nat \ {0}
    BY TransfersAssumption
  <2>3. kind = "post" => Size[u] = 1
    BY <2>2
  <2>4. kind = "block1" => Size[u] > 1
    OBVIOUS
  <2>5. more = (0 + 1 < Size[u])
    BY <2>2
  <2> HIDE DEF more, kind
  <2>6. m \in Up
    BY <1>2, <2>1, MessageUp
  <2>7. m.kind = kind /\ m.t = u /\ m.mid = FreshMid(ClientMids) /\ m.num = 0 /\ m.more = more
    BY DEF Message
  <2> HIDE DEF m
  <2>8. PartOf(m)
    BY <2>2, <2>3, <2>4, <2>5, <2>7 DEF PartOf
  <2> QED BY <2>6, <2>7, <2>8
<1>4. kind = "block1" <=> Size[u] > 1
  OBVIOUS
<1> HIDE DEF m, kind, more
<1>5. UpMsgs' = UpMsgs \cup {m} /\ DownMsgs' = DownMsgs /\ Requests' = Requests \cup {m}
  BY <1>1, <1>3, SentUp
<1>6. /\ \A x \in Uploads : x # u => client_cb'[x] = client_cb[x] /\ creq'[x] = creq[x]
      /\ client_cb'[u] = "listed" /\ creq'[u] = IF Size[u] > 1 THEN m.mid ELSE 0
  BY <1>1 DEF IInv, ClientOK, Transfers
<1>7. runs[u] = 0 /\ \A x \in UpMsgs \cup DownMsgs : x.t # u
  BY <1>1 DEF OrderInv, Ordered
<1>8. /\ runs' = runs /\ handled' = handled /\ sreq' = sreq /\ told' = told /\ strans' = strans
      /\ toClient' = toClient /\ faults \subseteq faults' /\ \A x : Done(x)' = Done(x)
  BY <1>1 DEF bufVars, ghosts, Happens, Done
<1>9. OrderInv'
  <2>1. ASSUME NEW x \in Uploads
        PROVE  Ordered(x)'
    <3>1. Ordered(x)
      BY DEF OrderInv
    <3>2. \A y \in UpMsgs' \cup DownMsgs' : y.t = x =>
            (y \in UpMsgs \cup DownMsgs /\ x # u) \/ (y = m /\ x = u)
      BY <1>3, <1>5, <1>7
    <3>3. client_cb'[x] = "unused" => runs'[x] = 0 /\ \A y \in UpMsgs' \cup DownMsgs' : y.t # x
      BY <1>6, <1>8, <3>1, <3>2 DEF Ordered
    <3>4. \A y, z \in (UpMsgs' \cup DownMsgs') \cap FirstMid(x) : y.mid = z.mid
      <4>1. \A y \in FirstMid(x) : y.t = x
        BY DEF FirstMid, First, Cont
      <4> QED BY <3>1, <3>2, <4>1 DEF Ordered
    <3>5. (UpMsgs' \cup DownMsgs') \cap MoreOf(x) # {} => Requests' \cap First(x) = {}
      <4>1. \A y \in MoreOf(x) \cup First(x) : y.t = x
        BY DEF MoreOf, Later, First, Cont
      <4>2. m \notin MoreOf(x)
        BY <1>3, <1>4 DEF MoreOf, Later, Cont
      <4>3. (UpMsgs' \cup DownMsgs') \cap MoreOf(x) # {} =>
              x # u /\ (UpMsgs \cup DownMsgs) \cap MoreOf(x) # {}
        BY <3>2, <4>1, <4>2
      <4>4. x # u => m \notin First(x)
        BY <1>3, <4>1
      <4> QED BY <1>5, <3>1, <4>3, <4>4 DEF Ordered
    <3>6. Never(toServer', Later(x), First(x))
      <4>1. <<m>> \in Seq(Up) /\ ToSet(<<m>>) = {m} /\ \A X, Y : Never(<<m>>, X, Y)
        BY <1>3, Single, OneMessage
      <4>2. \A X, Y : /\ Never(toServer, X, Y) /\ Never(<<m>>, X, Y)
                      /\ ToSet(toServer) \cap X = {} \/ ToSet(<<m>>) \cap Y = {}
                      => Never(toServer', X, Y)
        BY <1>1, <4>1, Sends, Zenon
      <4>3. x = u => ToSet(toServer) \cap Later(x) = {}
        BY <1>7 DEF UpMsgs, Later
      <4>4. x # u => m \notin First(x)
        BY <1>3 DEF First
      <4>5. Never(toServer, Later(x), First(x))
        BY <3>1 DEF Ordered
      <4> QED BY <4>1, <4>2, <4>3, <4>4, <4>5
    <3>7. creq'[x] # 0 => \A y \in UpMsgs' : y.mid = creq'[x] => y.t = x
      <4>1. CASE x = u
        BY <1>2, <1>3, <1>5, <1>6, <4>1
      <4>2. CASE x # u
        BY <1>2, <1>3, <1>5, <1>6, <3>1, <4>2 DEF Ordered
      <4> QED BY <4>1, <4>2
    <3> QED BY <3>3, <3>4, <3>5, <3>6, <3>7 DEF Ordered
  <2>2. \A x \in UpMsgs' : PartOf(x)
    BY <1>3, <1>5 DEF OrderInv
  <2> QED BY <1>5, <1>8, <2>1, <2>2 DEF OrderInv, PartOf
<1>10. "overlapped" \notin faults' =>
         /\ \A x \in Uploads : x \notin Listed
         /\ \A x \in Uploads : x \in Listed' => x = u
  <2>1. "overlapped" \notin faults' => Listed \cap Uploads = {}
    BY <1>1 DEF Happens, Concurrent
  <2> QED BY <1>6, <2>1 DEF Listed
<1>11. OnceInv'
  <2> SUFFICES ASSUME faults' \subseteq {"abandoned", "expired"}
               PROVE  /\ OneListed(Uploads)'
                      /\ \A x \in Uploads : Done(x)' /\ Size[x] > 1 => HandledNow(x)'
    BY DEF OnceInv
  <2>1. \A x \in Uploads : Done(x) /\ Size[x] > 1 => HandledNow(x)
    BY <1>8 DEF OnceInv
  <2>2. \A x \in Uploads : x \in Listed' => x = u
    BY <1>10
  <2>3. \A x \in Uploads : Done(x) => x # u
    BY <1>7 DEF Done
  <2>4. \A x \in Uploads : x # u => m \notin First(x)
    BY <1>3 DEF First
  <2>5. \A x \in Uploads : Done(x)' /\ Size[x] > 1 => HandledNow(x)'
    BY <1>5, <1>8, <2>1, <2>2, <2>3, <2>4 DEF HandledNow
  <2> QED BY <2>2, <2>5 DEF OneListed
<1>12. ASSUME faults' = {}
       PROVE  WholeInv'
  <2>1. /\ faults = {} /\ \A x \in Uploads : x \notin Listed
        /\ \A x \in Uploads : x \in Listed' => x = u
    BY <1>8, <1>10, <1>12
  <2>2. sreq' = <<>>
    BY <1>8, <2>1 DEF WholeInv
  <2>3. Reached(u)'
    <3>1. \A x \in UpMsgs' : x.t = u => x.num = 0
      BY <1>3, <1>5, <1>7
    <3>2. \A x \in DownMsgs' : x.t # u
      BY <1>5, <1>7
    <3>3. Len(sreq') = 0
      BY <2>2
    <3> QED BY <3>1, <3>2, <3>3 DEF Reached
  <2>4. Size[u] > 1 => creq'[u] # 0
    BY <1>2, <1>3, <1>6, MidsAssumption
  <2>5. ASSUME NEW x \in Uploads, creq'[x] # 0
        PROVE  Ending(x)'
    <3>1. CASE x = u
      <4>1. ToSet(toClient) \cap Empty(m.mid) = {}
        BY <1>2, <1>3 DEF DownMsgs, Empty
      <4>2. Never(toClient, Empty(m.mid), Cont(u))
        BY <4>1 DEF Never, ToSet
      <4>3. creq'[u] = m.mid
        BY <1>6, <2>5, <3>1
      <4> QED BY <1>8, <3>1, <4>1, <4>2, <4>3 DEF Ending
    <3>2. CASE x # u
      BY <1>6, <1>8, <2>1, <2>5, <3>2 DEF WholeInv, Ending
    <3> QED BY <3>1, <3>2
  <2>6. \A x \in DownMsgs' : x.kind = "changed" => Done(x.t)'
    BY <1>5, <1>8, <2>1 DEF WholeInv
  <2>7. \A x \in Uploads : Done(x)' => WholeUpload(x) \in handled'
    BY <1>8, <2>1 DEF WholeInv
  <2>8. UploadWhole' /\ AnswerTrue'
    BY <1>8, <2>1 DEF WholeInv, UploadWhole, AnswerTrue
  <2> QED BY <2>1, <2>2, <2>3, <2>4, <2>5, <2>6, <2>7, <2>8 DEF WholeInv
<1> QED BY <1>9, <1>11, <1>12 DEF WholeInv

(* The next block of an upload is sent. *)
LEMMA ReceiveContinueUp ==
  ASSUME IInv, OrderInv, OnceInv, WholeInv, NEW i, NEW m, ReceiveContinue(i, m)
  PROVE  OrderInv' /\ OnceInv' /\ WholeInv'
<1> DEFINE u == m.t
           more == m.num + 2 < Size[m.t]
           r == Request("block1", m.t, m.num + 1, more)
<1>1. /\ m.kind = "continue" /\ u \in Listed /\ creq[u] # 0 /\ MidLeft(ClientMids)
      /\ ClientGets(i, m, <<r>>) /\ creq' = [creq EXCEPT ![u] = r.mid]
      /\ ctrans' = ClearMid(ctrans, m.mid) \cup {Transaction(r)}
      /\ UNCHANGED <<client_cb, told, cres, bufVars, strans, version, ghosts>>
  BY DEF ReceiveContinue
<1>2. m \in Down
  BY <1>1 DEF ClientGets, IInv, NetOK
<1>3. u \in Uploads /\ m.num \in Nat /\ Size[u] \in Nat /\ m \in Msg
  BY <1>1, <1>2, DownToken, TransfersAssumption DEF Down
<1>4. /\ FreshMid(ClientMids) \in ClientMids
      /\ \A x \in UpMsgs \cup DownMsgs : x.mid # FreshMid(ClientMids)
      /\ \A x \in Uploads : creq[x] # FreshMid(ClientMids)
  BY <1>1, FreshMidNew, MidsAssumption
<1>5. /\ r \in Up /\ r.kind = "block1" /\ r.t = u /\ r.num = m.num + 1
      /\ r.mid = FreshMid(ClientMids) /\ r.more = (m.num + 2 < Size[u])
  <2>1. more \in BOOLEAN /\ m.num + 1 \in Nat
    BY <1>3
  <2>2. r = Message("block1", u, FreshMid(ClientMids), m.num + 1, more)
    BY DEF Request
  <2> HIDE DEF more
  <2>3. r \in Up
    BY <1>3, <1>4, <2>1, <2>2, MessageUp
  <2>4. r.kind = "block1" /\ r.t = u /\ r.num = m.num + 1
        /\ r.mid = FreshMid(ClientMids) /\ r.more = more
    BY DEF Request, Message
  <2> QED BY <2>3, <2>4 DEF more
<1>6. Transaction(r).msg = r
  BY DEF Transaction
<1> HIDE DEF r, u, more
<1>7. <<r>> \in Seq(Up) /\ ToSet(<<r>>) = {r} /\ \A X, Y : Never(<<r>>, X, Y)
  BY <1>5, Single, OneMessage
<1>8. /\ m \in DownMsgs /\ DownMsgs' \subseteq DownMsgs /\ faults \subseteq faults'
      /\ \A x \in UpMsgs' : x \in UpMsgs \/ x = r \/ UpOther(x)
      /\ \A x \in Requests' : (x \in Requests /\ x.mid # m.mid) \/ x = r
  <2>1. \A c \in ctrans' : (c \in ctrans /\ c.msg.mid # m.mid) \/ c.msg \in ToSet(<<r>>)
    BY <1>1, <1>6, <1>7 DEF ClearMid
  <2>2. /\ m \in DownMsgs /\ DownMsgs' \subseteq DownMsgs /\ faults \subseteq faults'
        /\ \A x \in UpMsgs' : x \in UpMsgs \/ x \in ToSet(<<r>>) \/ IsAck(x)
        /\ \A x \in Requests' : (x \in Requests /\ x.mid # m.mid) \/ x \in ToSet(<<r>>)
    BY <1>1, <1>7, <2>1, ClientAnswers
  <2> QED BY <1>7, <2>2, AckOther
<1>9. /\ ToSet(toClient') \subseteq ToSet(toClient)
      /\ \A X, Y : Never(toClient, X, Y) => Never(toClient', X, Y)
      /\ \A X, Y : /\ Never(toServer, X, Y) /\ Never(<<r>>, X, Y)
                   /\ ToSet(<<r>>) \cap Y = {} /\ \A x \in Y : x.t # 0
                   => Never(toServer', X, Y)
  BY <1>1, <1>7, ClientTakes, Zenon
<1>10. /\ m.num + 1 < Size[u] /\ Size[u] > 1
  <2>1. m.num + 1 < Size[u]
    BY <1>1, <1>8 DEF OrderInv, u
  <2> QED BY <1>3, <2>1
<1>11. /\ \A x \in Uploads : x # u => creq'[x] = creq[x]
       /\ creq'[u] = r.mid /\ client_cb' = client_cb /\ told' = told /\ Listed' = Listed
  BY <1>1, <1>3 DEF IInv, ClientOK, Listed
<1>12. /\ runs' = runs /\ handled' = handled /\ sreq' = sreq /\ strans' = strans
       /\ \A x : Done(x)' = Done(x)
  BY <1>1 DEF bufVars, ghosts, Done
<1>13. r.num # 0
  BY <1>3, <1>5
<1>14. \A x \in Uploads : r \notin First(x)
  BY <1>13 DEF First
<1>15. \A x \in UpMsgs' : PartOf(x)
  <2>1. r.num < Size[u] /\ (m.num + 2 < Size[u]) = (r.num + 1 < Size[u])
    BY <1>3, <1>5, <1>10
  <2>2. PartOf(r)
    BY <1>5, <1>10, <2>1 DEF PartOf
  <2> QED BY <1>8, <2>2 DEF OrderInv, PartOf, UpOther
<1>16. ASSUME NEW x \in Uploads
       PROVE  Ordered(x)'
  <2>1. Ordered(x)
    BY DEF OrderInv
  <2>2. \A y \in UpMsgs' \cup DownMsgs' : y.t = x => y \in UpMsgs \cup DownMsgs \/ (y = r /\ x = u)
    BY <1>5, <1>8 DEF UpOther
  <2>3. client_cb[u] # "unused"
    BY <1>1 DEF Listed
  <2>4. client_cb'[x] = "unused" => runs'[x] = 0 /\ \A y \in UpMsgs' \cup DownMsgs' : y.t # x
    BY <1>11, <1>12, <2>1, <2>2, <2>3 DEF Ordered
  <2>5. \A y, z \in (UpMsgs' \cup DownMsgs') \cap FirstMid(x) : y.mid = z.mid
    <3>1. \A y \in FirstMid(x) : y.t = x
      BY DEF FirstMid, First, Cont
    <3>2. r \notin FirstMid(x)
      BY <1>5, <1>14 DEF FirstMid, Cont
    <3> QED BY <2>1, <2>2, <3>1, <3>2 DEF Ordered
  <2>6. (UpMsgs' \cup DownMsgs') \cap MoreOf(x) # {} => Requests' \cap First(x) = {}
    <3>1. \A y \in MoreOf(x) : y.t = x
      BY DEF MoreOf, Later, Cont
    <3>2. CASE x = u
      <4>1. ASSUME NEW y \in Requests', y \in First(x) PROVE FALSE
        <5>1. y \in Requests /\ y.mid # m.mid /\ y \in UpMsgs
          BY <1>8, <1>14, <4>1 DEF UpMsgs
        <5>2. CASE m.num = 0
          <6>1. m \in FirstMid(u)
            BY <1>1, <1>3, <5>2 DEF FirstMid, Cont, u
          <6>2. y \in FirstMid(u)
            BY <3>2, <4>1 DEF FirstMid
          <6> QED BY <1>8, <2>1, <3>2, <5>1, <6>1, <6>2 DEF Ordered
        <5>3. CASE m.num # 0
          <6>1. m \in MoreOf(u)
            BY <1>1, <1>3, <5>3 DEF MoreOf, Cont, u
          <6> QED BY <1>8, <2>1, <3>2, <4>1, <5>1, <6>1 DEF Ordered
        <5> QED BY <5>2, <5>3
      <4> QED BY <4>1
    <3>3. CASE x # u
      <4>1. \A y \in Requests' : y \in First(x) => y \in Requests
        BY <1>8, <1>14
      <4>2. \A y \in (UpMsgs' \cup DownMsgs') \cap MoreOf(x) : y \in UpMsgs \cup DownMsgs
        BY <2>2, <3>1, <3>3
      <4> QED BY <2>1, <4>1, <4>2 DEF Ordered
    <3> QED BY <3>2, <3>3
  <2>7. Never(toServer', Later(x), First(x))
    <3>1. \A y \in First(x) : y.t # 0
      BY TransfersAssumption DEF First
    <3>2. ToSet(<<r>>) \cap First(x) = {}
      BY <1>7, <1>14
    <3> QED BY <1>7, <1>9, <2>1, <3>1, <3>2 DEF Ordered
  <2>8. creq'[x] # 0 => \A y \in UpMsgs' : y.mid = creq'[x] => y.t = x
    <3>1. CASE x = u
      <4>1. \A y \in UpMsgs' : y.mid = r.mid => y = r \/ y.mid \in ServerMids
        <5>1. \A y \in ToSet(toServer') : y \in ToSet(toServer) \/ y = r \/ IsAck(y)
          <6>1. \A y \in ToSet(toServer') : y \in ToSet(toServer) \/ y \in ToSet(<<r>>) \/ IsAck(y)
            BY <1>1, <1>7, ClientTakes
          <6> QED BY <1>7, <6>1
        <5>2. \A y \in UpMsgs' : y \in UpMsgs \/ y = r \/ IsAck(y)
          BY <1>8, <5>1 DEF UpMsgs
        <5> QED BY <1>4, <1>5, <5>2 DEF IsAck
      <4>2. r.mid \notin ServerMids
        BY <1>4, <1>5, MidsAssumption
      <4> QED BY <1>5, <1>11, <3>1, <4>1, <4>2
    <3>2. CASE x # u
      <4>1. creq'[x] = creq[x] /\ creq[x] # r.mid
        BY <1>4, <1>5, <1>11, <3>2
      <4> QED BY <1>8, <2>1, <4>1 DEF Ordered, UpOther
    <3> QED BY <3>1, <3>2
  <2> QED BY <2>4, <2>5, <2>6, <2>7, <2>8 DEF Ordered
<1>17. OrderInv'
  BY <1>8, <1>12, <1>15, <1>16 DEF OrderInv, PartOf
<1>18. OnceInv'
  <2> SUFFICES ASSUME faults' \subseteq {"abandoned", "expired"}
               PROVE  /\ OneListed(Uploads)'
                      /\ \A x \in Uploads : Done(x)' /\ Size[x] > 1 => HandledNow(x)'
    BY DEF OnceInv
  <2>1. OneListed(Uploads) /\ \A x \in Uploads : Done(x) /\ Size[x] > 1 => HandledNow(x)
    BY <1>8 DEF OnceInv
  <2>2. OneListed(Uploads)'
    BY <1>11, <2>1 DEF OneListed
  <2>3. \A x \in Uploads : UpMsgs \cap First(x) = {} => UpMsgs' \cap First(x) = {}
    BY <1>8, <1>14 DEF UpOther, First
  <2>4. \A x \in Uploads : Done(x)' /\ Size[x] > 1 => HandledNow(x)'
    BY <1>11, <1>12, <2>1, <2>3 DEF HandledNow
  <2> QED BY <2>2, <2>4
<1>19. ASSUME faults' = {}
       PROVE  WholeInv'
  <2>1. faults = {}
    BY <1>8, <1>19
  <2>2. sreq' # <<>> => \E x \in Uploads : x \in Listed' /\ Assembling(x)'
    BY <1>11, <1>12, <2>1 DEF WholeInv, Assembling
  <2>3. ASSUME NEW x \in Uploads, x \in Listed', Size[x] > 1, ~Done(x)'
        PROVE  Reached(x)'
    <3>1. Reached(x)
      BY <1>11, <1>12, <2>1, <2>3 DEF WholeInv
    <3>2. r.t = x => r.num <= Len(sreq)
      BY <1>1, <1>5, <1>8, <3>1 DEF Reached, u
    <3>3. \A y \in UpMsgs' : y.kind = "block1" /\ y.t = x => y.num <= Len(sreq)
      BY <1>8, <3>1, <3>2 DEF Reached, UpOther
    <3> QED BY <1>8, <1>12, <3>1, <3>3 DEF Reached
  <2>4. creq'[u] # 0
    BY <1>4, <1>5, <1>11, MidsAssumption
  <2>5. ASSUME NEW x \in Uploads, x \in Listed', Size[x] > 1, creq'[x] = 0
        PROVE  Freed(x)'
    <3>1. Freed(x)
      BY <1>11, <2>1, <2>4, <2>5 DEF WholeInv
    <3> QED BY <1>9, <1>12, <3>1 DEF Freed
  <2>6. ASSUME NEW x \in Uploads, creq'[x] # 0
        PROVE  Ending(x)'
    <3>1. CASE x = u
      <4>1. ToSet(toClient) \cap Empty(r.mid) = {}
        BY <1>4, <1>5 DEF DownMsgs, Empty
      <4>2. ToSet(toClient') \cap Empty(r.mid) = {}
        BY <1>9, <4>1
      <4>3. Never(toClient', Empty(r.mid), Cont(u))
        BY <4>2 DEF Never, ToSet
      <4> QED BY <1>11, <3>1, <4>2, <4>3 DEF Ending
    <3>2. CASE x # u
      <4>1. Ending(x) /\ creq'[x] = creq[x]
        BY <1>11, <2>1, <2>6, <3>2 DEF WholeInv
      <4> QED BY <1>9, <1>12, <4>1 DEF Ending
    <3> QED BY <3>1, <3>2
  <2>7. \A x \in DownMsgs' : x.kind = "changed" => Done(x.t)'
    BY <1>8, <1>12, <2>1 DEF WholeInv
  <2>8. \A x \in Uploads : Done(x)' => WholeUpload(x) \in handled'
    BY <1>12, <2>1 DEF WholeInv
  <2>9. UploadWhole' /\ AnswerTrue'
    BY <1>11, <1>12, <2>1 DEF WholeInv, UploadWhole, AnswerTrue
  <2> QED BY <2>2, <2>3, <2>5, <2>6, <2>7, <2>8, <2>9 DEF WholeInv
<1> QED BY <1>17, <1>18, <1>19 DEF WholeInv

UpInv == OrderInv /\ OnceInv /\ WholeInv

(* Nothing of an upload is there when a behaviour begins ... *)
LEMMA UpInit == Init => UpInv
<1> SUFFICES ASSUME Init PROVE UpInv
  OBVIOUS
<1>1. /\ UpMsgs = {} /\ DownMsgs = {} /\ ToSet(toClient) = {} /\ ToSet(toServer) = {} /\ strans = {}
      /\ Requests = {}
  BY DEF Init, UpMsgs, DownMsgs, Requests, ToSet
<1>2. \A u \in Uploads : /\ client_cb[u] = "unused" /\ runs[u] = 0 /\ creq[u] = 0
                         /\ told[u].code = "none"
  BY DEF Init, Transfers, NoAnswer
<1>3. /\ \A u \in Uploads : u \notin Listed /\ ~Done(u)
      /\ sreq = <<>> /\ handled = {}
  BY <1>2 DEF Init, Listed, Done
<1>4. \A X, Y : Never(toServer, X, Y)
  BY OneMessage DEF Init
<1>5. OrderInv
  BY <1>1, <1>2, <1>4 DEF OrderInv, Ordered
<1>6. OnceInv
  BY <1>3 DEF OnceInv, OneListed
<1>7. WholeInv
  BY <1>1, <1>2, <1>3 DEF WholeInv, UploadWhole, AnswerTrue
<1> QED BY <1>5, <1>6, <1>7 DEF UpInv

(* ... and every step keeps the invariant. *)
LEMMA UpStep == IInv /\ UpInv /\ [Next]_vars => UpInv'
<1> SUFFICES ASSUME IInv, OrderInv, OnceInv, WholeInv, [Next]_vars
             PROVE  OrderInv' /\ OnceInv' /\ WholeInv'
  BY DEF UpInv
<1>1. ASSUME Calm, faults' = {} => Still
      PROVE  OrderInv' /\ OnceInv' /\ WholeInv'
  BY <1>1, CalmOrder, CalmOnce, StillWhole
<1>2. ASSUME Calm /\ WholeInv'
      PROVE  OrderInv' /\ OnceInv' /\ WholeInv'
  BY <1>2, CalmOrder, CalmOnce
<1>3. CASE UNCHANGED vars
  <2>1. UNCHANGED <<client_cb, told, creq, ctrans, sreq, strans,
                     toServer, toClient, handled, runs, faults>>
    BY <1>3 DEF vars, clientVars, bufVars, ghosts
  <2>2. UpMsgs' = UpMsgs /\ DownMsgs' = DownMsgs /\ Requests' = Requests
    BY <2>1 DEF UpMsgs, DownMsgs, Requests
  <2>3. Calm /\ Still
    BY <2>1, <2>2, NothingSent DEF OrderInv
  <2> QED BY <1>1, <2>3
<1>4. ASSUME NEW u \in Uploads, Post(u)
      PROVE  OrderInv' /\ OnceInv' /\ WholeInv'
  BY <1>4, PostUp
<1>5. ASSUME NEW d \in Downloads, Get(d)
      PROVE  OrderInv' /\ OnceInv' /\ WholeInv'
  BY <1>1, <1>5, GetStill
<1>6. ASSUME NEW i, NEW m, ReceivePost(i, m) \/ ReceiveBlock1(i, m) \/ ReceiveLastBlock1(i, m)
                             \/ ReceiveContinue(i, m)
      PROVE  OrderInv' /\ OnceInv' /\ WholeInv'
  BY <1>6, ReceivePostUp, ReceiveBlock1Up, ReceiveLastBlock1Up, ReceiveContinueUp
<1>7. ASSUME NEW i, NEW m, ReceiveGap(i, m) \/ ReceiveChanged(i, m) \/ ClientGetsEmpty(i, m)
      PROVE  OrderInv' /\ OnceInv' /\ WholeInv'
  BY <1>2, <1>7, ReceiveGapUp, ReceiveChangedUp, ClientGetsEmptyUp
<1>8. ASSUME NEW i, NEW m,
             ReceiveGet(i, m) \/ ReceiveBlock2(i, m) \/ RefuseBlock2(i, m) \/ ServerGetsAck(i, m)
      PROVE  OrderInv' /\ OnceInv' /\ WholeInv'
  BY <1>1, <1>8, ServerStill
<1>9. ASSUME NEW i, NEW m, ReceiveContent(i, m) \/ ReceiveLastContent(i, m) \/ ClientIgnores(i, m)
      PROVE  OrderInv' /\ OnceInv' /\ WholeInv'
  BY <1>1, <1>9, ClientStill
<1>10. CASE Receive
  BY <1>6, <1>7, <1>8, <1>9, <1>10 DEF Receive
<1>11. CASE \/ LoseToServer \/ LoseToClient \/ BufferExpires \/ Change
            \/ \E c \in ctrans : ClientTimesOut(c)
            \/ \E c \in strans : ServerTimesOut(c)
            \/ \E t \in Transfers : RemoveClientCb(t)
  BY <1>1, <1>11, TimersStill
<1>12. CASE \/ \E c \in ctrans : ClientRetransmits(c)
            \/ \E c \in strans : ServerRetransmits(c)
  BY <1>1, <1>12, RetransmitStill
<1> QED BY <1>3, <1>4, <1>5, <1>10, <1>11, <1>12 DEF Next

(* The invariant of uploads holds in every behaviour. *)
LEMMA UpInvariant == Spec => [](IInv /\ UpInv)
BY InitInv, StepInv, UpInit, UpStep, PTL DEF Spec

(* Without faults the POST handler is only given payloads that were posted,  *)
(* complete and not mixed, for any uploads, sizes, losses and repetitions.   *)
THEOREM UploadsWhole == Spec => []UploadWhole
<1>1. IInv /\ UpInv => UploadWhole
  BY DEF UpInv, WholeInv, UploadWhole
<1> QED BY <1>1, UpInvariant, PTL

(* The handler is run once for an upload of several blocks, as long as        *)
(* datagrams stay in order and within their transfer, although the server     *)
(* does not recognise a repeated request.                                     *)
THEOREM UploadsHandledOnce == Spec => []HandledOnce
<1>1. ASSUME IInv, UpInv PROVE HandledOnce
  <2> SUFFICES ASSUME faults \subseteq {"abandoned", "expired"}, NEW u \in Uploads,
                      Size[u] > 1
               PROVE  runs[u] <= 1
    BY DEF HandledOnce
  <2>1. runs[u] \in 0..2
    BY <1>1 DEF IInv, ServerOK
  <2>2. runs[u] >= 1 => runs[u] = 1
    BY <1>1 DEF UpInv, OnceInv, Done, HandledNow
  <2> QED BY <2>1, <2>2
<1> QED BY <1>1, UpInvariant, PTL

(* Without faults the response handler of a POST is told an answer only when *)
(* the POST handler was given the whole upload, and then that answer: no      *)
(* empty message and no request for more ends an upload.                      *)
THEOREM UploadAnswersTrue == Spec => []AnswerTrue
<1>1. IInv /\ UpInv => AnswerTrue
  BY DEF UpInv, WholeInv, AnswerTrue
<1> QED BY <1>1, UpInvariant, PTL

=============================================================================
