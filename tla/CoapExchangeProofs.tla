------------------------- MODULE CoapExchangeProofs -------------------------
(***************************************************************************)
(* Proofs about CoapExchange, for any number of requests and servers and   *)
(* whatever handlers do.                                                   *)
(***************************************************************************)
EXTENDS CoapExchange, TLAPS

(* What a frame of each call refers to *)
GoodFrame ==
  {f \in Frame : /\ f.op \in {"send", "timedout", "freeTxNext", "byMid"} => f.r \in Con
                 /\ f.op \in {"check", "freeTx"} => f.r \in Con \cup {Nil}
                 /\ f.op \in {"response", "unavailable"} => f.r \in Request
                 /\ f.op \in {"freeTx", "freeTxNext", "byEndpoint", "freed"} => f.e \in Endpoint
                 /\ f.next \in Con \cup {Nil}}

TypeInv == TypeOK /\ stack \in Seq(GoodFrame)

-----------------------------------------------------------------------------
(* Position is the place of a transaction that is in the list. *)
LEMMA PositionListed ==
  ASSUME NEW t, Listed(t)
  PROVE  Position(t) \in 1 .. Len(transactions) /\ transactions[Position(t)] = t
BY DEF Listed, Position

(* The neighbour of a transaction in the list is a transaction or NULL. *)
LEMMA NextOfType ==
  ASSUME transactions \in Seq(Con), NEW t, Listed(t)
  PROVE  NextOf(t) \in Con \cup {Nil}
BY PositionListed DEF NextOf

(* The head of the list is a transaction or NULL. *)
LEMMA FirstType ==
  ASSUME transactions \in Seq(Con)
  PROVE  First \in Con \cup {Nil}
BY DEF First

(* Taking a transaction out leaves a list of transactions. *)
LEMMA WithoutType ==
  ASSUME transactions \in Seq(Con), NEW t
  PROVE  Without(t) \in Seq(Con)
<1>1. CASE ~Listed(t)
  BY <1>1 DEF Without
<1>2. CASE Listed(t)
  <2>1. Position(t) \in 1 .. Len(transactions)
    BY <1>2, PositionListed
  <2>2. Len(transactions) - 1 \in Nat
    BY <2>1
  <2>3. \A i \in 1 .. Len(transactions) - 1 :
          (IF i < Position(t) THEN transactions[i] ELSE transactions[i + 1]) \in Con
    BY <2>1
  <2>4. Without(t) \in [1 .. Len(transactions) - 1 -> Con]
    BY <1>2, <2>3 DEF Without
  <2> QED BY <2>2, <2>4
<1> QED BY <1>1, <1>2

(* Calls and returns keep a stack of frames. *)
LEMMA StackType ==
  ASSUME NEW S, stack \in Seq(S)
  PROVE  /\ \A f \in S : <<f>> \o stack \in Seq(S)
         /\ stack # <<>> => /\ Head(stack) \in S
                            /\ Tail(stack) \in Seq(S)
                            /\ \A f \in S : <<f>> \o Tail(stack) \in Seq(S)
                            /\ \A f, g \in S : <<g, f>> \o Tail(stack) \in Seq(S)
<1>1. \A f \in S : <<f>> \o stack \in Seq(S)
  OBVIOUS
<1>2. ASSUME stack # <<>>
      PROVE  Head(stack) \in S /\ Tail(stack) \in Seq(S)
  BY <1>2
<1>3. ASSUME stack # <<>>, NEW f \in S
      PROVE  <<f>> \o Tail(stack) \in Seq(S)
  BY <1>2, <1>3
<1>4. ASSUME stack # <<>>, NEW f \in S, NEW g \in S
      PROVE  <<g, f>> \o Tail(stack) \in Seq(S)
  BY <1>2, <1>4
<1> QED BY <1>1, <1>2, <1>3, <1>4

(* A frame made by Call is a good one when its arguments suit the call. *)
LEMMA CallGood ==
  ASSUME NEW op \in Op, NEW r \in Request \cup {Nil}, NEW e \in Endpoint \cup {Nil},
         op \in {"send", "timedout", "byMid"} => r \in Con,
         op # "freeTxNext",
         op \in {"check", "freeTx"} => r \in Con \cup {Nil},
         op \in {"response", "unavailable"} => r \in Request,
         op \in {"freeTx", "byEndpoint", "freed"} => e \in Endpoint
  PROVE  Call(op, r, e) \in GoodFrame
BY DEF Call, GoodFrame, Frame, Op

(* The frame at the top of the stack is a good one. *)
LEMMA TopGood ==
  ASSUME TypeInv, stack # <<>>
  PROVE  Top \in GoodFrame
BY StackType DEF TypeInv, Top

(* Clearing a transaction keeps the types of the transaction variables. *)
LEMMA ClearType ==
  ASSUME TypeInv, NEW t, Clear(t)
  PROVE  /\ transactions' \in Seq(Con) /\ armed' \subseteq Con
         /\ retrans_counter' \in [Request -> 0 .. CounterSize - 1]
BY WithoutType DEF TypeInv, TypeOK, Clear

(* The counter of retransmissions stays within its width. *)
LEMMA IncrementedType ==
  ASSUME NEW n \in 0 .. CounterSize - 1
  PROVE  Incremented(n) \in 0 .. CounterSize - 1
<1>1. CounterSize \in Nat \ {0}
  BY CounterAssumption
<1>2. \A m \in Nat : m % CounterSize \in 0 .. CounterSize - 1
  BY <1>1
<1> QED BY <1>2 DEF Incremented

(* Making a request keeps the types. *)
LEMMA MakeRequestType ==
  ASSUME TypeInv, NEW r \in Request, MakeRequest(r), UNCHANGED stack
  PROVE  TypeInv'
<1> USE RequestAssumption, CounterAssumption
<1>1. /\ used' \subseteq Request /\ client_cbs' \subseteq used'
      /\ busy' \subseteq used' /\ lifetime' \subseteq used'
  BY DEF TypeInv, TypeOK, MakeRequest
<1>2. /\ told' \in [Request -> Nat] /\ tls_peers' \subseteq Secured /\ stale' \in BOOLEAN
      /\ before' \in [Endpoint -> SUBSET Request]
  BY DEF TypeInv, TypeOK, MakeRequest
<1>3. transactions' \in Seq(Con) /\ armed' \subseteq Con
  <2>1. transactions \in Seq(Con) /\ armed \subseteq Con
    BY DEF TypeInv, TypeOK
  <2>2. CASE r \in Con
    <3>1. transactions' = Append(transactions, r) /\ armed' = armed \cup {r}
      BY <2>2 DEF MakeRequest
    <3> QED BY <2>1, <2>2, <3>1
  <2>3. CASE r \notin Con
    BY <2>1, <2>3 DEF MakeRequest, txVars
  <2> QED BY <2>2, <2>3
<1>4. retrans_counter' \in [Request -> 0 .. CounterSize - 1]
  <2>1. retrans_counter \in [Request -> 0 .. CounterSize - 1] /\ 0 \in 0 .. CounterSize - 1
    BY DEF TypeInv, TypeOK
  <2>2. \/ retrans_counter' = [retrans_counter EXCEPT ![r] = 0]
        \/ retrans_counter' = retrans_counter
    BY DEF MakeRequest, txVars
  <2> QED BY <2>1, <2>2
<1>5. stack' \in Seq(Frame) /\ stack' \in Seq(GoodFrame)
  BY DEF TypeInv, TypeOK
<1> QED BY <1>1, <1>2, <1>3, <1>4, <1>5 DEF TypeInv, TypeOK

(* A stack of good frames is a stack of frames. *)
LEMMA GoodFrames ==
  ASSUME NEW s \in Seq(GoodFrame)
  PROVE  s \in Seq(Frame)
<1>1. GoodFrame \subseteq Frame
  BY DEF GoodFrame
<1> QED BY <1>1

(* Steps that change only the stack keep the types. *)
LEMMA StackOnlyType ==
  ASSUME TypeInv, stack' \in Seq(GoodFrame),
         UNCHANGED <<cbVars, txVars, tls_peers, before, stale>>
  PROVE  TypeInv'
BY GoodFrames DEF TypeInv, TypeOK, cbVars, txVars

(* Telling a handler 5.03 keeps the types. *)
LEMMA NotifyType ==
  ASSUME TypeInv, NEW r \in client_cbs, Notify(r)
  PROVE  TypeInv'
<1>1. r \in Request /\ r \in used
  BY DEF TypeInv, TypeOK
<1>2. Call("unavailable", r, Nil) \in GoodFrame
  BY <1>1, CallGood DEF Op
<1>3. stack' \in Seq(GoodFrame)
  BY <1>2, StackType DEF TypeInv, Notify, Push
<1>4. told' \in [Request -> Nat]
  BY <1>1 DEF TypeInv, TypeOK, Notify
<1> QED BY <1>1, <1>3, <1>4, GoodFrames DEF TypeInv, TypeOK, Notify, txVars

(* Taking a peer out of the list keeps the types. *)
LEMMA TeardownType ==
  ASSUME TypeInv, NEW e \in Endpoint, Teardown(e)
  PROVE  tls_peers' \subseteq Secured /\ before' \in [Endpoint -> SUBSET Request]
BY DEF TypeInv, TypeOK, Teardown

(* Every step keeps the types and the good frames. *)
LEMMA TypeStep ==
  ASSUME TypeInv, [Next]_vars
  PROVE  TypeInv'
<1> USE RequestAssumption
<1>1. ASSUME NEW r \in Request, Start(r) \/ HandlerStarts(r)
      PROVE  TypeInv'
  BY <1>1, MakeRequestType DEF Start, HandlerStarts
<1>2. ASSUME NEW r \in Request, ReceiveEmpty(r)
      PROVE  TypeInv'
  BY <1>2, ClearType DEF ReceiveEmpty, TypeInv, TypeOK, cbVars
<1>3. ASSUME NEW r \in Request, NEW mid, ReceiveResponse(r, mid)
      PROVE  TypeInv'
  <2>1. /\ transactions' \in Seq(Con) /\ armed' \subseteq Con
        /\ retrans_counter' \in [Request -> 0 .. CounterSize - 1]
    <3>1. CASE Clear(mid)
      BY <3>1, ClearType
    <3>2. CASE UNCHANGED txVars
      BY <3>2 DEF TypeInv, TypeOK, txVars
    <3> QED BY <1>3, <3>1, <3>2 DEF ReceiveResponse
  <2>2. Call("response", r, Nil) \in GoodFrame
    BY CallGood DEF Op
  <2>3. stack' \in Seq(GoodFrame)
    <3>1. \A f \in GoodFrame : <<f>> \o stack \in Seq(GoodFrame)
      BY StackType DEF TypeInv
    <3>2. stack' = stack \/ stack' = <<Call("response", r, Nil)>> \o stack
      BY <1>3 DEF ReceiveResponse, Push
    <3> QED BY <2>2, <3>1, <3>2 DEF TypeInv
  <2>4. told' \in [Request -> Nat]
    BY <1>3 DEF ReceiveResponse, TypeInv, TypeOK
  <2> QED BY <1>3, <2>1, <2>3, <2>4, GoodFrames DEF ReceiveResponse, TypeInv, TypeOK
<1>4. ASSUME NEW r \in Request, NEW mid, ReceiveUnparsable(r, mid)
      PROVE  TypeInv'
  <2>1. /\ transactions' \in Seq(Con) /\ armed' \subseteq Con
        /\ retrans_counter' \in [Request -> 0 .. CounterSize - 1]
    <3>1. CASE Clear(mid)
      BY <3>1, ClearType
    <3>2. CASE UNCHANGED txVars
      BY <3>2 DEF TypeInv, TypeOK, txVars
    <3> QED BY <1>4, <3>1, <3>2 DEF ReceiveUnparsable
  <2> QED BY <1>4, <2>1 DEF ReceiveUnparsable, TypeInv, TypeOK
<1>5. ASSUME NEW r \in Request, RemoveClientCb(r)
      PROVE  TypeInv'
  BY <1>5 DEF RemoveClientCb, TypeInv, TypeOK, txVars
<1>6. ASSUME NEW e \in Endpoint, NewPeer(e)
      PROVE  TypeInv'
  BY <1>6 DEF NewPeer, TypeInv, TypeOK, cbVars, txVars
<1>7. ASSUME NEW e \in Endpoint, ClosePeer(e) \/ HandlerCloses(e)
      PROVE  TypeInv'
  <2>1. First \in Con \cup {Nil}
    BY FirstType DEF TypeInv, TypeOK
  <2>2. Call("freeTx", First, e) \in GoodFrame
    BY <2>1, CallGood DEF Op
  <2>3. stack' \in Seq(GoodFrame)
    BY <1>7, <2>2, StackType DEF ClosePeer, HandlerCloses, Push, TypeInv
  <2>4. tls_peers' \subseteq Secured /\ before' \in [Endpoint -> SUBSET Request]
    BY <1>7, TeardownType DEF ClosePeer, HandlerCloses
  <2> QED BY <1>7, <2>3, <2>4, GoodFrames
          DEF ClosePeer, HandlerCloses, TypeInv, TypeOK, cbVars, txVars
<1>8. ASSUME NEW ts \in SUBSET Con, TimersExpire(ts)
      PROVE  TypeInv'
  <2>1. Call("check", First, Nil) \in GoodFrame
    BY FirstType, CallGood DEF TypeInv, TypeOK, Op
  <2>2. stack' \in Seq(GoodFrame)
    BY <1>8, <2>1, StackType DEF TimersExpire, Push, TypeInv
  <2> QED BY <1>8, <2>2, GoodFrames DEF TimersExpire, TypeInv, TypeOK, cbVars
<1>9. CASE ResponseHandled
  <2>1. stack' \in Seq(GoodFrame)
    BY <1>9, StackType DEF ResponseHandled, In, Return, TypeInv
  <2> QED BY <1>9, <2>1, GoodFrames DEF ResponseHandled, TypeInv, TypeOK, txVars
<1>10. CASE UnavailableHandled
  <2>1. stack' \in Seq(GoodFrame)
    BY <1>10, StackType DEF UnavailableHandled, In, Return, TypeInv
  <2> QED BY <1>10, <2>1, GoodFrames DEF UnavailableHandled, TypeInv, TypeOK, txVars
<1>11. CASE FreeCbsByMid
  <2>1. CASE Top.r \in client_cbs \ busy
    BY <1>11, <2>1, NotifyType DEF FreeCbsByMid
  <2>2. CASE Top.r \notin client_cbs \ busy
    <3>1. stack' \in Seq(GoodFrame)
      BY <1>11, <2>2, StackType DEF FreeCbsByMid, In, Return, TypeInv
    <3> QED BY <1>11, <2>2, <3>1, StackOnlyType DEF FreeCbsByMid
  <2> QED BY <2>1, <2>2
<1>12. CASE FreeCbsByEndpoint
  <2>1. CASE \E r \in client_cbs : Notify(r)
    BY <2>1, NotifyType
  <2>2. CASE /\ GoOn(Call("freed", Nil, Top.e))
             /\ UNCHANGED <<cbVars, txVars, tls_peers, before, stale>>
    <3>1. Top.e \in Endpoint
      BY <1>12, TopGood DEF FreeCbsByEndpoint, In, GoodFrame
    <3>2. Call("freed", Nil, Top.e) \in GoodFrame
      BY <3>1, CallGood DEF Op
    <3>3. stack' \in Seq(GoodFrame)
      BY <1>12, <2>2, <3>2, StackType DEF FreeCbsByEndpoint, In, GoOn, TypeInv
    <3> QED BY <2>2, <3>3, StackOnlyType
  <2> QED BY <1>12, <2>1, <2>2 DEF FreeCbsByEndpoint
<1>13. CASE FreeTransactions
  <2>1. /\ stack # <<>> /\ Top \in GoodFrame /\ Top.op = "freeTx"
        /\ Top.e \in Endpoint /\ Top.r \in Con \cup {Nil}
    BY <1>13, TopGood DEF FreeTransactions, In, GoodFrame
  <2>2. CASE Top.r = Nil
    <3>1. Call("byEndpoint", Nil, Top.e) \in GoodFrame
      BY <2>1, CallGood DEF Op
    <3>2. stack' \in Seq(GoodFrame)
      BY <1>13, <2>1, <2>2, <3>1, StackType DEF FreeTransactions, GoOn, TypeInv
    <3> QED BY <1>13, <2>2, <3>2, StackOnlyType DEF FreeTransactions
  <2>3. CASE UseFreed
    BY <2>3 DEF UseFreed, TypeInv, TypeOK, cbVars, txVars
  <2>4. CASE Top.r # Nil /\ Listed(Top.r) /\ ~UseFreed
    <3>1. NextOf(Top.r) \in Con \cup {Nil}
      BY <2>4, NextOfType DEF TypeInv, TypeOK
    <3>2. Call("freeTx", NextOf(Top.r), Top.e) \in GoodFrame
      BY <2>1, <3>1, CallGood DEF Op
    <3>3. Call("byMid", Top.r, Nil) \in GoodFrame
      BY <2>1, <2>4, CallGood DEF Op
    <3>4. Len(transactions) \in Nat
      BY DEF TypeInv, TypeOK
    <3>5. [op |-> "freeTxNext", r |-> Top.r, e |-> Top.e,
           next |-> NextOf(Top.r), len |-> Len(transactions)] \in GoodFrame
      BY <2>1, <2>4, <3>1, <3>4 DEF GoodFrame, Frame, Op
    <3>6. stack' \in Seq(GoodFrame)
      <4>1. /\ \A f \in GoodFrame : <<f>> \o Tail(stack) \in Seq(GoodFrame)
            /\ \A f, g \in GoodFrame : <<g, f>> \o Tail(stack) \in Seq(GoodFrame)
        BY <2>1, StackType DEF TypeInv
      <4>2. \/ stack' = <<Call("freeTx", NextOf(Top.r), Top.e)>> \o Tail(stack)
            \/ stack' = <<Call("byMid", Top.r, Nil),
                          [op |-> "freeTxNext", r |-> Top.r, e |-> Top.e,
                           next |-> NextOf(Top.r), len |-> Len(transactions)]>> \o Tail(stack)
        BY <1>13, <2>4 DEF FreeTransactions, GoOn, GoOnAndPush
      <4> QED BY <3>2, <3>3, <3>5, <4>1, <4>2
    <3> QED BY <1>13, <2>4, <3>6, StackOnlyType DEF FreeTransactions
  <2> QED BY <1>13, <2>2, <2>3, <2>4 DEF FreeTransactions
<1>14. CASE FreeTransactionsNext
  <2>1. /\ stack # <<>> /\ Top.next \in Con \cup {Nil} /\ Top.e \in Endpoint
    BY <1>14, TopGood DEF FreeTransactionsNext, In, GoodFrame
  <2>2. Call("freeTx", First, Top.e) \in GoodFrame
    BY <2>1, FirstType, CallGood DEF TypeInv, TypeOK, Op
  <2>3. Call("freeTx", Top.next, Top.e) \in GoodFrame
    BY <2>1, CallGood DEF Op
  <2>4. stack' \in Seq(GoodFrame)
    BY <1>14, <2>1, <2>2, <2>3, StackType DEF FreeTransactionsNext, GoOn, TypeInv
  <2>5. /\ transactions' \in Seq(Con) /\ armed' \subseteq Con
        /\ retrans_counter' \in [Request -> 0 .. CounterSize - 1]
    <3>1. CASE Clear(Top.r)
      BY <3>1, ClearType
    <3>2. CASE UNCHANGED txVars
      BY <3>2 DEF TypeInv, TypeOK, txVars
    <3> QED BY <1>14, <3>1, <3>2 DEF FreeTransactionsNext
  <2>6. stale' \in BOOLEAN
    BY <1>14 DEF FreeTransactionsNext, TypeInv, TypeOK
  <2> QED BY <1>14, <2>4, <2>5, <2>6, GoodFrames
          DEF FreeTransactionsNext, TypeInv, TypeOK, cbVars
<1>15. CASE PeerFreed
  <2>1. stack' \in Seq(GoodFrame)
    BY <1>15, StackType DEF PeerFreed, In, Return, TypeInv
  <2> QED BY <1>15, <2>1, StackOnlyType DEF PeerFreed
<1>16. CASE CheckTransaction
  <2>1. stack # <<>> /\ Top.r \in Con \cup {Nil}
    BY <1>16, TopGood DEF CheckTransaction, In, GoodFrame
  <2>2. CASE Top.r = Nil
    <3>1. stack' \in Seq(GoodFrame)
      BY <1>16, <2>1, <2>2, StackType DEF CheckTransaction, Return, TypeInv
    <3> QED BY <1>16, <2>2, <3>1, StackOnlyType DEF CheckTransaction
  <2>3. CASE UseFreed
    BY <2>3 DEF UseFreed, TypeInv, TypeOK, cbVars, txVars
  <2>4. CASE Top.r # Nil /\ Listed(Top.r) /\ Top.r \in armed /\ ~UseFreed
    <3>1. Call("check", NextOf(Top.r), Nil) \in GoodFrame
      BY <2>4, NextOfType, CallGood DEF TypeInv, TypeOK, Op
    <3>2. stack' \in Seq(GoodFrame)
      BY <1>16, <2>1, <2>4, <3>1, StackType DEF CheckTransaction, GoOn, TypeInv
    <3> QED BY <1>16, <2>4, <3>2, StackOnlyType DEF CheckTransaction
  <2>5. CASE Top.r # Nil /\ Listed(Top.r) /\ Top.r \notin armed /\ ~UseFreed
    <3>1. NextOf(Top.r) \in Con \cup {Nil} /\ Len(transactions) \in Nat
      BY <2>5, NextOfType DEF TypeInv, TypeOK
    <3>2. [op |-> "checked", r |-> Nil, e |-> Nil,
           next |-> NextOf(Top.r), len |-> Len(transactions)] \in GoodFrame
      BY <3>1 DEF GoodFrame, Frame, Op
    <3>3. Call("send", Top.r, Nil) \in GoodFrame
      BY <2>1, <2>5, CallGood DEF Op
    <3>4. stack' \in Seq(GoodFrame)
      <4>1. \A f, g \in GoodFrame : <<g, f>> \o Tail(stack) \in Seq(GoodFrame)
        BY <2>1, StackType DEF TypeInv
      <4>2. stack' = <<Call("send", Top.r, Nil),
                       [op |-> "checked", r |-> Nil, e |-> Nil,
                        next |-> NextOf(Top.r), len |-> Len(transactions)]>> \o Tail(stack)
        BY <1>16, <2>5 DEF CheckTransaction, GoOnAndPush
      <4> QED BY <3>2, <3>3, <4>1, <4>2
    <3>5. retrans_counter' \in [Request -> 0 .. CounterSize - 1]
      <4>1. Top.r \in Request /\ retrans_counter \in [Request -> 0 .. CounterSize - 1]
        BY <2>1, <2>5 DEF TypeInv, TypeOK
      <4>2. Incremented(retrans_counter[Top.r]) \in 0 .. CounterSize - 1
        BY <4>1, IncrementedType
      <4>3. retrans_counter' = [retrans_counter EXCEPT ![Top.r] = Incremented(@)]
        BY <1>16, <2>5 DEF CheckTransaction
      <4> QED BY <4>1, <4>2, <4>3
    <3> QED BY <1>16, <2>5, <3>4, <3>5, GoodFrames
            DEF CheckTransaction, TypeInv, TypeOK, cbVars
  <2> QED BY <1>16, <2>2, <2>3, <2>4, <2>5 DEF CheckTransaction
<1>17. CASE Checked
  <2>1. stack # <<>> /\ Top.next \in Con \cup {Nil}
    BY <1>17, TopGood DEF Checked, In, GoodFrame
  <2>2. /\ Call("check", First, Nil) \in GoodFrame
        /\ Call("check", Top.next, Nil) \in GoodFrame
    BY <2>1, FirstType, CallGood DEF TypeInv, TypeOK, Op
  <2>3. stack' \in Seq(GoodFrame)
    BY <1>17, <2>1, <2>2, StackType DEF Checked, GoOn, TypeInv
  <2> QED BY <1>17, <2>3, StackOnlyType DEF Checked
<1>18. CASE SendTransaction
  <2>1. stack # <<>> /\ Top.r \in Con
    BY <1>18, TopGood DEF SendTransaction, In, GoodFrame
  <2>2. /\ Call("timedout", Top.r, Nil) \in GoodFrame
        /\ Call("byMid", Top.r, Nil) \in GoodFrame
    BY <2>1, CallGood DEF Op
  <2>3. stack' \in Seq(GoodFrame)
    BY <1>18, <2>1, <2>2, StackType DEF SendTransaction, Return, GoOnAndPush, TypeInv
  <2> QED BY <1>18, <2>1, <2>3, GoodFrames DEF SendTransaction, TypeInv, TypeOK, cbVars
<1>19. CASE TimedOut
  <2>1. stack # <<>> /\ Top.r \in Con /\ To[Top.r] \in Endpoint
    BY <1>19, TopGood DEF TimedOut, In, GoodFrame
  <2>2. Call("freeTx", First, To[Top.r]) \in GoodFrame
    BY <2>1, FirstType, CallGood DEF TypeInv, TypeOK, Op
  <2>3. CASE UseFreed
    BY <2>3 DEF UseFreed, TypeInv, TypeOK, cbVars, txVars
  <2>4. CASE ~UseFreed
    <3>1. stack' \in Seq(GoodFrame)
      BY <1>19, <2>1, <2>2, <2>4, StackType DEF TimedOut, GoOn, Return, TypeInv
    <3>2. /\ transactions' \in Seq(Con) /\ armed' \subseteq Con
          /\ retrans_counter' \in [Request -> 0 .. CounterSize - 1]
      <4>1. CASE Clear(Top.r)
        BY <4>1, ClearType
      <4>2. CASE UNCHANGED txVars
        BY <4>2 DEF TypeInv, TypeOK, txVars
      <4> QED BY <1>19, <2>4, <4>1, <4>2 DEF TimedOut
    <3>3. tls_peers' \subseteq Secured /\ before' \in [Endpoint -> SUBSET Request]
      <4>1. CASE Teardown(To[Top.r])
        BY <2>1, <4>1, TeardownType
      <4>2. CASE UNCHANGED <<tls_peers, before>>
        BY <4>2 DEF TypeInv, TypeOK
      <4> QED BY <1>19, <2>4, <4>1, <4>2 DEF TimedOut
    <3>4. UNCHANGED <<cbVars, stale>>
      BY <1>19, <2>4 DEF TimedOut
    <3> QED BY <3>1, <3>2, <3>3, <3>4, GoodFrames DEF TypeInv, TypeOK, cbVars
  <2> QED BY <2>3, <2>4
<1>20. CASE UNCHANGED vars
  BY <1>20 DEF vars, cbVars, txVars, TypeInv, TypeOK
<1> QED
  BY <1>1, <1>2, <1>3, <1>4, <1>5, <1>6, <1>7, <1>8, <1>9, <1>10, <1>11, <1>12, <1>13,
     <1>14, <1>15, <1>16, <1>17, <1>18, <1>19, <1>20
  DEF Next, Step, Undefined

(* Initially the types are right. *)
LEMMA TypeInit == Init => TypeInv
<1> SUFFICES ASSUME Init PROVE TypeInv
  OBVIOUS
<1>1. 0 \in 0 .. CounterSize - 1
  BY CounterAssumption
<1>2. /\ transactions \in Seq(Con) /\ stack \in Seq(Frame) /\ stack \in Seq(GoodFrame)
  BY DEF Init
<1>3. /\ told \in [Request -> Nat]
      /\ retrans_counter \in [Request -> 0 .. CounterSize - 1]
  BY <1>1 DEF Init
<1> QED BY <1>2, <1>3 DEF Init, TypeInv, TypeOK

(* The client callbacks, transactions and the call stack of coap_engine keep
   their types: traversals hold transactions or NULL, and retrans_counter
   stays within its width.                                                  *)
THEOREM ExchangeTypeCorrect == Spec => []TypeOK
<1>1. TypeInv /\ [Next]_vars => TypeInv'
  BY TypeStep
<1>2. TypeInv => TypeOK
  BY DEF TypeInv
<1> QED BY TypeInit, <1>1, <1>2, PTL DEF Spec

-----------------------------------------------------------------------------
(* The requests whose handlers are running in calls of the kinds ops *)
Handled(st, ops) == {st[i].r : i \in {j \in 1 .. Len(st) : st[j].op \in ops}}

Running == {"response", "unavailable"}

(* The invariant behind ToldOnce and LifetimeMatches *)
CbInv ==
  /\ \A r \in Request : told[r] <= 1
  /\ \A r \in Request : r \notin used \/ r \in client_cbs \ busy => told[r] = 0
  /\ LifetimeMatches
  /\ Handled(stack, {"unavailable"}) \subseteq used \ lifetime
  /\ client_cbs \cap busy \subseteq Handled(stack, Running)

(* A call adds its own request to those being handled. *)
LEMMA HandledPush ==
  ASSUME NEW st \in Seq(Frame), NEW f \in Frame, NEW ops
  PROVE  /\ f.op \in ops => Handled(<<f>> \o st, ops) = {f.r} \cup Handled(st, ops)
         /\ f.op \notin ops => Handled(<<f>> \o st, ops) = Handled(st, ops)
<1> DEFINE s == <<f>> \o st
<1>1. Len(s) = Len(st) + 1 /\ s[1] = f /\ \A i \in 1 .. Len(st) : s[i + 1] = st[i]
  OBVIOUS
<1> HIDE DEF s
<1>2. ASSUME NEW x \in Handled(s, ops)
      PROVE  (f.op \in ops /\ x = f.r) \/ x \in Handled(st, ops)
  <2>1. PICK i \in 1 .. Len(s) : s[i].op \in ops /\ x = s[i].r
    BY <1>2 DEF Handled
  <2>2. CASE i = 1
    BY <1>1, <2>1, <2>2
  <2>3. CASE i # 1
    <3>1. i - 1 \in 1 .. Len(st) /\ s[i] = st[i - 1]
      BY <1>1, <2>1, <2>3
    <3> QED BY <2>1, <3>1 DEF Handled
  <2> QED BY <2>2, <2>3
<1>3. ASSUME NEW x \in Handled(st, ops)
      PROVE  x \in Handled(s, ops)
  <2>1. PICK i \in 1 .. Len(st) : st[i].op \in ops /\ x = st[i].r
    BY <1>3 DEF Handled
  <2>2. i + 1 \in 1 .. Len(s) /\ s[i + 1] = st[i]
    BY <1>1, <2>1
  <2> QED BY <2>1, <2>2 DEF Handled
<1>4. f.op \in ops => f.r \in Handled(s, ops)
  <2>1. 1 \in 1 .. Len(s)
    BY <1>1
  <2> QED BY <1>1, <2>1 DEF Handled
<1>5. f.op \in ops => Handled(s, ops) = {f.r} \cup Handled(st, ops)
  BY <1>2, <1>3, <1>4
<1>6. f.op \notin ops => Handled(s, ops) = Handled(st, ops)
  BY <1>2, <1>3
<1> QED BY <1>5, <1>6 DEF s

(* A return takes at most the request of the call that returns. *)
LEMMA HandledTop ==
  ASSUME NEW st \in Seq(Frame), st # <<>>, NEW ops
  PROVE  /\ Head(st).op \in ops => Handled(st, ops) = {Head(st).r} \cup Handled(Tail(st), ops)
         /\ Head(st).op \notin ops => Handled(st, ops) = Handled(Tail(st), ops)
<1>1. st = <<Head(st)>> \o Tail(st) /\ Head(st) \in Frame /\ Tail(st) \in Seq(Frame)
  OBVIOUS
<1> DEFINE f == Head(st)
           rest == Tail(st)
<1> HIDE DEF f, rest
<1>2. /\ f.op \in ops => Handled(<<f>> \o rest, ops) = {f.r} \cup Handled(rest, ops)
      /\ f.op \notin ops => Handled(<<f>> \o rest, ops) = Handled(rest, ops)
  BY <1>1, HandledPush DEF f, rest
<1> QED BY <1>1, <1>2 DEF f, rest

(* Calls that run no handler do not change which handlers run. *)
LEMMA HandledQuiet ==
  ASSUME NEW ops \in SUBSET Running, stack \in Seq(Frame)
  PROVE  /\ \A f \in Frame : f.op \notin Running =>
               Handled(<<f>> \o stack, ops) = Handled(stack, ops)
         /\ stack # <<>> /\ Top.op \notin Running =>
              /\ Handled(Tail(stack), ops) = Handled(stack, ops)
              /\ \A f \in Frame : f.op \notin Running =>
                    Handled(<<f>> \o Tail(stack), ops) = Handled(stack, ops)
              /\ \A f, g \in Frame : f.op \notin Running /\ g.op \notin Running =>
                    Handled(<<g, f>> \o Tail(stack), ops) = Handled(stack, ops)
<1>1. ASSUME NEW f \in Frame, f.op \notin Running
      PROVE  Handled(<<f>> \o stack, ops) = Handled(stack, ops)
  BY <1>1, HandledPush
<1>2. ASSUME stack # <<>>, Top.op \notin Running
      PROVE  Handled(Tail(stack), ops) = Handled(stack, ops)
  BY <1>2, HandledTop DEF Top
<1>3. ASSUME stack # <<>>, Top.op \notin Running, NEW f \in Frame, f.op \notin Running
      PROVE  Handled(<<f>> \o Tail(stack), ops) = Handled(stack, ops)
  <2>1. Tail(stack) \in Seq(Frame)
    BY <1>3
  <2>2. Handled(<<f>> \o Tail(stack), ops) = Handled(Tail(stack), ops)
    BY <1>3, <2>1, HandledPush
  <2> QED BY <1>2, <1>3, <2>2
<1>4. ASSUME stack # <<>>, Top.op \notin Running,
             NEW f \in Frame, NEW g \in Frame, f.op \notin Running, g.op \notin Running
      PROVE  Handled(<<g, f>> \o Tail(stack), ops) = Handled(stack, ops)
  <2>1. Tail(stack) \in Seq(Frame)
    BY <1>4
  <2>2. <<f>> \o Tail(stack) \in Seq(Frame)
    BY <2>1
  <2>3. <<g, f>> \o Tail(stack) = <<g>> \o (<<f>> \o Tail(stack))
    BY <2>1
  <2>4. Handled(<<g>> \o (<<f>> \o Tail(stack)), ops) = Handled(<<f>> \o Tail(stack), ops)
    BY <1>4, <2>2, HandledPush
  <2> QED BY <1>3, <1>4, <2>3, <2>4
<1> QED BY <1>1, <1>2, <1>3, <1>4

(* Steps that start and end no handler keep the invariant of the callbacks. *)
LEMMA QuietStep ==
  ASSUME CbInv, UNCHANGED cbVars,
         \A ops \in SUBSET Running : Handled(stack', ops) = Handled(stack, ops)
  PROVE  CbInv'
<1>1. {"unavailable"} \in SUBSET Running /\ Running \in SUBSET Running
  BY DEF Running
<1>2. /\ Handled(stack', {"unavailable"}) = Handled(stack, {"unavailable"})
      /\ Handled(stack', Running) = Handled(stack, Running)
  BY <1>1
<1> QED BY <1>2 DEF CbInv, LifetimeMatches, cbVars

(* A frame made by Call, and its request *)
LEMMA CallFrame ==
  ASSUME NEW op \in Op, NEW r \in Request \cup {Nil}, NEW e \in Endpoint \cup {Nil}
  PROVE  /\ Call(op, r, e) \in Frame
         /\ Call(op, r, e).op = op /\ Call(op, r, e).r = r
BY DEF Call, Frame

(* Making a request keeps the invariant of the callbacks. *)
LEMMA MakeRequestCb ==
  ASSUME TypeInv, CbInv, NEW r \in Request, MakeRequest(r), UNCHANGED stack
  PROVE  CbInv'
<1>1. /\ r \notin used /\ r \notin busy
      /\ used' = used \cup {r} /\ client_cbs' = client_cbs \cup {r}
      /\ lifetime' = lifetime \cup {r} /\ busy' = busy /\ told' = told
  BY DEF MakeRequest, TypeInv, TypeOK
<1>2. Handled(stack', {"unavailable"}) \subseteq used' \ lifetime'
  BY <1>1 DEF CbInv
<1>3. client_cbs' \cap busy' \subseteq Handled(stack', Running)
  BY <1>1 DEF CbInv
<1>4. LifetimeMatches'
  BY <1>1 DEF CbInv, LifetimeMatches
<1>5. \A q \in Request :
        told'[q] <= 1 /\ (q \notin used' \/ q \in client_cbs' \ busy' => told'[q] = 0)
  BY <1>1 DEF CbInv
<1> QED BY <1>2, <1>3, <1>4, <1>5 DEF CbInv

(* Telling the handler of a waiting callback 5.03 keeps it too. *)
LEMMA NotifyCb ==
  ASSUME TypeInv, CbInv, NEW r \in client_cbs \ busy, Notify(r)
  PROVE  CbInv'
<1> DEFINE f == Call("unavailable", r, Nil)
<1>1. r \in used /\ r \in Request /\ stack \in Seq(Frame) /\ told \in [Request -> Nat]
  BY DEF TypeInv, TypeOK
<1>2. f \in Frame /\ f.op = "unavailable" /\ f.r = r
  BY <1>1, CallFrame DEF Op
<1> HIDE DEF f
<1>3. /\ used' = used /\ client_cbs' = client_cbs /\ busy' = busy \cup {r}
      /\ lifetime' = lifetime \ {r} /\ told' = [told EXCEPT ![r] = @ + 1]
      /\ stack' = <<f>> \o stack
  BY DEF Notify, Push, f
<1>4. /\ Handled(stack', {"unavailable"}) = {r} \cup Handled(stack, {"unavailable"})
      /\ Handled(stack', Running) = {r} \cup Handled(stack, Running)
  BY <1>1, <1>2, <1>3, HandledPush DEF Running
<1>5. Handled(stack', {"unavailable"}) \subseteq used' \ lifetime'
  BY <1>1, <1>3, <1>4 DEF CbInv
<1>6. client_cbs' \cap busy' \subseteq Handled(stack', Running)
  BY <1>3, <1>4 DEF CbInv
<1>7. LifetimeMatches'
  BY <1>3 DEF CbInv, LifetimeMatches
<1>8. \A q \in Request :
        told'[q] <= 1 /\ (q \notin used' \/ q \in client_cbs' \ busy' => told'[q] = 0)
  <2>1. told[r] = 0
    BY <1>1 DEF CbInv
  <2>2. \A q \in Request : told'[q] = IF q = r THEN 1 ELSE told[q]
    BY <1>1, <1>3, <2>1
  <2> QED BY <1>1, <1>3, <2>2 DEF CbInv
<1> QED BY <1>5, <1>6, <1>7, <1>8 DEF CbInv

(* So does freeing callbacks that wait. *)
LEMMA FreeWaitingCb ==
  ASSUME TypeInv, CbInv, NEW r,
         client_cbs' = client_cbs \ {r}, lifetime' = lifetime \ {r},
         busy' \in {busy, busy \ {r}}, UNCHANGED <<used, told, stack>>
  PROVE  CbInv'
<1>1. Handled(stack', {"unavailable"}) \subseteq used' \ lifetime'
  BY DEF CbInv
<1>2. client_cbs' \cap busy' \subseteq Handled(stack', Running)
  BY DEF CbInv
<1>3. LifetimeMatches'
  BY DEF CbInv, LifetimeMatches
<1>4. \A q \in Request :
        told'[q] <= 1 /\ (q \notin used' \/ q \in client_cbs' \ busy' => told'[q] = 0)
  BY DEF CbInv
<1> QED BY <1>1, <1>2, <1>3, <1>4 DEF CbInv

(* Every step keeps the invariant of the callbacks. *)
LEMMA CbStep ==
  ASSUME TypeInv, CbInv, [Next]_vars
  PROVE  CbInv'
<1> USE RequestAssumption
<1>0. stack \in Seq(Frame)
  BY DEF TypeInv, TypeOK
<1>1. ASSUME NEW r \in Request, Start(r) \/ HandlerStarts(r)
      PROVE  CbInv'
  BY <1>1, MakeRequestCb DEF Start, HandlerStarts
<1>2. ASSUME NEW r \in Request, ReceiveEmpty(r)
      PROVE  CbInv'
  BY <1>2, QuietStep DEF ReceiveEmpty
<1>3. ASSUME NEW r \in Request, NEW mid, ReceiveResponse(r, mid)
      PROVE  CbInv'
  <2>1. CASE r \notin client_cbs
    BY <1>3, <2>1, QuietStep DEF ReceiveResponse, cbVars
  <2>2. CASE r \in client_cbs
    <3> DEFINE f == Call("response", r, Nil)
    <3>1. f \in Frame /\ f.op = "response" /\ f.r = r
      BY CallFrame DEF Op
    <3> HIDE DEF f
    <3>2. /\ used' = used /\ client_cbs' = client_cbs /\ lifetime' = lifetime
          /\ busy' = busy \cup {r} /\ told' = [told EXCEPT ![r] = @ + 1]
          /\ stack = <<>> /\ stack' = <<f>> \o stack
      BY <1>3, <2>2 DEF ReceiveResponse, Push, Idle, f
    <3>3. /\ Handled(stack', {"unavailable"}) = Handled(stack, {"unavailable"})
          /\ Handled(stack', Running) = {r} \cup Handled(stack, Running)
      BY <1>0, <3>1, <3>2, HandledPush DEF Running
    <3>4. r \notin busy
      <4>1. Handled(stack, Running) = {}
        BY <3>2 DEF Handled
      <4> QED BY <2>2, <4>1 DEF CbInv
    <3>5. Handled(stack', {"unavailable"}) \subseteq used' \ lifetime'
      BY <3>2, <3>3 DEF CbInv
    <3>6. client_cbs' \cap busy' \subseteq Handled(stack', Running)
      BY <3>2, <3>3 DEF CbInv
    <3>7. LifetimeMatches'
      BY <3>2 DEF CbInv, LifetimeMatches
    <3>8. \A q \in Request : /\ told'[q] <= 1
                             /\ q \notin used' \/ q \in client_cbs' \ busy' => told'[q] = 0
      <4>1. told[r] = 0 /\ r \in used /\ told \in [Request -> Nat]
        BY <2>2, <3>4 DEF CbInv, TypeInv, TypeOK
      <4>2. \A q \in Request : told'[q] = IF q = r THEN 1 ELSE told[q]
        BY <3>2, <4>1
      <4> QED BY <3>2, <4>1, <4>2 DEF CbInv
    <3> QED BY <3>5, <3>6, <3>7, <3>8 DEF CbInv
  <2> QED BY <2>1, <2>2
<1>4. ASSUME NEW r \in Request, NEW mid, ReceiveUnparsable(r, mid)
      PROVE  CbInv'
  BY <1>4, FreeWaitingCb DEF ReceiveUnparsable
<1>5. ASSUME NEW r \in Request, RemoveClientCb(r)
      PROVE  CbInv'
  BY <1>5, FreeWaitingCb DEF RemoveClientCb
<1>6. ASSUME NEW e \in Endpoint, NewPeer(e)
      PROVE  CbInv'
  BY <1>6, QuietStep DEF NewPeer
<1>7. ASSUME NEW e \in Endpoint, ClosePeer(e) \/ HandlerCloses(e)
      PROVE  CbInv'
  <2>1. First \in Request \cup {Nil}
    BY FirstType DEF TypeInv, TypeOK
  <2>2. Call("freeTx", First, e) \in Frame /\ Call("freeTx", First, e).op \notin Running
    BY <2>1, CallFrame DEF Op, Running
  <2>3. \A ops \in SUBSET Running : Handled(stack', ops) = Handled(stack, ops)
    BY <1>0, <1>7, <2>2, HandledQuiet DEF ClosePeer, HandlerCloses, Push
  <2> QED BY <1>7, <2>3, QuietStep DEF ClosePeer, HandlerCloses
<1>8. ASSUME NEW ts \in SUBSET Con, TimersExpire(ts)
      PROVE  CbInv'
  <2>1. First \in Request \cup {Nil}
    BY FirstType DEF TypeInv, TypeOK
  <2>2. Call("check", First, Nil) \in Frame /\ Call("check", First, Nil).op \notin Running
    BY <2>1, CallFrame DEF Op, Running
  <2>3. \A ops \in SUBSET Running : Handled(stack', ops) = Handled(stack, ops)
    BY <1>0, <1>8, <2>2, HandledQuiet DEF TimersExpire, Push
  <2> QED BY <1>8, <2>3, QuietStep DEF TimersExpire
<1>9. CASE ResponseHandled
  <2>1. /\ stack # <<>> /\ Top.op = "response" /\ stack' = Tail(stack)
        /\ used' = used /\ told' = told
    BY <1>9 DEF ResponseHandled, In, Return
  <2>2. /\ Handled(stack, {"unavailable"}) = Handled(stack', {"unavailable"})
        /\ Handled(stack, Running) = {Top.r} \cup Handled(stack', Running)
    BY <1>0, <2>1, HandledTop DEF Top, Running
  <2>3. /\ client_cbs' = client_cbs \ {Top.r} /\ lifetime' = lifetime \ {Top.r}
        /\ busy' \in {busy, busy \ {Top.r}} /\ client_cbs' \cap busy' = (client_cbs \cap busy) \ {Top.r}
        /\ client_cbs' \ busy' \subseteq client_cbs \ busy
    BY <1>9 DEF ResponseHandled, CbInv, LifetimeMatches
  <2>4. Handled(stack', {"unavailable"}) \subseteq used' \ lifetime'
    BY <2>1, <2>2, <2>3 DEF CbInv
  <2>5. client_cbs' \cap busy' \subseteq Handled(stack', Running)
    BY <2>2, <2>3 DEF CbInv
  <2>6. LifetimeMatches'
    BY <2>3 DEF CbInv, LifetimeMatches
  <2>7. \A q \in Request : /\ told'[q] <= 1
                           /\ q \notin used' \/ q \in client_cbs' \ busy' => told'[q] = 0
    BY <2>1, <2>3 DEF CbInv
  <2> QED BY <2>4, <2>5, <2>6, <2>7 DEF CbInv
<1>10. CASE UnavailableHandled
  <2>1. /\ stack # <<>> /\ Top.op = "unavailable" /\ stack' = Tail(stack)
        /\ used' = used /\ told' = told /\ lifetime' = lifetime
        /\ client_cbs' = client_cbs \ {Top.r} /\ busy' = busy \ {Top.r}
    BY <1>10 DEF UnavailableHandled, In, Return
  <2>2. /\ Handled(stack, {"unavailable"}) = {Top.r} \cup Handled(stack', {"unavailable"})
        /\ Handled(stack, Running) = {Top.r} \cup Handled(stack', Running)
    BY <1>0, <2>1, HandledTop DEF Top, Running
  <2>3. Top.r \notin lifetime
    BY <2>2 DEF CbInv
  <2>4. Handled(stack', {"unavailable"}) \subseteq used' \ lifetime'
    BY <2>1, <2>2 DEF CbInv
  <2>5. client_cbs' \cap busy' \subseteq Handled(stack', Running)
    BY <2>1, <2>2 DEF CbInv
  <2>6. LifetimeMatches'
    BY <2>1, <2>3 DEF CbInv, LifetimeMatches
  <2>7. \A q \in Request : /\ told'[q] <= 1
                           /\ q \notin used' \/ q \in client_cbs' \ busy' => told'[q] = 0
    BY <2>1 DEF CbInv
  <2> QED BY <2>4, <2>5, <2>6, <2>7 DEF CbInv
<1>11. CASE FreeCbsByMid
  <2>1. CASE Top.r \in client_cbs \ busy
    BY <1>11, <2>1, NotifyCb DEF FreeCbsByMid
  <2>2. CASE Top.r \notin client_cbs \ busy
    <3>1. stack # <<>> /\ Top.op \notin Running /\ stack' = Tail(stack) /\ UNCHANGED cbVars
      BY <1>11, <2>2 DEF FreeCbsByMid, In, Return, Running
    <3> QED BY <1>0, <3>1, HandledQuiet, QuietStep
  <2> QED BY <2>1, <2>2
<1>12. CASE FreeCbsByEndpoint
  <2>1. CASE \E r \in client_cbs \ busy : Notify(r)
    BY <2>1, NotifyCb
  <2>2. CASE GoOn(Call("freed", Nil, Top.e)) /\ UNCHANGED cbVars
    <3>1. stack # <<>> /\ Top.op \notin Running /\ Top.e \in Endpoint
      BY <1>12, TopGood DEF FreeCbsByEndpoint, In, GoodFrame, Running
    <3>2. Call("freed", Nil, Top.e) \in Frame /\ Call("freed", Nil, Top.e).op \notin Running
      BY <3>1, CallFrame DEF Op, Running
    <3>3. \A ops \in SUBSET Running : Handled(stack', ops) = Handled(stack, ops)
      BY <1>0, <2>2, <3>1, <3>2, HandledQuiet DEF GoOn
    <3> QED BY <2>2, <3>3, QuietStep
  <2> QED BY <1>12, <2>1, <2>2 DEF FreeCbsByEndpoint
<1>13. CASE FreeTransactions
  <2>1. /\ stack # <<>> /\ Top.op \notin Running
        /\ Top.r \in Request \cup {Nil} /\ Top.e \in Endpoint
    BY <1>13, TopGood DEF FreeTransactions, In, GoodFrame, Running
  <2>2. CASE UseFreed
    BY <2>2, QuietStep DEF UseFreed
  <2>3. CASE Top.r = Nil
    <3>1. Call("byEndpoint", Nil, Top.e) \in Frame /\ Call("byEndpoint", Nil, Top.e).op \notin Running
      BY <2>1, CallFrame DEF Op, Running
    <3>2. stack' = <<Call("byEndpoint", Nil, Top.e)>> \o Tail(stack) /\ UNCHANGED cbVars
      BY <1>13, <2>3 DEF FreeTransactions, GoOn
    <3> QED BY <1>0, <2>1, <3>1, <3>2, HandledQuiet, QuietStep
  <2>4. CASE Top.r # Nil /\ Listed(Top.r) /\ ~UseFreed
    <3> DEFINE f == Call("freeTx", NextOf(Top.r), Top.e)
               g == Call("byMid", Top.r, Nil)
               h == [op |-> "freeTxNext", r |-> Top.r, e |-> Top.e,
                     next |-> NextOf(Top.r), len |-> Len(transactions)]
    <3>1. NextOf(Top.r) \in Request \cup {Nil} /\ Len(transactions) \in Nat
      BY <2>4, NextOfType DEF TypeInv, TypeOK
    <3>2. f \in Frame /\ f.op \notin Running /\ g \in Frame /\ g.op \notin Running
      BY <2>1, <3>1, CallFrame DEF Op, Running
    <3>3. h \in Frame /\ h.op \notin Running
      BY <2>1, <3>1 DEF Frame, Op, Running
    <3>4. /\ stack' = <<f>> \o Tail(stack) \/ stack' = <<g, h>> \o Tail(stack)
          /\ UNCHANGED cbVars
      BY <1>13, <2>4 DEF FreeTransactions, GoOn, GoOnAndPush
    <3> HIDE DEF f, g, h
    <3>5. \A ops \in SUBSET Running : Handled(stack', ops) = Handled(stack, ops)
      BY <1>0, <2>1, <3>2, <3>3, <3>4, HandledQuiet
    <3> QED BY <3>4, <3>5, QuietStep
  <2> QED BY <1>13, <2>2, <2>3, <2>4 DEF FreeTransactions
<1>14. CASE FreeTransactionsNext
  <2> DEFINE f == Call("freeTx", First, Top.e)
             g == Call("freeTx", Top.next, Top.e)
  <2>1. /\ stack # <<>> /\ Top.op \notin Running
        /\ Top.next \in Request \cup {Nil} /\ Top.e \in Endpoint
    BY <1>14, TopGood DEF FreeTransactionsNext, In, GoodFrame, Running
  <2>2. f \in Frame /\ f.op \notin Running /\ g \in Frame /\ g.op \notin Running
    BY <2>1, FirstType, CallFrame DEF TypeInv, TypeOK, Op, Running
  <2>3. /\ stack' = <<f>> \o Tail(stack) \/ stack' = <<g>> \o Tail(stack)
        /\ UNCHANGED cbVars
    BY <1>14 DEF FreeTransactionsNext, GoOn
  <2> HIDE DEF f, g
  <2>4. \A ops \in SUBSET Running : Handled(stack', ops) = Handled(stack, ops)
    BY <1>0, <2>1, <2>2, <2>3, HandledQuiet
  <2> QED BY <2>3, <2>4, QuietStep
<1>15. CASE PeerFreed
  <2>1. stack # <<>> /\ Top.op \notin Running /\ stack' = Tail(stack) /\ UNCHANGED cbVars
    BY <1>15 DEF PeerFreed, In, Return, Running
  <2> QED BY <1>0, <2>1, HandledQuiet, QuietStep
<1>16. CASE CheckTransaction
  <2>1. stack # <<>> /\ Top.op \notin Running /\ Top.r \in Request \cup {Nil}
    BY <1>16, TopGood DEF CheckTransaction, In, GoodFrame, Running
  <2>2. CASE UseFreed
    BY <2>2, QuietStep DEF UseFreed
  <2>3. CASE Top.r = Nil
    <3>1. stack' = Tail(stack) /\ UNCHANGED cbVars
      BY <1>16, <2>3 DEF CheckTransaction, Return
    <3> QED BY <1>0, <2>1, <3>1, HandledQuiet, QuietStep
  <2>4. CASE Top.r # Nil /\ Listed(Top.r) /\ ~UseFreed
    <3> DEFINE f == Call("check", NextOf(Top.r), Nil)
               g == Call("send", Top.r, Nil)
               h == [op |-> "checked", r |-> Nil, e |-> Nil,
                     next |-> NextOf(Top.r), len |-> Len(transactions)]
    <3>1. NextOf(Top.r) \in Request \cup {Nil} /\ Len(transactions) \in Nat
      BY <2>4, NextOfType DEF TypeInv, TypeOK
    <3>2. f \in Frame /\ f.op \notin Running /\ g \in Frame /\ g.op \notin Running
      BY <2>1, <3>1, CallFrame DEF Op, Running
    <3>3. h \in Frame /\ h.op \notin Running
      BY <2>1, <3>1 DEF Frame, Op, Running
    <3>4. /\ stack' = <<f>> \o Tail(stack) \/ stack' = <<g, h>> \o Tail(stack)
          /\ UNCHANGED cbVars
      BY <1>16, <2>4 DEF CheckTransaction, GoOn, GoOnAndPush
    <3> HIDE DEF f, g, h
    <3>5. \A ops \in SUBSET Running : Handled(stack', ops) = Handled(stack, ops)
      BY <1>0, <2>1, <3>2, <3>3, <3>4, HandledQuiet
    <3> QED BY <3>4, <3>5, QuietStep
  <2> QED BY <1>16, <2>2, <2>3, <2>4 DEF CheckTransaction
<1>17. CASE Checked
  <2> DEFINE f == Call("check", First, Nil)
             g == Call("check", Top.next, Nil)
  <2>1. stack # <<>> /\ Top.op \notin Running /\ Top.next \in Request \cup {Nil}
    BY <1>17, TopGood DEF Checked, In, GoodFrame, Running
  <2>2. f \in Frame /\ f.op \notin Running /\ g \in Frame /\ g.op \notin Running
    BY <2>1, FirstType, CallFrame DEF TypeInv, TypeOK, Op, Running
  <2>3. /\ stack' = <<f>> \o Tail(stack) \/ stack' = <<g>> \o Tail(stack)
        /\ UNCHANGED cbVars
    BY <1>17 DEF Checked, GoOn
  <2> HIDE DEF f, g
  <2>4. \A ops \in SUBSET Running : Handled(stack', ops) = Handled(stack, ops)
    BY <1>0, <2>1, <2>2, <2>3, HandledQuiet
  <2> QED BY <2>3, <2>4, QuietStep
<1>18. CASE SendTransaction
  <2> DEFINE f == Call("timedout", Top.r, Nil)
             g == Call("byMid", Top.r, Nil)
  <2>1. stack # <<>> /\ Top.op \notin Running /\ Top.r \in Request
    BY <1>18, TopGood DEF SendTransaction, In, GoodFrame, Running
  <2>2. f \in Frame /\ f.op \notin Running /\ g \in Frame /\ g.op \notin Running
    BY <2>1, CallFrame DEF Op, Running
  <2>3. /\ stack' = Tail(stack) \/ stack' = <<g, f>> \o Tail(stack)
        /\ UNCHANGED cbVars
    BY <1>18 DEF SendTransaction, Return, GoOnAndPush
  <2> HIDE DEF f, g
  <2>4. \A ops \in SUBSET Running : Handled(stack', ops) = Handled(stack, ops)
    BY <1>0, <2>1, <2>2, <2>3, HandledQuiet
  <2> QED BY <2>3, <2>4, QuietStep
<1>19. CASE TimedOut
  <2> DEFINE f == Call("freeTx", First, To[Top.r])
  <2>1. /\ stack # <<>> /\ Top.op \notin Running /\ Top.r \in Request /\ To[Top.r] \in Endpoint
    BY <1>19, TopGood DEF TimedOut, In, GoodFrame, Running
  <2>2. f \in Frame /\ f.op \notin Running
    BY <2>1, FirstType, CallFrame DEF TypeInv, TypeOK, Op, Running
  <2>3. /\ stack' = Tail(stack) \/ stack' = <<f>> \o Tail(stack) \/ stack' = stack
        /\ UNCHANGED cbVars
    BY <1>19 DEF TimedOut, UseFreed, Return, GoOn
  <2> HIDE DEF f
  <2>4. \A ops \in SUBSET Running : Handled(stack', ops) = Handled(stack, ops)
    BY <1>0, <2>1, <2>2, <2>3, HandledQuiet
  <2> QED BY <2>3, <2>4, QuietStep
<1>20. CASE UNCHANGED vars
  BY <1>20, QuietStep DEF vars
<1> QED
  BY <1>1, <1>2, <1>3, <1>4, <1>5, <1>6, <1>7, <1>8, <1>9, <1>10, <1>11, <1>12, <1>13,
     <1>14, <1>15, <1>16, <1>17, <1>18, <1>19, <1>20
  DEF Next, Step, Undefined

(* The invariant of the callbacks always holds. *)
LEMMA CbInvariant == Spec => [](TypeInv /\ CbInv)
<1>1. Init => CbInv
  BY DEF Init, CbInv, LifetimeMatches, Handled
<1>2. TypeInv /\ CbInv /\ [Next]_vars => (TypeInv /\ CbInv)'
  BY TypeStep, CbStep
<1> QED BY TypeInit, <1>1, <1>2, PTL DEF Spec

(* For any number of requests and servers, and whatever handlers do while they
   run, the handler of a request is called at most once: ref_count keeps the
   traversals that tell 5.03 away from a callback that is being told.       *)
THEOREM HandlerToldOnce == Spec => []ToldOnce
<1>1. CbInv => ToldOnce
  BY DEF CbInv, ToldOnce
<1> QED BY CbInvariant, <1>1, PTL

(* The delayed callback that frees a client callback is armed exactly as long
   as it has something to free.                                             *)
THEOREM LifetimeAlwaysMatches == Spec => []LifetimeMatches
<1>1. CbInv => LifetimeMatches
  BY DEF CbInv
<1> QED BY CbInvariant, <1>1, PTL

-----------------------------------------------------------------------------
(* The teardown of a session.  While the list of transactions is traversed for
   e, the transactions of requests made before are ahead of the traversal.  *)

Distinct(tx) == \A i, j \in 1 .. Len(tx) : tx[i] = tx[j] => i = j
InList(t, tx) == \E i \in 1 .. Len(tx) : tx[i] = t

(* The members of C in the list tx are n or behind it; there is none when n is
   NULL.                                                                    *)
Behind(n, C, tx) ==
  \A i \in 1 .. Len(tx) :
     tx[i] \in C => n # Nil /\ \A j \in 1 .. Len(tx) : tx[j] = n => j <= i

FreeOps == {"freeTx", "freeTxNext", "byEndpoint", "freed"}

(* What a call in progress knows *)
FrameInv(f) ==
  /\ f.r \in used \cup {Nil} /\ f.next \in used \cup {Nil}
  /\ f.op \in FreeOps => f.e \notin tls_peers
  /\ f.op = "freeTx" => Behind(f.r, before[f.e], transactions)
  /\ f.op = "freeTxNext" => Behind(f.next, before[f.e] \ {f.r}, transactions)
  /\ f.op \in {"byEndpoint", "freed"} => Behind(Nil, before[f.e], transactions)
  /\ f.op = "freed" => before[f.e] \cap (client_cbs \ busy) = {}

Frames(s) == {s[i] : i \in 1 .. Len(s)}

(* Transactions are listed once, and belong to requests that were made. *)
ListInv == /\ Distinct(transactions)
           /\ \A i \in 1 .. Len(transactions) : transactions[i] \in used
           /\ \A e \in Endpoint : \A r \in before[e] : r \in used /\ To[r] = e

TearInv == ListInv /\ (stale \/ \A f \in Frames(stack) : FrameInv(f))

-----------------------------------------------------------------------------
(* Taking the transaction at p out of a list without repetitions moves those
   behind it forward by one.                                                *)
LEMMA WithoutAt ==
  ASSUME transactions \in Seq(Con), Distinct(transactions),
         NEW p \in 1 .. Len(transactions)
  PROVE  LET tx == Without(transactions[p])
         IN  /\ Len(tx) = Len(transactions) - 1
             /\ \A i \in 1 .. Len(tx) :
                  tx[i] = IF i < p THEN transactions[i] ELSE transactions[i + 1]
<1> DEFINE t == transactions[p]
<1>1. Listed(t)
  BY DEF Listed
<1>2. Position(t) = p
  BY <1>1, PositionListed DEF Distinct
<1>3. Without(t) = [i \in 1 .. Len(transactions) - 1 |->
                     IF i < p THEN transactions[i] ELSE transactions[i + 1]]
  BY <1>1, <1>2 DEF Without
<1>4. Len(transactions) - 1 \in Nat
  OBVIOUS
<1>5. Without(t) \in Seq(Con)
  BY WithoutType
<1>6. Len(Without(t)) = Len(transactions) - 1
  <2>1. DOMAIN Without(t) = 1 .. Len(transactions) - 1
    BY <1>3
  <2> QED BY <1>4, <1>5, <2>1
<1> QED BY <1>3, <1>6

(* It stays without repetitions, and keeps every other transaction. *)
LEMMA WithoutDistinct ==
  ASSUME transactions \in Seq(Con), Distinct(transactions),
         NEW t, Listed(t)
  PROVE  /\ Distinct(Without(t))
         /\ Len(Without(t)) = Len(transactions) - 1
         /\ \A i \in 1 .. Len(Without(t)) : InList(Without(t)[i], transactions)
         /\ \A u : InList(u, transactions) /\ u # t => InList(u, Without(t))
<1> DEFINE tx == Without(t)
<1>1. PICK p \in 1 .. Len(transactions) : transactions[p] = t
  BY DEF Listed
<1>2. /\ Len(tx) = Len(transactions) - 1
      /\ \A i \in 1 .. Len(tx) : tx[i] = IF i < p THEN transactions[i] ELSE transactions[i + 1]
  BY <1>1, WithoutAt
<1>3. Len(transactions) \in Nat /\ Len(tx) \in Nat
  BY <1>2
<1> HIDE DEF tx
<1>4. Distinct(tx)
  <2> SUFFICES ASSUME NEW i \in 1 .. Len(tx), NEW j \in 1 .. Len(tx), tx[i] = tx[j]
               PROVE  i = j
    BY DEF Distinct
  <2> DEFINE a == IF i < p THEN i ELSE i + 1
             b == IF j < p THEN j ELSE j + 1
  <2>1. a \in 1 .. Len(transactions) /\ b \in 1 .. Len(transactions)
    BY <1>2, <1>3
  <2>2. transactions[a] = transactions[b]
    BY <1>2
  <2>3. a = b
    BY <2>1, <2>2 DEF Distinct
  <2> QED BY <2>3, <1>3
<1>5. \A i \in 1 .. Len(tx) : InList(tx[i], transactions)
  <2> TAKE i \in 1 .. Len(tx)
  <2>1. i \in 1 .. Len(transactions) /\ i + 1 \in 1 .. Len(transactions)
    BY <1>2, <1>3
  <2> QED BY <1>2, <2>1 DEF InList
<1>6. ASSUME NEW u, InList(u, transactions), u # t
      PROVE  InList(u, tx)
  <2>1. PICK j \in 1 .. Len(transactions) : transactions[j] = u
    BY <1>6 DEF InList
  <2>2. j # p
    BY <1>1, <1>6, <2>1
  <2>3. CASE j < p
    <3>1. j \in 1 .. Len(tx) /\ tx[j] = u
      BY <1>2, <1>3, <2>1, <2>3
    <3> QED BY <3>1 DEF InList
  <2>4. CASE j > p
    <3>1. j - 1 \in 1 .. Len(tx) /\ ~(j - 1 < p) /\ (j - 1) + 1 = j
      BY <1>2, <1>3, <2>4
    <3>2. tx[j - 1] = u
      BY <1>2, <2>1, <3>1
    <3> QED BY <3>1, <3>2 DEF InList
  <2> QED BY <2>2, <2>3, <2>4
<1> QED BY <1>2, <1>4, <1>5, <1>6 DEF tx

(* A call adds its frame to those of its callers ... *)
LEMMA FramesPush ==
  ASSUME NEW s \in Seq(GoodFrame), NEW f \in GoodFrame
  PROVE  Frames(<<f>> \o s) \subseteq {f} \cup Frames(s)
<1> DEFINE z == <<f>> \o s
<1>1. /\ Len(s) \in Nat /\ Len(z) = Len(s) + 1 /\ z[1] = f
      /\ \A i \in 1 .. Len(s) : z[i + 1] = s[i]
  OBVIOUS
<1> HIDE DEF z
<1> SUFFICES ASSUME NEW i \in 1 .. Len(z) PROVE z[i] \in {f} \cup Frames(s)
  BY DEF Frames, z
<1>2. CASE i = 1
  BY <1>1, <1>2
<1>3. CASE i > 1
  <2>1. i - 1 \in 1 .. Len(s) /\ i = (i - 1) + 1
    BY <1>1, <1>3
  <2>2. z[i] = s[i - 1]
    BY <1>1, <2>1
  <2> QED BY <2>1, <2>2 DEF Frames
<1> QED BY <1>2, <1>3

(* ... and a return leaves those of the callers. *)
LEMMA FramesTail ==
  ASSUME NEW s \in Seq(GoodFrame), s # <<>>
  PROVE  /\ Tail(s) \in Seq(GoodFrame) /\ Frames(Tail(s)) \subseteq Frames(s)
         /\ Head(s) \in Frames(s)
<1>1. /\ Len(s) \in Nat /\ Len(s) > 0 /\ Head(s) = s[1] /\ Tail(s) \in Seq(GoodFrame)
      /\ Len(Tail(s)) = Len(s) - 1
      /\ \A i \in 1 .. Len(Tail(s)) : Tail(s)[i] = s[i + 1]
  OBVIOUS
<1>2. 1 \in 1 .. Len(s)
  BY <1>1
<1>3. Frames(Tail(s)) \subseteq Frames(s)
  <2> DEFINE z == Tail(s)
  <2> HIDE DEF z
  <2> SUFFICES ASSUME NEW i \in 1 .. Len(z) PROVE z[i] \in Frames(s)
    BY DEF Frames, z
  <2>1. i + 1 \in 1 .. Len(s) /\ z[i] = s[i + 1]
    BY <1>1 DEF z
  <2> QED BY <2>1 DEF Frames
<1> QED BY <1>1, <1>2, <1>3 DEF Frames

(* The stack after each way of calling and returning *)
LEMMA FramesMoves ==
  ASSUME TypeInv
  PROVE  /\ \A f \in GoodFrame : Push(f) => Frames(stack') \subseteq {f} \cup Frames(stack)
         /\ stack # <<>> => Top \in Frames(stack)
         /\ stack # <<>> /\ Return => Frames(stack') \subseteq Frames(stack)
         /\ \A f \in GoodFrame :
              stack # <<>> /\ GoOn(f) => Frames(stack') \subseteq {f} \cup Frames(stack)
         /\ \A f, g \in GoodFrame :
              stack # <<>> /\ GoOnAndPush(f, g)
                => Frames(stack') \subseteq {f, g} \cup Frames(stack)
<1>1. stack \in Seq(GoodFrame)
  BY DEF TypeInv
<1>2. ASSUME NEW f \in GoodFrame, Push(f)
      PROVE  Frames(stack') \subseteq {f} \cup Frames(stack)
  BY <1>1, <1>2, FramesPush DEF Push
<1>3. ASSUME NEW f \in GoodFrame, stack # <<>>, GoOn(f)
      PROVE  Frames(stack') \subseteq {f} \cup Frames(stack)
  <2>1. Frames(<<f>> \o Tail(stack)) \subseteq {f} \cup Frames(Tail(stack))
    BY <1>1, <1>3, FramesTail, FramesPush
  <2> QED BY <1>1, <1>3, <2>1, FramesTail DEF GoOn
<1>4. ASSUME NEW f \in GoodFrame, NEW g \in GoodFrame, stack # <<>>, GoOnAndPush(f, g)
      PROVE  Frames(stack') \subseteq {f, g} \cup Frames(stack)
  <2> DEFINE u == <<f>> \o Tail(stack)
  <2>1. Tail(stack) \in Seq(GoodFrame) /\ u \in Seq(GoodFrame)
    BY <1>1, <1>4, FramesTail
  <2>2. <<g, f>> \o Tail(stack) = <<g>> \o u
    BY <2>1
  <2>3. Frames(u) \subseteq {f} \cup Frames(Tail(stack))
    BY <2>1, FramesPush
  <2> HIDE DEF u
  <2>4. Frames(<<g>> \o u) \subseteq {g} \cup Frames(u)
    BY <2>1, FramesPush
  <2> QED BY <1>1, <1>4, <2>2, <2>3, <2>4, FramesTail DEF GoOnAndPush
<1> QED BY <1>1, <1>2, <1>3, <1>4, FramesTail DEF Return, Top

(* How the list of transactions changes in a step *)
ListStep == \/ transactions' = transactions
            \/ \E r \in Con \ used : transactions' = Append(transactions, r)
            \/ \E t \in Con : Listed(t) /\ transactions' = Without(t)

(* What is ahead of a traversal stays ahead of it. *)
LEMMA BehindKept ==
  ASSUME TypeInv, ListInv, ListStep, NEW n \in used \cup {Nil}, NEW C \in SUBSET used,
         Behind(n, C, transactions)
  PROVE  Behind(n, C, transactions')
<1>0. transactions \in Seq(Con) /\ Len(transactions) \in Nat /\ Nil \notin Con
  BY RequestAssumption DEF TypeInv, TypeOK
<1>1. CASE transactions' = transactions
  BY <1>1
<1>2. ASSUME NEW r \in Con \ used, transactions' = Append(transactions, r)
      PROVE  Behind(n, C, transactions')
  <2>1. /\ Len(transactions') = Len(transactions) + 1
        /\ \A i \in 1 .. Len(transactions) : transactions'[i] = transactions[i]
        /\ transactions'[Len(transactions) + 1] = r
    BY <1>0, <1>2
  <2> SUFFICES ASSUME NEW i \in 1 .. Len(transactions'), transactions'[i] \in C
               PROVE  n # Nil /\ \A j \in 1 .. Len(transactions') : transactions'[j] = n => j <= i
    BY DEF Behind
  <2>2. i \in 1 .. Len(transactions) /\ transactions[i] \in C
    BY <1>0, <2>1
  <2>3. n # Nil /\ n # r
    BY <1>0, <2>2 DEF Behind
  <2>4. ASSUME NEW j \in 1 .. Len(transactions'), transactions'[j] = n
        PROVE  j <= i
    <3>1. j \in 1 .. Len(transactions) /\ transactions[j] = n
      BY <1>0, <2>1, <2>3, <2>4
    <3> QED BY <2>2, <3>1 DEF Behind
  <2> QED BY <2>3, <2>4
<1>3. ASSUME NEW t \in Con, Listed(t), transactions' = Without(t)
      PROVE  Behind(n, C, transactions')
  <2>1. PICK p \in 1 .. Len(transactions) : transactions[p] = t
    BY <1>3 DEF Listed
  <2>2. /\ Len(transactions') = Len(transactions) - 1
        /\ \A i \in 1 .. Len(transactions') :
             transactions'[i] = IF i < p THEN transactions[i] ELSE transactions[i + 1]
    BY <1>0, <1>3, <2>1, WithoutAt DEF ListInv
  <2> SUFFICES ASSUME NEW i \in 1 .. Len(transactions'), transactions'[i] \in C
               PROVE  n # Nil /\ \A j \in 1 .. Len(transactions') : transactions'[j] = n => j <= i
    BY DEF Behind
  <2> DEFINE Old(k) == IF k < p THEN k ELSE k + 1
  <2>3. \A k \in 1 .. Len(transactions') :
          Old(k) \in 1 .. Len(transactions) /\ transactions'[k] = transactions[Old(k)]
    BY <1>0, <2>2
  <2>4. n # Nil /\ \A j \in 1 .. Len(transactions) : transactions[j] = n => j <= Old(i)
    BY <2>3 DEF Behind
  <2>5. ASSUME NEW j \in 1 .. Len(transactions'), transactions'[j] = n
        PROVE  j <= i
    <3>1. Old(j) <= Old(i)
      BY <2>3, <2>4, <2>5
    <3> QED BY <1>0, <2>2, <3>1
  <2> QED BY <2>4, <2>5
<1> QED BY <1>1, <1>2, <1>3 DEF ListStep

(* The head of the list has everything behind it. *)
LEMMA BehindFirst ==
  ASSUME TypeInv, ListInv, NEW C
  PROVE  Behind(First, C, transactions)
<1>0. transactions \in Seq(Con) /\ Nil \notin Con
  BY RequestAssumption DEF TypeInv, TypeOK
<1> SUFFICES ASSUME NEW i \in 1 .. Len(transactions)
             PROVE  /\ First # Nil
                    /\ \A j \in 1 .. Len(transactions) : transactions[j] = First => j <= i
  BY DEF Behind
<1>1. /\ transactions # <<>> /\ First = transactions[1] /\ 1 \in 1 .. Len(transactions)
      /\ transactions[1] \in Con
  BY <1>0 DEF First
<1> QED BY <1>0, <1>1 DEF ListInv, Distinct

(* It is a request that was made. *)
LEMMA FirstUsed ==
  ASSUME TypeInv, ListInv
  PROVE  First \in used \cup {Nil}
<1>1. transactions \in Seq(Con)
  BY DEF TypeInv, TypeOK
<1>2. transactions # <<>> => 1 \in 1 .. Len(transactions) /\ Head(transactions) = transactions[1]
  BY <1>1
<1> QED BY <1>2 DEF First, ListInv

(* So has what follows a transaction, apart from that transaction. *)
LEMMA BehindNext ==
  ASSUME TypeInv, ListInv, NEW t \in Con, Listed(t), NEW C, Behind(t, C, transactions)
  PROVE  Behind(NextOf(t), C \ {t}, transactions)
<1>0. transactions \in Seq(Con) /\ Len(transactions) \in Nat /\ Nil \notin Con
  BY RequestAssumption DEF TypeInv, TypeOK
<1>1. Position(t) \in 1 .. Len(transactions) /\ transactions[Position(t)] = t
  BY PositionListed
<1> DEFINE p == Position(t)
<1> HIDE DEF p
<1> SUFFICES ASSUME NEW i \in 1 .. Len(transactions), transactions[i] \in C \ {t}
             PROVE  /\ NextOf(t) # Nil
                    /\ \A j \in 1 .. Len(transactions) : transactions[j] = NextOf(t) => j <= i
  BY DEF Behind
<1>2. p <= i /\ i # p
  BY <1>1 DEF Behind, p
<1>3. p < Len(transactions) /\ p + 1 \in 1 .. Len(transactions) /\ p + 1 <= i
  BY <1>0, <1>1, <1>2 DEF p
<1>4. NextOf(t) = transactions[p + 1]
  BY <1>3 DEF NextOf, p
<1>5. transactions[p + 1] \in Con
  BY <1>0, <1>3
<1> QED BY <1>0, <1>3, <1>4, <1>5 DEF ListInv, Distinct

(* A call in progress keeps what it knows. *)
LEMMA FrameKept ==
  ASSUME TypeInv, ListInv, ListStep, NEW f \in GoodFrame, FrameInv(f), used \subseteq used',
         f.op \in FreeOps => f.e \notin tls_peers' /\ before'[f.e] = before[f.e],
         (client_cbs \ busy)' \subseteq (client_cbs \ busy) \cup (used' \ used)
  PROVE  FrameInv(f)'
<1>1. f.op \in FreeOps => f.e \in Endpoint /\ before[f.e] \in SUBSET used
  BY DEF GoodFrame, FreeOps, ListInv
<1>2. f.op = "freeTx" => Behind(f.r, before'[f.e], transactions')
  BY <1>1, BehindKept DEF FrameInv, FreeOps
<1>3. f.op = "freeTxNext" => Behind(f.next, before'[f.e] \ {f.r}, transactions')
  <2> SUFFICES ASSUME f.op = "freeTxNext"
               PROVE  Behind(f.next, before'[f.e] \ {f.r}, transactions')
    OBVIOUS
  <2>1. before[f.e] \ {f.r} \in SUBSET used /\ before'[f.e] = before[f.e]
    BY <1>1 DEF FreeOps
  <2> QED BY <2>1, BehindKept DEF FrameInv
<1>4. f.op \in {"byEndpoint", "freed"} => Behind(Nil, before'[f.e], transactions')
  BY <1>1, BehindKept DEF FrameInv, FreeOps
<1>5. f.op = "freed" => before'[f.e] \cap (client_cbs \ busy)' = {}
  <2> SUFFICES ASSUME f.op = "freed" PROVE before'[f.e] \cap (client_cbs \ busy)' = {}
    OBVIOUS
  <2>1. before'[f.e] = before[f.e] /\ before[f.e] \in SUBSET used
    BY <1>1 DEF FreeOps
  <2> QED BY <2>1 DEF FrameInv
<1>6. f.r \in used' \cup {Nil} /\ f.next \in used' \cup {Nil}
  BY DEF FrameInv
<1>7. f.op \in FreeOps => f.e \notin tls_peers'
  OBVIOUS
<1> QED BY <1>2, <1>3, <1>4, <1>5, <1>6, <1>7 DEF FrameInv

(* The calls a step adds know what they should. *)
NewKnown == \A f \in Frames(stack') : f \in Frames(stack) \/ FrameInv(f)'

(* No session that is being torn down is opened or torn down again. *)
PeersKept == \A f \in Frames(stack) :
               f.op \in FreeOps => f.e \notin tls_peers' /\ before'[f.e] = before[f.e]

(* Everything known after a step, from what is known of its new calls *)
LEMMA TearKept ==
  ASSUME TypeInv, TearInv, ~stale, TypeInv', ListInv', ListStep, used \subseteq used',
         NewKnown,
         PeersKept,
         (client_cbs \ busy)' \subseteq (client_cbs \ busy) \cup (used' \ used)
  PROVE  TearInv'
<1>1. Frames(stack) \subseteq GoodFrame
  <2>1. stack \in Seq(GoodFrame)
    BY DEF TypeInv
  <2> QED BY <2>1 DEF Frames
<1>2. ASSUME NEW f \in Frames(stack) PROVE FrameInv(f)'
  BY <1>1, <1>2, FrameKept DEF TearInv, PeersKept
<1>3. \A f \in Frames(stack') : FrameInv(f)'
  BY <1>2 DEF NewKnown
<1> QED BY <1>3 DEF TearInv

(* The list stays without repetitions, of requests that were made. *)
LEMMA ListKept ==
  ASSUME TypeInv, ListInv, ListStep, used \subseteq used',
         transactions' # transactions =>
           \/ \E t \in Con : Listed(t) /\ transactions' = Without(t)
           \/ \E r \in Con \ used : r \in used' /\ transactions' = Append(transactions, r),
         \A e \in Endpoint : before'[e] \in {before[e], {r \in used : To[r] = e}}
  PROVE  ListInv'
<1>0. transactions \in Seq(Con) /\ Len(transactions) \in Nat
  BY DEF TypeInv, TypeOK
<1>1. \A e \in Endpoint : \A r \in before'[e] : r \in used' /\ To[r] = e
  BY DEF ListInv
<1>2. CASE transactions' = transactions
  BY <1>1, <1>2 DEF ListInv
<1>3. ASSUME NEW t \in Con, Listed(t), transactions' = Without(t) PROVE ListInv'
  <2>1. /\ Distinct(transactions')
        /\ \A i \in 1 .. Len(transactions') : InList(transactions'[i], transactions)
    BY <1>0, <1>3, WithoutDistinct DEF ListInv
  <2> QED BY <1>1, <2>1 DEF ListInv, InList
<1>4. ASSUME NEW r \in Con \ used, r \in used', transactions' = Append(transactions, r)
      PROVE  ListInv'
  <2>1. /\ Len(transactions') = Len(transactions) + 1
        /\ \A i \in 1 .. Len(transactions) : transactions'[i] = transactions[i]
        /\ transactions'[Len(transactions) + 1] = r
    BY <1>0, <1>4
  <2>2. \A i \in 1 .. Len(transactions') :
          i = Len(transactions) + 1 \/ i \in 1 .. Len(transactions)
    BY <1>0, <2>1
  <2>3. Distinct(transactions')
    BY <1>4, <2>1, <2>2 DEF ListInv, Distinct
  <2>4. \A i \in 1 .. Len(transactions') : transactions'[i] \in used'
    BY <1>4, <2>1, <2>2 DEF ListInv
  <2> QED BY <1>1, <2>3, <2>4 DEF ListInv
<1> QED BY <1>2, <1>3, <1>4

(* Making a request keeps what is known. *)
LEMMA MakeRequestTear ==
  ASSUME TypeInv, TearInv, TypeInv', ~stale, NEW r \in Request, MakeRequest(r), UNCHANGED stack
  PROVE  TearInv'
<1>1. /\ r \notin used /\ used' = used \cup {r} /\ client_cbs' = client_cbs \cup {r}
      /\ busy' = busy /\ tls_peers' = tls_peers /\ before' = before
  BY DEF MakeRequest
<1>2. transactions' = transactions \/ (r \in Con /\ transactions' = Append(transactions, r))
  BY DEF MakeRequest, txVars
<1>3. ListStep
  BY <1>1, <1>2 DEF ListStep
<1>4. ListInv'
  BY <1>1, <1>2, <1>3, ListKept DEF TearInv
<1>5. PeersKept
  BY <1>1 DEF TearInv, FrameInv, PeersKept
<1>6. (client_cbs \ busy)' \subseteq (client_cbs \ busy) \cup (used' \ used)
  BY <1>1
<1>7. NewKnown
  BY DEF NewKnown
<1>8. used \subseteq used'
  BY <1>1
<1> QED BY <1>3, <1>4, <1>5, <1>6, <1>7, <1>8, TearKept

QuietVars == /\ used' = used /\ transactions' = transactions
             /\ tls_peers' = tls_peers /\ before' = before
             /\ (client_cbs \ busy)' \subseteq client_cbs \ busy

(* A step that leaves requests, transactions and sessions alone and makes no
   callback wait: what it has to show for its new calls.                    *)
LEMMA QuietTear ==
  ASSUME TypeInv, TearInv, ~stale, TypeInv', QuietVars, NewKnown
  PROVE  TearInv'
<1>1. /\ ListStep /\ used \subseteq used'
      /\ (client_cbs \ busy)' \subseteq (client_cbs \ busy) \cup (used' \ used)
  BY DEF ListStep, QuietVars
<1>2. ListInv'
  BY DEF TearInv, ListInv, QuietVars
<1>3. PeersKept
  BY DEF TearInv, FrameInv, QuietVars, PeersKept
<1> QED BY <1>1, <1>2, <1>3, TearKept

(* The end of a session, told by a new call *)
LEMMA TeardownTear ==
  ASSUME TypeInv, TearInv, ~stale, TypeInv', NEW e \in tls_peers, Teardown(e),
         UNCHANGED <<cbVars, txVars>>,
         Frames(stack') \subseteq {Call("freeTx", First, e)} \cup Frames(stack)
  PROVE  TearInv'
<1>0. e \in Endpoint /\ before \in [Endpoint -> SUBSET Request]
  BY RequestAssumption DEF TypeInv, TypeOK
<1>1. /\ used' = used /\ transactions' = transactions /\ client_cbs' = client_cbs
      /\ busy' = busy /\ tls_peers' = tls_peers \ {e}
      /\ before' = [before EXCEPT ![e] = {r \in used : To[r] = e}]
  BY DEF cbVars, txVars, Teardown
<1>2. ListStep /\ used \subseteq used'
  BY <1>1 DEF ListStep
<1>3. ListInv'
  <2>1. \A x \in Endpoint : before'[x] \in {before[x], {r \in used : To[r] = x}}
    BY <1>0, <1>1
  <2> QED BY <1>1, <1>2, <2>1, ListKept DEF TearInv
<1>4. PeersKept
  <2> SUFFICES ASSUME NEW f \in Frames(stack), f.op \in FreeOps
               PROVE  f.e \notin tls_peers' /\ before'[f.e] = before[f.e]
    BY DEF PeersKept
  <2>1. f.e \notin tls_peers
    BY DEF TearInv, FrameInv
  <2> QED BY <1>0, <1>1, <2>1
<1>5. ASSUME NEW f \in {Call("freeTx", First, e)}
      PROVE  FrameInv(f)'
  <2>1. f.op = "freeTx" /\ f.r = First /\ f.e = e /\ f.next = Nil
    BY <1>5 DEF Call
  <2>2. First \in used \cup {Nil}
    BY DEF First, TearInv, ListInv, TypeInv, TypeOK
  <2>3. Behind(First, before'[e], transactions)
    BY BehindFirst DEF TearInv
  <2>4. e \notin tls_peers'
    BY <1>1
  <2> QED BY <1>1, <2>1, <2>2, <2>3, <2>4 DEF FrameInv
<1>6. (client_cbs \ busy)' \subseteq (client_cbs \ busy) \cup (used' \ used)
  BY <1>1
<1>7. NewKnown
  BY <1>5 DEF NewKnown
<1> QED BY <1>2, <1>3, <1>4, <1>6, <1>7, TearKept

(* A call told by Call knows little unless it is part of a teardown. *)
LEMMA CallKnows ==
  ASSUME NEW op \in Op \ FreeOps, NEW r, r \in used' \cup {Nil},
         NEW f \in {Call(op, r, Nil)}
  PROVE  FrameInv(f)'
BY DEF Call, FrameInv, FreeOps

(* coap_free_transactions_by_endpoint at a transaction *)
LEMMA FreeTransactionsTear ==
  ASSUME TypeInv, TearInv, TypeInv', FreeTransactions
  PROVE  TearInv'
<1> USE RequestAssumption
<1>0. /\ stack # <<>> /\ Top \in GoodFrame /\ Top.op = "freeTx" /\ ~stale
      /\ Top.e \in Endpoint /\ Top.r \in Con \cup {Nil} /\ FrameInv(Top) /\ ListInv
  BY TopGood, FramesMoves DEF FreeTransactions, In, GoodFrame, TearInv
<1>1. CASE UseFreed
  BY <1>0, <1>1 DEF UseFreed, TearInv, ListInv, cbVars, txVars
<1> SUFFICES ASSUME ~UseFreed PROVE TearInv'
  BY <1>1
<1>2. UNCHANGED <<cbVars, txVars, tls_peers, before, stale>>
  BY DEF FreeTransactions
<1>3. /\ used' = used /\ transactions' = transactions /\ client_cbs' = client_cbs
      /\ busy' = busy /\ tls_peers' = tls_peers /\ before' = before /\ stale' = stale
  BY <1>2 DEF cbVars, txVars
<1>3a. QuietVars
  BY <1>3 DEF QuietVars
<1>4. Top.e \notin tls_peers /\ Behind(Top.r, before[Top.e], transactions)
  BY <1>0 DEF FrameInv, FreeOps
<1>5. CASE Top.r = Nil
  <2>1. Call("byEndpoint", Nil, Top.e) \in GoodFrame
    BY <1>0, CallGood DEF Op
  <2>2. Frames(stack') \subseteq {Call("byEndpoint", Nil, Top.e)} \cup Frames(stack)
    BY <1>0, <1>5, <2>1, FramesMoves DEF FreeTransactions
  <2>3. ASSUME NEW f \in {Call("byEndpoint", Nil, Top.e)} PROVE FrameInv(f)'
    <3>1. f.op = "byEndpoint" /\ f.r = Nil /\ f.e = Top.e /\ f.next = Nil
      BY <2>3 DEF Call
    <3> QED BY <1>3, <1>4, <1>5, <3>1 DEF FrameInv
  <2>4. NewKnown
    BY <2>2, <2>3 DEF NewKnown
  <2> QED BY <1>0, <1>3a, <2>4, QuietTear
<1>6. CASE Top.r # Nil
  <2>1. Top.r \in Con /\ Listed(Top.r) /\ Len(transactions) \in Nat
    BY <1>0, <1>6 DEF FreeTransactions, TypeInv, TypeOK
  <2>2. NextOf(Top.r) \in Con \cup {Nil} /\ NextOf(Top.r) \in used \cup {Nil}
    <3>1. NextOf(Top.r) \in Con \cup {Nil}
      BY <2>1, NextOfType DEF TypeInv, TypeOK
    <3>2. Position(Top.r) \in 1 .. Len(transactions)
      BY <2>1, PositionListed
    <3>3. Position(Top.r) < Len(transactions)
            => Position(Top.r) + 1 \in 1 .. Len(transactions)
      BY <2>1, <3>2
    <3> QED BY <1>0, <3>1, <3>3 DEF NextOf, ListInv
  <2>3. Behind(NextOf(Top.r), before[Top.e] \ {Top.r}, transactions)
    BY <1>0, <1>4, <2>1, BehindNext
  <2>4. CASE To[Top.r] = Top.e
    <3> DEFINE g == [op |-> "freeTxNext", r |-> Top.r, e |-> Top.e,
                     next |-> NextOf(Top.r), len |-> Len(transactions)]
               h == Call("byMid", Top.r, Nil)
    <3>1. g \in GoodFrame
      BY <1>0, <2>1, <2>2 DEF GoodFrame, Frame, Op
    <3>2. h \in GoodFrame
      BY <2>1, CallGood DEF Op
    <3>3. GoOnAndPush(g, h)
      BY <1>6, <2>1, <2>4 DEF FreeTransactions
    <3>4. Top.r \in used
      BY <1>0, <1>6 DEF FrameInv
    <3>5. ASSUME NEW f \in {g} PROVE FrameInv(f)'
      <4>1. /\ f.op = "freeTxNext" /\ f.r = Top.r /\ f.e = Top.e /\ f.next = NextOf(Top.r)
        BY <3>5
      <4> HIDE DEF g
      <4> QED BY <1>3, <1>4, <2>2, <2>3, <3>4, <4>1 DEF FrameInv
    <3>6. ASSUME NEW f \in {h} PROVE FrameInv(f)'
      <4>1. f.op = "byMid" /\ f.r = Top.r /\ f.next = Nil
        BY <3>6 DEF Call
      <4> QED BY <1>3, <3>4, <4>1 DEF FrameInv, FreeOps
    <3> HIDE DEF g, h
    <3>7. Frames(stack') \subseteq {g, h} \cup Frames(stack)
      BY <1>0, <3>1, <3>2, <3>3, FramesMoves
    <3>8. \A f \in {g, h} : FrameInv(f)'
      BY <3>5, <3>6
    <3>9. NewKnown
      BY <3>7, <3>8 DEF NewKnown
    <3> QED BY <1>0, <1>3a, <3>9, QuietTear
  <2>5. CASE To[Top.r] # Top.e
    <3>1. Call("freeTx", NextOf(Top.r), Top.e) \in GoodFrame
      BY <1>0, <2>2, CallGood DEF Op
    <3>2. Frames(stack') \subseteq {Call("freeTx", NextOf(Top.r), Top.e)} \cup Frames(stack)
      <4>1. GoOn(Call("freeTx", NextOf(Top.r), Top.e))
        BY <1>6, <2>1, <2>5 DEF FreeTransactions
      <4> QED BY <1>0, <3>1, <4>1, FramesMoves
    <3>3. before[Top.e] \ {Top.r} = before[Top.e]
      BY <1>0, <2>5 DEF ListInv
    <3>4. ASSUME NEW f \in {Call("freeTx", NextOf(Top.r), Top.e)} PROVE FrameInv(f)'
      <4>1. f.op = "freeTx" /\ f.r = NextOf(Top.r) /\ f.e = Top.e /\ f.next = Nil
        BY <3>4 DEF Call
      <4> QED BY <1>3, <1>4, <2>2, <2>3, <3>3, <4>1 DEF FrameInv
    <3>5. NewKnown
      BY <3>2, <3>4 DEF NewKnown
    <3> QED BY <1>0, <1>3a, <3>5, QuietTear
  <2> QED BY <2>4, <2>5
<1> QED BY <1>5, <1>6

(* ... and after its callbacks were told *)
LEMMA FreeTransactionsNextTear ==
  ASSUME TypeInv, TearInv, TypeInv', FreeTransactionsNext
  PROVE  TearInv'
<1> USE RequestAssumption
<1>0. /\ stack # <<>> /\ Top \in GoodFrame /\ Top.op = "freeTxNext" /\ ~stale
      /\ Top.e \in Endpoint /\ Top.r \in Con /\ Top.next \in Con \cup {Nil}
      /\ FrameInv(Top) /\ ListInv
  BY TopGood, FramesMoves DEF FreeTransactionsNext, In, GoodFrame, TearInv
<1>1. /\ used' = used /\ client_cbs' = client_cbs /\ busy' = busy
      /\ tls_peers' = tls_peers /\ before' = before
  BY DEF FreeTransactionsNext, cbVars
<1>2. /\ Top.e \notin tls_peers /\ Top.next \in used \cup {Nil}
      /\ Behind(Top.next, before[Top.e] \ {Top.r}, transactions)
  BY <1>0 DEF FrameInv, FreeOps
<1>3. PeersKept
  BY <1>0, <1>1 DEF TearInv, FrameInv, PeersKept
<1>4. CASE GoOn(Call("freeTx", First, Top.e)) /\ UNCHANGED <<txVars, stale>>
  <2>1. Call("freeTx", First, Top.e) \in GoodFrame
    BY <1>0, FirstType, CallGood DEF TypeInv, TypeOK, Op
  <2>2. Frames(stack') \subseteq {Call("freeTx", First, Top.e)} \cup Frames(stack)
    BY <1>0, <1>4, <2>1, FramesMoves
  <2>3. transactions' = transactions
    BY <1>4 DEF txVars
  <2>4. ASSUME NEW f \in {Call("freeTx", First, Top.e)} PROVE FrameInv(f)'
    <3>1. f.op = "freeTx" /\ f.r = First /\ f.e = Top.e /\ f.next = Nil
      BY <2>4 DEF Call
    <3>2. First \in used \cup {Nil}
      BY <1>0, FirstUsed
    <3>3. Behind(First, before[Top.e], transactions)
      BY <1>0, BehindFirst
    <3> QED BY <1>1, <1>2, <2>3, <3>1, <3>2, <3>3 DEF FrameInv
  <2>5. QuietVars
    BY <1>1, <2>3 DEF QuietVars
  <2>6. NewKnown
    BY <2>2, <2>4 DEF NewKnown
  <2> QED BY <1>0, <2>5, <2>6, QuietTear
<1>5. CASE /\ Clear(Top.r) /\ stale' = ~Listed(Top.r)
           /\ GoOn(Call("freeTx", Top.next, Top.e))
  <2>1. CASE ~Listed(Top.r)
    <3>1. stale' /\ transactions' = transactions
      BY <1>5, <2>1 DEF Clear, Without
    <3> QED BY <1>0, <1>1, <3>1 DEF TearInv, ListInv
  <2>2. CASE Listed(Top.r)
    <3>1. transactions' = Without(Top.r)
      BY <1>5 DEF Clear
    <3>2. ListStep
      BY <1>0, <2>2, <3>1 DEF ListStep
    <3>3. ListInv'
      BY <1>0, <1>1, <2>2, <3>1, <3>2, ListKept
    <3>4. Call("freeTx", Top.next, Top.e) \in GoodFrame
      BY <1>0, CallGood DEF Op
    <3>5. Frames(stack') \subseteq {Call("freeTx", Top.next, Top.e)} \cup Frames(stack)
      BY <1>0, <1>5, <3>4, FramesMoves
    <3>6. Behind(Top.next, before[Top.e] \ {Top.r}, transactions')
      <4>1. before[Top.e] \ {Top.r} \in SUBSET used
        BY <1>0 DEF ListInv
      <4> QED BY <1>0, <1>2, <3>2, <4>1, BehindKept
    <3>7. \A i \in 1 .. Len(transactions') : transactions'[i] # Top.r
      <4>1. PICK p \in 1 .. Len(transactions) : transactions[p] = Top.r
        BY <2>2 DEF Listed
      <4>2. transactions \in Seq(Con) /\ Len(transactions) \in Nat
        BY DEF TypeInv, TypeOK
      <4>3. /\ Len(transactions') = Len(transactions) - 1
            /\ \A i \in 1 .. Len(transactions') :
                 transactions'[i] = IF i < p THEN transactions[i] ELSE transactions[i + 1]
        BY <1>0, <3>1, <4>1, <4>2, WithoutAt DEF ListInv
      <4>4. ASSUME NEW i \in 1 .. Len(transactions') PROVE transactions'[i] # Top.r
        <5>1. /\ i \in 1 .. Len(transactions) /\ i + 1 \in 1 .. Len(transactions)
              /\ (i < p => i # p) /\ (~(i < p) => i + 1 # p)
          BY <4>2, <4>3
        <5> QED BY <1>0, <4>1, <4>3, <5>1 DEF ListInv, Distinct
      <4> QED BY <4>4
    <3>8. Behind(Top.next, before[Top.e], transactions')
      BY <3>6, <3>7 DEF Behind
    <3>9. ASSUME NEW f \in {Call("freeTx", Top.next, Top.e)} PROVE FrameInv(f)'
      <4>1. f.op = "freeTx" /\ f.r = Top.next /\ f.e = Top.e /\ f.next = Nil
        BY <3>9 DEF Call
      <4> QED BY <1>1, <1>2, <3>8, <4>1 DEF FrameInv
    <3>10. /\ used \subseteq used'
           /\ (client_cbs \ busy)' \subseteq (client_cbs \ busy) \cup (used' \ used)
      BY <1>1
    <3>11. NewKnown
      BY <3>5, <3>9 DEF NewKnown
    <3> QED BY <1>0, <1>3, <3>2, <3>3, <3>10, <3>11, TearKept
  <2> QED BY <2>1, <2>2
<1> QED BY <1>4, <1>5 DEF FreeTransactionsNext

(* Every step keeps what is known of the teardowns in progress. *)
LEMMA TearStep ==
  ASSUME TypeInv, TearInv, [Next]_vars
  PROVE  TearInv'
<1> USE RequestAssumption
<1>0. TypeInv' /\ ListInv
  BY TypeStep DEF TearInv
<1>1. ASSUME NEW r \in Request, Start(r) \/ HandlerStarts(r)
      PROVE  TearInv'
  BY <1>0, <1>1, MakeRequestTear DEF Start, HandlerStarts, Idle, May, In
<1>2. ASSUME stack' = <<>>, used' = used, before' = before, ListStep,
             transactions' # transactions
               => \E t \in Con : Listed(t) /\ transactions' = Without(t)
      PROVE  TearInv'
  <2>1. ListInv'
    BY <1>0, <1>2, ListKept
  <2>2. Frames(stack') = {}
    BY <1>2 DEF Frames
  <2> QED BY <2>1, <2>2 DEF TearInv
<1>3. ASSUME NEW t, Listed(t), Clear(t)
      PROVE  ListStep /\ t \in Con /\ transactions' = Without(t)
  BY <1>3 DEF ListStep, Clear, Listed, TypeInv, TypeOK
<1>4. ASSUME NEW r \in Request, ReceiveEmpty(r)
      PROVE  TearInv'
  BY <1>2, <1>3, <1>4 DEF ReceiveEmpty, Idle, cbVars
<1>5. ASSUME NEW r \in Request, NEW mid, ReceiveUnparsable(r, mid)
      PROVE  TearInv'
  <2>1. CASE Listed(mid)
    BY <1>2, <1>3, <1>5, <2>1 DEF ReceiveUnparsable, Idle
  <2>2. CASE ~Listed(mid)
    BY <1>2, <1>5, <2>2 DEF ReceiveUnparsable, Idle, txVars, ListStep
  <2> QED BY <2>1, <2>2
<1>6. ASSUME NEW r \in Request, NEW mid, ReceiveResponse(r, mid)
      PROVE  TearInv'
  <2>1. /\ used' = used /\ before' = before /\ client_cbs' = client_cbs /\ busy \subseteq busy'
        /\ tls_peers' = tls_peers /\ ~stale /\ r \in used /\ stack = <<>>
    BY <1>6 DEF ReceiveResponse, Idle
  <2>2. /\ ListStep
        /\ transactions' # transactions
             => \E t \in Con : Listed(t) /\ transactions' = Without(t)
    <3>1. CASE Listed(mid)
      BY <1>3, <1>6, <3>1 DEF ReceiveResponse
    <3>2. CASE ~Listed(mid)
      BY <1>6, <3>2 DEF ReceiveResponse, txVars, ListStep
    <3> QED BY <3>1, <3>2
  <2>3. ListInv'
    BY <1>0, <2>1, <2>2, ListKept
  <2>4. Frames(stack') \subseteq {Call("response", r, Nil)} \cup Frames(stack)
    <3>1. Call("response", r, Nil) \in GoodFrame
      BY CallGood DEF Op
    <3> QED BY <1>6, <3>1, FramesMoves DEF ReceiveResponse
  <2>5. \A f \in {Call("response", r, Nil)} : FrameInv(f)'
    BY <2>1, CallKnows DEF Op, FreeOps
  <2>6. Frames(stack) = {}
    BY <2>1 DEF Frames
  <2> QED BY <2>3, <2>4, <2>5, <2>6 DEF TearInv
<1>7. ASSUME NEW r \in Request, RemoveClientCb(r)
      PROVE  TearInv'
  BY <1>2, <1>7 DEF RemoveClientCb, Idle, txVars, ListStep
<1>8. ASSUME NEW e \in Endpoint, NewPeer(e)
      PROVE  TearInv'
  BY <1>2, <1>8 DEF NewPeer, Idle, cbVars, txVars, ListStep
<1>9. ASSUME NEW e \in Endpoint, ClosePeer(e) \/ HandlerCloses(e)
      PROVE  TearInv'
  <2>1. Call("freeTx", First, e) \in GoodFrame
    BY FirstType, CallGood DEF TypeInv, TypeOK, Op
  <2>2. Frames(stack') \subseteq {Call("freeTx", First, e)} \cup Frames(stack)
    BY <1>9, <2>1, FramesMoves DEF ClosePeer, HandlerCloses
  <2>3. ~stale /\ e \in tls_peers /\ Teardown(e) /\ UNCHANGED <<cbVars, txVars>>
    BY <1>9 DEF ClosePeer, HandlerCloses, Idle, May, In
  <2> QED BY <1>0, <2>2, <2>3, TeardownTear
<1>10. ASSUME ~stale, QuietVars, NewKnown
       PROVE  TearInv'
  BY <1>0, <1>10, QuietTear
<1>11. ASSUME ~stale, QuietVars,
              Frames(stack') \subseteq Frames(stack)
       PROVE  TearInv'
  <2>1. NewKnown
    BY <1>11 DEF NewKnown
  <2> QED BY <1>10, <1>11, <2>1
<1>12. ASSUME NEW ts \in SUBSET Con, TimersExpire(ts)
       PROVE  TearInv'
  <2>1. First \in Con \cup {Nil} /\ First \in used \cup {Nil}
    BY <1>0, FirstType DEF TypeInv, TypeOK, First, ListInv
  <2>2. Call("check", First, Nil) \in GoodFrame
    BY <2>1, CallGood DEF Op
  <2>3. Frames(stack') \subseteq {Call("check", First, Nil)} \cup Frames(stack)
    BY <1>12, <2>2, FramesMoves DEF TimersExpire
  <2>4. ~stale /\ QuietVars
    BY <1>12 DEF TimersExpire, Idle, cbVars, QuietVars
  <2>5. \A f \in {Call("check", First, Nil)} : FrameInv(f)'
    <3>1. First \in used' \cup {Nil}
      BY <2>1, <2>4 DEF QuietVars
    <3> QED BY <3>1, CallKnows DEF Op, FreeOps
  <2>6. NewKnown
    BY <2>3, <2>5 DEF NewKnown
  <2> QED BY <1>10, <2>4, <2>6
<1>13. CASE ResponseHandled
  BY <1>11, <1>13, FramesMoves DEF ResponseHandled, In, txVars, QuietVars
<1>14. CASE UnavailableHandled
  BY <1>11, <1>14, FramesMoves DEF UnavailableHandled, In, txVars, QuietVars
<1>15. ASSUME NEW r \in client_cbs, Notify(r), ~stale
       PROVE  TearInv'
  <2>1. r \in used /\ r \in Request
    BY DEF TypeInv, TypeOK
  <2>2. Call("unavailable", r, Nil) \in GoodFrame
    BY <2>1, CallGood DEF Op
  <2>3. Frames(stack') \subseteq {Call("unavailable", r, Nil)} \cup Frames(stack)
    BY <1>15, <2>2, FramesMoves DEF Notify
  <2>4. QuietVars
    BY <1>15 DEF Notify, txVars, QuietVars
  <2>5. \A f \in {Call("unavailable", r, Nil)} : FrameInv(f)'
    <3>1. r \in used' \cup {Nil}
      BY <2>1, <2>4 DEF QuietVars
    <3> QED BY <3>1, CallKnows DEF Op, FreeOps
  <2>6. NewKnown
    BY <2>3, <2>5 DEF NewKnown
  <2> QED BY <1>10, <1>15, <2>4, <2>6
<1>16. CASE FreeCbsByMid
  <2>1. CASE Top.r \in client_cbs \ busy
    BY <1>15, <1>16, <2>1 DEF FreeCbsByMid, In
  <2>2. CASE Top.r \notin client_cbs \ busy
    BY <1>11, <1>16, <2>2, FramesMoves DEF FreeCbsByMid, In, cbVars, txVars, QuietVars
  <2> QED BY <2>1, <2>2
<1>17. CASE FreeCbsByEndpoint
  <2>1. CASE \E r \in client_cbs : Notify(r)
    BY <1>15, <1>17, <2>1 DEF FreeCbsByEndpoint, In
  <2>2. CASE ~\E r \in client_cbs : Notify(r)
    <3>1. /\ {r \in client_cbs \ busy : To[r] = Top.e} = {}
          /\ GoOn(Call("freed", Nil, Top.e))
          /\ UNCHANGED <<cbVars, txVars, tls_peers, before, stale>>
      BY <1>17, <2>2 DEF FreeCbsByEndpoint
    <3>2. /\ stack # <<>> /\ Top \in GoodFrame /\ Top.op = "byEndpoint" /\ ~stale
          /\ Top.e \in Endpoint /\ FrameInv(Top)
      BY <1>17, TopGood, FramesMoves DEF FreeCbsByEndpoint, In, GoodFrame, TearInv
    <3>3. Call("freed", Nil, Top.e) \in GoodFrame
      BY <3>2, CallGood DEF Op
    <3>4. Frames(stack') \subseteq {Call("freed", Nil, Top.e)} \cup Frames(stack)
      BY <3>1, <3>2, <3>3, FramesMoves
    <3>5. /\ used' = used /\ transactions' = transactions /\ client_cbs' = client_cbs
          /\ busy' = busy /\ tls_peers' = tls_peers /\ before' = before
      BY <3>1 DEF cbVars, txVars
    <3>6. before[Top.e] \cap (client_cbs \ busy) = {}
      BY <1>0, <3>1, <3>2 DEF ListInv
    <3>7. ASSUME NEW f \in {Call("freed", Nil, Top.e)} PROVE FrameInv(f)'
      <4>1. f.op = "freed" /\ f.r = Nil /\ f.e = Top.e /\ f.next = Nil
        BY <3>7 DEF Call
      <4>2. Top.e \notin tls_peers /\ Behind(Nil, before[Top.e], transactions)
        BY <3>2 DEF FrameInv, FreeOps
      <4> QED BY <3>5, <3>6, <4>1, <4>2 DEF FrameInv
    <3>8. QuietVars
      BY <3>5 DEF QuietVars
    <3>9. NewKnown
      BY <3>4, <3>7 DEF NewKnown
    <3> QED BY <1>10, <3>2, <3>8, <3>9
  <2> QED BY <2>1, <2>2
<1>18. CASE FreeTransactions
  BY <1>0, <1>18, FreeTransactionsTear
<1>19. CASE FreeTransactionsNext
  BY <1>0, <1>19, FreeTransactionsNextTear
<1>20. CASE PeerFreed
  BY <1>11, <1>20, FramesMoves DEF PeerFreed, In, cbVars, txVars, QuietVars
<1>21. CASE UseFreed
  BY <1>0, <1>21 DEF UseFreed, TearInv, ListInv, cbVars, txVars
<1>22. CASE CheckTransaction
  <2>1. /\ stack # <<>> /\ Top \in GoodFrame /\ Top.op = "check" /\ ~stale
        /\ Top.r \in Con \cup {Nil} /\ FrameInv(Top)
    BY <1>22, TopGood, FramesMoves DEF CheckTransaction, In, GoodFrame, TearInv
  <2>2. CASE Top.r = Nil
    BY <1>11, <1>22, <2>1, <2>2, FramesMoves DEF CheckTransaction, cbVars, txVars, QuietVars
  <2>3. CASE Top.r # Nil /\ ~UseFreed
    <3>1. Listed(Top.r) /\ Top.r \in Con /\ Top.r \in used /\ Len(transactions) \in Nat
      BY <1>22, <2>1, <2>3 DEF CheckTransaction, FrameInv, TypeInv, TypeOK
    <3>2. NextOf(Top.r) \in Con \cup {Nil} /\ NextOf(Top.r) \in used \cup {Nil}
      <4>1. NextOf(Top.r) \in Con \cup {Nil}
        BY <3>1, NextOfType DEF TypeInv, TypeOK
      <4>2. Position(Top.r) \in 1 .. Len(transactions)
        BY <3>1, PositionListed
      <4>3. Position(Top.r) < Len(transactions)
              => Position(Top.r) + 1 \in 1 .. Len(transactions)
        BY <3>1, <4>2
      <4> QED BY <1>0, <4>1, <4>3 DEF NextOf, ListInv
    <3>3. QuietVars
      BY <1>22, <2>3 DEF CheckTransaction, cbVars, txVars, QuietVars
    <3>4. CASE Top.r \in armed
      <4>1. Call("check", NextOf(Top.r), Nil) \in GoodFrame
        BY <3>2, CallGood DEF Op
      <4>2. Frames(stack') \subseteq {Call("check", NextOf(Top.r), Nil)} \cup Frames(stack)
        BY <1>22, <2>1, <2>3, <3>4, <4>1, FramesMoves DEF CheckTransaction
      <4>3. \A f \in {Call("check", NextOf(Top.r), Nil)} : FrameInv(f)'
        <5>1. NextOf(Top.r) \in used' \cup {Nil}
          BY <3>2, <3>3 DEF QuietVars
        <5> QED BY <5>1, CallKnows DEF Op, FreeOps
      <4>4. NewKnown
        BY <4>2, <4>3 DEF NewKnown
      <4> QED BY <1>10, <2>1, <3>3, <4>4
    <3>5. CASE Top.r \notin armed
      <4> DEFINE g == [op |-> "checked", r |-> Nil, e |-> Nil,
                       next |-> NextOf(Top.r), len |-> Len(transactions)]
                 h == Call("send", Top.r, Nil)
      <4>1. g \in GoodFrame
        BY <3>1, <3>2 DEF GoodFrame, Frame, Op
      <4>2. h \in GoodFrame
        BY <3>1, CallGood DEF Op
      <4>3. GoOnAndPush(g, h)
        BY <1>22, <2>3, <3>1, <3>5 DEF CheckTransaction
      <4>4. ASSUME NEW f \in {g} PROVE FrameInv(f)'
        <5>1. f.op = "checked" /\ f.r = Nil /\ f.next = NextOf(Top.r)
          BY <4>4
        <5> HIDE DEF g
        <5> QED BY <3>2, <3>3, <5>1 DEF FrameInv, FreeOps, QuietVars
      <4>5. ASSUME NEW f \in {h} PROVE FrameInv(f)'
        <5>1. Top.r \in used' \cup {Nil}
          BY <3>1, <3>3 DEF QuietVars
        <5> QED BY <4>5, <5>1, CallKnows DEF Op, FreeOps
      <4> HIDE DEF g, h
      <4>6. Frames(stack') \subseteq {g, h} \cup Frames(stack)
        BY <2>1, <4>1, <4>2, <4>3, FramesMoves
      <4>7. \A f \in {g, h} : FrameInv(f)'
        BY <4>4, <4>5
      <4>8. NewKnown
        BY <4>6, <4>7 DEF NewKnown
      <4> QED BY <1>10, <2>1, <3>3, <4>8
    <3> QED BY <3>4, <3>5
  <2> QED BY <1>21, <2>2, <2>3
<1>23. CASE Checked
  <2>1. /\ stack # <<>> /\ Top \in GoodFrame /\ ~stale
        /\ Top.next \in Con \cup {Nil} /\ FrameInv(Top)
    BY <1>23, TopGood, FramesMoves DEF Checked, In, GoodFrame, TearInv
  <2>2. QuietVars
    BY <1>23 DEF Checked, cbVars, txVars, QuietVars
  <2>3. ASSUME NEW n \in Con \cup {Nil}, n \in used \cup {Nil}, GoOn(Call("check", n, Nil))
        PROVE  TearInv'
    <3>1. Call("check", n, Nil) \in GoodFrame
      BY CallGood DEF Op
    <3>2. Frames(stack') \subseteq {Call("check", n, Nil)} \cup Frames(stack)
      BY <2>1, <2>3, <3>1, FramesMoves
    <3>3. \A f \in {Call("check", n, Nil)} : FrameInv(f)'
      <4>1. n \in used' \cup {Nil}
        BY <2>2, <2>3 DEF QuietVars
      <4> QED BY <4>1, CallKnows DEF Op, FreeOps
    <3>4. NewKnown
      BY <3>2, <3>3 DEF NewKnown
    <3> QED BY <1>10, <2>1, <2>2, <3>4
  <2>4. First \in Con \cup {Nil} /\ First \in used \cup {Nil}
    BY <1>0, FirstType DEF TypeInv, TypeOK, First, ListInv
  <2>5. Top.next \in used \cup {Nil}
    BY <2>1 DEF FrameInv
  <2>6. GoOn(Call("check", First, Nil)) \/ GoOn(Call("check", Top.next, Nil))
    BY <1>23 DEF Checked
  <2> QED BY <2>1, <2>3, <2>4, <2>5, <2>6
<1>24. CASE SendTransaction
  <2>1. /\ stack # <<>> /\ Top \in GoodFrame /\ ~stale /\ Top.r \in Con /\ FrameInv(Top)
    BY <1>24, TopGood, FramesMoves DEF SendTransaction, In, GoodFrame, TearInv
  <2>2. QuietVars
    BY <1>24 DEF SendTransaction, cbVars, QuietVars
  <2>3. CASE Return
    BY <1>11, <2>1, <2>2, <2>3, FramesMoves
  <2>4. CASE GoOnAndPush(Call("timedout", Top.r, Nil), Call("byMid", Top.r, Nil))
    <3> DEFINE g == Call("timedout", Top.r, Nil)
               h == Call("byMid", Top.r, Nil)
    <3>1. g \in GoodFrame /\ h \in GoodFrame
      BY <2>1, CallGood DEF Op
    <3>2. Top.r \in used' \cup {Nil}
      BY <2>1, <2>2 DEF FrameInv, QuietVars
    <3>3. (\A f \in {g} : FrameInv(f)') /\ (\A f \in {h} : FrameInv(f)')
      BY <3>2, CallKnows DEF Op, FreeOps
    <3> HIDE DEF g, h
    <3>4. Frames(stack') \subseteq {g, h} \cup Frames(stack)
      BY <2>1, <2>4, <3>1, FramesMoves DEF g, h
    <3>5. \A f \in {g, h} : FrameInv(f)'
      BY <3>3
    <3>6. NewKnown
      BY <3>4, <3>5 DEF NewKnown
    <3> QED BY <1>10, <2>1, <2>2, <3>6
  <2> QED BY <1>24, <2>3, <2>4 DEF SendTransaction
<1>25. CASE TimedOut
  <2>1. /\ stack # <<>> /\ Top \in GoodFrame /\ ~stale /\ Top.r \in Con
        /\ To[Top.r] \in Endpoint
    BY <1>25, TopGood DEF TimedOut, In, GoodFrame
  <2>2. CASE /\ To[Top.r] \in tls_peers /\ Teardown(To[Top.r])
             /\ GoOn(Call("freeTx", First, To[Top.r])) /\ UNCHANGED <<cbVars, txVars>>
    <3>1. Call("freeTx", First, To[Top.r]) \in GoodFrame
      BY <2>1, FirstType, CallGood DEF TypeInv, TypeOK, Op
    <3>2. Frames(stack') \subseteq {Call("freeTx", First, To[Top.r])} \cup Frames(stack)
      BY <2>1, <2>2, <3>1, FramesMoves
    <3> QED BY <1>0, <2>1, <2>2, <3>2, TeardownTear
  <2>3. CASE Return /\ UNCHANGED <<cbVars, txVars, tls_peers, before, stale>>
    BY <1>11, <2>1, <2>3, FramesMoves DEF cbVars, txVars, QuietVars
  <2>4. CASE Listed(Top.r) /\ Clear(Top.r) /\ Return /\ UNCHANGED <<cbVars, tls_peers, before>>
    <3>1. ListStep /\ transactions' = Without(Top.r)
      BY <1>3, <2>4
    <3>2. /\ used' = used /\ before' = before /\ tls_peers' = tls_peers
          /\ client_cbs' = client_cbs /\ busy' = busy
      BY <2>4 DEF cbVars
    <3>3. ListInv'
      BY <1>0, <2>1, <2>4, <3>1, <3>2, ListKept
    <3>4. NewKnown
      BY <2>1, <2>4, FramesMoves DEF NewKnown
    <3>5. /\ used \subseteq used'
          /\ (client_cbs \ busy)' \subseteq (client_cbs \ busy) \cup (used' \ used)
      BY <3>2
    <3>6. PeersKept
      BY <2>1, <3>2 DEF TearInv, FrameInv, PeersKept
    <3> QED BY <1>0, <2>1, <3>1, <3>3, <3>4, <3>5, <3>6, TearKept
  <2> QED BY <1>21, <1>25, <2>2, <2>3, <2>4 DEF TimedOut
<1>26. CASE UNCHANGED vars
  <2>1. /\ UNCHANGED <<used, transactions, tls_peers, before, stack, stale, client_cbs, busy>>
    BY <1>26 DEF vars, cbVars, txVars
  <2> QED BY <2>1 DEF TearInv, ListInv, FrameInv
<1> QED
  BY <1>1, <1>4, <1>5, <1>6, <1>7, <1>8, <1>9, <1>12, <1>13, <1>14, <1>16, <1>17, <1>18,
     <1>19, <1>20, <1>22, <1>23, <1>24, <1>25, <1>26
  DEF Next, Step, Undefined

(* When a session has been torn down, for any number of requests, servers and
   sessions torn down inside each other and whatever the handlers told 5.03
   do, none of the requests made to it before has a transaction left or waits
   to be told.                                                              *)
THEOREM TeardownLeavesNothing == Spec => []TeardownComplete
<1>1. Init => TearInv
  BY DEF Init, TearInv, ListInv, Distinct, Frames
<1>2. TypeInv /\ TearInv /\ [Next]_vars => (TypeInv /\ TearInv)'
  BY TypeStep, TearStep
<1>3. TypeInv /\ TearInv => TeardownComplete
  <2> SUFFICES ASSUME TypeInv, TearInv, In("freed"), NEW r \in before[Top.e]
               PROVE  ~Listed(r) /\ r \notin client_cbs \ busy
    BY DEF TeardownComplete
  <2>1. Top \in Frames(stack) /\ ~stale /\ Top.op = "freed"
    BY FramesMoves DEF In
  <2>2. /\ Behind(Nil, before[Top.e], transactions)
        /\ before[Top.e] \cap (client_cbs \ busy) = {}
    BY <2>1 DEF TearInv, FrameInv
  <2> QED BY <2>2 DEF Behind, Listed
<1> QED BY TypeInit, <1>1, <1>2, <1>3, PTL DEF Spec
=============================================================================
