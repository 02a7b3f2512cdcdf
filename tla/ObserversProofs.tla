--------------------------- MODULE ObserversProofs ---------------------------
(***************************************************************************)
(* Proofs about Observers, for any clients, resources, access control      *)
(* lists and requests.                                                     *)
(***************************************************************************)
EXTENDS Observers, FiniteSetTheorems, TLAPS

(* The list of observers and the counts: a client observes a resource once. *)
ListOK ==
  /\ observers \subseteq Observer /\ IsFiniteSet(observers)
  /\ num_observers \in [Resource -> 0..CountSize - 1]
  /\ \A o, x \in observers : o.e = x.e /\ o.r = x.r => o = x
  /\ \A r \in Resource : num_observers[r] = Cardinality(ByResource(r)) % CountSize

(* No observer refers to a deleted resource ... *)
PlacedOK == /\ app_resources \subseteq Resource
            /\ \A o \in observers : o.r \in app_resources

(* ... or it is one of a number that the count takes for none. *)
LeftOK == /\ app_resources \subseteq Resource
          /\ \A o \in observers : o.r \in app_resources \/ num_observers[o.r] = 0

(* No observer is ahead of the counter new observations start from. *)
NumbersOK ==
  /\ observe_counter \in 3..MaxCounter /\ shown \in [Pair -> 0..MaxCounter]
  /\ \A o \in observers : o.counter <= observe_counter
  /\ NumbersFresh

AccessOK ==
  /\ dos \in {"RFOTM", "RFPRO", "RFNOP", "SRESET"} /\ acl \in Acls \cup {{}}
  /\ tls_peers \subseteq Secured
  /\ roles \in [Endpoint -> SUBSET Role] /\ asserted \in [Endpoint -> SUBSET Role]
  /\ \A e \in Endpoint : roles[e] \subseteq asserted[e] /\ (e \notin tls_peers => asserted[e] = {})

(* A separate response that is owed is active. *)
SeparateOK ==
  /\ separate \in [Slow -> SUBSET Stored] /\ owed \in [Slow -> SUBSET Stored]
  /\ active \subseteq Slow
  /\ \A r \in Slow \ active : owed[r] = {}
  /\ SeparateOwed

RestOK ==
  /\ inbox \in Seq(Requests) /\ Len(inbox) <= MaxInbox
  /\ observe_callbacks \subseteq Periodic \cap app_resources
  /\ delayed \in [Resource -> 0..MaxDelayed]
  /\ \A r \in Resource : delayed[r] > 0 => r \in app_resources
  /\ transfers \subseteq Pair /\ unacked \subseteq Pair /\ hung \in BOOLEAN

(* What holds while no observer outlived its resource *)
Sound == /\ ListOK /\ PlacedOK /\ NumbersOK /\ AccessOK /\ ObserversAuthorised
         /\ SeparateOK /\ RestOK

(* The inductive invariant *)
IInv == /\ ListOK /\ LeftOK /\ NumbersOK /\ AccessOK /\ ObserversAuthorised
        /\ SeparateOK /\ RestOK

-----------------------------------------------------------------------------
(* Quotient and remainder. *)
LEMMA DivMod ==
  ASSUME NEW k \in Nat \ {0}, NEW n \in Int
  PROVE  /\ n \div k \in Int /\ n % k \in 0..k-1
         /\ n = k * (n \div k) + (n % k)
OBVIOUS

(* A multiple of k strictly between -k and k is 0. *)
LEMMA Small ==
  ASSUME NEW k \in Nat \ {0}, NEW z \in Int, k * z < k, k * z > -k
  PROVE  z = 0
<1>1. CASE z >= 1
  <2>1. k * z >= k
    BY <1>1
  <2> QED BY <2>1
<1>2. CASE z <= -1
  <2>1. k * z <= -k
    BY <1>2
  <2> QED BY <2>1
<1> QED BY <1>1, <1>2

(* A count that wraps may be reduced before or after something is added to it. *)
LEMMA ModShift ==
  ASSUME NEW k \in Nat \ {0}, NEW n \in Int, NEW d \in Int
  PROVE  ((n % k) + d) % k = (n + d) % k
<1> DEFINE a == n % k
           x == (a + d) % k
           y == (n + d) % k
           p == n \div k
           q == (a + d) \div k
           r == (n + d) \div k
<1>1. a \in Int /\ p \in Int /\ n = k * p + a
  BY DivMod
<1>2. x \in 0..k-1 /\ q \in Int /\ a + d = k * q + x
  BY <1>1, DivMod
<1>0. n + d \in Int
  OBVIOUS
<1>3. y \in 0..k-1 /\ r \in Int /\ n + d = k * r + y
  BY <1>0, DivMod
<1> HIDE DEF a, x, y, p, q, r
<1> DEFINE z == r - p - q
<1>4. z \in Int /\ k * z = k * r - k * p - k * q
  BY <1>1, <1>2, <1>3
<1> HIDE DEF z
<1>5. k * r \in Int /\ k * p \in Int /\ k * q \in Int /\ k * z \in Int
  BY <1>1, <1>2, <1>3, <1>4
<1>6. k * z = x - y
  BY <1>1, <1>2, <1>3, <1>4, <1>5
<1>7. k * z < k /\ k * z > -k
  BY <1>2, <1>3, <1>6
<1>8. z = 0
  BY <1>4, <1>7, Small
<1>9. k * z = 0
  BY <1>8
<1>10. x = y
  BY <1>2, <1>3, <1>6, <1>9
<1> QED BY <1>10 DEF x, y, a

(* The same for the count of observers, down ... *)
LEMMA CountMinus ==
  ASSUME NEW n \in Nat, NEW m \in Nat
  PROVE  ((n % CountSize) - m) % CountSize = (n - m) % CountSize
<1> DEFINE d == -m
<1>1. d \in Int /\ n \in Int /\ CountSize \in Nat \ {0} /\ n % CountSize \in Int
  BY BoundsAssumption, DivMod
<1>2. (n % CountSize) - m = (n % CountSize) + d /\ n - m = n + d
  BY <1>1
<1> HIDE DEF d
<1> QED BY <1>1, <1>2, ModShift

(* ... and up. *)
LEMMA CountPlus ==
  ASSUME NEW n \in Nat
  PROVE  ((n % CountSize) + 1) % CountSize = (n + 1) % CountSize
<1>1. CountSize \in Nat \ {0} /\ n \in Int /\ 1 \in Int
  BY BoundsAssumption
<1> QED BY <1>1, ModShift

(* A count is a value of its type. *)
LEMMA CountType ==
  ASSUME NEW n \in Nat
  PROVE  n % CountSize \in 0..CountSize - 1
BY BoundsAssumption, DivMod

(* What an observer of the list is. *)
LEMMA ObserverFields ==
  ASSUME NEW o \in Observer
  PROVE  /\ o.e \in Endpoint /\ o.r \in Resource /\ o.t \in Token
         /\ o.counter \in 3..MaxCounter /\ <<o.e, o.r>> \in Pair
BY DEF Observer, Pair

(* The numbers of observers are naturals within the bound. *)
LEMMA CounterType ==
  ASSUME NEW o \in Observer
  PROVE  o.counter \in Nat /\ o.counter >= 3 /\ o.counter <= MaxCounter
BY BoundsAssumption DEF Observer

(* The request at the head of the inbox is one a client may send. *)
LEMMA HeadRequest ==
  ASSUME Sound, inbox # <<>>
  PROVE  /\ Head(inbox) \in Request /\ Tail(inbox) \in Seq(Requests)
         /\ Len(Tail(inbox)) <= MaxInbox
         /\ Head(inbox).t \in Token /\ Head(inbox).observe \in 0..2
         /\ Head(inbox).e \in Endpoint /\ Head(inbox).r \in Resource
<1> USE RequestsAssumption, BoundsAssumption
<1>1. inbox \in Seq(Requests) /\ Len(inbox) <= MaxInbox
  BY DEF Sound, RestOK
<1>2. Head(inbox) \in Requests /\ Tail(inbox) \in Seq(Requests) /\ Len(Tail(inbox)) <= MaxInbox
  BY <1>1
<1>3. Head(inbox) \in Request
  BY <1>2
<1> QED BY <1>2, <1>3 DEF Request

(* The count of a resource less the removed observers is the number left. *)
LEMMA CountLeft ==
  ASSUME ListOK, NEW S, S \subseteq observers, NEW r \in Resource
  PROVE  /\ CountWithout(S)[r] = Cardinality(ByResource(r) \ S) % CountSize
         /\ IsFiniteSet(ByResource(r) \ S) /\ Cardinality(ByResource(r) \ S) \in Nat
<1> DEFINE B == ByResource(r)
           T == {o \in S : o.r = r}
<1>1. IsFiniteSet(B) /\ T \subseteq B
  BY FS_Subset DEF ListOK, ByResource
<1>2. T \cap B = T /\ B \ T = B \ S /\ IsFiniteSet(T)
  BY <1>1, FS_Subset DEF ByResource
<1> HIDE DEF T, B
<1>3. /\ IsFiniteSet(B \ T)
      /\ Cardinality(B \ T) = Cardinality(B) - Cardinality(B \cap T)
  BY <1>1, <1>2, FS_Difference
<1>4. B \cap T = T
  BY <1>2
<1>5. Cardinality(B) \in Nat /\ Cardinality(T) \in Nat /\ Cardinality(B \ T) \in Nat
  BY <1>1, <1>2, <1>3, FS_CardinalityType
<1>6. CountWithout(S)[r] = ((Cardinality(B) % CountSize) - Cardinality(T)) % CountSize
  BY DEF CountWithout, ListOK, T, B
<1> DEFINE n == Cardinality(B)
           m == Cardinality(T)
<1>7. n \in Nat /\ m \in Nat /\ n - m = Cardinality(B \ T)
  BY <1>3, <1>4, <1>5
<1>8. CountWithout(S)[r] = ((n % CountSize) - m) % CountSize
  BY <1>6
<1> HIDE DEF n, m
<1>9. ((n % CountSize) - m) % CountSize = (n - m) % CountSize
  BY <1>7, CountMinus
<1> QED BY <1>2, <1>3, <1>5, <1>7, <1>8, <1>9 DEF B

(* Removing observers, by whatever criterion, keeps the counts. *)
LEMMA Removing ==
  ASSUME ListOK, NEW S, S \subseteq observers,
         observers' = observers \ S, num_observers' = CountWithout(S)
  PROVE  ListOK'
<1>1. observers' \subseteq observers /\ IsFiniteSet(observers')
  BY FS_Subset DEF ListOK
<1>2. ASSUME NEW r \in Resource
      PROVE  /\ num_observers'[r] = Cardinality(ByResource(r)') % CountSize
             /\ num_observers'[r] \in 0..CountSize - 1
  <2>1. ByResource(r)' = ByResource(r) \ S
    BY DEF ByResource
  <2> QED BY <2>1, CountLeft, CountType
<1>3. num_observers' \in [Resource -> 0..CountSize - 1]
  BY <1>2 DEF CountWithout
<1> QED BY <1>1, <1>2, <1>3 DEF ListOK

(* So does a registration, which replaces that of the same client and URI. *)
LEMMA Adding ==
  ASSUME ListOK, NumbersOK, NEW q \in Request, add_observer(q)
  PROVE  ListOK'
<1> DEFINE new == Registration(q, observe_counter)
           S == SameUri(q.e, q.r)
<1>1. new \in Observer /\ new.e = q.e /\ new.r = q.r
  BY DEF Registration, Observer, Request, NumbersOK
<1>2. S \subseteq observers /\ \A o \in observers \ S : ~(o.e = q.e /\ o.r = q.r)
  BY DEF SameUri
<1>3. /\ observers' = (observers \ S) \cup {new}
      /\ num_observers' = [CountWithout(S) EXCEPT ![q.r] = (@ + 1) % CountSize]
  BY DEF add_observer
<1> HIDE DEF new, S
<1>4. IsFiniteSet(observers \ S) /\ IsFiniteSet(observers')
  BY <1>3, FS_Subset, FS_AddElement DEF ListOK
<1>5. /\ observers' \subseteq Observer
      /\ \A o, x \in observers' : o.e = x.e /\ o.r = x.r => o = x
  BY <1>1, <1>2, <1>3 DEF ListOK
<1>6. ASSUME NEW r \in Resource
      PROVE  /\ num_observers'[r] = Cardinality(ByResource(r)') % CountSize
             /\ num_observers'[r] \in 0..CountSize - 1
  <2> DEFINE U == ByResource(r) \ S
             n == Cardinality(U)
  <2>1. CountWithout(S)[r] = n % CountSize /\ IsFiniteSet(U) /\ n \in Nat
    BY <1>2, CountLeft
  <2>2. r \in DOMAIN CountWithout(S)
    BY DEF CountWithout
  <2>3. CASE r = q.r
    <3>1. ByResource(r)' = U \cup {new} /\ new \notin U
      BY <2>3, <1>1, <1>2, <1>3 DEF ByResource
    <3>2. num_observers'[r] = ((n % CountSize) + 1) % CountSize
      BY <1>3, <2>1, <2>2, <2>3
    <3> HIDE DEF U
    <3>3. Cardinality(ByResource(r)') = n + 1
      BY <3>1, <2>1, FS_AddElement
    <3> HIDE DEF n
    <3>4. ((n % CountSize) + 1) % CountSize = (n + 1) % CountSize
      BY <2>1, CountPlus
    <3>5. (n + 1) % CountSize \in 0..CountSize - 1
      BY <2>1, CountType
    <3> QED BY <3>2, <3>3, <3>4, <3>5
  <2>4. CASE r # q.r
    <3>1. ByResource(r)' = U
      BY <2>4, <1>1, <1>2, <1>3 DEF ByResource
    <3>2. num_observers'[r] = CountWithout(S)[r]
      BY <1>3, <2>2, <2>4
    <3> QED BY <3>1, <3>2, <2>1, CountType
  <2> QED BY <2>3, <2>4
<1>7. num_observers' \in [Resource -> 0..CountSize - 1]
  BY <1>6, <1>3 DEF CountWithout
<1> QED BY <1>4, <1>5, <1>6, <1>7 DEF ListOK

(* What telling an observer changes of it. *)
LEMMA ToldFields ==
  ASSUME NEW o \in Observer, o.counter + 1 <= MaxCounter
  PROVE  /\ Told(o) \in Observer
         /\ Told(o).e = o.e /\ Told(o).r = o.r /\ Told(o).t = o.t
         /\ Told(o).counter = o.counter + 1
<1>1. o.counter + 1 \in 3..MaxCounter
  BY CounterType, BoundsAssumption
<1>2. Told(o) = [[o EXCEPT !.counter = o.counter + 1] EXCEPT !.notified = TRUE]
  BY DEF Told
<1>3. [o EXCEPT !.counter = o.counter + 1] \in Observer
  BY <1>1 DEF Observer
<1> QED BY <1>1, <1>2, <1>3 DEF Observer

(* A notification tells each observer of the resource, and has numbers for *)
(* all of them.                                                            *)
LEMMA Telling ==
  ASSUME ListOK, NumbersOK, NEW r \in Resource, NotifyNow(r), ByResource(r) # {}
  PROVE  /\ observe_counter' \in Nat /\ observe_counter' > observe_counter
         /\ observe_counter' <= MaxCounter
         /\ \A o \in ByResource(r) : o \in Observer /\ o.counter + 1 <= observe_counter'
<1> DEFINE n == Cardinality(ByResource(r))
<1>1. IsFiniteSet(ByResource(r))
  BY FS_Subset DEF ListOK, ByResource
<1>2. n \in Nat /\ n # 0
  BY <1>1, FS_CardinalityType, FS_EmptySet
<1>3. observe_counter' = observe_counter + n /\ observe_counter + n <= MaxCounter
  BY DEF NotifyNow
<1> HIDE DEF n
<1>4. \A o \in ByResource(r) : o \in Observer /\ o.counter <= observe_counter
  BY DEF NumbersOK, ListOK, ByResource
<1>5. observe_counter \in Nat /\ MaxCounter \in Nat
  BY BoundsAssumption DEF NumbersOK
<1> QED BY <1>2, <1>3, <1>4, <1>5, CounterType

(* The observers after a notification are those before it, told or not. *)
LEMMA Notified ==
  ASSUME ListOK, NumbersOK, NEW r \in Resource, NotifyNow(r), ByResource(r) # {}
  PROVE  /\ observers' \subseteq Observer
         /\ \A x \in observers' :
              \E o \in observers : /\ o.e = x.e /\ o.r = x.r /\ o.t = x.t
                                   /\ \/ o.r # r /\ x = o
                                      \/ o.r = r /\ x = Told(o) /\ x.counter = o.counter + 1
<1>1. observers' = (observers \ ByResource(r)) \cup {Told(o) : o \in ByResource(r)}
  BY DEF NotifyNow
<1>2. \A o \in ByResource(r) : /\ o \in observers /\ o.r = r
                               /\ Told(o) \in Observer
                               /\ Told(o).e = o.e /\ Told(o).r = o.r /\ Told(o).t = o.t
                               /\ Told(o).counter = o.counter + 1
  <2> TAKE o \in ByResource(r)
  <2>1. o \in observers /\ o.r = r /\ o \in Observer /\ o.counter + 1 <= MaxCounter
    BY Telling, CounterType, BoundsAssumption DEF ByResource
  <2> QED BY <2>1, ToldFields
<1>3. \A o \in observers \ ByResource(r) : o \in Observer /\ o.r # r
  BY DEF ByResource, ListOK
<1> QED BY <1>1, <1>2, <1>3

(* What is noted down of the observers of a resource keeps the list. *)
LEMMA Renewed ==
  ASSUME ListOK, NEW r \in Resource, NEW f, DOMAIN f = ByResource(r),
         \A o \in ByResource(r) : f[o] \in Observer /\ f[o].e = o.e /\ f[o].r = r,
         observers' = (observers \ ByResource(r)) \cup {f[o] : o \in ByResource(r)},
         f \in [ByResource(r) -> {f[o] : o \in ByResource(r)}],
         num_observers' = num_observers
  PROVE  ListOK'
<1> DEFINE B == ByResource(r)
           C == {f[o] : o \in B}
<1>1. observers' = (observers \ B) \cup C
  OBVIOUS
<1>2. IsFiniteSet(B) /\ B \subseteq observers
  BY FS_Subset DEF ListOK, ByResource
<1>3. \A o \in B : o.r = r
  BY DEF ByResource
<1>4. f \in Bijection(B, C)
  <2>1. \A o, x \in B : f[o] = f[x] => o = x
    BY <1>2, <1>3 DEF ListOK
  <2>2. f \in [B -> C]
    OBVIOUS
  <2> HIDE DEF B
  <2> QED BY <2>1, <2>2, Zenon DEF Bijection, Injection, Surjection, IsInjective
<1>5. IsFiniteSet(C) /\ Cardinality(C) = Cardinality(B)
  <2>1. ExistsBijection(B, C)
    BY <1>4 DEF ExistsBijection
  <2> HIDE DEF B, C
  <2> QED BY <2>1, <1>2, FS_Bijection
<1>6. IsFiniteSet(observers')
  <2>1. IsFiniteSet(observers \ B)
    BY <1>2, FS_Subset DEF ListOK
  <2> HIDE DEF B, C
  <2>2. IsFiniteSet((observers \ B) \cup C)
    BY <2>1, <1>5, FS_Union
  <2> QED BY <2>2, <1>1
<1>7. ASSUME NEW q \in Resource
      PROVE  num_observers'[q] = Cardinality(ByResource(q)') % CountSize
  <2>1. num_observers'[q] = Cardinality(ByResource(q)) % CountSize
    BY DEF ListOK
  <2>2. CASE q = r
    <3>1. ByResource(q)' = C
      BY <2>2, <1>1, <1>3 DEF ByResource
    <3> QED BY <2>1, <2>2, <3>1, <1>5
  <2>3. CASE q # r
    <3>1. ByResource(q)' = ByResource(q)
      BY <2>3, <1>1, <1>3 DEF ByResource
    <3> QED BY <2>1, <3>1
  <2> QED BY <2>2, <2>3
<1>8. observers' \subseteq Observer
  BY <1>1, <1>2 DEF ListOK
<1>9. \A o, x \in observers' : o.e = x.e /\ o.r = x.r => o = x
  <2>1. \A o \in observers \ B : o.r # r
    BY DEF ByResource
  <2> QED BY <1>1, <1>2, <1>3, <2>1 DEF ListOK
<1> QED BY <1>6, <1>7, <1>8, <1>9 DEF ListOK

(* A notification keeps the list. *)
LEMMA NotifiedList ==
  ASSUME ListOK, NumbersOK, NEW r \in Resource, NotifyNow(r), ByResource(r) # {},
         num_observers' = num_observers
  PROVE  ListOK'
<1> DEFINE f == [o \in ByResource(r) |-> Told(o)]
<1>1. \A o \in ByResource(r) : Told(o) \in Observer /\ Told(o).e = o.e /\ Told(o).r = r
  <2> TAKE o \in ByResource(r)
  <2>1. o.r = r /\ o \in Observer /\ o.counter + 1 <= MaxCounter
    BY Telling, CounterType, BoundsAssumption DEF ByResource
  <2> QED BY <2>1, ToldFields
<1>2. /\ DOMAIN f = ByResource(r) /\ \A o \in ByResource(r) : f[o] = Told(o)
      /\ f \in [ByResource(r) -> {f[o] : o \in ByResource(r)}]
  OBVIOUS
<1>3. observers' = (observers \ ByResource(r)) \cup {f[o] : o \in ByResource(r)}
  BY <1>2 DEF NotifyNow
<1> HIDE DEF f
<1>4. \A o \in ByResource(r) : f[o] \in Observer /\ f[o].e = o.e /\ f[o].r = r
  BY <1>1, <1>2
<1> QED BY <1>2, <1>3, <1>4, Renewed

(* So does an error, which changes neither the counters nor who observes. *)
LEMMA ErrorTold ==
  ASSUME ListOK, NEW r \in Resource, NotifyError(r)
  PROVE  /\ num_observers' = num_observers => ListOK'
         /\ \A x \in observers' :
              \E o \in observers : o.e = x.e /\ o.r = x.r /\ o.t = x.t /\ o.counter = x.counter
<1> DEFINE seen(o) == [o EXCEPT !.notified = TRUE]
           f == [o \in ByResource(r) |-> seen(o)]
<1>1. \A o \in ByResource(r) : o \in observers /\ o \in Observer /\ o.r = r
  BY DEF ListOK, ByResource
<1>2. \A o \in Observer : /\ seen(o) \in Observer /\ seen(o).e = o.e /\ seen(o).r = o.r
                           /\ seen(o).t = o.t /\ seen(o).counter = o.counter
  BY DEF Observer
<1>3. /\ DOMAIN f = ByResource(r) /\ \A o \in ByResource(r) : f[o] = seen(o)
      /\ f \in [ByResource(r) -> {f[o] : o \in ByResource(r)}]
  OBVIOUS
<1>4. observers' = (observers \ ByResource(r)) \cup {f[o] : o \in ByResource(r)}
  BY <1>3 DEF NotifyError
<1> HIDE DEF f, seen
<1>5. \A o \in ByResource(r) : f[o] \in Observer /\ f[o].e = o.e /\ f[o].r = r
  BY <1>1, <1>2, <1>3
<1>6. num_observers' = num_observers => ListOK'
  BY <1>3, <1>4, <1>5, Renewed
<1>7. ASSUME NEW x \in observers'
      PROVE  \E o \in observers : o.e = x.e /\ o.r = x.r /\ o.t = x.t /\ o.counter = x.counter
  <2>1. CASE x \in observers
    BY <2>1
  <2>2. CASE \E o \in ByResource(r) : x = f[o]
    BY <2>2, <1>1, <1>2, <1>3
  <2> QED BY <2>1, <2>2, <1>4
<1> QED BY <1>6, <1>7

(* The numbers shown by a notification are new to the clients, and smaller *)
(* than the next ones.                                                     *)
LEMMA NotifiedNumbers ==
  ASSUME ListOK, NumbersOK, NEW r \in Resource, NotifyNow(r), ByResource(r) # {}
  PROVE  NumbersOK'
<1> DEFINE to == ByResource(r)
           clients == {<<o.e, r>> : o \in to}
           last(p) == CHOOSE o \in to : <<o.e, r>> = p
<1>1. shown' = [p \in Pair |-> IF p \in clients THEN last(p).counter ELSE shown[p]]
  BY DEF NotifyNow
<1>2. \A p \in clients : last(p) \in to /\ <<last(p).e, r>> = p
  OBVIOUS
<1>3. \A o \in to : /\ o \in observers /\ o \in Observer /\ o.r = r
                    /\ <<o.e, r>> \in clients /\ last(<<o.e, r>>) = o
  <2>1. \A o \in to : o \in observers /\ o \in Observer /\ o.r = r
    BY DEF ByResource, ListOK
  <2>2. \A o \in to : <<o.e, r>> \in clients
    OBVIOUS
  <2> HIDE DEF to, clients
  <2>3. \A o \in to : last(<<o.e, r>>) \in to /\ last(<<o.e, r>>).e = o.e
    OBVIOUS
  <2>4. \A o, x \in to : o.e = x.e => o = x
    BY <2>1 DEF ListOK
  <2> QED BY <2>1, <2>2, <2>3, <2>4
<1>4. /\ observe_counter' \in Nat /\ observe_counter' > observe_counter
      /\ observe_counter' <= MaxCounter
      /\ \A o \in to : o \in Observer /\ o.counter + 1 <= observe_counter'
  BY Telling
<1> HIDE DEF to, clients, last
<1>5. observe_counter' \in 3..MaxCounter
  BY <1>4, BoundsAssumption DEF NumbersOK
<1>6. \A p \in Pair : shown'[p] \in 0..MaxCounter /\ shown'[p] < observe_counter'
  <2> TAKE p \in Pair
  <2>1. CASE p \in clients
    <3>1. shown'[p] = last(p).counter /\ last(p) \in to
      BY <2>1, <1>1, <1>2
    <3> QED BY <3>1, <1>4, CounterType, BoundsAssumption
  <2>2. CASE p \notin clients
    <3>1. shown'[p] = shown[p]
      BY <2>2, <1>1
    <3>2. shown[p] \in 0..MaxCounter /\ shown[p] < observe_counter /\ observe_counter \in 3..MaxCounter
      BY DEF NumbersOK, NumbersFresh
    <3> QED BY <3>1, <3>2, <1>4, BoundsAssumption
  <2> QED BY <2>1, <2>2
<1>7. shown' \in [Pair -> 0..MaxCounter]
  BY <1>1, <1>6
<1>8. ASSUME NEW x \in observers'
      PROVE  x.counter <= observe_counter' /\ shown'[<<x.e, x.r>>] < x.counter
  <2>1. PICK o \in observers : /\ o.e = x.e /\ o.r = x.r /\ o.t = x.t
                               /\ \/ o.r # r /\ x = o
                                  \/ o.r = r /\ x = Told(o) /\ x.counter = o.counter + 1
    BY Notified
  <2>2. o \in Observer /\ o.counter <= observe_counter /\ <<o.e, o.r>> \in Pair
        /\ shown[<<o.e, o.r>>] < o.counter /\ o.counter \in Nat
    BY ObserverFields, CounterType DEF ListOK, NumbersOK, NumbersFresh
  <2>3. CASE o.r # r /\ x = o
    <3>1. <<o.e, o.r>> \notin clients
      BY <2>3 DEF clients
    <3>2. shown'[<<x.e, x.r>>] = shown[<<o.e, o.r>>]
      BY <3>1, <2>2, <2>3, <1>1
    <3>3. observe_counter \in Nat
      BY BoundsAssumption DEF NumbersOK
    <3> QED BY <3>2, <3>3, <2>2, <2>3, <1>4
  <2>4. CASE o.r = r /\ x.counter = o.counter + 1
    <3>1. o \in to
      BY <2>4 DEF to, ByResource
    <3>2. shown'[<<x.e, x.r>>] = o.counter
      BY <3>1, <2>1, <2>2, <2>4, <1>1, <1>3
    <3> QED BY <3>1, <3>2, <2>2, <2>4, <1>4
  <2> QED BY <2>1, <2>3, <2>4
<1> QED BY <1>5, <1>6, <1>7, <1>8 DEF NumbersOK, NumbersFresh

(* The number of an error is below every number of an observer. *)
LEMMA ErrorNumbers ==
  ASSUME ListOK, NumbersOK, NEW r \in Resource, NotifyError(r)
  PROVE  NumbersOK'
<1> DEFINE clients == {<<o.e, r>> : o \in ByResource(r)}
<1>1. /\ shown' = [p \in Pair |-> IF p \in clients /\ shown[p] < 1 THEN 1 ELSE shown[p]]
      /\ observe_counter' = observe_counter
  BY DEF NotifyError
<1> HIDE DEF clients
<1>2. /\ observe_counter \in Nat /\ observe_counter >= 3 /\ observe_counter <= MaxCounter
      /\ MaxCounter \in Nat /\ MaxCounter >= 3
      /\ shown \in [Pair -> 0..MaxCounter]
      /\ \A p \in Pair : shown[p] < observe_counter
  BY BoundsAssumption DEF NumbersOK, NumbersFresh
<1>3. \A p \in Pair : shown'[p] \in {1, shown[p]} /\ shown'[p] \in 0..MaxCounter
  BY <1>1, <1>2
<1>4. shown' \in [Pair -> 0..MaxCounter]
  BY <1>1, <1>3
<1>5. ASSUME NEW x \in observers'
      PROVE  x.counter <= observe_counter' /\ shown'[<<x.e, x.r>>] < x.counter
  <2>1. PICK o \in observers : o.e = x.e /\ o.r = x.r /\ o.counter = x.counter
    BY ErrorTold
  <2>2. /\ <<o.e, o.r>> \in Pair /\ o.counter \in Nat /\ o.counter >= 3
        /\ o.counter <= observe_counter /\ shown[<<o.e, o.r>>] < o.counter
    BY ObserverFields, CounterType DEF ListOK, NumbersOK, NumbersFresh
  <2> QED BY <1>1, <1>3, <2>1, <2>2
<1>6. \A p \in Pair : shown'[p] < observe_counter'
  BY <1>1, <1>2, <1>3
<1>7. observe_counter' \in 3..MaxCounter
  BY <1>1 DEF NumbersOK
<1> QED BY <1>4, <1>5, <1>6, <1>7 DEF NumbersOK, NumbersFresh

-----------------------------------------------------------------------------
(* A client keeps a permission when the list is the same and neither its *)
(* session nor roles are taken away.                                     *)
LEMMA PermittedKept ==
  ASSUME NEW method, NEW e, NEW r, NEW rs, NEW more, rs \subseteq more,
         Permitted(method, e, r, rs), acl' = acl, e \in tls_peers => e \in tls_peers'
  PROVE  Permitted(method, e, r, more)'
<1>1. Subjects(e, rs) \subseteq Subjects(e, more)'
  BY DEF Subjects
<1>2. Permission(e, r, rs) \subseteq Permission(e, r, more)'
  BY <1>1 DEF Permission
<1> QED BY <1>2 DEF Permitted

(* What a step leaves alone stays as it should be, and fewer observers are *)
(* no harm.                                                                *)
LEMMA Frame ==
  ASSUME Sound
  PROVE  /\ UNCHANGED <<observers, num_observers>> => ListOK'
         /\ observers' \subseteq observers /\ UNCHANGED app_resources => PlacedOK'
         /\ observers' \subseteq observers /\ UNCHANGED numbers => NumbersOK'
         /\ UNCHANGED access => AccessOK'
         /\ observers' \subseteq observers /\ UNCHANGED access => ObserversAuthorised'
         /\ UNCHANGED separates => SeparateOK'
<1>1. UNCHANGED <<observers, num_observers>> => ListOK'
  BY DEF Sound, ListOK, ByResource
<1>2. observers' \subseteq observers /\ UNCHANGED app_resources => PlacedOK'
  BY DEF Sound, PlacedOK
<1>3. observers' \subseteq observers /\ UNCHANGED numbers => NumbersOK'
  BY DEF Sound, NumbersOK, NumbersFresh, numbers
<1>4. UNCHANGED access => AccessOK'
  BY DEF Sound, AccessOK, access
<1>5. observers' \subseteq observers /\ UNCHANGED access => ObserversAuthorised'
  BY PermittedKept DEF Sound, ObserversAuthorised, access
<1>6. UNCHANGED separates => SeparateOK'
  BY DEF Sound, SeparateOK, SeparateOwed, SameRequest, separates
<1> QED BY <1>1, <1>2, <1>3, <1>4, <1>5, <1>6

(* A separate response that takes requests in still owes what it owed: a *)
(* request that is displaced is displaced by one of the same token.       *)
LEMMA Accepting ==
  ASSUME SeparateOK, NEW r \in Slow, NEW qs, qs \subseteq Stored, coap_separate_accept(r, qs)
  PROVE  SeparateOK'
<1> DEFINE old == IF r \in active THEN separate[r] ELSE {}
<1>1. PICK K \in Latest(qs) : separate' = [separate EXCEPT ![r] = Accepted(old, K)]
  BY DEF coap_separate_accept
<1>2. active' = active \cup {r} /\ owed' = [owed EXCEPT ![r] = @ \cup qs]
  BY DEF coap_separate_accept
<1>3. K \subseteq qs /\ \A q \in qs : \E x \in K : SameRequest(x, q)
  BY DEF Latest
<1>4. /\ old \subseteq Stored
      /\ separate \in [Slow -> SUBSET Stored] /\ owed \in [Slow -> SUBSET Stored]
      /\ active \subseteq Slow /\ \A x \in Slow \ active : owed[x] = {}
  BY DEF SeparateOK
<1>5. \A q \in owed[r] : \E x \in old : SameRequest(x, q) /\ x \in owed[r]
  BY <1>4 DEF SeparateOK, SeparateOwed
<1> HIDE DEF old
<1>6. Accepted(old, K) \subseteq Stored
  BY <1>3, <1>4 DEF Accepted
<1>7. /\ separate' \in [Slow -> SUBSET Stored] /\ owed' \in [Slow -> SUBSET Stored]
      /\ separate'[r] = Accepted(old, K) /\ owed'[r] = owed[r] \cup qs
      /\ \A x \in Slow \ {r} : separate'[x] = separate[x] /\ owed'[x] = owed[x]
  BY <1>1, <1>2, <1>4, <1>6
<1>8. active' \subseteq Slow /\ \A x \in Slow \ active' : owed'[x] = {}
  BY <1>2, <1>4, <1>7
<1>9. ASSUME NEW q \in owed'[r]
      PROVE  \E x \in separate'[r] : SameRequest(x, q) /\ x \in owed'[r]
  <2>1. K \subseteq separate'[r] /\ K \subseteq owed'[r]
    BY <1>3, <1>7 DEF Accepted
  <2>2. CASE q \in qs
    BY <2>1, <2>2, <1>3
  <2>3. CASE q \in owed[r]
    <3>1. PICK x \in old : SameRequest(x, q) /\ x \in owed[r]
      BY <2>3, <1>5
    <3>2. CASE \A y \in K : ~SameRequest(x, y)
      BY <3>1, <3>2, <1>7 DEF Accepted
    <3>3. CASE \E y \in K : SameRequest(x, y)
      <4>1. PICK y \in K : SameRequest(x, y)
        BY <3>3
      <4>2. SameRequest(y, q)
        BY <3>1, <4>1 DEF SameRequest
      <4> QED BY <2>1, <4>2
    <3> QED BY <3>2, <3>3
  <2> QED BY <2>2, <2>3, <1>7
<1>10. SeparateOwed'
  <2> SUFFICES ASSUME NEW x \in Slow, NEW q \in owed'[x]
               PROVE  \E y \in separate'[x] : SameRequest(y, q) /\ y \in owed'[x]
    BY DEF SeparateOwed, SameRequest
  <2>1. CASE x = r
    BY <2>1, <1>9
  <2>2. CASE x # r
    BY <2>2, <1>7 DEF SeparateOK, SeparateOwed
  <2> QED BY <2>1, <2>2
<1> QED BY <1>7, <1>8, <1>10 DEF SeparateOK

(* A notification, whichever way it is made. *)
LEMMA Notifying ==
  ASSUME Sound, NEW r \in Resource, coap_notify_observers(r),
         UNCHANGED <<access, app_resources, num_observers>>
  PROVE  /\ ListOK' /\ PlacedOK' /\ NumbersOK' /\ ObserversAuthorised' /\ SeparateOK'
         /\ transfers' \subseteq Pair /\ unacked' \subseteq Pair /\ hung' \in BOOLEAN
<1>1. /\ ListOK /\ PlacedOK /\ NumbersOK /\ AccessOK /\ ObserversAuthorised /\ SeparateOK
      /\ transfers \subseteq Pair /\ unacked \subseteq Pair /\ hung \in BOOLEAN
  BY DEF Sound, RestOK
<1>2. CASE UNCHANGED <<observers, numbers, transfers, unacked, separates, hung>>
  BY <1>1, <1>2, Frame
<1>3. CASE r \in Slow /\ NotifyLater(r)
  <2> DEFINE qs == {[e |-> o.e, t |-> o.t, observe |-> 0] : o \in ByResource(r)}
  <2>1. /\ coap_separate_accept(r, qs)
        /\ UNCHANGED <<observers, numbers, transfers, unacked, hung>>
    BY <1>3 DEF NotifyLater
  <2>2. \A o \in ByResource(r) : o.e \in Endpoint /\ o.t \in Token
    BY <1>1, ObserverFields DEF ListOK, ByResource
  <2>3. qs \subseteq Stored
    BY <2>2 DEF Stored
  <2> HIDE DEF qs
  <2>4. SeparateOK'
    BY <1>1, <1>3, <2>1, <2>3, Accepting
  <2> QED BY <1>1, <2>1, <2>4, Frame
<1>4. CASE NotifyHangs(r)
  BY <1>1, <1>4, Frame DEF NotifyHangs
<1>5. CASE Notifiable(r) /\ NotifyNow(r)
  <2>1. ByResource(r) # {}
    <3>1. 0 % CountSize = 0
      BY BoundsAssumption
    <3>2. num_observers[r] = Cardinality(ByResource(r)) % CountSize /\ num_observers[r] > 0
      BY <1>1, <1>5 DEF Notifiable, ListOK
    <3>3. SUFFICES ASSUME ByResource(r) = {} PROVE FALSE
      OBVIOUS
    <3>4. Cardinality(ByResource(r)) = 0
      BY <3>3, FS_EmptySet
    <3> QED BY <3>1, <3>2, <3>4
  <2>2. ListOK' /\ NumbersOK'
    BY <1>1, <1>5, <2>1, NotifiedList, NotifiedNumbers
  <2>3. PlacedOK'
    BY <1>1, <1>5, <2>1, Notified DEF PlacedOK
  <2>4. ObserversAuthorised'
    <3> SUFFICES ASSUME dos' = "RFNOP", NEW x \in observers'
                 PROVE  Permitted("GET", x.e, x.r, asserted[x.e])'
      BY DEF ObserversAuthorised
    <3>1. PICK o \in observers : o.e = x.e /\ o.r = x.r
      BY <1>1, <1>5, <2>1, Notified
    <3>2. Permitted("GET", x.e, x.r, asserted[x.e])
      BY <1>1, <3>1 DEF ObserversAuthorised, access
    <3>3. /\ acl' = acl /\ (x.e \in tls_peers => x.e \in tls_peers')
          /\ asserted[x.e] \subseteq asserted'[x.e]
      BY DEF access
    <3> QED BY <3>2, <3>3, PermittedKept
  <2>5. \A o \in ByResource(r) : <<o.e, r>> \in Pair
    BY <1>1, ObserverFields DEF ByResource, ListOK
  <2>6. transfers' \subseteq Pair /\ unacked' \subseteq Pair
    BY <1>1, <1>5, <2>5 DEF NotifyNow
  <2>7. SeparateOK' /\ hung' \in BOOLEAN
    BY <1>1, <1>5, Frame DEF NotifyNow
  <2> QED BY <2>2, <2>3, <2>4, <2>6, <2>7
<1>6. CASE NotifyError(r)
  <2>1. ListOK' /\ NumbersOK'
    BY <1>1, <1>6, ErrorTold, ErrorNumbers
  <2>2. PlacedOK'
    BY <1>1, <1>6, ErrorTold DEF PlacedOK
  <2>3. ObserversAuthorised'
    <3> SUFFICES ASSUME dos' = "RFNOP", NEW x \in observers'
                 PROVE  Permitted("GET", x.e, x.r, asserted[x.e])'
      BY DEF ObserversAuthorised
    <3>1. PICK o \in observers : o.e = x.e /\ o.r = x.r
      BY <1>1, <1>6, ErrorTold
    <3>2. Permitted("GET", x.e, x.r, asserted[x.e])
      BY <1>1, <3>1 DEF ObserversAuthorised, access
    <3>3. /\ acl' = acl /\ (x.e \in tls_peers => x.e \in tls_peers')
          /\ asserted[x.e] \subseteq asserted'[x.e]
      BY DEF access
    <3> QED BY <3>2, <3>3, PermittedKept
  <2>4. \A o \in ByResource(r) : <<o.e, r>> \in Pair
    BY <1>1, ObserverFields DEF ByResource, ListOK
  <2>5. transfers' \subseteq Pair /\ unacked' \subseteq Pair
    BY <1>1, <1>6, <2>4 DEF NotifyError
  <2>6. SeparateOK' /\ hung' \in BOOLEAN
    BY <1>1, <1>6, Frame DEF NotifyError
  <2> QED BY <2>1, <2>2, <2>3, <2>5, <2>6
<1> QED BY <1>2, <1>3, <1>4, <1>5, <1>6 DEF coap_notify_observers

-----------------------------------------------------------------------------
(* Removing a part of the observers, and the block transfers with it. *)
LEMMA RemovingKeeps ==
  ASSUME Sound, NEW S, S \subseteq observers, coap_remove_observers(S)
  PROVE  /\ ListOK' /\ observers' \subseteq observers /\ transfers' \subseteq Pair
         /\ UNCHANGED numbers => NumbersOK'
         /\ UNCHANGED app_resources => PlacedOK'
         /\ UNCHANGED access => ObserversAuthorised'
<1>1. ListOK' /\ observers' \subseteq observers
  BY Removing DEF Sound, coap_remove_observers
<1>2. transfers' \subseteq Pair
  BY DEF coap_remove_observers, Released, Sound, RestOK
<1> QED BY <1>1, <1>2, Frame

(* Ending sessions keeps the roles of sessions. *)
LEMMA FreePeersAccess ==
  ASSUME Sound, NEW E, FreePeers(E), UNCHANGED <<dos, acl>>
  PROVE  AccessOK'
BY DEF Sound, AccessOK, FreePeers

(* The clients that remain observers when the session of one ends keep *)
(* their permissions.                                                  *)
LEMMA FreePeersAuthorised ==
  ASSUME Sound, NEW e \in Endpoint, NEW E, E \subseteq {e}, FreePeers(E), UNCHANGED <<dos, acl>>,
         coap_remove_observers(ByClient(e))
  PROVE  ObserversAuthorised'
<1> SUFFICES ASSUME dos' = "RFNOP", NEW o \in observers'
             PROVE  Permitted("GET", o.e, o.r, asserted[o.e])'
  BY DEF ObserversAuthorised
<1>1. o \in observers /\ o.e # e /\ o.e \in Endpoint
  BY ObserverFields DEF coap_remove_observers, ByClient, Sound, ListOK
<1>2. Permitted("GET", o.e, o.r, asserted[o.e])
  BY <1>1 DEF Sound, ObserversAuthorised
<1>3. asserted'[o.e] = asserted[o.e] /\ (o.e \in tls_peers => o.e \in tls_peers')
  BY <1>1 DEF FreePeers
<1> QED BY <1>2, <1>3, PermittedKept

(* Requests *)

(* A request that arrives waits in the inbox. *)
LEMMA ClientSendsInv ==
  ASSUME Sound, NEW q \in Requests, ClientSends(q)
  PROVE  Sound'
<1>1. inbox' \in Seq(Requests) /\ Len(inbox') <= MaxInbox
  BY BoundsAssumption DEF ClientSends, Sound, RestOK
<1>2. RestOK'
  BY <1>1 DEF Sound, RestOK, ClientSends, list
<1> QED BY <1>2, Frame DEF Sound, ClientSends, list

(* What the response buffer of the first request adds is a pair. *)
LEMMA AnsweringType ==
  ASSUME Sound, inbox # <<>>
  PROVE  Answering(Head(inbox)) \subseteq Pair
BY HeadRequest DEF Answering, Sound, RestOK, Pair

(* A refused request leaves the list alone. *)
LEMMA ReceiveRefusedInv ==
  ASSUME Sound, ReceiveRefused
  PROVE  Sound'
<1>1. RestOK'
  BY HeadRequest, AnsweringType DEF Sound, RestOK, ReceiveRefused, list
<1> QED BY <1>1, Frame DEF Sound, ReceiveRefused, list

(* A granted POST schedules a notification of a resource that is there. *)
LEMMA ReceivePostInv ==
  ASSUME Sound, ReceivePost
  PROVE  Sound'
<1> DEFINE q == Head(inbox)
<1>1. inbox # <<>> /\ q.r \in Resource /\ q.r \in app_resources
  BY HeadRequest DEF ReceivePost, Granted
<1>2. /\ delayed[q.r] < MaxDelayed
      /\ delayed' = [delayed EXCEPT ![q.r] = @ + 1]
      /\ inbox' = Tail(inbox) /\ transfers' = Answering(q)
      /\ UNCHANGED <<access, app_resources, list, numbers, unacked, separates, hung>>
  BY DEF ReceivePost
<1>3. inbox' \in Seq(Requests) /\ Len(inbox') <= MaxInbox /\ transfers' \subseteq Pair
  BY <1>1, <1>2, HeadRequest, AnsweringType
<1> HIDE DEF q
<1>4. delayed \in [Resource -> 0..MaxDelayed] /\ MaxDelayed \in Nat
  BY BoundsAssumption DEF Sound, RestOK
<1>5. delayed[q.r] + 1 \in 0..MaxDelayed
  BY <1>1, <1>2, <1>4
<1>6. delayed' \in [Resource -> 0..MaxDelayed]
  BY <1>2, <1>4, <1>5
<1>7. \A r \in Resource : delayed'[r] > 0 => r \in app_resources'
  BY <1>1, <1>2, <1>4 DEF Sound, RestOK
<1>8. RestOK'
  BY <1>2, <1>3, <1>6, <1>7 DEF Sound, RestOK, list
<1> QED BY <1>2, <1>8, Frame DEF Sound, list

(* A granted GET: the client that becomes an observer may retrieve the *)
(* resource now.                                                       *)
LEMMA ReceiveGetInv ==
  ASSUME Sound, ReceiveGet
  PROVE  Sound'
<1> DEFINE q == Head(inbox)
<1>1. /\ inbox # <<>> /\ q \in Request
      /\ q.r \in Resource /\ q.e \in Endpoint /\ q.t \in Token
      /\ q.observe \in 0..2 /\ q.r \in app_resources
      /\ dos = "RFNOP" /\ Permitted("GET", q.e, q.r, roles[q.e])
  BY HeadRequest DEF ReceiveGet, Granted, oc_sec_check_acl
<1>2. /\ inbox' = Tail(inbox) /\ Observe(q)
      /\ IF q.r \in Slow
         THEN coap_separate_accept(q.r, {[e |-> q.e, t |-> q.t, observe |-> q.observe]})
         ELSE UNCHANGED separates
      /\ UNCHANGED <<access, app_resources, numbers, delayed, unacked, hung>>
  BY DEF ReceiveGet
<1>3. inbox' \in Seq(Requests) /\ Len(inbox') <= MaxInbox /\ Answering(q) \subseteq Pair
  BY <1>1, <1>2, HeadRequest, AnsweringType
<1> HIDE DEF q
<1>4. AccessOK'
  BY <1>2, Frame
<1>5. SeparateOK'
  <2>1. CASE q.r \notin Slow
    BY <2>1, <1>2, Frame
  <2>2. CASE q.r \in Slow
    <3> DEFINE qs == {[e |-> q.e, t |-> q.t, observe |-> q.observe]}
    <3>1. coap_separate_accept(q.r, qs)
      BY <2>2, <1>2
    <3>2. qs \subseteq Stored
      BY <1>1 DEF Stored
    <3> HIDE DEF qs
    <3> QED BY <2>2, <3>1, <3>2, Accepting DEF Sound
  <2> QED BY <2>1, <2>2
<1>6. CASE q.observe = 2
  <2>1. transfers' = Answering(q) /\ UNCHANGED list
    BY <1>2, <1>6 DEF Observe
  <2>2. RestOK'
    BY <1>2, <1>3, <2>1 DEF Sound, RestOK, list
  <2> QED BY <2>1, <2>2, <1>2, <1>4, <1>5, Frame DEF Sound, list
<1>7. CASE q.observe = 1
  <2>1. PICK S \in FirstByToken(q.e, q.t) :
              /\ observers' = observers \ S /\ num_observers' = CountWithout(S)
              /\ transfers' = Released(S, Answering(q))
              /\ observe_callbacks' \subseteq observe_callbacks
    BY <1>2, <1>7 DEF Observe
  <2>2. S \subseteq observers
    BY DEF FirstByToken, ByToken
  <2>3. ListOK' /\ observers' \subseteq observers
    BY <2>1, <2>2, Removing DEF Sound
  <2>4. RestOK'
    BY <1>2, <1>3, <2>1 DEF Sound, RestOK, Released
  <2> QED BY <2>3, <2>4, <1>2, <1>4, <1>5, Frame DEF Sound
<1>8. CASE q.observe = 0
  <2>1. /\ add_observer(q)
        /\ observe_callbacks' = observe_callbacks \cup ({q.r} \cap Periodic)
        /\ transfers' = Answering(q)
    BY <1>2, <1>8 DEF Observe
  <2>2. ListOK'
    BY <1>1, <2>1, Adding DEF Sound
  <2> DEFINE new == Registration(q, observe_counter)
  <2>3. /\ observers' \subseteq observers \cup {new}
        /\ new.e = q.e /\ new.r = q.r /\ new.counter = observe_counter
    BY <2>1 DEF add_observer, Registration
  <2> HIDE DEF new
  <2>4. PlacedOK'
    BY <1>1, <1>2, <2>3 DEF Sound, PlacedOK
  <2>5. NumbersOK'
    <3>1. <<new.e, new.r>> \in Pair /\ shown[<<new.e, new.r>>] < observe_counter
      BY <1>1, <2>3 DEF Pair, Sound, NumbersOK, NumbersFresh
    <3>2. observe_counter <= observe_counter
      BY BoundsAssumption DEF Sound, NumbersOK
    <3> QED BY <1>2, <2>3, <3>1, <3>2 DEF Sound, NumbersOK, NumbersFresh, numbers
  <2>6. ObserversAuthorised'
    <3> SUFFICES ASSUME dos' = "RFNOP", NEW o \in observers'
                 PROVE  Permitted("GET", o.e, o.r, asserted[o.e])'
      BY DEF ObserversAuthorised
    <3>1. /\ acl' = acl /\ (o.e \in tls_peers => o.e \in tls_peers')
          /\ asserted' = asserted /\ dos = "RFNOP"
      BY <1>1, <1>2 DEF access
    <3>2. CASE o \in observers
      <4>1. Permitted("GET", o.e, o.r, asserted[o.e])
        BY <3>1, <3>2 DEF Sound, ObserversAuthorised
      <4> QED BY <3>1, <4>1, PermittedKept
    <3>3. CASE o = new
      <4>1. roles[o.e] \subseteq asserted'[o.e]
        BY <1>1, <2>3, <3>1, <3>3 DEF Sound, AccessOK
      <4>2. Permitted("GET", o.e, o.r, roles[o.e])
        BY <1>1, <2>3, <3>3
      <4> QED BY <3>1, <4>1, <4>2, PermittedKept
    <3> QED BY <2>3, <3>2, <3>3
  <2>7. RestOK'
    BY <1>1, <1>2, <1>3, <2>1 DEF Sound, RestOK
  <2> QED BY <1>4, <1>5, <2>2, <2>4, <2>5, <2>6, <2>7 DEF Sound
<1> QED BY <1>1, <1>6, <1>7, <1>8

(* Notifications and separate responses *)

(* A delayed notification. *)
LEMMA DelayedNotificationInv ==
  ASSUME Sound, NEW r \in Resource, DelayedNotification(r)
  PROVE  Sound'
<1>1. /\ delayed[r] > 0 /\ delayed' = [delayed EXCEPT ![r] = @ - 1]
      /\ coap_notify_observers(r)
      /\ UNCHANGED <<access, app_resources, inbox, num_observers, observe_callbacks>>
  BY DEF DelayedNotification
<1>2. /\ ListOK' /\ PlacedOK' /\ NumbersOK' /\ ObserversAuthorised' /\ SeparateOK'
      /\ transfers' \subseteq Pair /\ unacked' \subseteq Pair /\ hung' \in BOOLEAN
  BY <1>1, Notifying
<1>3. delayed \in [Resource -> 0..MaxDelayed] /\ MaxDelayed \in Nat
  BY BoundsAssumption DEF Sound, RestOK
<1>4. delayed[r] - 1 \in 0..MaxDelayed
  BY <1>1, <1>3
<1>5. /\ delayed' \in [Resource -> 0..MaxDelayed]
      /\ \A x \in Resource : delayed'[x] > 0 => delayed[x] > 0
  BY <1>1, <1>3, <1>4
<1>6. RestOK'
  BY <1>1, <1>2, <1>5 DEF Sound, RestOK
<1> QED BY <1>1, <1>2, <1>6, Frame DEF Sound

(* A periodic notification. *)
LEMMA PeriodicNotificationInv ==
  ASSUME Sound, NEW r \in Resource, PeriodicNotification(r)
  PROVE  Sound'
<1>1. /\ coap_notify_observers(r) /\ observe_callbacks' \subseteq observe_callbacks
      /\ UNCHANGED <<access, app_resources, inbox, num_observers, delayed>>
  BY DEF PeriodicNotification
<1>2. /\ ListOK' /\ PlacedOK' /\ NumbersOK' /\ ObserversAuthorised' /\ SeparateOK'
      /\ transfers' \subseteq Pair /\ unacked' \subseteq Pair /\ hung' \in BOOLEAN
  BY <1>1, Notifying
<1>3. RestOK'
  BY <1>1, <1>2 DEF Sound, RestOK
<1> QED BY <1>1, <1>2, <1>3, Frame DEF Sound

(* Sending a separate response leaves nothing owed. *)
LEMMA SendSeparateInv ==
  ASSUME Sound, NEW r \in Slow, oc_send_separate_response(r)
  PROVE  Sound'
<1>1. /\ owed' = [owed EXCEPT ![r] = {}]
      /\ separate' = [separate EXCEPT ![r] = {}] /\ active' = active \ {r}
      /\ transfers' = transfers \cup {<<x.e, r>> : x \in {y \in separate[r] : r \in Large}}
      /\ UNCHANGED <<access, app_resources, inbox, list, numbers, delayed, unacked, hung>>
  BY DEF oc_send_separate_response
<1>2. SeparateOK /\ RestOK
  BY DEF Sound
<1>3. SeparateOK'
  <2>1. /\ separate' \in [Slow -> SUBSET Stored] /\ owed' \in [Slow -> SUBSET Stored]
        /\ owed'[r] = {} /\ active' \subseteq Slow
        /\ \A x \in Slow \ {r} : separate'[x] = separate[x] /\ owed'[x] = owed[x]
    BY <1>1, <1>2 DEF SeparateOK
  <2>2. \A x \in Slow \ active' : owed'[x] = {}
    BY <1>1, <1>2, <2>1 DEF SeparateOK
  <2>3. SeparateOwed'
    <3> SUFFICES ASSUME NEW x \in Slow, NEW q \in owed'[x]
                 PROVE  \E y \in separate'[x] : SameRequest(y, q) /\ y \in owed'[x]
      BY DEF SeparateOwed, SameRequest
    <3> QED BY <1>2, <2>1 DEF SeparateOK, SeparateOwed
  <2> QED BY <2>1, <2>2, <2>3 DEF SeparateOK
<1>4. transfers' \subseteq Pair
  <2>1. \A x \in separate[r] : x.e \in Endpoint
    BY <1>2 DEF SeparateOK, Stored
  <2>2. r \in Resource
    BY SetsAssumption
  <2> QED BY <1>1, <1>2, <2>1, <2>2 DEF RestOK, Pair
<1>5. RestOK'
  BY <1>1, <1>2, <1>4 DEF RestOK, list
<1> QED BY <1>1, <1>3, <1>5, Frame DEF Sound, list

(* A resource that is deleted takes its observers along, or its count is 0. *)
LEMMA DeleteResourceInv ==
  ASSUME Sound, NEW r \in Resource, oc_delete_resource(r)
  PROVE  IInv'
<1>1. /\ r \notin observe_callbacks /\ delayed[r] = 0 /\ app_resources' = app_resources \ {r}
      /\ IF num_observers[r] > 0 THEN coap_remove_observers(ByResource(r))
         ELSE UNCHANGED <<observers, num_observers, transfers>>
      /\ UNCHANGED <<access, inbox, numbers,
                     observe_callbacks, delayed, unacked, separates, hung>>
  BY DEF oc_delete_resource
<1>2. /\ ListOK' /\ transfers' \subseteq Pair /\ observers' \subseteq observers
      /\ \A o \in observers' : o.r # r \/ num_observers'[r] = 0
  <2>1. CASE num_observers[r] > 0
    <3>1. ByResource(r) \subseteq observers
      BY DEF ByResource
    <3>2. \A o \in observers' : o.r # r
      BY <2>1, <1>1 DEF coap_remove_observers, ByResource
    <3> QED BY <2>1, <3>1, <3>2, <1>1, RemovingKeeps
  <2>2. CASE ~(num_observers[r] > 0)
    <3>1. num_observers[r] = 0
      BY <2>2, BoundsAssumption DEF Sound, ListOK
    <3>2. UNCHANGED <<observers, num_observers, transfers>>
      BY <1>1, <2>2
    <3> QED BY <3>1, <3>2, Frame DEF Sound, RestOK
  <2> QED BY <2>1, <2>2
<1>3. LeftOK'
  BY <1>1, <1>2 DEF Sound, PlacedOK, LeftOK
<1>4. RestOK'
  BY <1>1, <1>2 DEF Sound, RestOK
<1> QED BY <1>1, <1>2, <1>3, <1>4, Frame DEF Sound, IInv

(* Replies to notifications *)

(* Acknowledgements and fetched blocks leave the list alone. *)
LEMMA ReplyInv ==
  ASSUME Sound, NEW p \in Pair, Acknowledged(p) \/ TransferEnds(p)
  PROVE  Sound'
<1>1. /\ UNCHANGED <<access, app_resources, inbox, list, numbers, delayed, separates, hung>>
      /\ transfers' \subseteq transfers /\ unacked' \subseteq unacked
  BY DEF Acknowledged, TransferEnds
<1>2. RestOK'
  BY <1>1 DEF Sound, RestOK, list
<1> QED BY <1>1, <1>2, Frame DEF Sound, list

(* A client that rejects a notification is removed. *)
LEMMA RejectedInv ==
  ASSUME Sound, NEW o \in observers, Rejected(o)
  PROVE  Sound'
<1>1. /\ coap_remove_observers({o}) /\ unacked' \subseteq unacked
      /\ UNCHANGED <<access, app_resources, inbox, numbers, observe_callbacks, delayed, separates, hung>>
  BY DEF Rejected
<1>2. /\ ListOK' /\ transfers' \subseteq Pair /\ NumbersOK' /\ PlacedOK' /\ ObserversAuthorised'
  BY <1>1, RemovingKeeps
<1>3. RestOK'
  BY <1>1, <1>2 DEF Sound, RestOK
<1> QED BY <1>1, <1>2, <1>3, Frame DEF Sound

(* Sessions *)

(* Sessions and roles that come, and roles that are dropped, take no permission away. *)
LEMMA SessionInv ==
  ASSUME Sound, NEW e \in Secured,
         Handshake(e) \/ DropRoles(e) \/ \E x \in Role : AssertRole(e, x)
  PROVE  Sound'
<1>1. /\ UNCHANGED <<dos, acl, app_resources, inbox, list, numbers, delayed,
                     transfers, unacked, separates, hung>>
      /\ tls_peers \subseteq tls_peers'
      /\ AccessOK
  BY DEF Handshake, DropRoles, AssertRole, Sound
<1>2. e \in Endpoint
  BY SetsAssumption
<1>3. AccessOK' /\ \A x \in Endpoint : asserted[x] \subseteq asserted'[x]
  <2>1. CASE Handshake(e)
    BY <2>1, <1>1, <1>2 DEF Handshake, AccessOK
  <2>2. CASE DropRoles(e)
    BY <2>2, <1>1, <1>2 DEF DropRoles, AccessOK
  <2>3. ASSUME NEW x \in Role, AssertRole(e, x)
        PROVE  AccessOK' /\ \A z \in Endpoint : asserted[z] \subseteq asserted'[z]
    BY <2>3, <1>1, <1>2 DEF AssertRole, AccessOK
  <2> QED BY <2>1, <2>2, <2>3
<1>4. ObserversAuthorised'
  <2> SUFFICES ASSUME dos' = "RFNOP", NEW o \in observers'
               PROVE  Permitted("GET", o.e, o.r, asserted[o.e])'
    BY DEF ObserversAuthorised
  <2>1. o \in observers /\ o.e \in Endpoint
    BY <1>1, ObserverFields DEF Sound, ListOK, list
  <2>2. Permitted("GET", o.e, o.r, asserted[o.e])
    BY <1>1, <2>1 DEF Sound, ObserversAuthorised
  <2> QED BY <1>1, <1>3, <2>1, <2>2, PermittedKept
<1>5. RestOK'
  BY <1>1 DEF Sound, RestOK, list
<1> QED BY <1>1, <1>3, <1>4, <1>5, Frame DEF Sound, list

(* A session that ends takes the observers of its client along. *)
LEMMA SessionEndsInv ==
  ASSUME Sound, NEW e \in Secured, SessionEnds(e)
  PROVE  Sound'
<1>1. /\ FreePeers({e}) /\ coap_remove_observers(ByClient(e)) /\ unacked' \subseteq unacked
      /\ UNCHANGED <<dos, acl, app_resources, inbox, numbers, observe_callbacks, delayed, separates, hung>>
  BY DEF SessionEnds, NotOf
<1>2. ByClient(e) \subseteq observers
  BY DEF ByClient
<1>3. ListOK' /\ transfers' \subseteq Pair /\ NumbersOK' /\ PlacedOK'
  BY <1>1, <1>2, RemovingKeeps
<1>4. AccessOK' /\ ObserversAuthorised'
  BY <1>1, FreePeersAccess, FreePeersAuthorised, SetsAssumption
<1>5. RestOK'
  BY <1>1, <1>3 DEF Sound, RestOK
<1> QED BY <1>1, <1>3, <1>4, <1>5, Frame DEF Sound

(* So does a notification that nobody acknowledges. *)
LEMMA NotificationTimesOutInv ==
  ASSUME Sound, NEW p \in Pair, NotificationTimesOut(p)
  PROVE  Sound'
<1> DEFINE e == p[1]
           E == {e} \cap tls_peers
<1>1. /\ coap_remove_observers(ByClient(e)) /\ FreePeers(E) /\ unacked' \subseteq unacked
      /\ UNCHANGED <<dos, acl, app_resources, inbox, numbers, observe_callbacks, delayed, separates, hung>>
  BY DEF NotificationTimesOut, NotOf
<1>2. ByClient(e) \subseteq observers /\ e \in Endpoint /\ E \subseteq {e}
  BY DEF ByClient, Pair
<1> HIDE DEF e, E
<1>3. ListOK' /\ transfers' \subseteq Pair /\ NumbersOK' /\ PlacedOK'
  BY <1>1, <1>2, RemovingKeeps
<1>4. AccessOK' /\ ObserversAuthorised'
  BY <1>1, <1>2, FreePeersAccess, FreePeersAuthorised
<1>5. RestOK'
  BY <1>1, <1>3 DEF Sound, RestOK
<1> QED BY <1>1, <1>3, <1>4, <1>5, Frame DEF Sound

(* Provisioning: the list is replaced only while the device is not *)
(* operational, and the observers are examined when it becomes so. *)
LEMMA ProvisioningInv ==
  ASSUME Sound, \/ \E a \in Acls \cup {{}} : ProvisionAcl(a)
               \/ \E s \in {"RFPRO", "SRESET"} : ToProvisioning(s)
  PROVE  Sound'
<1>1. /\ UNCHANGED <<tls_peers, roles, asserted, app_resources, inbox, list, numbers, delayed,
                     transfers, unacked, separates, hung>>
      /\ dos' \in {"RFPRO", "SRESET"} /\ acl' \in Acls \cup {{}}
  BY DEF ProvisionAcl, ToProvisioning, Sound, AccessOK
<1>2. AccessOK' /\ ObserversAuthorised'
  BY <1>1 DEF Sound, AccessOK, ObserversAuthorised
<1>3. RestOK'
  BY <1>1 DEF Sound, RestOK, list
<1> QED BY <1>1, <1>2, <1>3, Frame DEF Sound, list

(* The observers that remain in the operational state are authorised. *)
LEMMA ToOperationalInv ==
  ASSUME Sound, ToOperational
  PROVE  Sound'
<1>1. /\ dos' = "RFNOP" /\ coap_remove_observers(Unauthorised)
      /\ UNCHANGED <<acl, tls_peers, roles, asserted, app_resources, inbox, numbers,
                     observe_callbacks, delayed, unacked, separates, hung>>
  BY DEF ToOperational
<1>2. Unauthorised \subseteq observers
  BY DEF Unauthorised
<1>3. ListOK' /\ transfers' \subseteq Pair /\ NumbersOK' /\ PlacedOK'
  BY <1>1, <1>2, RemovingKeeps
<1>4. AccessOK'
  BY <1>1 DEF Sound, AccessOK
<1>5. ObserversAuthorised'
  <2> SUFFICES ASSUME NEW o \in observers'
               PROVE  Permitted("GET", o.e, o.r, asserted[o.e])'
    BY DEF ObserversAuthorised
  <2>1. o \in observers /\ Permitted("GET", o.e, o.r, roles[o.e])
    BY <1>1 DEF coap_remove_observers, Unauthorised
  <2>2. o.e \in Endpoint
    BY <2>1, ObserverFields DEF Sound, ListOK
  <2>3. roles[o.e] \subseteq asserted'[o.e]
    BY <1>1, <2>2 DEF Sound, AccessOK
  <2> QED BY <1>1, <2>1, <2>3, PermittedKept
<1>6. RestOK'
  BY <1>1, <1>3 DEF Sound, RestOK
<1> QED BY <1>1, <1>3, <1>4, <1>5, <1>6, Frame DEF Sound

(* A reset removes all observers. *)
LEMMA ResetDeviceInv ==
  ASSUME Sound, NEW request \in BOOLEAN, ResetDevice(request)
  PROVE  Sound'
<1>1. /\ dos' = "RFOTM" /\ acl' = {} /\ coap_remove_observers(observers)
      /\ UNCHANGED <<app_resources, inbox, numbers, observe_callbacks, delayed, separates, hung>>
  BY DEF ResetDevice
<1>2. ListOK' /\ transfers' \subseteq Pair /\ NumbersOK' /\ PlacedOK'
  BY <1>1, RemovingKeeps
<1>3. AccessOK' /\ unacked' \subseteq unacked
  <2>1. CASE request
    BY <2>1, <1>1 DEF ResetDevice, FreePeers, NotOf, Sound, AccessOK
  <2>2. CASE ~request
    BY <2>2, <1>1 DEF ResetDevice, Sound, AccessOK
  <2> QED BY <2>1, <2>2
<1>4. ObserversAuthorised'
  BY <1>1 DEF ObserversAuthorised
<1>5. RestOK'
  BY <1>1, <1>2, <1>3 DEF Sound, RestOK
<1> QED BY <1>1, <1>2, <1>3, <1>4, <1>5, Frame DEF Sound

-----------------------------------------------------------------------------
(* The inductive invariant holds initially ... *)
LEMMA InitInv == Init => IInv
<1> SUFFICES ASSUME Init PROVE IInv
  OBVIOUS
<1>1. ListOK
  BY FS_EmptySet, BoundsAssumption DEF Init, ListOK, ByResource
<1>2. LeftOK /\ AccessOK /\ ObserversAuthorised
  BY DEF Init, LeftOK, AccessOK, ObserversAuthorised
<1>3. NumbersOK
  BY BoundsAssumption DEF Init, NumbersOK, NumbersFresh
<1>4. SeparateOK
  BY DEF Init, SeparateOK, SeparateOwed
<1>5. RestOK
  <2>1. /\ inbox = <<>> /\ observe_callbacks = {} /\ delayed = [r \in Resource |-> 0]
        /\ transfers = {} /\ unacked = {} /\ hung = FALSE
    BY DEF Init
  <2>2. 0 \in 0..MaxDelayed /\ MaxInbox >= 0
    BY BoundsAssumption
  <2>3. inbox \in Seq(Requests) /\ Len(inbox) <= MaxInbox
    BY <2>1, <2>2
  <2>4. delayed \in [Resource -> 0..MaxDelayed] /\ \A r \in Resource : ~(delayed[r] > 0)
    BY <2>1, <2>2
  <2>5. observe_callbacks \subseteq Periodic \cap app_resources
    BY <2>1
  <2>6. transfers \subseteq Pair /\ unacked \subseteq Pair /\ hung \in BOOLEAN
    BY <2>1
  <2> QED BY <2>3, <2>4, <2>5, <2>6 DEF RestOK
<1> QED BY <1>1, <1>2, <1>3, <1>4, <1>5 DEF IInv

(* ... and is kept by every step. *)
LEMMA StepInv == IInv /\ [Next]_vars => IInv'
<1> SUFFICES ASSUME IInv, [Next]_vars PROVE IInv'
  OBVIOUS
<1>1. CASE UNCHANGED vars
  <2>1. ListOK' /\ LeftOK'
    BY <1>1 DEF vars, IInv, ListOK, LeftOK, ByResource, list
  <2>2. NumbersOK'
    BY <1>1 DEF vars, IInv, NumbersOK, NumbersFresh, numbers, list
  <2>5. SeparateOK'
    BY <1>1 DEF vars, IInv, SeparateOK, SeparateOwed, SameRequest, separates
  <2>3. AccessOK' /\ ObserversAuthorised'
    BY <1>1, PermittedKept DEF vars, IInv, AccessOK, ObserversAuthorised, access, list
  <2>4. RestOK'
    BY <1>1 DEF vars, IInv, RestOK, list
  <2> QED BY <2>1, <2>2, <2>3, <2>4, <2>5 DEF IInv
<1>2. CASE ~Dangling /\ Step
  <2>0. Sound
    BY <1>2 DEF Dangling, IInv, Sound, LeftOK, PlacedOK
  <2> USE <2>0
  <2>11. Sound' => IInv'
    BY DEF Sound, IInv, PlacedOK, LeftOK
  <2>1. ASSUME NEW q \in Requests, ClientSends(q) PROVE IInv'
    BY <2>1, <2>11, ClientSendsInv
  <2>2. CASE ReceiveRefused \/ ReceiveGet \/ ReceivePost
    BY <2>2, <2>11, ReceiveRefusedInv, ReceiveGetInv, ReceivePostInv
  <2>3. ASSUME NEW r \in Resource,
               DelayedNotification(r) \/ PeriodicNotification(r) \/ oc_delete_resource(r)
        PROVE  IInv'
    BY <2>3, <2>11, DelayedNotificationInv, PeriodicNotificationInv, DeleteResourceInv
  <2>4. ASSUME NEW r \in Slow, oc_send_separate_response(r) PROVE IInv'
    BY <2>4, <2>11, SendSeparateInv
  <2>5. ASSUME NEW p \in Pair, Acknowledged(p) \/ TransferEnds(p) \/ NotificationTimesOut(p)
        PROVE  IInv'
    BY <2>5, <2>11, ReplyInv, NotificationTimesOutInv
  <2>6. ASSUME NEW o \in observers, Rejected(o) PROVE IInv'
    BY <2>6, <2>11, RejectedInv
  <2>7. ASSUME NEW e \in Secured, \/ Handshake(e) \/ DropRoles(e) \/ SessionEnds(e)
                                  \/ \E x \in Role : AssertRole(e, x)
        PROVE  IInv'
    BY <2>7, <2>11, SessionInv, SessionEndsInv
  <2>8. CASE \/ \E a \in Acls \cup {{}} : ProvisionAcl(a)
             \/ \E s \in {"RFPRO", "SRESET"} : ToProvisioning(s)
    BY <2>8, <2>11, ProvisioningInv
  <2>9. CASE ToOperational
    BY <2>9, <2>11, ToOperationalInv
  <2>10. ASSUME NEW request \in BOOLEAN, ResetDevice(request) PROVE IInv'
    BY <2>10, <2>11, ResetDeviceInv
  <2> QED BY <1>2, <2>1, <2>2, <2>3, <2>4, <2>5, <2>6, <2>7, <2>8, <2>9, <2>10 DEF Step
<1> QED BY <1>1, <1>2 DEF Next, Spinning, Undefined

(* The inductive invariant holds in every behaviour. *)
THEOREM InductiveInvariant == Spec => []IInv
BY InitInv, StepInv, PTL DEF Spec

(* Every variable of the server keeps its type; in particular the roles of *)
(* an endpoint without a session are none, whichever way its session ended.*)
THEOREM TypeCorrect == Spec => []TypeOK
<1>1. IInv => TypeOK
  BY DEF IInv, TypeOK, ListOK, LeftOK, NumbersOK, AccessOK, SeparateOK, RestOK
<1> QED BY <1>1, InductiveInvariant, PTL

(* resource->num_observers is the number of observers of the resource      *)
(* modulo CountSize, and a deleted resource leaves observers behind only   *)
(* when that is 0, for any mixture of registrations, cancellations, RST,   *)
(* timeouts, sessions that end, resets and deletions.                      *)
THEOREM ObserverCounts == Spec => []CountsMatch
<1>1. IInv => CountsMatch
  BY DEF IInv, ListOK, LeftOK, CountsMatch
<1> QED BY <1>1, InductiveInvariant, PTL

(* While the device is operational, every observer may retrieve what it    *)
(* observes, by the access control list in force and the roles asserted in *)
(* its session.                                                            *)
THEOREM ObserversMayRetrieve == Spec => []ObserversAuthorised
<1>1. IInv => ObserversAuthorised
  BY DEF IInv
<1> QED BY <1>1, InductiveInvariant, PTL

(* The number of the next notification of an observer, unless it is an     *)
(* error or separate, is larger than any the client has been shown for the *)
(* resource: by notifications, errors (1) and registrations (0).           *)
THEOREM ObserveNumbersFresh == Spec => []NumbersFresh
<1>1. IInv => NumbersFresh
  BY DEF IInv, NumbersOK
<1> QED BY <1>1, InductiveInvariant, PTL

(* Every request accepted for a separate response is in its list until     *)
(* that is sent, or was displaced by one of another client that is owed    *)
(* the response too and has the same token and observe option.             *)
THEOREM SeparateResponsesOwed == Spec => []SeparateOwed
<1>1. IInv => SeparateOwed
  BY DEF IInv, SeparateOK
<1> QED BY <1>1, InductiveInvariant, PTL

=============================================================================
