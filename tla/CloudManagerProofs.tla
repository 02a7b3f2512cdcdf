------------------------- MODULE CloudManagerProofs -------------------------
(***************************************************************************)
(* Proofs about CloudManager, for any bounds, counters, answers and kinds  *)
(* of requests, with and without session events.                           *)
(*                                                                         *)
(* The handlers are operators on the context.  What they do to the list of *)
(* delayed callbacks is summed up in the relation Keeps, which every one   *)
(* of them satisfies; Quiet also says that they neither register the       *)
(* device nor give it other tokens, which only the answers of the cloud    *)
(* do.  What is special is the callback that frees its own entry:          *)
(* SparesDump says that the entry removed in its place is not the one that *)
(* writes the store.                                                       *)
(***************************************************************************)
EXTENDS CloudManager, WellFoundedInduction, TLAPS

Kind == ManagerRequests \cup ApiRequests

(* An entry of the list, the one being run included *)
Entry == [cb : Callbacks, when : {"now", "later", "due", "running"}]

Ctx == [status : SUBSET Flags, cps : Cps, token : Nat, refresh : Nat,
        retry : 0..(CounterSize - 1), refreshes : 0..(CounterSize - 1),
        expires : BOOLEAN, manager : BOOLEAN, at : BOOLEAN, seen : BOOLEAN,
        live : BOOLEAN, ending : BOOLEAN, timers : Seq(Entry), reqs : Seq(Kind)]

(* One of fs is set, apart from the entry being run. *)
Has(c, fs) == \E i \in DOMAIN c.timers : c.timers[i].cb \in fs /\ c.timers[i].when # "running"

Dump == {"cloud_store_dump_handler"}

LoginOK(s) == "loggedin" \in s => "registered" \in s

(* The registration and the tokens are written, or they will be. *)
Saved(c, st) ==
  /\ "registered" \in c.status
  /\ "registered" \notin st.status \/ c.token # st.token \/ c.refresh # st.refresh
  => Has(c, Dump)

IInv == /\ ctx \in Ctx /\ \A i \in DOMAIN ctx.timers : ctx.timers[i].when # "running"
        /\ polling \in BOOLEAN /\ stored \in Store /\ tokens \in Nat
        /\ LoginOK(ctx.status) /\ LoginOK(stored.status)
        /\ Saved(ctx, stored)

-----------------------------------------------------------------------------
(* What every operator on the context keeps of the list of callbacks: at most
   one entry is being run, and a write of the store stays pending.          *)
Runs(c, f) == \E i \in DOMAIN c.timers : c.timers[i].when = "running" /\ c.timers[i].cb = f
AtRest(c) == \A i \in DOMAIN c.timers : c.timers[i].when # "running"
OneRuns(c) == \A i, j \in DOMAIN c.timers :
                c.timers[i].when = "running" /\ c.timers[j].when = "running" => i = j

Keeps(c, d) == /\ AtRest(c) => AtRest(d)
               /\ OneRuns(c) => OneRuns(d)
               /\ Has(c, Dump) => Has(d, Dump)

(* The last entry that was set is one of f. *)
Ends(c, f) == Len(c.timers) # 0 /\ c.timers[Len(c.timers)].cb = f

(* The last entry is not the one that writes a registration. *)
SparesDump(c) ==
  "registered" \in c.status => \E f \in Callbacks \ Dump : Ends(c, f)

(* The fields apart from the list *)
Same(c, d) == /\ d.status = c.status /\ d.cps = c.cps
              /\ d.token = c.token /\ d.refresh = c.refresh
              /\ d.retry = c.retry /\ d.refreshes = c.refreshes /\ d.expires = c.expires
              /\ d.manager = c.manager /\ d.at = c.at /\ d.seen = c.seen
              /\ d.live = c.live /\ d.ending = c.ending /\ d.reqs = c.reqs

-----------------------------------------------------------------------------
(* A set of natural numbers has a least one. *)
LEMMA LeastNat ==
  ASSUME NEW S, S \subseteq Nat, S # {}
  PROVE  \E x \in S : \A y \in S : x <= y
<1>1. PICK x \in S : \A y \in S : ~(<<y, x>> \in OpToRel(<, Nat))
  BY WFMin, NatLessThanWellFounded
<1>2. \A y \in S : y < x => <<y, x>> \in OpToRel(<, Nat)
  BY Zenon DEF OpToRel
<1>3. \A y \in S : ~(y < x)
  BY <1>1, <1>2, Zenon
<1>4. \A y \in S : x <= y
  BY <1>3
<1> QED BY <1>4

(* First is an entry of f, if there is one. *)
LEMMA FirstIs ==
  ASSUME NEW t \in Seq(Entry), NEW f, \E i \in DOMAIN t : t[i].cb = f
  PROVE  First(t, f) \in DOMAIN t /\ t[First(t, f)].cb = f
<1> DEFINE S == {i \in DOMAIN t : t[i].cb = f}
<1>1. DOMAIN t = 1..Len(t) /\ Len(t) \in Nat
  OBVIOUS
<1>2. S \subseteq Nat /\ S # {}
  BY <1>1
<1>3. PICK x \in S : \A y \in S : x <= y
  BY <1>2, LeastNat
<1>4. \A j \in 1..(x - 1) : t[j].cb # f
  BY <1>1, <1>3
<1>5. \E i \in DOMAIN t : t[i].cb = f /\ \A j \in 1..(i - 1) : t[j].cb # f
  BY <1>3, <1>4
<1> QED BY <1>5 DEF First

(* Taking an entry out moves those behind it forward. *)
LEMMA RemoveAtIs ==
  ASSUME NEW S, NEW s \in Seq(S), NEW i \in DOMAIN s
  PROVE  /\ RemoveAt(s, i) \in Seq(S)
         /\ Len(RemoveAt(s, i)) = Len(s) - 1
         /\ \A k \in 1..(Len(s) - 1) : RemoveAt(s, i)[k] = IF k < i THEN s[k] ELSE s[k + 1]
<1> DEFINE a == SubSeq(s, 1, i - 1)
           b == SubSeq(s, i + 1, Len(s))
<1>1. i \in 1..Len(s) /\ Len(s) \in Nat
  OBVIOUS
<1>2. a \in Seq(S) /\ Len(a) = i - 1 /\ \A k \in 1..(i - 1) : a[k] = s[k]
  BY <1>1
<1>3. b \in Seq(S) /\ Len(b) = Len(s) - i /\ \A k \in 1..(Len(s) - i) : b[k] = s[i + k]
  BY <1>1
<1>4. RemoveAt(s, i) = a \o b
  BY DEF RemoveAt
<1> HIDE DEF a, b
<1>5. a \o b \in Seq(S) /\ Len(a \o b) = Len(s) - 1
  BY <1>1, <1>2, <1>3
<1>6. \A k \in 1..(Len(s) - 1) :
        (a \o b)[k] = IF k < i THEN s[k] ELSE s[k + 1]
  <2> TAKE k \in 1..(Len(s) - 1)
  <2>1. CASE k < i
    <3>1. k \in 1..Len(a)
      BY <1>1, <1>2, <2>1
    <3> QED BY <1>1, <1>2, <1>3, <2>1, <3>1
  <2>2. CASE ~(k < i)
    <3>1. k - Len(a) \in 1..Len(b) /\ ~(k <= Len(a)) /\ k \in 1..(Len(a) + Len(b))
      BY <1>1, <1>2, <1>3, <2>2
    <3>2. (a \o b)[k] = b[k - Len(a)]
      <4>1. a \in Seq(S) /\ b \in Seq(S)
        BY <1>2, <1>3
      <4> QED BY <3>1, <4>1
    <3>3. i + (k - Len(a)) = k + 1
      BY <1>1, <1>2
    <3> QED BY <1>3, <2>2, <3>1, <3>2, <3>3
  <2> QED BY <2>1, <2>2
<1> QED BY <1>4, <1>5, <1>6

(* Where the k-th entry was before the i-th one was taken out *)
Before(k, i) == IF k < i THEN k ELSE k + 1

(* Every entry but the one taken out is still there, and no other one is. *)
LEMMA RemoveAtKeeps ==
  ASSUME NEW S, NEW s \in Seq(S), NEW i \in DOMAIN s
  PROVE  /\ RemoveAt(s, i) \in Seq(S)
         /\ \A j \in DOMAIN s : j # i => \E k \in DOMAIN RemoveAt(s, i) : RemoveAt(s, i)[k] = s[j]
         /\ \A k \in DOMAIN RemoveAt(s, i) :
              Before(k, i) \in DOMAIN s \ {i} /\ RemoveAt(s, i)[k] = s[Before(k, i)]
         /\ \A k, m \in DOMAIN RemoveAt(s, i) :
              Before(k, i) = Before(m, i) => k = m
<1> DEFINE r == RemoveAt(s, i)
<1>1. /\ r \in Seq(S) /\ Len(r) = Len(s) - 1
      /\ \A k \in 1..(Len(s) - 1) : r[k] = IF k < i THEN s[k] ELSE s[k + 1]
  BY RemoveAtIs
<1> HIDE DEF r
<1>2. /\ DOMAIN r = 1..(Len(s) - 1) /\ DOMAIN s = 1..Len(s) /\ Len(s) \in Nat
      /\ i \in 1..Len(s)
  BY <1>1
<1>3. ASSUME NEW j \in DOMAIN s, j # i
      PROVE  \E k \in DOMAIN r : r[k] = s[j]
  <2>1. CASE j < i
    BY <1>1, <1>2, <2>1
  <2>2. CASE j > i
    <3>1. j - 1 \in DOMAIN r /\ ~(j - 1 < i) /\ (j - 1) + 1 = j
      BY <1>2, <2>2
    <3>2. r[j - 1] = s[j]
      BY <1>1, <1>2, <3>1
    <3> QED BY <3>1, <3>2
  <2> QED BY <1>2, <1>3, <2>1, <2>2
<1>4. \A k \in DOMAIN r : Before(k, i) \in DOMAIN s \ {i} /\ r[k] = s[Before(k, i)]
  BY <1>1, <1>2 DEF Before
<1>5. \A k, m \in DOMAIN r :
        Before(k, i) = Before(m, i) => k = m
  BY <1>2 DEF Before
<1> QED BY <1>1, <1>3, <1>4, <1>5 DEF r

-----------------------------------------------------------------------------
(* Keeps depends on the list only. *)
LEMMA KeepsList ==
  ASSUME NEW c, NEW d, d.timers = c.timers
  PROVE  /\ Keeps(c, d)
         /\ \A fs : Has(c, fs) <=> Has(d, fs)
         /\ \A f : (Runs(c, f) <=> Runs(d, f)) /\ (Ends(c, f) <=> Ends(d, f))
BY DEF Keeps, Has, Runs, AtRest, OneRuns, Ends

(* Keeps is transitive. *)
LEMMA KeepsTrans ==
  ASSUME NEW c, NEW d, NEW e, Keeps(c, d), Keeps(d, e)
  PROVE  Keeps(c, e)
BY DEF Keeps

(* Setting a delayed callback *)
LEMMA AddIs ==
  ASSUME NEW c \in Ctx, NEW f \in Callbacks, NEW w \in {"now", "later"}
  PROVE  LET d == Add(c, f, w)
         IN  /\ d \in Ctx /\ Same(c, d) /\ Keeps(c, d) /\ Ends(d, f)
             /\ \A fs : Has(c, fs) \/ f \in fs => Has(d, fs)
             /\ \A g : Runs(c, g) => Runs(d, g)
<1> DEFINE d == Add(c, f, w)
           t == c.timers
           n == [cb |-> f, when |-> w]
<1>1. t \in Seq(Entry) /\ n \in Entry /\ n.cb = f /\ n.when = w
  BY DEF Ctx, Entry
<1>2. d = [c EXCEPT !.timers = Append(t, n)]
  BY DEF Add
<1> HIDE DEF n
<1>3. /\ Append(t, n) \in Seq(Entry) /\ Len(Append(t, n)) = Len(t) + 1
      /\ \A i \in 1..Len(t) : Append(t, n)[i] = t[i]
      /\ Append(t, n)[Len(t) + 1] = n
      /\ DOMAIN t = 1..Len(t) /\ Len(t) \in Nat
  BY <1>1
<1>4. d \in Ctx /\ Same(c, d) /\ d.timers = Append(t, n)
  BY <1>2, <1>3 DEF Ctx, Same
<1> HIDE DEF d
<1>5. /\ DOMAIN d.timers = 1..(Len(t) + 1) /\ Len(d.timers) = Len(t) + 1
      /\ \A i \in DOMAIN t : i \in DOMAIN d.timers /\ d.timers[i] = t[i]
      /\ \A i \in DOMAIN d.timers : i \in DOMAIN t \/ i = Len(t) + 1
      /\ Len(t) + 1 \in DOMAIN d.timers /\ d.timers[Len(t) + 1] = n
  BY <1>3, <1>4
<1>6. \A fs : Has(c, fs) \/ f \in fs => Has(d, fs)
  BY <1>1, <1>5 DEF Has
<1>7. \A i \in DOMAIN d.timers : d.timers[i].when = "running" => i \in DOMAIN t
  BY <1>1, <1>5
<1>8. /\ AtRest(c) => AtRest(d)
      /\ OneRuns(c) => OneRuns(d)
  BY <1>5, <1>7 DEF AtRest, OneRuns
<1>9. \A g : Runs(c, g) => Runs(d, g)
  BY <1>5 DEF Runs
<1>10. Ends(d, f)
  BY <1>1, <1>3, <1>5 DEF Ends
<1> QED BY <1>4, <1>6, <1>8, <1>9, <1>10 DEF Keeps, d

(* Cancelling the first delayed callback of a function: what is run or was set
   last is still there, unless it is of that function.                      *)
LEMMA CancelIs ==
  ASSUME NEW c \in Ctx, NEW f \in Callbacks \ Dump
  PROVE  LET d == Cancel(c, f)
         IN  /\ d \in Ctx /\ Same(c, d) /\ Keeps(c, d)
             /\ \A g : g # f /\ Runs(c, g) => Runs(d, g)
             /\ \A g : g # f /\ Ends(c, g) => Ends(d, g)
<1> DEFINE d == Cancel(c, f)
           t == c.timers
           i == First(t, f)
<1>1. CASE \A k \in DOMAIN t : t[k].cb # f
  <2>1. d = c
    BY <1>1 DEF Cancel
  <2> QED BY <2>1, KeepsList DEF Same
<1>2. CASE \E k \in DOMAIN t : t[k].cb = f
  <2>1. t \in Seq(Entry)
    BY DEF Ctx
  <2>2. i \in DOMAIN t /\ t[i].cb = f
    BY <1>2, <2>1, FirstIs
  <2>3. d = [c EXCEPT !.timers = RemoveAt(t, i)]
    BY <1>2 DEF Cancel, Ctx
  <2> HIDE DEF i
  <2> DEFINE r == RemoveAt(t, i)
  <2>4. /\ r \in Seq(Entry)
        /\ \A j \in DOMAIN t : j # i => \E k \in DOMAIN r : r[k] = t[j]
        /\ \A k \in DOMAIN r : Before(k, i) \in DOMAIN t \ {i} /\ r[k] = t[Before(k, i)]
        /\ \A k, m \in DOMAIN r : Before(k, i) = Before(m, i) => k = m
    BY <2>1, <2>2, RemoveAtKeeps
  <2>5. /\ Len(r) = Len(t) - 1
        /\ \A k \in 1..(Len(t) - 1) : r[k] = IF k < i THEN t[k] ELSE t[k + 1]
    BY <2>1, <2>2, RemoveAtIs
  <2> HIDE DEF r
  <2>6. d \in Ctx /\ Same(c, d) /\ d.timers = r
    BY <2>3, <2>4 DEF Ctx, Same, r
  <2> HIDE DEF d
  <2>7. Has(c, Dump) => Has(d, Dump)
    BY <2>2, <2>4, <2>6 DEF Has
  <2>8. /\ AtRest(c) => AtRest(d)
        /\ OneRuns(c) => OneRuns(d)
    BY <2>4, <2>6 DEF AtRest, OneRuns
  <2>9. ASSUME NEW g, g # f, Runs(c, g)
        PROVE  Runs(d, g)
    BY <2>2, <2>4, <2>6, <2>9 DEF Runs
  <2>10. ASSUME NEW g, g # f, Ends(c, g)
         PROVE  Ends(d, g)
    <3>1. Len(t) \in Nat /\ DOMAIN t = 1..Len(t) /\ i \in 1..Len(t)
      BY <2>1, <2>2
    <3>2. i # Len(t)
      BY <2>2, <2>10 DEF Ends
    <3>3. Len(t) - 1 \in 1..(Len(t) - 1) /\ ~(Len(t) - 1 < i) /\ (Len(t) - 1) + 1 = Len(t)
      BY <3>1, <3>2
    <3>4. r[Len(t) - 1] = t[Len(t)]
      BY <2>5, <3>3
    <3>5. Len(d.timers) # 0 /\ d.timers[Len(d.timers)] = t[Len(t)]
      BY <2>5, <2>6, <3>3, <3>4
    <3> QED BY <2>10, <3>5 DEF Ends
  <2> QED BY <2>6, <2>7, <2>8, <2>9, <2>10 DEF Keeps, d
<1> QED BY <1>1, <1>2

-----------------------------------------------------------------------------
(* What the operators do that neither register the device nor give it other
   tokens, though they may forget both.                                     *)
Quiet(c, d) ==
  /\ d \in Ctx /\ Keeps(c, d)
  /\ LoginOK(c.status) => LoginOK(d.status)
  /\ "registered" \in d.status => /\ "registered" \in c.status
                                  /\ d.token = c.token /\ d.refresh = c.refresh

(* The invariant of a context, with the store st *)
Fine(c, st) == c \in Ctx /\ LoginOK(c.status) /\ Saved(c, st)

(* Nothing happens. *)
LEMMA QuietRefl ==
  ASSUME NEW c \in Ctx
  PROVE  Quiet(c, c)
BY KeepsList DEF Quiet

(* One after the other *)
LEMMA QuietTrans ==
  ASSUME NEW c, NEW d, NEW e, Quiet(c, d), Quiet(d, e)
  PROVE  Quiet(c, e)
<1>1. Keeps(c, e)
  BY KeepsTrans DEF Quiet
<1> QED BY <1>1 DEF Quiet

(* Quiet operators keep the invariant. *)
LEMMA QuietFine ==
  ASSUME NEW c, NEW d, NEW st, Fine(c, st), Quiet(c, d)
  PROVE  Fine(d, st)
BY DEF Fine, Quiet, Keeps, Saved

(* Only the list changes. *)
LEMMA SameQuiet ==
  ASSUME NEW c, NEW d \in Ctx, Same(c, d), Keeps(c, d)
  PROVE  Quiet(c, d)
BY DEF Same, Quiet

(* The list stays, and so do the registration and the tokens. *)
LEMMA ListQuiet ==
  ASSUME NEW c, NEW d \in Ctx, d.timers = c.timers, d.status = c.status,
         d.token = c.token, d.refresh = c.refresh
  PROVE  Quiet(c, d)
BY KeepsList DEF Quiet

(* The registration is forgotten. *)
LEMMA ForgottenQuiet ==
  ASSUME NEW c, NEW d \in Ctx, Keeps(c, d), d.status = {}
  PROVE  Quiet(c, d)
BY DEF Quiet, LoginOK

(* A callback is set. *)
LEMMA AddQuiet ==
  ASSUME NEW c \in Ctx, NEW f \in Callbacks, NEW w \in {"now", "later"}
  PROVE  /\ Quiet(c, Add(c, f, w)) /\ Add(c, f, w) \in Ctx
         /\ Ends(Add(c, f, w), f) /\ Add(c, f, w).status = c.status
         /\ \A g : Runs(c, g) => Runs(Add(c, f, w), g)
BY AddIs, SameQuiet DEF Same

(* A callback is cancelled. *)
LEMMA CancelQuiet ==
  ASSUME NEW c \in Ctx, NEW f \in Callbacks \ Dump
  PROVE  /\ Quiet(c, Cancel(c, f)) /\ Cancel(c, f) \in Ctx
         /\ Cancel(c, f).status = c.status
BY CancelIs, SameQuiet DEF Same

(* cloud_manager_stop *)
LEMMA StopIs ==
  ASSUME NEW c \in Ctx
  PROVE  LET d == cloud_manager_stop(c)
         IN  /\ d \in Ctx /\ Same(c, d) /\ Keeps(c, d)
             /\ Runs(c, "restart_manager") => Runs(d, "restart_manager")
<1> DEFINE c1 == Cancel(c, "cloud_register")
           c2 == Cancel(c1, "cloud_login")
           c3 == Cancel(c2, "send_ping")
           c4 == Cancel(c3, "refresh_token")
           c5 == Cancel(c4, "callback_handler")
           R(x) == Runs(x, "restart_manager")
<1> USE DEF Callbacks, Dump
<1>1. c1 \in Ctx /\ Same(c, c1) /\ Keeps(c, c1) /\ (R(c) => R(c1))
  BY CancelIs
<1> HIDE DEF c1
<1>2. c2 \in Ctx /\ Same(c1, c2) /\ Keeps(c1, c2) /\ (R(c1) => R(c2))
  BY <1>1, CancelIs
<1> HIDE DEF c2
<1>3. c3 \in Ctx /\ Same(c2, c3) /\ Keeps(c2, c3) /\ (R(c2) => R(c3))
  BY <1>2, CancelIs
<1> HIDE DEF c3
<1>4. c4 \in Ctx /\ Same(c3, c4) /\ Keeps(c3, c4) /\ (R(c3) => R(c4))
  BY <1>3, CancelIs
<1> HIDE DEF c4
<1>5. c5 \in Ctx /\ Same(c4, c5) /\ Keeps(c4, c5) /\ (R(c4) => R(c5))
  BY <1>4, CancelIs
<1> HIDE DEF c5
<1>6. cloud_manager_stop(c) = c5
  BY DEF cloud_manager_stop, c1, c2, c3, c4, c5
<1>7. Same(c, c5)
  BY <1>1, <1>2, <1>3, <1>4, <1>5 DEF Same
<1>8. Keeps(c, c5)
  BY <1>1, <1>2, <1>3, <1>4, <1>5, KeepsTrans
<1> QED BY <1>1, <1>2, <1>3, <1>4, <1>5, <1>6, <1>7, <1>8

(* The error exit of the handlers *)
LEMMA FailedIs ==
  ASSUME NEW c \in Ctx
  PROVE  /\ Failed(c) \in Ctx /\ Quiet(c, Failed(c))
         /\ Failed(c).status = c.status \cup {"failure"}
         /\ Failed(c).timers = c.timers
<1> DEFINE d == Failed(c)
<1>1. /\ d \in Ctx /\ d.status = c.status \cup {"failure"}
      /\ d.timers = c.timers /\ d.token = c.token /\ d.refresh = c.refresh
  BY DEF Failed, Ctx, Cps, Flags
<1> HIDE DEF d
<1>2. Keeps(c, d)
  BY <1>1, KeepsList
<1> QED BY <1>1, <1>2 DEF Quiet, LoginOK, d

(* The counters stay within a uint8_t. *)
LEMMA CounterRange ==
  /\ 0 \in 0..(CounterSize - 1)
  /\ \A n \in 0..(CounterSize - 1) : (n + 1) % CounterSize \in 0..(CounterSize - 1)
<1>1. CounterSize \in Nat \ {0}
  BY CountsAssumption
<1>2. \A m \in Nat : m % CounterSize \in 0..(CounterSize - 1)
  BY <1>1
<1> QED BY <1>1, <1>2

(* The else branch of the handlers: the report is the last callback set. *)
LEMMA AgainQuiet ==
  ASSUME NEW c \in Ctx, NEW f \in {"cloud_register", "cloud_login", "refresh_token"},
         NEW retry \in BOOLEAN
  PROVE  Quiet(c, Again(c, f, retry)) /\ Ends(Again(c, f, retry), "callback_handler")
<1> DEFINE b == Failed(c)
           d == Cancel(b, f)
           e == IF retry THEN Add(d, f, "later") ELSE d
           g == Add(e, "callback_handler", "now")
<1> USE DEF Callbacks, Dump
<1>1. b \in Ctx /\ Quiet(c, b)
  BY FailedIs
<1> HIDE DEF b
<1>2. d \in Ctx /\ Quiet(b, d)
  BY <1>1, CancelQuiet
<1> HIDE DEF d
<1>3. e \in Ctx /\ Quiet(d, e)
  BY <1>2, AddQuiet, QuietRefl
<1> HIDE DEF e
<1>4. Quiet(e, g) /\ Ends(g, "callback_handler")
  BY <1>3, AddQuiet
<1>5. Again(c, f, retry) = g
  BY DEF Again, b, d, e
<1> HIDE DEF g
<1> QED BY <1>1, <1>2, <1>3, <1>4, <1>5, QuietTrans

(* send_ping_handler *)
LEMMA PingQuiet ==
  ASSUME NEW c \in Ctx, NEW code
  PROVE  /\ Quiet(c, send_ping_handler(c, code))
         /\ SparesDump(c) => SparesDump(send_ping_handler(c, code))
<1>1. CASE "loggedin" \notin c.status
  BY <1>1, QuietRefl DEF send_ping_handler
<1>2. CASE "loggedin" \in c.status
  <2> DEFINE b == Cancel(c, "send_ping")
             d == Add(b, "send_ping", "later")
             e == [d EXCEPT !.retry = 0]
  <2> USE DEF Callbacks, Dump
  <2>1. b \in Ctx /\ Quiet(c, b)
    BY CancelQuiet
  <2> HIDE DEF b
  <2>2. d \in Ctx /\ Quiet(b, d) /\ Ends(d, "send_ping")
    BY <2>1, AddQuiet
  <2> HIDE DEF d
  <2>3. Quiet(c, d)
    BY <2>1, <2>2, QuietTrans
  <2>4. /\ e \in Ctx /\ e.timers = d.timers /\ e.status = d.status
        /\ e.token = d.token /\ e.refresh = d.refresh
    BY <2>2, CounterRange DEF Ctx
  <2> HIDE DEF e
  <2>5. Quiet(d, e) /\ Ends(e, "send_ping")
    BY <2>2, <2>4, ListQuiet, KeepsList
  <2>6. send_ping_handler(c, code) \in {d, e}
    BY <1>2 DEF send_ping_handler, b, d, e
  <2>7. Quiet(c, e)
    BY <2>3, <2>5, QuietTrans
  <2>8. SparesDump(d) /\ SparesDump(e)
    BY <2>2, <2>5 DEF SparesDump
  <2> QED BY <2>3, <2>6, <2>7, <2>8
<1> QED BY <1>1, <1>2

(* cloud_deregistered_internal *)
LEMMA DeregisteredQuiet ==
  ASSUME NEW c \in Ctx, NEW gone \in BOOLEAN
  PROVE  /\ Quiet(c, Deregistered(c, gone)) /\ Deregistered(c, gone) \in Ctx
         /\ gone => Deregistered(c, gone).status = {}
<1> DEFINE d == Deregistered(c, gone)
<1>1. /\ d \in Ctx /\ d.timers = c.timers /\ d.token = c.token /\ d.refresh = c.refresh
      /\ d.status = {} \/ d.status = c.status \ {"failure", "deregistered"}
      /\ gone => d.status = {}
  BY DEF Deregistered, Ctx, Cps, Flags
<1> HIDE DEF d
<1>2. Quiet(c, d)
  BY <1>1, KeepsList DEF Quiet, LoginOK
<1> QED BY <1>1, <1>2 DEF d

(* cloud_store_initialize, and clearing the endpoint *)
LEMMA InitializeIs ==
  ASSUME NEW c \in Ctx
  PROVE  /\ LET d == cloud_store_initialize(c)
            IN  d \in Ctx /\ d.status = {} /\ d.timers = c.timers /\ Quiet(c, d)
         /\ LET d == ZeroEndpoint(c)
            IN  d \in Ctx /\ d.status = c.status /\ d.timers = c.timers /\ Quiet(c, d)
<1> DEFINE d == cloud_store_initialize(c)
           e == ZeroEndpoint(c)
<1>1. d \in Ctx /\ d.status = {} /\ d.timers = c.timers
  BY DEF cloud_store_initialize, Ctx
<1>2. /\ e \in Ctx /\ e.timers = c.timers /\ e.status = c.status
      /\ e.token = c.token /\ e.refresh = c.refresh
  BY DEF ZeroEndpoint, Ctx
<1> HIDE DEF d, e
<1>3. Quiet(c, d)
  BY <1>1, KeepsList, ForgottenQuiet
<1>4. Quiet(c, e)
  BY <1>2, ListQuiet
<1> QED BY <1>1, <1>2, <1>3, <1>4 DEF d, e

(* cloud_deregister_on_reset_internal *)
LEMMA ForgetQuiet ==
  ASSUME NEW c \in Ctx
  PROVE  /\ Quiet(c, ForgetOnReset(c)) /\ ForgetOnReset(c) \in Ctx
         /\ ForgetOnReset(c).status = {}
<1> DEFINE b == ZeroEndpoint(c)
           d == cloud_store_initialize(b)
           e == cloud_manager_stop(d)
           g == [e EXCEPT !.cps = "uninitialized"]
<1>1. b \in Ctx /\ Quiet(c, b)
  BY InitializeIs
<1> HIDE DEF b
<1>2. d \in Ctx /\ Quiet(b, d) /\ d.status = {}
  BY <1>1, InitializeIs
<1> HIDE DEF d
<1>3. e \in Ctx /\ Quiet(d, e) /\ e.status = {}
  BY <1>2, StopIs, SameQuiet DEF Same
<1> HIDE DEF e
<1>4. /\ g \in Ctx /\ g.timers = e.timers /\ g.status = e.status
      /\ g.token = e.token /\ g.refresh = e.refresh
  BY <1>3 DEF Ctx, Cps
<1>5. ForgetOnReset(c) = g
  BY DEF ForgetOnReset, b, d, e
<1> HIDE DEF g
<1>6. Quiet(e, g)
  BY <1>4, ListQuiet
<1> QED BY <1>1, <1>2, <1>3, <1>4, <1>5, <1>6, QuietTrans

(* cloud_store_dump_async *)
LEMMA DumpAsyncQuiet ==
  ASSUME NEW c \in Ctx
  PROVE  /\ Quiet(c, DumpAsync(c)) /\ DumpAsync(c) \in Ctx /\ Has(DumpAsync(c), Dump)
         /\ DumpAsync(c).status = c.status
BY AddIs, SameQuiet DEF DumpAsync, Callbacks, Dump, Same

(* Flags that say nothing of registration and login are cleared. *)
LEMMA ReportQuiet ==
  ASSUME NEW c \in Ctx, NEW S, "registered" \notin S, "loggedin" \notin S
  PROVE  LET d == [c EXCEPT !.status = @ \ S]
         IN  d \in Ctx /\ Quiet(c, d) /\ (SparesDump(c) => SparesDump(d))
<1> DEFINE d == [c EXCEPT !.status = @ \ S]
<1>1. /\ d \in Ctx /\ d.timers = c.timers /\ d.token = c.token /\ d.refresh = c.refresh
      /\ d.status = c.status \ S
  BY DEF Ctx
<1> HIDE DEF d
<1>2. Quiet(c, d)
  BY <1>1, KeepsList DEF Quiet, LoginOK
<1>3. SparesDump(c) => SparesDump(d)
  BY <1>1 DEF SparesDump, Ends
<1> QED BY <1>1, <1>2, <1>3 DEF d

(* Whatever the request, its handler is quiet when it is told 5.03, and when it
   sets the write of the store last, the device is no longer registered.    *)
LEMMA UnavailableQuiet ==
  ASSUME NEW c \in Ctx, NEW kind
  PROVE  LET d == Unavailable(c, kind)
         IN  Quiet(c, d) /\ (SparesDump(c) => SparesDump(d))
<1>1. CASE kind \in {"register", "login", "refresh"}
  <2>1. PICK f \in {"cloud_register", "cloud_login", "refresh_token"} :
          Unavailable(c, kind) = Again(c, f, TRUE)
    BY <1>1 DEF Unavailable
  <2>2. Quiet(c, Again(c, f, TRUE)) /\ Ends(Again(c, f, TRUE), "callback_handler")
    BY AgainQuiet
  <2>3. "callback_handler" \in Callbacks \ Dump
    BY DEF Callbacks, Dump
  <2> QED BY <2>1, <2>2, <2>3 DEF SparesDump
<1>2. CASE kind = "ping"
  BY <1>2, PingQuiet DEF Unavailable
<1>3. CASE kind = "Deregister"
  <2> DEFINE b == Deregistered(c, TRUE)
             d == DumpAsync(b)
  <2>1. Unavailable(c, kind) = d
    BY <1>3 DEF Unavailable
  <2>2. Quiet(c, b) /\ b \in Ctx /\ b.status = {}
    BY DeregisteredQuiet
  <2> HIDE DEF b
  <2>3. Quiet(b, d) /\ d.status = {}
    BY <2>2, DumpAsyncQuiet
  <2> HIDE DEF d
  <2> QED BY <2>1, <2>2, <2>3, QuietTrans DEF SparesDump
<1>4. CASE kind = "ResetDeregister"
  <2> DEFINE b == Deregistered(c, TRUE)
             e == ForgetOnReset(b)
             d == DumpAsync(e)
  <2>1. Unavailable(c, kind) = d
    BY <1>4 DEF Unavailable
  <2>2. Quiet(c, b) /\ b \in Ctx
    BY DeregisteredQuiet
  <2> HIDE DEF b
  <2>3. Quiet(b, e) /\ e \in Ctx /\ e.status = {}
    BY <2>2, ForgetQuiet
  <2> HIDE DEF e
  <2>4. Quiet(e, d) /\ d.status = {}
    BY <2>3, DumpAsyncQuiet
  <2> HIDE DEF d
  <2> QED BY <2>1, <2>2, <2>3, <2>4, QuietTrans DEF SparesDump
<1>5. CASE kind = "Logout"
  <2>1. Unavailable(c, kind) = [c EXCEPT !.status = @ \ {"failure", "loggedout"}]
    BY <1>5 DEF Unavailable
  <2> QED BY <2>1, ReportQuiet
<1>6. CASE kind \notin {"register", "login", "refresh", "ping", "Deregister",
                        "ResetDeregister", "Logout"}
  <2> DEFINE b == Failed(c)
             S == IF kind = "Refresh" THEN {"failure", "expiry", "refreshed"}
                  ELSE {"failure", "expiry"}
             d == [b EXCEPT !.status = @ \ S]
  <2>1. Unavailable(c, kind) = d
    BY <1>6 DEF Unavailable
  <2>2. b \in Ctx /\ Quiet(c, b) /\ (SparesDump(c) => SparesDump(b))
    BY FailedIs DEF SparesDump, Ends
  <2>3. "registered" \notin S /\ "loggedin" \notin S
    OBVIOUS
  <2> HIDE DEF b, S
  <2>4. Quiet(b, d) /\ (SparesDump(b) => SparesDump(d))
    BY <2>2, <2>3, ReportQuiet
  <2> HIDE DEF d
  <2> QED BY <2>1, <2>2, <2>4, QuietTrans
<1> QED BY <1>1, <1>2, <1>3, <1>4, <1>5, <1>6

(* oc_tls_free_peer tells one request after the other: the recursive function
   of FreePeer exists.                                                      *)
LEMMA FreePeerUnfolds ==
  ASSUME NEW c \in Ctx
  PROVE  \E told : /\ told = [n \in 0..Len(c.reqs) |->
                                IF n = 0 THEN [c EXCEPT !.reqs = <<>>, !.live = FALSE]
                                ELSE Unavailable(told[n - 1], c.reqs[n])]
                   /\ FreePeer(c) = told[Len(c.reqs)]
<1> DEFINE L == Len(c.reqs)
           b == [c EXCEPT !.reqs = <<>>, !.live = FALSE]
           Is(g, m) == g = [n \in 0..m |-> IF n = 0 THEN b ELSE Unavailable(g[n - 1], c.reqs[n])]
           S == {m \in 0..L : ~ \E g : Is(g, m)}
<1>1. L \in Nat
  BY DEF Ctx
<1>2. S = {}
  <2> SUFFICES ASSUME S # {}
               PROVE  FALSE
    OBVIOUS
  <2>1. S \subseteq Nat
    BY <1>1
  <2>2. PICK m \in S : \A k \in S : m <= k
    BY <2>1, LeastNat
  <2>3. m \in 0..L
    OBVIOUS
  <2> HIDE DEF b
  <2>4. m # 0
    <3> DEFINE h == [n \in 0..0 |-> b]
    <3>1. Is(h, 0)
      <4>1. \A n \in 0..0 : n = 0
        OBVIOUS
      <4> QED BY <4>1
    <3> QED BY <2>2, <3>1
  <2>5. m - 1 \in 0..L /\ m - 1 \notin S
    <3> HIDE DEF S
    <3>1. m - 1 \in 0..L /\ ~(m <= m - 1)
      BY <1>1, <2>3, <2>4
    <3> QED BY <2>2, <3>1
  <2>6. PICK g : Is(g, m - 1)
    BY <2>5
  <2> DEFINE h == [n \in 0..m |-> IF n = m THEN Unavailable(g[m - 1], c.reqs[m]) ELSE g[n]]
  <2>7. \A n \in 0..m : h[n] = IF n = 0 THEN b ELSE Unavailable(h[n - 1], c.reqs[n])
    <3> TAKE n \in 0..m
    <3>1. CASE n = m
      <4>1. n # 0 /\ n - 1 \in 0..m /\ n - 1 # m
        BY <2>3, <2>4, <3>1
      <4> QED BY <3>1, <4>1
    <3>2. CASE n # m
      <4>1. /\ n \in 0..(m - 1) /\ h[n] = g[n]
            /\ n # 0 => n - 1 \in 0..m /\ n - 1 # m /\ h[n - 1] = g[n - 1]
        BY <2>3, <3>2
      <4>2. g[n] = IF n = 0 THEN b ELSE Unavailable(g[n - 1], c.reqs[n])
        BY <2>6, <4>1
      <4> QED BY <4>1, <4>2
    <3> QED BY <3>1, <3>2
  <2>8. Is(h, m)
    BY <2>7
  <2> QED BY <2>2, <2>8
<1>3. \E g : Is(g, L)
  BY <1>1, <1>2
<1>4. FreePeer(c) = (CHOOSE g : Is(g, L))[L]
  BY DEF FreePeer
<1> HIDE DEF b
<1>5. Is(CHOOSE g : Is(g, L), L)
  BY <1>3
<1> QED BY <1>4, <1>5 DEF b

(* ... all of which are quiet. *)
LEMMA FreePeerQuiet ==
  ASSUME NEW c \in Ctx
  PROVE  LET d == FreePeer(c)
         IN  Quiet(c, d) /\ (SparesDump(c) => SparesDump(d))
<1> DEFINE L == Len(c.reqs)
           b == [c EXCEPT !.reqs = <<>>, !.live = FALSE]
           Told(d) == Quiet(c, d) /\ (SparesDump(c) => SparesDump(d))
<1>1. PICK told : /\ told = [n \in 0..L |-> IF n = 0 THEN b
                                            ELSE Unavailable(told[n - 1], c.reqs[n])]
                  /\ FreePeer(c) = told[L]
  BY FreePeerUnfolds
<1>2. L \in Nat
  BY DEF Ctx
<1>3. Told(b)
  <2>1. <<>> \in Seq(Kind)
    OBVIOUS
  <2>2. /\ b \in Ctx /\ b.timers = c.timers /\ b.status = c.status
        /\ b.token = c.token /\ b.refresh = c.refresh
    BY <2>1 DEF Ctx
  <2> HIDE DEF b
  <2> QED BY <2>2, ListQuiet DEF SparesDump, Ends
<1> HIDE DEF b
<1>4. /\ told[0] = b
      /\ \A n \in 1..L : told[n] = Unavailable(told[n - 1], c.reqs[n])
  <2>1. 0 \in 0..L /\ \A n \in 1..L : n \in 0..L /\ n # 0
    BY <1>2
  <2> QED BY <1>1, <2>1
<1> HIDE DEF Told
<1> DEFINE S == {n \in 0..L : ~Told(told[n])}
<1>5. S = {}
  <2> SUFFICES ASSUME S # {}
               PROVE  FALSE
    OBVIOUS
  <2>1. S \subseteq Nat
    BY <1>2
  <2>2. PICK m \in S : \A k \in S : m <= k
    BY <2>1, LeastNat
  <2>3. m \in 0..L /\ ~Told(told[m])
    OBVIOUS
  <2>4. m # 0
    BY <1>3, <1>4, <2>3
  <2>5. m - 1 \in 0..L /\ m \in 1..L /\ ~(m <= m - 1)
    BY <1>2, <2>3, <2>4
  <2>6. m - 1 \notin S
    <3> HIDE DEF S
    <3> QED BY <2>2, <2>5
  <2>7. Told(told[m - 1])
    BY <2>5, <2>6
  <2>8. told[m - 1] \in Ctx
    BY <2>7 DEF Told, Quiet
  <2> DEFINE x == told[m - 1]
             y == told[m]
  <2>9. y = Unavailable(x, c.reqs[m])
    BY <1>4, <2>5
  <2>10. x \in Ctx /\ Told(x) /\ ~Told(y)
    BY <2>3, <2>7, <2>8
  <2> HIDE DEF x, y
  <2>11. Quiet(x, y) /\ (SparesDump(x) => SparesDump(y))
    BY <2>9, <2>10, UnavailableQuiet
  <2> QED BY <2>10, <2>11, QuietTrans DEF Told
<1>6. Told(told[L])
  BY <1>2, <1>5
<1> QED BY <1>1, <1>6 DEF Told

(* cloud_close_endpoint *)
LEMMA CloseQuiet ==
  ASSUME NEW c \in Ctx
  PROVE  LET d == cloud_close_endpoint(c)
         IN  d \in Ctx /\ Quiet(c, d) /\ (SparesDump(c) => SparesDump(d))
<1> DEFINE b == FreePeer(c)
           d == [b EXCEPT !.ending = TRUE]
<1>1. Quiet(c, b) /\ b \in Ctx /\ (SparesDump(c) => SparesDump(b))
  BY FreePeerQuiet DEF Quiet
<1>2. cloud_close_endpoint(c) = c \/ cloud_close_endpoint(c) = d
  BY DEF cloud_close_endpoint
<1> HIDE DEF b
<1>3. /\ d \in Ctx /\ d.timers = b.timers /\ d.status = b.status
      /\ d.token = b.token /\ d.refresh = b.refresh
  BY <1>1 DEF Ctx
<1> HIDE DEF d
<1>4. Quiet(b, d) /\ (SparesDump(b) => SparesDump(d))
  BY <1>3, ListQuiet DEF SparesDump, Ends
<1> QED BY <1>1, <1>2, <1>3, <1>4, QuietTrans, QuietRefl

-----------------------------------------------------------------------------
(* The delayed callbacks *)

(* cloud_reconnect *)
LEMMA ReconnectIs ==
  ASSUME NEW c \in Ctx
  PROVE  LET d == cloud_reconnect(c)
         IN  d \in Ctx /\ Quiet(c, d) /\ (SparesDump(c) => SparesDump(d))
<1> DEFINE d == cloud_reconnect(c)
<1>1. CASE SessionEvents /\ c.seen
  <2>1. d = cloud_close_endpoint(c)
    BY <1>1 DEF cloud_reconnect
  <2> QED BY <2>1, CloseQuiet
<1>2. CASE ~(SessionEvents /\ c.seen)
  <2> DEFINE b == Cancel(c, "restart_manager")
  <2> USE DEF Callbacks, Dump
  <2>1. b \in Ctx /\ Quiet(c, b)
    BY CancelQuiet
  <2>2. d = Add(b, "restart_manager", "now")
    BY <1>2 DEF cloud_reconnect
  <2> HIDE DEF b, d
  <2>3. d \in Ctx /\ Quiet(b, d) /\ Ends(d, "restart_manager")
    BY <2>1, <2>2, AddQuiet
  <2>4. d \in Ctx /\ Quiet(c, d) /\ SparesDump(d)
    BY <2>1, <2>3, QuietTrans DEF SparesDump
  <2> QED BY <2>4 DEF d
<1> QED BY <1>1, <1>2

(* reconnect, when the retries are over: it sets the report before it cancels
   refresh_token, so that a write that was pending is not the last entry.   *)
LEMMA RetriesOver ==
  ASSUME NEW c \in Ctx
  PROVE  LET d == reconnect(c)
         IN  Quiet(c, d) /\ SparesDump(d)
<1> DEFINE a == Add(c, "callback_handler", "now")
           b == Cancel(a, "refresh_token")
           d == cloud_reconnect(b)
<1> USE DEF Callbacks, Dump
<1>1. a \in Ctx /\ Quiet(c, a) /\ Ends(a, "callback_handler")
  BY AddQuiet
<1> HIDE DEF a
<1>2. b \in Ctx /\ Quiet(a, b)
  BY <1>1, CancelQuiet
<1>3. Ends(b, "callback_handler")
  BY <1>1, CancelIs
<1>4. reconnect(c) = d
  BY DEF reconnect, a
<1> HIDE DEF b
<1>5. SparesDump(b)
  BY <1>3 DEF SparesDump
<1>6. Quiet(b, d) /\ SparesDump(d)
  BY <1>2, <1>5, ReconnectIs
<1> HIDE DEF d
<1> QED BY <1>1, <1>2, <1>4, <1>6, QuietTrans

(* cloud_manager_restart *)
LEMMA RestartIs ==
  ASSUME NEW c \in Ctx
  PROVE  LET d == cloud_manager_restart(c)
         IN  /\ d \in Ctx /\ Quiet(c, d)
             /\ Runs(c, "restart_manager") => Runs(d, "restart_manager")
<1> DEFINE a == cloud_manager_stop(c)
           b == Cancel(a, "start_manager")
           d == Add(b, "start_manager", "now")
           R(x) == Runs(x, "restart_manager")
<1> USE DEF Callbacks, Dump
<1>1. a \in Ctx /\ Quiet(c, a) /\ (R(c) => R(a))
  BY StopIs, SameQuiet
<1> HIDE DEF a
<1>2. b \in Ctx /\ Quiet(a, b) /\ (R(a) => R(b))
  BY <1>1, CancelIs, SameQuiet
<1> HIDE DEF b
<1>3. d \in Ctx /\ Quiet(b, d) /\ (R(b) => R(d))
  BY <1>2, AddQuiet
<1>4. cloud_manager_restart(c) = d
  BY DEF cloud_manager_restart, a, b
<1> HIDE DEF d
<1> QED BY <1>1, <1>2, <1>3, <1>4, QuietTrans

(* cloud_start_process *)
LEMMA StartIs ==
  ASSUME NEW c \in Ctx
  PROVE  LET d == cloud_manager_start(c)
         IN  /\ d \in Ctx /\ Quiet(c, d)
             /\ \A g : Runs(c, g) => Runs(d, g)
<1> DEFINE b == [c EXCEPT !.retry = 0]
           f == IF c.status = {} THEN "cloud_register"
                ELSE IF c.refresh # 0 THEN "refresh_token" ELSE "cloud_login"
           d == Add(b, f, "later")
<1>1. /\ b \in Ctx /\ b.timers = c.timers /\ b.status = c.status
      /\ b.token = c.token /\ b.refresh = c.refresh
  BY CounterRange DEF Ctx
<1>2. cloud_manager_start(c) = d
  BY DEF cloud_manager_start
<1> HIDE DEF b
<1>3. f \in Callbacks
  BY DEF Callbacks
<1> HIDE DEF f
<1>4. Quiet(c, b) /\ \A g : Runs(c, g) <=> Runs(b, g)
  BY <1>1, ListQuiet, KeepsList
<1>5. d \in Ctx /\ Quiet(b, d) /\ \A g : Runs(b, g) => Runs(d, g)
  BY <1>1, <1>3, AddQuiet
<1> HIDE DEF d
<1> QED BY <1>2, <1>4, <1>5, QuietTrans

(* A request is sent. *)
LEMMA SentIs ==
  ASSUME NEW c \in Ctx, NEW kind \in Kind
  PROVE  LET d == Sent(c, kind)
         IN  /\ d \in Ctx /\ Quiet(c, d) /\ d.status = c.status /\ d.cps = c.cps
             /\ \A g : Runs(c, g) => Runs(d, g)
<1> DEFINE d == Sent(c, kind)
<1>1. Append(c.reqs, kind) \in Seq(Kind)
  BY DEF Ctx
<1>2. /\ d \in Ctx /\ d.timers = c.timers /\ d.status = c.status /\ d.cps = c.cps
      /\ d.token = c.token /\ d.refresh = c.refresh
  BY <1>1 DEF Ctx, Sent
<1> HIDE DEF d
<1>3. Quiet(c, d) /\ \A g : Runs(c, g) => Runs(d, g)
  BY <1>2, ListQuiet, KeepsList
<1> QED BY <1>2, <1>3 DEF d

(* The state of the provisioning changes. *)
LEMMA CpsIs ==
  ASSUME NEW c \in Ctx, NEW p \in Cps
  PROVE  LET d == [c EXCEPT !.cps = p]
         IN  d \in Ctx /\ Quiet(c, d) /\ \A g : Runs(c, g) => Runs(d, g)
<1> DEFINE d == [c EXCEPT !.cps = p]
<1>1. /\ d \in Ctx /\ d.timers = c.timers /\ d.status = c.status
      /\ d.token = c.token /\ d.refresh = c.refresh
  BY DEF Ctx
<1> HIDE DEF d
<1>2. Quiet(c, d) /\ \A g : Runs(c, g) => Runs(d, g)
  BY <1>1, ListQuiet, KeepsList
<1> QED BY <1>1, <1>2 DEF d

(* A counter of retries changes. *)
LEMMA CountIs ==
  ASSUME NEW c \in Ctx, NEW d \in {[c EXCEPT !.retry = (@ + 1) % CounterSize],
                                   [c EXCEPT !.refreshes = (@ + 1) % CounterSize]}
  PROVE  d \in Ctx /\ Quiet(c, d) /\ \A g : Runs(c, g) => Runs(d, g)
<1>1. /\ d \in Ctx /\ d.timers = c.timers /\ d.status = c.status
      /\ d.token = c.token /\ d.refresh = c.refresh
  <2>1. /\ (c.retry + 1) % CounterSize \in 0..(CounterSize - 1)
        /\ (c.refreshes + 1) % CounterSize \in 0..(CounterSize - 1)
    BY CounterRange DEF Ctx
  <2> QED BY <2>1 DEF Ctx
<1> QED BY <1>1, ListQuiet, KeepsList

(* What a callback f leaves: it is quiet, and either its entry is still there
   or the last entry is not a write of a registration.                      *)
Leaves(c, d, f) == Quiet(c, d) /\ (Runs(d, f) \/ SparesDump(d))

(* A callback that has no retries left, or sends a request or cannot, and may
   set another one                                                          *)
LEMMA SendsIs ==
  ASSUME NEW c \in Ctx, NEW f, Runs(c, f), NEW b,
         b \in {[c EXCEPT !.retry = (@ + 1) % CounterSize],
                [c EXCEPT !.refreshes = (@ + 1) % CounterSize]},
         NEW kind \in Kind, NEW p \in Cps, NEW g \in Callbacks
  PROVE  /\ Leaves(c, c, f) /\ Leaves(c, b, f) /\ Leaves(c, reconnect(b), f)
         /\ Leaves(c, Sent(b, kind), f)
         /\ Leaves(c, Add(b, g, "later"), f)
         /\ Leaves(c, Add(Sent(b, kind), g, "later"), f)
         /\ Leaves(c, Add([Sent(b, kind) EXCEPT !.cps = p], g, "later"), f)
<1> DEFINE s == Sent(b, kind)
           u == [s EXCEPT !.cps = p]
           R(x) == x \in Ctx /\ Quiet(c, x) /\ Runs(x, f)
<1>1. R(c)
  BY QuietRefl
<1>2. R(b)
  BY CountIs
<1>3. R(s)
  <2> HIDE DEF s
  <2>1. s \in Ctx /\ Quiet(b, s) /\ \A h : Runs(b, h) => Runs(s, h)
    BY <1>2, SentIs DEF s
  <2> QED BY <1>2, <2>1, QuietTrans
<1>4. Quiet(b, reconnect(b)) /\ SparesDump(reconnect(b))
  BY <1>2, RetriesOver
<1> HIDE DEF s
<1>5. R(u)
  <2>1. u \in Ctx /\ Quiet(s, u) /\ \A h : Runs(s, h) => Runs(u, h)
    BY <1>3, CpsIs
  <2> HIDE DEF u
  <2> QED BY <1>3, <2>1, QuietTrans
<1> HIDE DEF u
<1>6. ASSUME NEW x, R(x)
      PROVE  R(Add(x, g, "later"))
  <2> DEFINE y == Add(x, g, "later")
  <2>1. y \in Ctx /\ Quiet(x, y) /\ \A h : Runs(x, h) => Runs(y, h)
    BY <1>6, AddQuiet
  <2> HIDE DEF y
  <2>2. R(y)
    BY <1>6, <2>1, QuietTrans
  <2> QED BY <2>2 DEF y
<1>7. R(Add(b, g, "later")) /\ R(Add(s, g, "later")) /\ R(Add(u, g, "later"))
  BY <1>2, <1>3, <1>5, <1>6
<1>8. ASSUME NEW x, R(x)
      PROVE  Leaves(c, x, f)
  BY <1>8 DEF Leaves
<1>9. Leaves(c, reconnect(b), f)
  BY <1>2, <1>4, QuietTrans DEF Leaves
<1> HIDE DEF R
<1> QED BY <1>1, <1>2, <1>3, <1>7, <1>8, <1>9 DEF s, u

(* Whatever callback is run *)
LEMMA RunIs ==
  ASSUME NEW c \in Ctx, NEW f \in Callbacks, Runs(c, f), NEW d \in Run(c, f)
  PROVE  Leaves(c, d, f)
<1> DEFINE b == [c EXCEPT !.retry = (@ + 1) % CounterSize]
           e == [c EXCEPT !.refreshes = (@ + 1) % CounterSize]
<1>0. /\ {"register", "login", "refresh", "ping"} \subseteq Kind /\ "registering" \in Cps
      /\ {"cloud_register", "cloud_login"} \subseteq Callbacks
  BY DEF Kind, ManagerRequests, Cps, Callbacks
<1>1. CASE f = "cloud_register"
  <2>1. \/ d = c
        \/ d = reconnect(b)
        \/ d = Add(b, "cloud_register", "later")
        \/ d = Add([Sent(b, "register") EXCEPT !.cps = "registering"], "cloud_register", "later")
    BY <1>1 DEF Run, cloud_register
  <2> QED BY <1>0, <2>1, SendsIs
<1>2. CASE f = "cloud_login"
  <2>1. \/ d = c
        \/ d = reconnect(b)
        \/ d = Add(b, "cloud_login", "later")
        \/ d = Add(Sent(b, "login"), "cloud_login", "later")
    BY <1>2 DEF Run, cloud_login
  <2> QED BY <1>0, <2>1, SendsIs
<1>3. CASE f = "refresh_token"
  <2>1. \/ d = c
        \/ d = reconnect(e)
        \/ d = Add(e, "cloud_login", "later")
        \/ d = Add(Sent(e, "refresh"), "cloud_login", "later")
    BY <1>3 DEF Run, refresh_token
  <2> QED BY <1>0, <2>1, SendsIs
<1>4. CASE f = "send_ping"
  <2>1. d = c \/ d = reconnect(b) \/ d = b \/ d = Sent(b, "ping")
    BY <1>4 DEF Run, send_ping
  <2> QED BY <1>0, <2>1, SendsIs
<1>5. CASE f = "callback_handler"
  <2>1. d = callback_handler(c)
    BY <1>5 DEF Run
  <2>2. /\ d \in Ctx /\ d.timers = c.timers /\ d.token = c.token /\ d.refresh = c.refresh
        /\ d.status = c.status \cap {"registered", "loggedin"}
    BY <2>1 DEF Ctx, callback_handler
  <2>3. Keeps(c, d) /\ Runs(d, f)
    BY <2>2, KeepsList
  <2> QED BY <2>2, <2>3 DEF Leaves, Quiet, LoginOK
<1>6. CASE f = "restart_manager"
  <2>1. d = cloud_manager_restart(c)
    BY <1>6 DEF Run
  <2> QED BY <1>6, <2>1, RestartIs DEF Leaves
<1>7. CASE f = "start_manager"
  <2> DEFINE a == [c EXCEPT !.at = FALSE]
  <2>1. d = cloud_manager_start(a)
    BY <1>7 DEF Run, start_manager
  <2>2. /\ a \in Ctx /\ a.timers = c.timers /\ a.status = c.status
        /\ a.token = c.token /\ a.refresh = c.refresh
    BY DEF Ctx
  <2> HIDE DEF a
  <2>3. Quiet(c, a) /\ Runs(a, f)
    BY <2>2, ListQuiet, KeepsList
  <2>4. Quiet(a, d) /\ Runs(d, f)
    BY <2>1, <2>2, <2>3, StartIs
  <2> QED BY <2>3, <2>4, QuietTrans DEF Leaves
<1>8. CASE f = "cloud_store_dump_handler"
  <2>1. d = c
    BY <1>8 DEF Run
  <2> QED BY <2>1, QuietRefl DEF Leaves
<1> QED BY <1>1, <1>2, <1>3, <1>4, <1>5, <1>6, <1>7, <1>8 DEF Callbacks

-----------------------------------------------------------------------------
(* The entry of the callback is removed when it returns.  When it freed its own
   entry, another one may be, but not the one that writes a registration.   *)
LEMMA ReturnedIs ==
  ASSUME NEW c \in Ctx, OneRuns(c), NEW f, Runs(c, f) \/ SparesDump(c),
         NEW e \in Returned(c)
  PROVE  /\ e \in Ctx /\ AtRest(e) /\ Same(c, e)
         /\ "registered" \in c.status /\ Has(c, Dump) => Has(e, Dump)
<1> DEFINE t == c.timers
<1>1. t \in Seq(Entry)
  BY DEF Ctx
<1>2. CASE \E j \in DOMAIN t : t[j].when = "running"
  <2> DEFINE i == CHOOSE j \in DOMAIN t : t[j].when = "running"
             r == RemoveAt(t, i)
  <2>1. i \in DOMAIN t /\ t[i].when = "running"
    BY <1>2
  <2>2. e = [c EXCEPT !.timers = r]
    BY <1>2 DEF Returned
  <2> HIDE DEF i
  <2>3. /\ r \in Seq(Entry)
        /\ \A j \in DOMAIN t : j # i => \E k \in DOMAIN r : r[k] = t[j]
        /\ \A k \in DOMAIN r : Before(k, i) \in DOMAIN t \ {i} /\ r[k] = t[Before(k, i)]
    BY <1>1, <2>1, RemoveAtKeeps
  <2> HIDE DEF r
  <2>4. e \in Ctx /\ Same(c, e) /\ e.timers = r
    BY <2>2, <2>3 DEF Ctx, Same
  <2>5. AtRest(e)
    BY <2>1, <2>3, <2>4 DEF AtRest, OneRuns
  <2>6. Has(c, Dump) => Has(e, Dump)
    BY <2>1, <2>3, <2>4 DEF Has
  <2> QED BY <2>4, <2>5, <2>6
<1>3. CASE ~ \E j \in DOMAIN t : t[j].when = "running"
  <2>1. SparesDump(c)
    BY <1>3 DEF Runs
  <2>2. e = c \/ e = [c EXCEPT !.timers = Front(t)]
    BY <1>3 DEF Returned
  <2>3. CASE e = c
    BY <1>3, <2>3 DEF AtRest, Same
  <2>4. CASE e = [c EXCEPT !.timers = Front(t)]
    <3>0. Len(t) \in Nat /\ DOMAIN t = 1..Len(t)
      BY <1>1
    <3>1. /\ Front(t) \in Seq(Entry)
          /\ \A k \in DOMAIN Front(t) : k \in DOMAIN t /\ Front(t)[k] = t[k]
          /\ \A k \in DOMAIN t : k # Len(t) => k \in DOMAIN Front(t)
      <4>2. Front(t) = SubSeq(t, 1, Len(t) - 1)
        BY DEF Front
      <4>3. CASE Len(t) = 0
        <5>1. Len(t) - 1 < 1 /\ DOMAIN t = {}
          BY <3>0, <4>3
        <5>2. SubSeq(t, 1, Len(t) - 1) = <<>>
          BY <1>1, <3>0, <5>1
        <5>3. <<>> \in Seq(Entry) /\ \A k \in DOMAIN <<>> : FALSE
          OBVIOUS
        <5> QED BY <4>2, <5>1, <5>2, <5>3, Zenon
      <4>4. CASE Len(t) # 0
        BY <1>1, <3>0, <4>2, <4>4
      <4> QED BY <4>3, <4>4
    <3>2. e \in Ctx /\ Same(c, e) /\ e.timers = Front(t)
      BY <2>4, <3>1 DEF Ctx, Same
    <3>3. AtRest(e)
      BY <1>3, <3>1, <3>2 DEF AtRest
    <3>4. ASSUME "registered" \in c.status, Has(c, Dump)
          PROVE  Has(e, Dump)
      <4>1. PICK k \in DOMAIN t : t[k].cb \in Dump /\ t[k].when # "running"
        BY <3>4 DEF Has
      <4>2. k # Len(t)
        BY <2>1, <3>4, <4>1 DEF SparesDump, Ends
      <4> QED BY <3>1, <3>2, <4>1, <4>2 DEF Has
    <3> QED BY <3>2, <3>3, <3>4
  <2> QED BY <2>2, <2>3, <2>4
<1> QED BY <1>2, <1>3

(* An entry is marked as being run. *)
LEMMA MarkIs ==
  ASSUME NEW c \in Ctx, AtRest(c), NEW i \in DOMAIN c.timers
  PROVE  LET d == [c EXCEPT !.timers[i].when = "running"]
         IN  /\ d \in Ctx /\ Same(c, d)
             /\ OneRuns(d) /\ Runs(d, c.timers[i].cb)
             /\ \A fs : Has(c, fs) /\ c.timers[i].cb \notin fs => Has(d, fs)
<1> DEFINE d == [c EXCEPT !.timers[i].when = "running"]
           t == c.timers
           u == [t EXCEPT ![i].when = "running"]
<1>1. t \in Seq(Entry) /\ t[i] \in Entry
  BY DEF Ctx
<1>2. DOMAIN t = 1..Len(t) /\ Len(t) \in Nat
  BY <1>1
<1>3. [t[i] EXCEPT !.when = "running"] \in Entry
  BY <1>1 DEF Entry
<1>4. /\ u \in Seq(Entry) /\ DOMAIN u = DOMAIN t
      /\ \A k \in DOMAIN t : k # i => u[k] = t[k]
      /\ u[i] = [t[i] EXCEPT !.when = "running"]
  BY <1>1, <1>2, <1>3
<1>5. u[i].when = "running" /\ u[i].cb = t[i].cb
  BY <1>1, <1>4 DEF Entry
<1>6. d = [c EXCEPT !.timers = u]
  BY DEF Ctx
<1> HIDE DEF u
<1>7. d \in Ctx /\ Same(c, d) /\ d.timers = u
  BY <1>4, <1>6 DEF Ctx, Same
<1> HIDE DEF d
<1>8. OneRuns(d)
  BY <1>4, <1>7 DEF OneRuns, AtRest
<1>9. Runs(d, t[i].cb)
  BY <1>4, <1>5, <1>7 DEF Runs
<1>10. \A fs : Has(c, fs) /\ t[i].cb \notin fs => Has(d, fs)
  BY <1>4, <1>7 DEF Has
<1> QED BY <1>7, <1>8, <1>9, <1>10 DEF d

(* A step of poll_event_callback_timers keeps the invariant. *)
LEMMA FireInv ==
  ASSUME IInv, Fire
  PROVE  IInv'
<1> DEFINE i == CHOOSE j \in Due : \A k \in Due : j <= k
           f == ctx.timers[i].cb
           c == [ctx EXCEPT !.timers[i].when = "running"]
<1>1. i \in DOMAIN ctx.timers
  <2>1. Due \subseteq Nat /\ Due # {}
    <3>1. ctx.timers \in Seq(Entry)
      BY DEF IInv, Ctx
    <3>2. Due # {}
      BY DEF Fire
    <3> QED BY <3>1, <3>2 DEF Due
  <2>2. \E j \in Due : \A k \in Due : j <= k
    BY <2>1, LeastNat
  <2>3. i \in Due
    BY <2>2
  <2> QED BY <2>3 DEF Due
<1>2. /\ \E d \in Run(c, f) : ctx' \in Returned(d)
      /\ stored' = IF f = "cloud_store_dump_handler"
                   THEN [status |-> ctx.status, cps |-> ctx.cps, token |-> ctx.token,
                         refresh |-> ctx.refresh]
                   ELSE stored
      /\ polling' \in BOOLEAN /\ tokens' = tokens
  BY DEF Fire
<1>3. PICK d \in Run(c, f) : ctx' \in Returned(d)
  BY <1>2
<1> HIDE DEF i
<1>4. f \in Callbacks
  <2>1. ctx.timers \in Seq(Entry)
    BY DEF IInv, Ctx
  <2>2. ctx.timers[i] \in Entry
    BY <1>1, <2>1
  <2> QED BY <2>2 DEF Entry
<1>5. /\ c \in Ctx /\ Same(ctx, c) /\ OneRuns(c) /\ Runs(c, f)
      /\ \A fs : Has(ctx, fs) /\ f \notin fs => Has(c, fs)
  BY <1>1, MarkIs DEF IInv, AtRest
<1> HIDE DEF c, f
<1>6. LoginOK(c.status)
  BY <1>5 DEF IInv, Same
<1>7. stored' \in Store /\ LoginOK(stored'.status)
  <2>1. CASE f = "cloud_store_dump_handler"
    BY <1>2, <2>1 DEF IInv, Store, Ctx
  <2>2. CASE f # "cloud_store_dump_handler"
    BY <1>2, <2>2 DEF IInv
  <2> QED BY <2>1, <2>2
<1>8. Saved(c, stored')
  <2>1. CASE f = "cloud_store_dump_handler"
    <3>1. /\ stored'.status = ctx.status /\ stored'.token = ctx.token
          /\ stored'.refresh = ctx.refresh
      BY <1>2, <2>1
    <3> QED BY <1>5, <3>1 DEF Saved, Same
  <2>2. CASE f # "cloud_store_dump_handler"
    <3>1. stored' = stored /\ (Has(ctx, Dump) => Has(c, Dump))
      BY <1>2, <1>5, <2>2 DEF Dump
    <3> QED BY <1>5, <3>1 DEF Saved, Same, IInv
  <2> QED BY <2>1, <2>2
<1>9. Leaves(c, d, f)
  BY <1>4, <1>5, RunIs
<1>10. /\ d \in Ctx /\ OneRuns(d) /\ (Runs(d, f) \/ SparesDump(d))
       /\ LoginOK(d.status) /\ Saved(d, stored')
  <2>1. Fine(c, stored')
    BY <1>5, <1>6, <1>8 DEF Fine
  <2>2. Fine(d, stored')
    BY <1>9, <2>1, QuietFine DEF Leaves
  <2> QED BY <1>5, <1>9, <2>2 DEF Leaves, Quiet, Keeps, Fine
<1>11. /\ ctx' \in Ctx /\ AtRest(ctx') /\ Same(d, ctx')
       /\ "registered" \in d.status /\ Has(d, Dump) => Has(ctx', Dump)
  BY <1>3, <1>10, ReturnedIs
<1>12. LoginOK(ctx'.status) /\ Saved(ctx', stored')
  BY <1>10, <1>11 DEF Same, Saved
<1> QED
  <2> DEFINE x == ctx'
             s == stored'
  <2>1. /\ x \in Ctx /\ AtRest(x) /\ polling' \in BOOLEAN /\ s \in Store /\ tokens' \in Nat
        /\ LoginOK(x.status) /\ LoginOK(s.status) /\ Saved(x, s)
    BY <1>2, <1>7, <1>11, <1>12 DEF IInv
  <2> QED BY <2>1 DEF IInv, AtRest, Saved, Has, LoginOK

-----------------------------------------------------------------------------
(* The response handlers keep the invariant of the context. *)
Good(c, d, st) == Fine(d, st) /\ Keeps(c, d)

(* One after the other *)
LEMMA GoodTrans ==
  ASSUME NEW c, NEW d, NEW e, NEW st, Good(c, d, st), Good(d, e, st)
  PROVE  Good(c, e, st)
BY KeepsTrans DEF Good

(* What is quiet is good. *)
LEMMA QuietGood ==
  ASSUME NEW c, NEW d, NEW st, Fine(c, st), Quiet(c, d)
  PROVE  Good(c, d, st)
BY QuietFine DEF Good, Quiet

(* ... also after something good. *)
LEMMA GoodQuiet ==
  ASSUME NEW c, NEW d, NEW e, NEW st, Good(c, d, st), Quiet(d, e)
  PROVE  Good(c, e, st)
BY QuietGood, GoodTrans DEF Good

AnswerSet == [refresh : BOOLEAN, expires : BOOLEAN, redirect : BOOLEAN, number : Nat]

(* _register_handler: the registration is going to be written. *)
LEMMA RegisteredGood ==
  ASSUME NEW c \in Ctx, NEW st, NEW a \in AnswerSet
  PROVE  Good(c, Registered(c, a), st)
<1> DEFINE k == cloud_close_endpoint(c)
           z == ZeroEndpoint(k)
           y == [z EXCEPT !.ending = FALSE]
           b == IF a.redirect THEN y ELSE c
           s == b.status \cup {"registered"} \cup (IF a.expires THEN {"expiry"} ELSE {})
           e == [b EXCEPT !.token = a.number, !.refresh = IF a.refresh THEN a.number ELSE @,
                          !.expires = a.expires, !.retry = 0, !.status = s]
           g == DumpAsync(e)
           d == [g EXCEPT !.cps = "registered"]
<1>1. b \in Ctx /\ Keeps(c, b)
  <2>1. CASE a.redirect
    <3>1. k \in Ctx /\ Keeps(c, k)
      BY CloseQuiet DEF Quiet
    <3> HIDE DEF k
    <3>2. z \in Ctx /\ z.timers = k.timers
      BY <3>1, InitializeIs
    <3> HIDE DEF z
    <3>3. y \in Ctx /\ y.timers = z.timers
      BY <3>2 DEF Ctx
    <3> HIDE DEF y
    <3>4. Keeps(k, y)
      BY <3>2, <3>3, KeepsList
    <3> QED BY <2>1, <3>1, <3>3, <3>4, KeepsTrans
  <2>2. CASE ~a.redirect
    BY <2>2, KeepsList
  <2> QED BY <2>1, <2>2
<1>2. Registered(c, a) = d
  BY DEF Registered
<1> HIDE DEF b
<1>3. s \in SUBSET Flags /\ LoginOK(s)
  BY <1>1 DEF Ctx, Flags, LoginOK
<1> HIDE DEF s
<1>4. e \in Ctx /\ e.status = s /\ e.timers = b.timers
  BY <1>1, <1>3, CounterRange DEF Ctx, AnswerSet
<1> HIDE DEF e
<1>5. Keeps(b, e)
  BY <1>4, KeepsList
<1>6. g \in Ctx /\ Keeps(e, g) /\ g.status = s /\ Has(g, Dump)
  BY <1>4, DumpAsyncQuiet DEF Quiet
<1> HIDE DEF g
<1>7. d \in Ctx /\ d.status = g.status /\ d.timers = g.timers
  BY <1>6 DEF Ctx, Cps
<1> HIDE DEF d
<1>8. Keeps(g, d) /\ Has(d, Dump)
  BY <1>6, <1>7, KeepsList
<1>9. Keeps(c, d)
  BY <1>1, <1>5, <1>6, <1>8, KeepsTrans
<1> QED BY <1>2, <1>3, <1>6, <1>7, <1>8, <1>9 DEF Good, Fine, Saved

(* cloud_register_handler *)
LEMMA RegisterGood ==
  ASSUME NEW c, NEW st, Fine(c, st), NEW code, NEW a \in AnswerSet
  PROVE  Good(c, register_handler(c, code, a), st)
<1>0. c \in Ctx
  BY DEF Fine
<1>1. CASE code = "ok" /\ c.status = {}
  <2> DEFINE b == Registered(c, a)
             d == Cancel(b, "cloud_register")
             e == Add(d, "callback_handler", "now")
             g == Add(e, "cloud_login", "later")
  <2> USE DEF Callbacks, Dump
  <2>1. Good(c, b, st) /\ b \in Ctx
    BY <1>0, RegisteredGood DEF Good, Fine
  <2>2. register_handler(c, code, a) = g
    BY <1>1 DEF register_handler
  <2> HIDE DEF b
  <2>3. d \in Ctx /\ Quiet(b, d)
    BY <2>1, CancelQuiet
  <2> HIDE DEF d
  <2>4. e \in Ctx /\ Quiet(d, e)
    BY <2>3, AddQuiet
  <2> HIDE DEF e
  <2>5. Quiet(e, g)
    BY <2>4, AddQuiet
  <2> HIDE DEF g
  <2> QED BY <2>1, <2>2, <2>3, <2>4, <2>5, GoodQuiet
<1>2. CASE ~(code = "ok" /\ c.status = {})
  <2>1. register_handler(c, code, a) = Again(c, "cloud_register", code # "unauthorized")
    BY <1>2 DEF register_handler
  <2>2. (code # "unauthorized") \in BOOLEAN
    OBVIOUS
  <2>3. Quiet(c, Again(c, "cloud_register", code # "unauthorized"))
    BY <1>0, <2>2, AgainQuiet
  <2> QED BY <2>1, <2>3, QuietGood
<1> QED BY <1>1, <1>2

(* _login_handler *)
LEMMA LoggedInGood ==
  ASSUME NEW c, NEW st, Fine(c, st), "registered" \in c.status
  PROVE  Good(c, LoggedIn(c), st)
<1> DEFINE s == c.status \cup {"loggedin"} \cup (IF c.expires THEN {"expiry"} ELSE {})
           d == [c EXCEPT !.retry = 0, !.status = s]
<1>0. c \in Ctx
  BY DEF Fine
<1>1. s \in SUBSET Flags /\ "loggedin" \in s /\ "registered" \in s
  BY <1>0 DEF Ctx, Flags
<1>2. LoggedIn(c) = d
  BY DEF LoggedIn
<1> HIDE DEF s
<1>3. /\ d \in Ctx /\ d.status = s /\ d.timers = c.timers
      /\ d.token = c.token /\ d.refresh = c.refresh
  BY <1>0, <1>1, CounterRange DEF Ctx
<1> HIDE DEF d
<1>4. Keeps(c, d) /\ (Has(c, Dump) <=> Has(d, Dump))
  BY <1>3, KeepsList
<1>5. LoginOK(d.status) /\ Saved(d, st)
  BY <1>1, <1>3, <1>4 DEF Fine, LoginOK, Saved
<1> QED BY <1>2, <1>3, <1>4, <1>5 DEF Good, Fine

(* cloud_login_handler *)
LEMMA LoginGood ==
  ASSUME NEW c, NEW st, Fine(c, st), NEW code
  PROVE  Good(c, login_handler(c, code), st)
<1> USE DEF Callbacks, Dump
<1>0. c \in Ctx
  BY DEF Fine
<1>1. CASE code = "ok" /\ "registered" \in c.status
  <2> DEFINE b == LoggedIn(c)
             d == Cancel(b, "cloud_login")
             e == Add(d, "callback_handler", "now")
             g == Add(e, "send_ping", "later")
             h == Add(g, "refresh_token", "later")
  <2>1. Good(c, b, st) /\ b \in Ctx
    BY <1>1, LoggedInGood DEF Good, Fine
  <2>2. login_handler(c, code) = IF "expiry" \in g.status THEN h ELSE g
    BY <1>1 DEF login_handler
  <2> HIDE DEF b
  <2>3. d \in Ctx /\ Quiet(b, d)
    BY <2>1, CancelQuiet
  <2> HIDE DEF d
  <2>4. e \in Ctx /\ Quiet(d, e)
    BY <2>3, AddQuiet
  <2> HIDE DEF e
  <2>5. g \in Ctx /\ Quiet(e, g)
    BY <2>4, AddQuiet
  <2> HIDE DEF g
  <2>6. Quiet(g, h)
    BY <2>5, AddQuiet
  <2> HIDE DEF h
  <2>7. Good(c, g, st)
    BY <2>1, <2>3, <2>4, <2>5, GoodQuiet
  <2> QED BY <2>2, <2>6, <2>7, GoodQuiet
<1>2. CASE ~(code = "ok" /\ "registered" \in c.status) /\ code = "unauthorized" /\ c.refresh # 0
  <2> DEFINE b == Failed(c)
             d == Cancel(b, "cloud_login")
             e == Cancel(d, "refresh_token")
             g == Add(e, "refresh_token", "later")
             h == Add(g, "callback_handler", "now")
  <2>1. Quiet(c, b) /\ b \in Ctx
    BY <1>0, FailedIs
  <2>2. login_handler(c, code) = h
    BY <1>2 DEF login_handler
  <2> HIDE DEF b
  <2>3. d \in Ctx /\ Quiet(b, d)
    BY <2>1, CancelQuiet
  <2> HIDE DEF d
  <2>4. e \in Ctx /\ Quiet(d, e)
    BY <2>3, CancelQuiet
  <2> HIDE DEF e
  <2>5. g \in Ctx /\ Quiet(e, g)
    BY <2>4, AddQuiet
  <2> HIDE DEF g
  <2>6. Quiet(g, h)
    BY <2>5, AddQuiet
  <2> HIDE DEF h
  <2>7. Quiet(c, h)
    BY <2>1, <2>3, <2>4, <2>5, <2>6, QuietTrans
  <2> QED BY <2>2, <2>7, QuietGood
<1>3. CASE ~(code = "ok" /\ "registered" \in c.status) /\ ~(code = "unauthorized" /\ c.refresh # 0)
  <2>1. login_handler(c, code) = Again(c, "cloud_login", code # "unauthorized")
    BY <1>3 DEF login_handler
  <2>2. (code # "unauthorized") \in BOOLEAN
    OBVIOUS
  <2>3. Quiet(c, Again(c, "cloud_login", code # "unauthorized"))
    BY <1>0, <2>2, AgainQuiet
  <2> QED BY <2>1, <2>3, QuietGood
<1> QED BY <1>1, <1>2, <1>3

(* _refresh_token_handler: the tokens are others, and going to be written. *)
LEMMA RefreshedGood ==
  ASSUME NEW c, NEW st, Fine(c, st), NEW a \in AnswerSet
  PROVE  Good(c, Refreshed(c, a), st)
<1> DEFINE s == c.status \cup {"refreshed"} \cup (IF a.expires THEN {"expiry"} ELSE {})
           e == [c EXCEPT !.token = a.number, !.refresh = IF a.refresh THEN a.number ELSE 0,
                          !.expires = a.expires, !.retry = 0, !.status = s]
           d == DumpAsync(e)
<1>0. c \in Ctx
  BY DEF Fine
<1>1. /\ s \in SUBSET Flags
      /\ "loggedin" \in s <=> "loggedin" \in c.status
      /\ "registered" \in s <=> "registered" \in c.status
  BY <1>0 DEF Ctx, Flags
<1>2. Refreshed(c, a) = d
  BY DEF Refreshed
<1> HIDE DEF s
<1>3. e \in Ctx /\ e.status = s /\ e.timers = c.timers
  BY <1>0, <1>1, CounterRange DEF Ctx, AnswerSet
<1> HIDE DEF e
<1>4. Keeps(c, e)
  BY <1>3, KeepsList
<1>5. d \in Ctx /\ Keeps(e, d) /\ d.status = s /\ Has(d, Dump)
  BY <1>3, DumpAsyncQuiet DEF Quiet
<1> HIDE DEF d
<1>6. Keeps(c, d)
  BY <1>4, <1>5, KeepsTrans
<1>7. LoginOK(d.status) /\ Saved(d, st)
  BY <1>1, <1>5 DEF Fine, LoginOK, Saved
<1> QED BY <1>2, <1>5, <1>6, <1>7 DEF Good, Fine

(* refresh_token_handler *)
LEMMA RefreshGood ==
  ASSUME NEW c, NEW st, Fine(c, st), NEW code, NEW a \in AnswerSet
  PROVE  Good(c, refresh_token_handler(c, code, a), st)
<1> USE DEF Callbacks, Dump
<1>0. c \in Ctx
  BY DEF Fine
<1>1. CASE code = "ok" /\ "registered" \in c.status
  <2> DEFINE b == Refreshed(c, a)
             d == Cancel(b, "send_ping")
             e == Cancel(d, "refresh_token")
             g == [e EXCEPT !.refreshes = 0]
             h == Add(g, "cloud_login", "later")
             k == Add(h, "callback_handler", "now")
  <2>1. Good(c, b, st) /\ b \in Ctx
    BY RefreshedGood DEF Good, Fine
  <2>2. refresh_token_handler(c, code, a) = k
    BY <1>1 DEF refresh_token_handler
  <2> HIDE DEF b
  <2>3. d \in Ctx /\ Quiet(b, d)
    BY <2>1, CancelQuiet
  <2> HIDE DEF d
  <2>4. e \in Ctx /\ Quiet(d, e)
    BY <2>3, CancelQuiet
  <2> HIDE DEF e
  <2>5. /\ g \in Ctx /\ g.status = e.status /\ g.timers = e.timers
        /\ g.token = e.token /\ g.refresh = e.refresh
    BY <2>4, CounterRange DEF Ctx
  <2> HIDE DEF g
  <2>6. Quiet(e, g)
    BY <2>5, ListQuiet
  <2>7. h \in Ctx /\ Quiet(g, h)
    BY <2>5, AddQuiet
  <2> HIDE DEF h
  <2>8. Quiet(h, k)
    BY <2>7, AddQuiet
  <2> HIDE DEF k
  <2> QED BY <2>1, <2>2, <2>3, <2>4, <2>6, <2>7, <2>8, GoodQuiet
<1>2. CASE ~(code = "ok" /\ "registered" \in c.status)
  <2>1. refresh_token_handler(c, code, a) = Again(c, "refresh_token", code # "unauthorized")
    BY <1>2 DEF refresh_token_handler
  <2>2. (code # "unauthorized") \in BOOLEAN
    OBVIOUS
  <2>3. Quiet(c, Again(c, "refresh_token", code # "unauthorized"))
    BY <1>0, <2>2, AgainQuiet
  <2> QED BY <2>1, <2>3, QuietGood
<1> QED BY <1>1, <1>2

(* The handlers of the application's requests *)
LEMMA ApiGood ==
  ASSUME NEW c, NEW st, Fine(c, st), NEW kind, NEW code, NEW a \in AnswerSet
  PROVE  Good(c, ApiHandler(c, kind, code, a), st)
<1> DEFINE report == {"failure", "expiry", "refreshed", "loggedout"} \
                       (IF kind = "Refresh" THEN {"loggedout"}
                        ELSE IF kind = "Logout" THEN {"expiry", "refreshed"}
                        ELSE {"refreshed", "loggedout"})
           o == [c EXCEPT !.status = @ \ {"loggedin"}]
           d == IF code = "ok" /\ kind = "Register" /\ c.status = {}
                THEN Registered(c, a)
                ELSE IF code = "ok" /\ kind = "Login" /\ "registered" \in c.status
                THEN LoggedIn(c)
                ELSE IF code = "ok" /\ kind = "Refresh" /\ "registered" \in c.status
                THEN Refreshed(c, a)
                ELSE IF kind = "Logout"
                THEN IF code = "ok" THEN o ELSE c
                ELSE Failed(c)
<1>0. c \in Ctx
  BY DEF Fine
<1>1. ApiHandler(c, kind, code, a) = [d EXCEPT !.status = @ \ report]
  BY DEF ApiHandler
<1>2. "registered" \notin report /\ "loggedin" \notin report
  OBVIOUS
<1>3. Good(c, d, st)
  <2>1. Good(c, Registered(c, a), st)
    BY <1>0, RegisteredGood
  <2>2. ASSUME "registered" \in c.status
        PROVE  Good(c, LoggedIn(c), st)
    BY <2>2, LoggedInGood
  <2>3. Good(c, Refreshed(c, a), st)
    BY RefreshedGood
  <2>4. Good(c, o, st)
    <3>1. /\ o \in Ctx /\ o.timers = c.timers /\ o.token = c.token /\ o.refresh = c.refresh
          /\ o.status = c.status \ {"loggedin"}
      BY <1>0 DEF Ctx
    <3> HIDE DEF o
    <3>2. Quiet(c, o)
      BY <3>1, KeepsList DEF Quiet, LoginOK
    <3> QED BY <3>2, QuietGood
  <2>5. Good(c, c, st)
    BY <1>0, QuietRefl, QuietGood
  <2>6. Good(c, Failed(c), st)
    BY <1>0, FailedIs, QuietGood
  <2>7. \/ d = Registered(c, a)
        \/ d = LoggedIn(c) /\ "registered" \in c.status
        \/ d = Refreshed(c, a)
        \/ d = o
        \/ d = c
        \/ d = Failed(c)
    OBVIOUS
  <2> HIDE DEF d, o
  <2> QED BY <2>1, <2>2, <2>3, <2>4, <2>5, <2>6, <2>7
<1> HIDE DEF d, report
<1>4. Quiet(d, [d EXCEPT !.status = @ \ report])
  BY <1>2, <1>3, ReportQuiet DEF Good, Fine
<1> QED BY <1>1, <1>3, <1>4, GoodQuiet

(* Every answer keeps the invariant of the context. *)
LEMMA HandlerGood ==
  ASSUME NEW c, NEW st, Fine(c, st), NEW kind, NEW code, NEW a \in AnswerSet
  PROVE  Good(c, Handler(c, kind, code, a), st)
<1>0. c \in Ctx /\ (code = "ok") \in BOOLEAN
  BY DEF Fine
<1>1. Good(c, Unavailable(c, kind), st)
  BY <1>0, UnavailableQuiet, QuietGood
<1>2. Good(c, register_handler(c, code, a), st)
  BY RegisterGood
<1>3. Good(c, login_handler(c, code), st)
  BY LoginGood
<1>4. Good(c, refresh_token_handler(c, code, a), st)
  BY RefreshGood
<1>5. Good(c, send_ping_handler(c, code), st)
  BY <1>0, PingQuiet, QuietGood
<1> DEFINE b == Deregistered(c, code = "ok")
           k == cloud_close_endpoint(b)
           f == ForgetOnReset(k)
<1>6. Quiet(c, b) /\ b \in Ctx
  BY <1>0, DeregisteredQuiet
<1> HIDE DEF b
<1>7. Quiet(b, DumpAsync(b))
  BY <1>6, DumpAsyncQuiet
<1>8. Quiet(b, k) /\ k \in Ctx
  BY <1>6, CloseQuiet
<1> HIDE DEF k
<1>9. Quiet(k, f) /\ f \in Ctx
  BY <1>8, ForgetQuiet
<1> HIDE DEF f
<1>10. Quiet(f, DumpAsync(f))
  BY <1>9, DumpAsyncQuiet
<1>11. Quiet(c, DumpAsync(b)) /\ Quiet(c, DumpAsync(f))
  BY <1>6, <1>7, <1>8, <1>9, <1>10, QuietTrans
<1>12. Good(c, DumpAsync(b), st) /\ Good(c, DumpAsync(f), st)
  BY <1>11, QuietGood
<1>13. Good(c, ApiHandler(c, kind, code, a), st)
  BY ApiGood
<1>14. \/ Handler(c, kind, code, a) = Unavailable(c, kind)
       \/ Handler(c, kind, code, a) = register_handler(c, code, a)
       \/ Handler(c, kind, code, a) = login_handler(c, code)
       \/ Handler(c, kind, code, a) = refresh_token_handler(c, code, a)
       \/ Handler(c, kind, code, a) = send_ping_handler(c, code)
       \/ Handler(c, kind, code, a) = DumpAsync(b)
       \/ Handler(c, kind, code, a) = DumpAsync(f)
       \/ Handler(c, kind, code, a) = ApiHandler(c, kind, code, a)
  BY DEF Handler, b, k, f
<1> QED BY <1>1, <1>2, <1>3, <1>4, <1>5, <1>12, <1>13, <1>14

-----------------------------------------------------------------------------
(* The actions keep the invariant. *)

(* The invariant, as one of the context with the store *)
LEMMA IInvIs == IInv => Fine(ctx, stored) /\ AtRest(ctx) /\ ctx \in Ctx
BY DEF IInv, Fine, AtRest

(* An action that does not write the store and leaves a context that is good *)
LEMMA GoodStep ==
  ASSUME IInv, Good(ctx, ctx', stored), stored' = stored, polling' = polling, tokens' \in Nat
  PROVE  IInv'
<1> DEFINE x == ctx'
<1>1. Fine(x, stored) /\ AtRest(x)
  BY IInvIs DEF Good, Keeps
<1> QED BY <1>1 DEF IInv, Fine, AtRest, Saved, Has, LoginOK

(* An action that leaves a context quietly *)
LEMMA QuietStep ==
  ASSUME IInv, Quiet(ctx, ctx'), stored' = stored, polling' = polling, tokens' = tokens
  PROVE  IInv'
<1>1. Good(ctx, ctx', stored)
  BY IInvIs, QuietGood
<1>2. tokens' \in Nat
  BY DEF IInv
<1> QED BY <1>1, <1>2, GoodStep

(* A request is taken from the list of the requests. *)
LEMMA ReqsQuiet ==
  ASSUME NEW c \in Ctx, NEW r \in Seq(Kind)
  PROVE  Quiet(c, [c EXCEPT !.reqs = r])
<1> DEFINE d == [c EXCEPT !.reqs = r]
<1>1. /\ d \in Ctx /\ d.timers = c.timers /\ d.status = c.status
      /\ d.token = c.token /\ d.refresh = c.refresh
  BY DEF Ctx
<1> HIDE DEF d
<1>2. Quiet(c, d)
  BY <1>1, ListQuiet
<1> QED BY <1>2 DEF d

(* The event timers expire. *)
LEMMA TimersExpireInv ==
  ASSUME IInv, TimersExpire
  PROVE  IInv'
<1> DEFINE t == ctx.timers
<1>1. ctx \in Ctx /\ t \in Seq(Entry) /\ DOMAIN t = 1..Len(t) /\ Len(t) \in Nat
  BY DEF IInv, Ctx
<1>2. PICK E : ctx' = [ctx EXCEPT !.timers =
                  [i \in DOMAIN @ |-> IF i \in E THEN [@[i] EXCEPT !.when = "due"]
                                      ELSE @[i]]]
  BY DEF TimersExpire
<1> DEFINE u == [i \in DOMAIN t |-> IF i \in E THEN [t[i] EXCEPT !.when = "due"] ELSE t[i]]
<1>3. \A i \in DOMAIN t : u[i] \in Entry /\ u[i].cb = t[i].cb /\ u[i].when # "running"
  <2> TAKE i \in DOMAIN t
  <2>1. t[i] \in Entry /\ t[i].when # "running"
    BY <1>1 DEF IInv
  <2> QED BY <2>1 DEF Entry
<1>4. u \in Seq(Entry) /\ DOMAIN u = DOMAIN t
  <2>1. DOMAIN u = DOMAIN t /\ u = [i \in DOMAIN t |-> u[i]]
    BY Zenon
  <2> HIDE DEF u
  <2>2. u \in [1..Len(t) -> Entry]
    BY <1>1, <1>3, <2>1, Zenon
  <2> QED BY <1>1, <2>1, <2>2
<1>5. ctx' = [ctx EXCEPT !.timers = u]
  BY <1>1, <1>2 DEF Ctx
<1> HIDE DEF u
<1>6. ctx' \in Ctx /\ Same(ctx, ctx') /\ ctx'.timers = u
  BY <1>1, <1>4, <1>5 DEF Ctx, Same
<1>7. AtRest(ctx') /\ (Has(ctx, Dump) => Has(ctx', Dump))
  BY <1>3, <1>4, <1>6 DEF AtRest, Has
<1>8. Keeps(ctx, ctx')
  BY <1>3, <1>4, <1>6, <1>7 DEF Keeps, OneRuns, AtRest
<1>9. Quiet(ctx, ctx')
  BY <1>6, <1>8, SameQuiet
<1> QED BY <1>9, QuietStep DEF TimersExpire

(* An answer *)
LEMMA AnswerInv ==
  ASSUME IInv, Answer
  PROVE  IInv'
<1>1. PICK i \in DOMAIN ctx.reqs, code \in {"ok", "unauthorized", "error", "timeout"},
           x \in Answers :
        /\ \E a \in {Numbered(x), Plain} :
             ctx' = Handler([ctx EXCEPT !.reqs = RemoveAt(@, i)], ctx.reqs[i], code, a)
        /\ tokens' \in {tokens, tokens + 1}
  BY DEF Answer
<1>a. PICK a \in {Numbered(x), Plain} :
        ctx' = Handler([ctx EXCEPT !.reqs = RemoveAt(@, i)], ctx.reqs[i], code, a)
  BY <1>1
<1> DEFINE r == RemoveAt(ctx.reqs, i)
           c == [ctx EXCEPT !.reqs = r]
<1>2. a \in AnswerSet
  <2>1. Answers \subseteq [refresh : BOOLEAN, expires : BOOLEAN, redirect : BOOLEAN]
    BY AnswersAssumption, Zenon
  <2>2. tokens + 1 \in Nat /\ 0 \in Nat
    BY DEF IInv
  <2>3. Numbered(x) \in AnswerSet
    BY <2>1, <2>2 DEF AnswerSet, Numbered
  <2>4. Plain \in AnswerSet
    BY <2>2 DEF AnswerSet, Plain
  <2> QED BY <2>3, <2>4
<1>3. ctx.reqs \in Seq(Kind)
  BY DEF IInv, Ctx
<1>4. r \in Seq(Kind)
  BY <1>3, RemoveAtKeeps
<1>5. ctx' = Handler(c, ctx.reqs[i], code, a)
  BY <1>a, IInvIs DEF Ctx
<1> HIDE DEF r
<1>6. Good(ctx, c, stored)
  BY <1>4, IInvIs, ReqsQuiet, QuietGood
<1> HIDE DEF c
<1>7. Good(c, ctx', stored)
  BY <1>2, <1>5, <1>6, HandlerGood DEF Good
<1>8. tokens' \in Nat
  BY <1>1 DEF IInv
<1> QED BY <1>6, <1>7, <1>8, GoodTrans, GoodStep DEF Answer

(* A request is dropped. *)
LEMMA ExpireInv ==
  ASSUME IInv, Expire
  PROVE  IInv'
<1>1. PICK i \in DOMAIN ctx.reqs : ctx' = [ctx EXCEPT !.reqs = RemoveAt(@, i)]
  BY DEF Expire
<1>2. ctx.reqs \in Seq(Kind) /\ ctx' = [ctx EXCEPT !.reqs = RemoveAt(ctx.reqs, i)]
  BY <1>1 DEF IInv, Ctx
<1>3. RemoveAt(ctx.reqs, i) \in Seq(Kind)
  BY <1>2, RemoveAtKeeps
<1>4. Quiet(ctx, ctx')
  BY <1>2, <1>3, IInvIs, ReqsQuiet
<1> QED BY <1>4, QuietStep DEF Expire

(* The application's requests *)
LEMMA ApiCallInv ==
  ASSUME IInv, ApiCall
  PROVE  IInv'
<1>1. PICK kind \in Api : ctx' = [Sent(ctx, kind) EXCEPT
                                    !.cps = IF kind = "Register" THEN "registering" ELSE @]
  BY DEF ApiCall
<1> DEFINE s == Sent(ctx, kind)
           p == IF kind = "Register" THEN "registering" ELSE s.cps
<1>2. kind \in Kind
  BY ApiAssumption DEF Kind
<1>3. s \in Ctx /\ Quiet(ctx, s)
  BY <1>2, IInvIs, SentIs
<1>4. ctx' = [s EXCEPT !.cps = p]
  BY <1>1
<1> HIDE DEF s
<1>5. p \in Cps
  BY <1>3 DEF Ctx, Cps
<1> HIDE DEF p
<1>6. Quiet(s, ctx')
  BY <1>3, <1>4, <1>5, CpsIs
<1> QED BY <1>3, <1>6, QuietTrans, QuietStep DEF ApiCall

(* The device is reset. *)
LEMMA ResetInv ==
  ASSUME IInv, Reset
  PROVE  IInv'
<1>1. CASE ctx' = Sent(ctx, "ResetDeregister")
  <2>1. "ResetDeregister" \in Kind
    BY DEF Kind, ApiRequests
  <2>2. Quiet(ctx, ctx')
    BY <1>1, <2>1, IInvIs, SentIs
  <2> QED BY <2>2, QuietStep DEF Reset
<1>2. CASE ctx' = [cloud_manager_stop(cloud_store_initialize(ctx)) EXCEPT !.cps = "uninitialized"]
  <2> DEFINE b == cloud_store_initialize(ctx)
             d == cloud_manager_stop(b)
  <2>1. b \in Ctx /\ Quiet(ctx, b)
    BY IInvIs, InitializeIs
  <2>2. ctx' = [d EXCEPT !.cps = "uninitialized"] /\ "uninitialized" \in Cps
    BY <1>2 DEF Cps
  <2> HIDE DEF b
  <2>3. d \in Ctx /\ Quiet(b, d)
    BY <2>1, StopIs, SameQuiet
  <2> HIDE DEF d
  <2>4. Quiet(d, ctx')
    BY <2>2, <2>3, CpsIs
  <2> QED BY <2>1, <2>3, <2>4, QuietTrans, QuietStep DEF Reset
<1> QED BY <1>1, <1>2 DEF Reset

(* The session is there. *)
LEMMA SessionStartsInv ==
  ASSUME IInv, SessionStarts
  PROVE  IInv'
<1> DEFINE d == [ctx EXCEPT !.seen = TRUE]
<1>1. /\ d \in Ctx /\ d.timers = ctx.timers /\ d.status = ctx.status
      /\ d.token = ctx.token /\ d.refresh = ctx.refresh
  BY IInvIs DEF Ctx
<1>2. ctx' = d
  BY DEF SessionStarts, SessionEvent
<1> HIDE DEF d
<1>3. Quiet(ctx, ctx')
  BY <1>1, <1>2, ListQuiet
<1> QED BY <1>3, QuietStep DEF SessionStarts

(* The session has ended. *)
LEMMA SessionEndsInv ==
  ASSUME IInv, SessionEnds
  PROVE  IInv'
<1> DEFINE c == [ctx EXCEPT !.ending = FALSE]
           x == IF c.live THEN FreePeer(c) ELSE c
           y == [x EXCEPT !.seen = FALSE]
           z == cloud_manager_restart(y)
<1>1. /\ c \in Ctx /\ c.timers = ctx.timers /\ c.status = ctx.status
      /\ c.token = ctx.token /\ c.refresh = ctx.refresh
  BY IInvIs DEF Ctx
<1>2. ctx' = SessionEvent(x, FALSE)
  BY DEF SessionEnds
<1> HIDE DEF c
<1>3. Quiet(ctx, c)
  BY <1>1, ListQuiet
<1>4. Quiet(c, x) /\ x \in Ctx
  BY <1>1, FreePeerQuiet, QuietRefl DEF Quiet
<1> HIDE DEF x
<1>5. ctx' \in {x, y, z}
  BY <1>2 DEF SessionEvent
<1>6. /\ y \in Ctx /\ y.timers = x.timers /\ y.status = x.status
      /\ y.token = x.token /\ y.refresh = x.refresh
  BY <1>4 DEF Ctx
<1> HIDE DEF y
<1>7. Quiet(x, y)
  BY <1>6, ListQuiet
<1>8. Quiet(y, z)
  BY <1>6, RestartIs
<1> HIDE DEF z
<1>9. Quiet(ctx, ctx')
  BY <1>3, <1>4, <1>5, <1>7, <1>8, QuietTrans
<1> QED BY <1>9, QuietStep DEF SessionEnds

(* A network interface came up. *)
LEMMA InterfaceUpInv ==
  ASSUME IInv, InterfaceUp
  PROVE  IInv'
<1>1. Quiet(ctx, ctx')
  BY IInvIs, RestartIs DEF InterfaceUp
<1> QED BY <1>1, QuietStep DEF InterfaceUp

(* oc_cloud_manager_start *)
LEMMA ManagerStartInv ==
  ASSUME IInv, ManagerStart
  PROVE  IInv'
<1> DEFINE b == cloud_manager_start(ctx)
           d == [b EXCEPT !.manager = TRUE]
<1>1. Quiet(ctx, b) /\ b \in Ctx
  BY IInvIs, StartIs
<1>2. ctx' = d
  BY DEF ManagerStart
<1> HIDE DEF b
<1>3. /\ d \in Ctx /\ d.timers = b.timers /\ d.status = b.status
      /\ d.token = b.token /\ d.refresh = b.refresh
  BY <1>1 DEF Ctx
<1> HIDE DEF d
<1>4. Quiet(b, d)
  BY <1>3, ListQuiet
<1> QED BY <1>1, <1>2, <1>4, QuietTrans, QuietStep DEF ManagerStart

(* oc_cloud_manager_stop *)
LEMMA ManagerStopInv ==
  ASSUME IInv, ManagerStop
  PROVE  IInv'
<1> DEFINE a == Cancel(ctx, "restart_manager")
           b == Cancel(a, "start_manager")
           s == cloud_manager_stop(b)
           d == cloud_store_initialize(s)
           k == cloud_close_endpoint(d)
           z == ZeroEndpoint(k)
           y == [z EXCEPT !.manager = FALSE]
<1> USE DEF Callbacks, Dump
<1>1. a \in Ctx /\ Quiet(ctx, a)
  BY IInvIs, CancelQuiet
<1>2. ctx' = y
  BY DEF ManagerStop
<1> HIDE DEF a
<1>3. b \in Ctx /\ Quiet(a, b)
  BY <1>1, CancelQuiet
<1> HIDE DEF b
<1>4. s \in Ctx /\ Quiet(b, s)
  BY <1>3, StopIs, SameQuiet
<1> HIDE DEF s
<1>5. d \in Ctx /\ Quiet(s, d)
  BY <1>4, InitializeIs
<1> HIDE DEF d
<1>6. k \in Ctx /\ Quiet(d, k)
  BY <1>5, CloseQuiet
<1> HIDE DEF k
<1>7. z \in Ctx /\ Quiet(k, z)
  BY <1>6, InitializeIs
<1> HIDE DEF z
<1>8. /\ y \in Ctx /\ y.timers = z.timers /\ y.status = z.status
      /\ y.token = z.token /\ y.refresh = z.refresh
  BY <1>7 DEF Ctx
<1> HIDE DEF y
<1>9. Quiet(z, y)
  BY <1>8, ListQuiet
<1>10. Quiet(ctx, s)
  BY <1>1, <1>3, <1>4, QuietTrans
<1>11. Quiet(ctx, y)
  BY <1>5, <1>6, <1>7, <1>9, <1>10, QuietTrans
<1> QED BY <1>2, <1>11, QuietStep DEF ManagerStop

(* Another cloud is configured: the endpoint is closed and the store forgotten
   before the manager connects to it.                                       *)
LEMMA ProvisionInv ==
  ASSUME IInv, Provision
  PROVE  IInv'
<1> DEFINE k == cloud_close_endpoint(ctx)
           z == ZeroEndpoint(k)
           b == cloud_store_initialize(z)
           c == cloud_manager_stop(b)
           d == [c EXCEPT !.cps = "ready"]
           e == DumpAsync(d)
           f == cloud_reconnect(d)
<1>1. k \in Ctx /\ Quiet(ctx, k)
  BY IInvIs, CloseQuiet
<1>2. ctx' \in {e, cloud_reconnect(e), e, DumpAsync(f)}
  BY DEF Provision
<1> HIDE DEF k
<1>3. z \in Ctx /\ Quiet(k, z)
  BY <1>1, InitializeIs
<1> HIDE DEF z
<1>4. b \in Ctx /\ Quiet(z, b)
  BY <1>3, InitializeIs
<1> HIDE DEF b
<1>5. c \in Ctx /\ Quiet(b, c)
  BY <1>4, StopIs, SameQuiet
<1> HIDE DEF c
<1>6. d \in Ctx /\ Quiet(c, d)
  <2>1. "ready" \in Cps
    BY DEF Cps
  <2> QED BY <1>5, <2>1, CpsIs
<1> HIDE DEF d
<1>7. Quiet(ctx, d)
  BY <1>1, <1>3, <1>4, <1>5, <1>6, QuietTrans
<1>8. e \in Ctx /\ Quiet(d, e) /\ f \in Ctx /\ Quiet(d, f)
  BY <1>6, DumpAsyncQuiet, ReconnectIs
<1> HIDE DEF e, f
<1>9. Quiet(e, cloud_reconnect(e)) /\ Quiet(f, DumpAsync(f))
  BY <1>8, DumpAsyncQuiet, ReconnectIs
<1>10. Quiet(ctx, ctx')
  BY <1>2, <1>7, <1>8, <1>9, QuietTrans
<1> QED BY <1>10, QuietStep DEF Provision

(* A power cycle: what is stored is loaded, and nothing is pending. *)
LEMMA RebootInv ==
  ASSUME NEW st \in Store, LoginOK(st.status), ctx' = Booted(st), stored' = st,
         polling' = FALSE, tokens' \in Nat
  PROVE  IInv'
<1> DEFINE d == Booted(st)
<1>0. <<>> \in Seq(Entry) /\ <<>> \in Seq(Kind)
  OBVIOUS
<1>1. /\ d \in Ctx /\ d.status = st.status /\ d.token = st.token /\ d.refresh = st.refresh
      /\ d.timers = <<>>
  BY <1>0, CounterRange DEF Booted, Ctx, Store
<1> HIDE DEF d
<1>2. AtRest(d)
  BY <1>1 DEF AtRest
<1>3. Saved(d, st) /\ LoginOK(d.status)
  BY <1>1 DEF Saved
<1>4. ctx' = d
  BY DEF d
<1> QED BY <1>1, <1>2, <1>3, <1>4 DEF IInv, AtRest, Saved, Has, LoginOK

-----------------------------------------------------------------------------
(* The invariant holds in every reachable state: of the context and its store,
   whatever callbacks, answers, ends of sessions, calls of the application and
   power cycles happen, in whatever order.                                  *)
THEOREM InductiveInvariant == Spec => []IInv
<1>1. Init => IInv
  <2> SUFFICES ASSUME Init
               PROVE  IInv
    OBVIOUS
  <2> DEFINE d == Booted(Fresh)
  <2>0. <<>> \in Seq(Entry) /\ <<>> \in Seq(Kind) /\ Fresh \in Store /\ Fresh.status = {}
    BY DEF Fresh, Store, Cps
  <2>1. d \in Ctx /\ d.status = {} /\ d.timers = <<>>
    BY <2>0, CounterRange DEF Booted, Ctx, Fresh, Cps
  <2>2. ctx = d /\ polling = FALSE /\ stored = Fresh /\ tokens = 0
    BY DEF Init
  <2> HIDE DEF d
  <2>3. AtRest(d)
    BY <2>1 DEF AtRest
  <2>4. Saved(d, Fresh) /\ LoginOK(d.status) /\ LoginOK(Fresh.status)
    BY <2>0, <2>1 DEF Saved, LoginOK
  <2> HIDE DEF d
  <2> QED BY <2>0, <2>1, <2>2, <2>3, <2>4 DEF IInv, AtRest
<1>2. IInv /\ [Next]_vars => IInv'
  <2> SUFFICES ASSUME IInv, [Next]_vars
               PROVE  IInv'
    OBVIOUS
  <2>1. CASE TimersExpire
    BY <2>1, TimersExpireInv
  <2>2. CASE Fire
    BY <2>2, FireInv
  <2>3. CASE Answer
    BY <2>3, AnswerInv
  <2>4. CASE Expire
    BY <2>4, ExpireInv
  <2>5. CASE ApiCall
    BY <2>5, ApiCallInv
  <2>6. CASE SessionStarts
    BY <2>6, SessionStartsInv
  <2>7. CASE SessionEnds
    BY <2>7, SessionEndsInv
  <2>8. CASE InterfaceUp
    BY <2>8, InterfaceUpInv
  <2>9. CASE ManagerStart
    BY <2>9, ManagerStartInv
  <2>10. CASE ManagerStop
    BY <2>10, ManagerStopInv
  <2>11. CASE Provision
    BY <2>11, ProvisionInv
  <2>12. CASE Reset
    BY <2>12, ResetInv
  <2>13. CASE Reboot
    BY <2>13, RebootInv DEF Reboot, IInv
  <2>14. CASE UNCHANGED vars
    BY <2>14 DEF vars, IInv, Saved, Has
  <2> QED BY <2>1, <2>2, <2>3, <2>4, <2>5, <2>6, <2>7, <2>8, <2>9, <2>10, <2>11,
             <2>12, <2>13, <2>14 DEF Next
<1> QED BY <1>1, <1>2, PTL DEF Spec

(* The counters of retries stay within a uint8_t, whatever is counted and
   reset, and poll_event_callback_timers leaves no entry marked as running. *)
THEOREM TypeCorrect == Spec => []TypeOK
<1>1. IInv => TypeOK
  <2> SUFFICES ASSUME IInv
               PROVE  TypeOK
    OBVIOUS
  <2>1. ctx \in Ctx
    BY DEF IInv
  <2>2. ASSUME NEW i \in DOMAIN ctx.timers
        PROVE  ctx.timers[i] \in Timer
    <3>1. ctx.timers[i] \in Entry /\ ctx.timers[i].when # "running"
      BY <2>1 DEF Ctx, IInv
    <3> QED BY <3>1 DEF Entry, Timer
  <2>3. ASSUME NEW i \in DOMAIN ctx.reqs
        PROVE  ctx.reqs[i] \in ManagerRequests \cup ApiRequests
    BY <2>1 DEF Ctx, Kind
  <2>4. \A x \in {ctx.expires, ctx.manager, ctx.at, ctx.seen, ctx.live, ctx.ending} :
          x \in BOOLEAN
    BY <2>1 DEF Ctx
  <2>5. /\ ctx.status \subseteq Flags /\ ctx.cps \in Cps
        /\ ctx.retry \in 0..(CounterSize - 1) /\ ctx.refreshes \in 0..(CounterSize - 1)
        /\ ctx.token \in Nat /\ ctx.refresh \in Nat
    BY <2>1 DEF Ctx
  <2> QED BY <2>2, <2>3, <2>4, <2>5 DEF IInv, TypeOK
<1> QED BY <1>1, InductiveInvariant, PTL

(* A device that is logged in, in memory or on disk, is registered: no late
   answer logs a device in that was deregistered, reset or given another cloud. *)
THEOREM LoggedInIsRegistered == Spec => []LoggedInRegistered
<1>1. IInv => LoggedInRegistered
  BY DEF IInv, LoggedInRegistered, LoginOK
<1> QED BY <1>1, InductiveInvariant, PTL

(* While the registration or a token in memory is not the one on disk, its
   writing is pending, also after a callback has freed its own entry.       *)
THEOREM RegistrationPersisted == Spec => []Persisted
<1>1. IInv => Persisted
  BY DEF IInv, Persisted, Saved, Has, Dump, Pending
<1> QED BY <1>1, InductiveInvariant, PTL
=============================================================================
