-------------------------- MODULE OnboardingProofs --------------------------
(***************************************************************************)
(* Proofs about Onboarding, for any number of procedures, devices, records *)
(* and identities, when the application keeps the procedures apart that    *)
(* may free a record (Guarded).                                            *)
(*                                                                         *)
(* What makes it work: procedures that free a record have the record and   *)
(* the device to themselves, a record is the only one of its identity, and *)
(* how far a transfer has come tells what its device and the tool hold.    *)
(***************************************************************************)
EXTENDS Onboarding, FiniteSetTheorems, TLAPS

(* The requests of a transfer up to the one named *)
UpToOwner == {"get doxm", "oxmsel", "om", "devowneruuid"}
UpToDoxm == UpToOwner \cup {"deviceuuid", "doxm rowner"}
UpToAcl == UpToDoxm \cup {"acl rowner"}
UpToPstat == UpToAcl \cup {"pstat rowner"}
UpToCred == UpToPstat \cup {"owner cred"}
UpToOwned == UpToCred \cup {"sdi", "owned"}
Operating == {"delete acl", "aces", "rfnop"}

(* Frames *)
Frames == ({"close", "notify"} \X Device \X {0}) \cup ({"post"} \X Ctx \X {0})
            \cup ({"end", "called"} \X Ctx \X {0, -1})
OfCtx(f) == f[1] \in {"post", "end", "called"}
Has(s, f) == \E i \in DOMAIN s : s[i] = f
On(s, c) == \E i \in DOMAIN s : OfCtx(s[i]) /\ s[i][2] = c
Once(s) == \A i, j \in DOMAIN s : OfCtx(s[i]) /\ OfCtx(s[j]) /\ s[i][2] = s[j][2] => i = j
NoCalled(s) == \A i \in DOMAIN s : s[i][1] # "called"

Told(c, st) == Has(stack, Frame("called", c, st))
Ended(c, st) == Has(stack, Frame("end", c, st)) \/ Told(c, st)
Going(c) == c \in Active \ unheard /\ ~Ended(c, 0) /\ ~Ended(c, -1)

(* Contexts in use *)
Record == [kind : Kinds, pos : 1..15, h1 : Handle, h2 : Handle \cup {Nil},
           d1 : Device, d2 : Device \cup {Nil}, out : BOOLEAN]
CtxOK == /\ ctx \in [Ctx -> Record \cup {NoCtx}]
         /\ \A c \in Active :
              /\ ctx[c].pos \in 1..Len(Script[ctx[c].kind])
              /\ (ctx[c].kind = "pair") = (ctx[c].h2 # Nil)
              /\ ctx[c].h2 # Nil => ctx[c].d2 \in Device
              /\ ctx[c].h2 = Nil => ctx[c].d2 = Nil
              /\ ctx[c].h1 # ctx[c].h2

TypeInv == /\ CtxOK
           /\ list \in [Handle -> {"free", "cache", "devices"}]
           /\ uuid \in [Handle -> Uuid \cup {Nil}]
           /\ starts \in 0..MaxStarts /\ creds \subseteq Uuid /\ peers \subseteq Device
           /\ discovering \in BOOLEAN /\ asking \in [Handle -> 0..MaxAsked]
           /\ dos \in [Device -> {"RFOTM", "RFPRO", "RFNOP"}] /\ owned \in [Device -> BOOLEAN]
           /\ deviceuuid \in [Device -> Uuid] /\ configured \in [Device -> SUBSET Setup]

(* A context waits for an answer, or one call in progress has it. *)
StackInv == /\ stack \in Seq(Frames)
            /\ Once(stack)
            /\ stack # <<>> => NoCalled(Tail(stack))
            /\ \A c \in Ctx : On(stack, c) <=> c \in Active /\ ~ctx[c].out

(* What is unheard has made its request. *)
UnheardInv == unheard \subseteq Active /\ \A c \in unheard : ctx[c].out

(* The devices a context works on *)
Works(c) == {ctx[c].d1, ctx[c].d2} \ {Nil}

(* The record of a procedure is where it was found, until the transfer is
   over, and one that may be freed has no other user.  A procedure that is
   unheard for good may have left its device to another one.                *)
ApartInv ==
  /\ \A c \in Active : ctx[c].kind \in OnCached =>
       /\ ~discovering
       /\ list[ctx[c].h1] = IF ctx[c].kind \in Transfer /\ Told(c, 0)
                            THEN "devices" ELSE "cache"
  /\ \A c \in Active : ctx[c].kind \notin OnCached =>
       \A h \in Held(c) : list[h] = "devices"
  /\ \A c, b \in Active :
       c # b /\ ctx[c].kind \in Frees /\ ctx[b].kind \notin Retrieval =>
         /\ Held(c) \cap Held(b) = {}
         /\ c \notin unheard /\ b \notin unheard => Works(c) \cap Works(b) = {}

(* Identities *)
UniqueInv == /\ \A h \in Handle : uuid[h] = Nil <=> list[h] = "free"
             /\ \A h, g \in Handle : uuid[h] = uuid[g] /\ uuid[h] # Nil => h = g
             /\ \A d, e \in Device : deviceuuid[d] = deviceuuid[e] => d = e

(* A transfer works on the record h. *)
Taken(h) == \E c \in Active : ctx[c].kind \in Transfer /\ ctx[c].h1 = h
BeingReset(h) == \E c \in Active : /\ Told(c, 0)
                                   /\ ctx[c].kind = "reset" /\ ctx[c].h1 = h

(* Whose credentials the tool holds *)
CredsInv ==
  /\ \A h \in Handle : list[h] = "devices" => uuid[h] \in creds \/ BeingReset(h)
  /\ \A d \in Device : deviceuuid[d] \in creds =>
       owned[d] \/ \E c \in Active : /\ ctx[c].kind \in Transfer /\ ctx[c].d1 = d
                                     /\ uuid[ctx[c].h1] = deviceuuid[d]
  /\ \A h \in Handle : list[h] = "cache" /\ uuid[h] \in creds => Taken(h)
  /\ \A h \in Handle, d \in Device :
       list[h] = "cache" /\ uuid[h] = deviceuuid[d] /\ owned[d] => Taken(h)
  /\ \A c \in Active : ctx[c].kind \in OnCached /\ Told(c, -1) =>
       uuid[ctx[c].h1] \notin creds

(* A device without an owner is ready for a transfer. *)
DeviceInv == \A d \in Device : ~owned[d] => dos[d] = "RFOTM"

(* The device of a procedure has the identity of its record, except while a
   transfer gives it another one, which nobody has.                         *)
Renaming(c) == ctx[c].kind \in Transfer /\ StepOf(c) = "deviceuuid"
Steady(c) == /\ uuid[ctx[c].h1] = deviceuuid[ctx[c].d1]
             /\ ctx[c].h2 # Nil => uuid[ctx[c].h2] = deviceuuid[ctx[c].d2]
Alone(c) == /\ \A d \in Device : deviceuuid[d] # uuid[ctx[c].h1]
            /\ \A h \in Handle : uuid[h] # deviceuuid[ctx[c].d1]
            /\ deviceuuid[ctx[c].d1] \notin creds
BoundInv ==
  \A c \in Active : Going(c) /\ ctx[c].kind \notin Retrieval =>
    IF Renaming(c) THEN Alone(c) ELSE Steady(c)

(* What the requests of a transfer before s have brought about *)
Progress(d, u, s) ==
  /\ s \notin UpToOwner => "devowneruuid" \in configured[d]
  /\ s \notin UpToDoxm => "doxm rowner" \in configured[d]
  /\ s \notin UpToAcl => "acl rowner" \in configured[d]
  /\ s \notin UpToPstat => "pstat rowner" \in configured[d]
  /\ s \notin UpToCred => "owner cred" \in configured[d]
  /\ s \notin UpToOwned => owned[d]
  /\ s \notin Operating => dos[d] = "RFOTM"
  /\ s \in Operating => dos[d] = "RFPRO"
  /\ s \in UpToPstat <=> u \notin creds
Finished(d, u) == /\ dos[d] = "RFNOP" /\ ProvisionedDevice(d)
                  /\ deviceuuid[d] = u /\ u \in creds
TransferInv ==
  \A c \in Active : ctx[c].kind \in Transfer =>
    /\ Going(c) => Progress(ctx[c].d1, uuid[ctx[c].h1], StepOf(c))
    /\ Ended(c, 0) => Finished(ctx[c].d1, uuid[ctx[c].h1])

(* There are identities left for the procedures that still need one. *)
Needs == {c \in Active : \/ ctx[c].kind \in Transfer /\ StepOf(c) \in UpToOwner
                         \/ ctx[c].kind = "reset" /\ Going(c)}
Left == Uuid \ Used
LeftInv == Cardinality(Left) >= Cardinality(Needs)

IInv == /\ TypeInv /\ StackInv /\ UnheardInv /\ ApartInv /\ UniqueInv /\ CredsInv /\ DeviceInv
        /\ BoundInv /\ TransferInv /\ LeftInv


-----------------------------------------------------------------------------
(* The scripts *)

(* The requests of a transfer, and their order *)
TransferSteps == {"get doxm", "oxmsel", "om", "devowneruuid", "deviceuuid", "doxm rowner",
                  "acl rowner", "pstat rowner", "owner cred", "sdi", "owned", "rfpro",
                  "delete acl", "aces", "rfnop"}
Follows == [s \in TransferSteps \ {"rfnop"} |->
              CASE s = "get doxm" -> "oxmsel" [] s = "oxmsel" -> "om"
                [] s = "om" -> "devowneruuid" [] s = "devowneruuid" -> "deviceuuid"
                [] s = "deviceuuid" -> "doxm rowner" [] s = "doxm rowner" -> "acl rowner"
                [] s = "acl rowner" -> "pstat rowner" [] s = "pstat rowner" -> "owner cred"
                [] s = "owner cred" -> "sdi" [] s = "sdi" -> "owned" [] s = "owned" -> "rfpro"
                [] s = "rfpro" -> "delete acl" [] s = "delete acl" -> "aces"
                [] s = "aces" -> "rfnop"]

Ordered(s) == /\ Len(s) \in 1..15
              /\ s[1] \in {"get doxm", "om"}
              /\ s[Len(s)] = "rfnop"
              /\ \A p \in 1..(Len(s) - 1) : /\ s[p] \in TransferSteps \ {"rfnop"}
                                            /\ s[p + 1] = Follows[s[p]]

(* A sequence after another *)
LEMMA Joined ==
  ASSUME NEW s \in Seq(TransferSteps), NEW t \in Seq(TransferSteps), NEW a, a = s \o t
  PROVE  /\ a \in Seq(TransferSteps) /\ Len(a) = Len(s) + Len(t)
         /\ \A i \in 1..Len(s) : a[i] = s[i]
         /\ \A i \in 1..Len(t) : a[Len(s) + i] = t[i]
OBVIOUS

(* Two or three requests *)
LEMMA FewSteps ==
  ASSUME NEW x \in TransferSteps, NEW y \in TransferSteps, NEW z \in TransferSteps
  PROVE  <<x, y>> \in Seq(TransferSteps) /\ <<x, y, z>> \in Seq(TransferSteps)
OBVIOUS

(* Which request follows which *)
LEMMA WhatFollows ==
  /\ Follows["get doxm"] = "oxmsel"
  /\ Follows["oxmsel"] = "om"
  /\ Follows["om"] = "devowneruuid"
  /\ Follows["devowneruuid"] = "deviceuuid"
  /\ Follows["deviceuuid"] = "doxm rowner"
  /\ Follows["doxm rowner"] = "acl rowner"
  /\ Follows["acl rowner"] = "pstat rowner"
  /\ Follows["pstat rowner"] = "owner cred"
  /\ Follows["owner cred"] = "sdi"
  /\ Follows["sdi"] = "owned"
  /\ Follows["owned"] = "rfpro"
  /\ Follows["rfpro"] = "delete acl"
  /\ Follows["delete acl"] = "aces"
  /\ Follows["aces"] = "rfnop"
<1>1. Follows["get doxm"] = "oxmsel"
  BY DEF Follows, TransferSteps
<1>2. Follows["oxmsel"] = "om"
  BY DEF Follows, TransferSteps
<1>3. Follows["om"] = "devowneruuid"
  BY DEF Follows, TransferSteps
<1>4. Follows["devowneruuid"] = "deviceuuid"
  BY DEF Follows, TransferSteps
<1>5. Follows["deviceuuid"] = "doxm rowner"
  BY DEF Follows, TransferSteps
<1>6. Follows["doxm rowner"] = "acl rowner"
  BY DEF Follows, TransferSteps
<1>7. Follows["acl rowner"] = "pstat rowner"
  BY DEF Follows, TransferSteps
<1>8. Follows["pstat rowner"] = "owner cred"
  BY DEF Follows, TransferSteps
<1>9. Follows["owner cred"] = "sdi"
  BY DEF Follows, TransferSteps
<1>10. Follows["sdi"] = "owned"
  BY DEF Follows, TransferSteps
<1>11. Follows["owned"] = "rfpro"
  BY DEF Follows, TransferSteps
<1>12. Follows["rfpro"] = "delete acl"
  BY DEF Follows, TransferSteps
<1>13. Follows["delete acl"] = "aces"
  BY DEF Follows, TransferSteps
<1>14. Follows["aces"] = "rfnop"
  BY DEF Follows, TransferSteps
<1> QED BY <1>1, <1>2, <1>3, <1>4, <1>5, <1>6, <1>7, <1>8, <1>9, <1>10, <1>11, <1>12, <1>13, <1>14

(* Just works, and certificates *)
LEMMA JustWorksOrdered == Ordered(JustWorks)
<1> DEFINE a == JwSelect \o JwIdentity
           b == a \o JwOwners
           c == b \o JwCred
           d == c \o JwProvision
           e == d \o JwOperate
<1>1. JustWorks = e
  BY DEF JustWorks
<1>2. /\ JwSelect \in Seq(TransferSteps)
      /\ JwIdentity \in Seq(TransferSteps)
      /\ JwOwners \in Seq(TransferSteps)
      /\ JwCred \in Seq(TransferSteps)
      /\ JwProvision \in Seq(TransferSteps)
      /\ JwOperate \in Seq(TransferSteps)
  <2>1. "get doxm" \in TransferSteps /\ "oxmsel" \in TransferSteps
    BY DEF TransferSteps
  <2>11. JwSelect \in Seq(TransferSteps)
    BY <2>1, FewSteps DEF JwSelect
  <2>2. "om" \in TransferSteps /\ "devowneruuid" \in TransferSteps /\ "deviceuuid" \in TransferSteps
    BY DEF TransferSteps
  <2>12. JwIdentity \in Seq(TransferSteps)
    BY <2>2, FewSteps DEF JwIdentity
  <2>3. /\ "doxm rowner" \in TransferSteps /\ "acl rowner" \in TransferSteps
        /\ "pstat rowner" \in TransferSteps
    BY DEF TransferSteps
  <2>13. JwOwners \in Seq(TransferSteps)
    BY <2>3, FewSteps DEF JwOwners
  <2>4. "owner cred" \in TransferSteps /\ "sdi" \in TransferSteps /\ "owned" \in TransferSteps
    BY DEF TransferSteps
  <2>14. JwCred \in Seq(TransferSteps)
    BY <2>4, FewSteps DEF JwCred
  <2>5. "rfpro" \in TransferSteps /\ "delete acl" \in TransferSteps
    BY DEF TransferSteps
  <2>15. JwProvision \in Seq(TransferSteps)
    BY <2>5, FewSteps DEF JwProvision
  <2>6. "aces" \in TransferSteps /\ "rfnop" \in TransferSteps
    BY DEF TransferSteps
  <2>16. JwOperate \in Seq(TransferSteps)
    BY <2>6, FewSteps DEF JwOperate
  <2> QED BY <2>11, <2>12, <2>13, <2>14, <2>15, <2>16
<1>3. /\ Len(JwSelect) = 2 /\ JwSelect[1] = "get doxm" /\ JwSelect[2] = "oxmsel"
      /\ Len(JwIdentity) = 3 /\ JwIdentity[1] = "om" /\ JwIdentity[2] = "devowneruuid"
      /\ JwIdentity[3] = "deviceuuid"
      /\ Len(JwOwners) = 3 /\ JwOwners[1] = "doxm rowner" /\ JwOwners[2] = "acl rowner"
      /\ JwOwners[3] = "pstat rowner"
      /\ Len(JwCred) = 3 /\ JwCred[1] = "owner cred" /\ JwCred[2] = "sdi" /\ JwCred[3] = "owned"
      /\ Len(JwProvision) = 2 /\ JwProvision[1] = "rfpro" /\ JwProvision[2] = "delete acl"
      /\ Len(JwOperate) = 2 /\ JwOperate[1] = "aces" /\ JwOperate[2] = "rfnop"
  BY DEF JwSelect, JwIdentity, JwOwners, JwCred, JwProvision, JwOperate
<1>44. a \in Seq(TransferSteps)
  BY <1>2, Joined
<1>4. /\ Len(a) = Len(JwSelect) + Len(JwIdentity)
      /\ \A i \in 1..Len(JwSelect) : a[i] = JwSelect[i]
      /\ \A i \in 1..Len(JwIdentity) : a[Len(JwSelect) + i] = JwIdentity[i]
  BY <1>2, Joined
<1> HIDE DEF a
<1>5. /\ Len(a) = 5
      /\ a[1] = "get doxm" /\ a[2] = "oxmsel" /\ a[3] = "om"
      /\ a[4] = "devowneruuid" /\ a[5] = "deviceuuid"
  <2>1. 1 \in 1..2 /\ 2 \in 1..2
    OBVIOUS
  <2>2. 1 \in 1..3 /\ 2 \in 1..3 /\ 3 \in 1..3
    OBVIOUS
  <2>3. a[2 + 1] = JwIdentity[1] /\ a[2 + 2] = JwIdentity[2] /\ a[2 + 3] = JwIdentity[3]
    BY <1>3, <1>3, <1>4, <2>2
  <2>4. /\ a[1] = JwSelect[1] /\ a[2] = JwSelect[2]
    BY <1>3, <1>3, <1>4, <2>1
  <2>5. Len(a) = 5
    <3>1. Len(JwSelect) = 2
      BY <1>3
    <3>2. Len(JwIdentity) = 3
      BY <1>3
    <3>3. Len(a) = Len(JwSelect) + Len(JwIdentity)
      BY <1>4
    <3> QED BY <3>1, <3>2, <3>3
  <2>6. 2 + 1 = 3 /\ 2 + 2 = 4 /\ 2 + 3 = 5
    OBVIOUS
  <2>7. /\ a[3] = "om"
        /\ a[4] = "devowneruuid"
        /\ a[5] = "deviceuuid"
    BY <1>3, <2>3, <2>6, Zenon
  <2>8. /\ a[1] = "get doxm" /\ a[2] = "oxmsel"
    BY <1>3, <2>4
  <2> QED BY <2>5, <2>7, <2>8
<1>46. b \in Seq(TransferSteps)
  BY <1>2, <1>44, Joined
<1>6. /\ Len(b) = Len(a) + Len(JwOwners)
      /\ \A i \in 1..Len(a) : b[i] = a[i]
      /\ \A i \in 1..Len(JwOwners) : b[Len(a) + i] = JwOwners[i]
  BY <1>2, <1>44, Joined
<1> HIDE DEF b
<1>7. /\ Len(b) = 8
      /\ b[1] = "get doxm" /\ b[2] = "oxmsel" /\ b[3] = "om"
      /\ b[4] = "devowneruuid" /\ b[5] = "deviceuuid" /\ b[6] = "doxm rowner"
      /\ b[7] = "acl rowner" /\ b[8] = "pstat rowner"
  <2>1. 1 \in 1..5 /\ 2 \in 1..5 /\ 3 \in 1..5 /\ 4 \in 1..5 /\ 5 \in 1..5
    OBVIOUS
  <2>2. 1 \in 1..3 /\ 2 \in 1..3 /\ 3 \in 1..3
    OBVIOUS
  <2>3. b[5 + 1] = JwOwners[1] /\ b[5 + 2] = JwOwners[2] /\ b[5 + 3] = JwOwners[3]
    BY <1>3, <1>5, <1>6, <2>2
  <2>4. /\ b[1] = a[1] /\ b[2] = a[2] /\ b[3] = a[3] /\ b[4] = a[4]
        /\ b[5] = a[5]
    BY <1>3, <1>5, <1>6, <2>1
  <2>5. Len(b) = 8
    <3>1. Len(a) = 5
      BY <1>5
    <3>2. Len(JwOwners) = 3
      BY <1>3
    <3>3. Len(b) = Len(a) + Len(JwOwners)
      BY <1>6
    <3> QED BY <3>1, <3>2, <3>3
  <2>6. 5 + 1 = 6 /\ 5 + 2 = 7 /\ 5 + 3 = 8
    OBVIOUS
  <2>7. /\ b[6] = "doxm rowner"
        /\ b[7] = "acl rowner"
        /\ b[8] = "pstat rowner"
    BY <1>3, <2>3, <2>6, Zenon
  <2>8. /\ b[1] = "get doxm" /\ b[2] = "oxmsel" /\ b[3] = "om"
        /\ b[4] = "devowneruuid" /\ b[5] = "deviceuuid"
    BY <1>5, <2>4
  <2> QED BY <2>5, <2>7, <2>8
<1>48. c \in Seq(TransferSteps)
  BY <1>2, <1>46, Joined
<1>8. /\ Len(c) = Len(b) + Len(JwCred)
      /\ \A i \in 1..Len(b) : c[i] = b[i]
      /\ \A i \in 1..Len(JwCred) : c[Len(b) + i] = JwCred[i]
  BY <1>2, <1>46, Joined
<1> HIDE DEF c
<1>9. /\ Len(c) = 11
      /\ c[1] = "get doxm" /\ c[2] = "oxmsel" /\ c[3] = "om"
      /\ c[4] = "devowneruuid" /\ c[5] = "deviceuuid" /\ c[6] = "doxm rowner"
      /\ c[7] = "acl rowner" /\ c[8] = "pstat rowner" /\ c[9] = "owner cred"
      /\ c[10] = "sdi" /\ c[11] = "owned"
  <2>1. /\ 1 \in 1..8 /\ 2 \in 1..8 /\ 3 \in 1..8 /\ 4 \in 1..8 /\ 5 \in 1..8
        /\ 6 \in 1..8 /\ 7 \in 1..8 /\ 8 \in 1..8
    OBVIOUS
  <2>2. 1 \in 1..3 /\ 2 \in 1..3 /\ 3 \in 1..3
    OBVIOUS
  <2>3. c[8 + 1] = JwCred[1] /\ c[8 + 2] = JwCred[2] /\ c[8 + 3] = JwCred[3]
    BY <1>3, <1>7, <1>8, <2>2
  <2>4. /\ c[1] = b[1] /\ c[2] = b[2] /\ c[3] = b[3] /\ c[4] = b[4]
        /\ c[5] = b[5] /\ c[6] = b[6] /\ c[7] = b[7] /\ c[8] = b[8]
    BY <1>3, <1>7, <1>8, <2>1
  <2>5. Len(c) = 11
    <3>1. Len(b) = 8
      BY <1>7
    <3>2. Len(JwCred) = 3
      BY <1>3
    <3>3. Len(c) = Len(b) + Len(JwCred)
      BY <1>8
    <3> QED BY <3>1, <3>2, <3>3
  <2>6. 8 + 1 = 9 /\ 8 + 2 = 10 /\ 8 + 3 = 11
    OBVIOUS
  <2>7. /\ c[9] = "owner cred"
        /\ c[10] = "sdi"
        /\ c[11] = "owned"
    BY <1>3, <2>3, <2>6, Zenon
  <2>8. /\ c[1] = "get doxm" /\ c[2] = "oxmsel" /\ c[3] = "om"
        /\ c[4] = "devowneruuid" /\ c[5] = "deviceuuid" /\ c[6] = "doxm rowner"
        /\ c[7] = "acl rowner" /\ c[8] = "pstat rowner"
    BY <1>7, <2>4
  <2> QED BY <2>5, <2>7, <2>8
<1>50. d \in Seq(TransferSteps)
  BY <1>2, <1>48, Joined
<1>10. /\ Len(d) = Len(c) + Len(JwProvision)
       /\ \A i \in 1..Len(c) : d[i] = c[i]
       /\ \A i \in 1..Len(JwProvision) : d[Len(c) + i] = JwProvision[i]
  BY <1>2, <1>48, Joined
<1> HIDE DEF d
<1>11. /\ Len(d) = 13
       /\ d[1] = "get doxm" /\ d[2] = "oxmsel" /\ d[3] = "om"
       /\ d[4] = "devowneruuid" /\ d[5] = "deviceuuid" /\ d[6] = "doxm rowner"
       /\ d[7] = "acl rowner" /\ d[8] = "pstat rowner" /\ d[9] = "owner cred"
       /\ d[10] = "sdi" /\ d[11] = "owned" /\ d[12] = "rfpro"
       /\ d[13] = "delete acl"
  <2>1. /\ 1 \in 1..11 /\ 2 \in 1..11 /\ 3 \in 1..11 /\ 4 \in 1..11 /\ 5 \in 1..11
        /\ 6 \in 1..11 /\ 7 \in 1..11 /\ 8 \in 1..11 /\ 9 \in 1..11 /\ 10 \in 1..11
        /\ 11 \in 1..11
    OBVIOUS
  <2>2. 1 \in 1..2 /\ 2 \in 1..2
    OBVIOUS
  <2>3. d[11 + 1] = JwProvision[1] /\ d[11 + 2] = JwProvision[2]
    BY <1>3, <1>9, <1>10, <2>2
  <2>4. /\ d[1] = c[1] /\ d[2] = c[2] /\ d[3] = c[3] /\ d[4] = c[4]
        /\ d[5] = c[5] /\ d[6] = c[6] /\ d[7] = c[7] /\ d[8] = c[8]
        /\ d[9] = c[9] /\ d[10] = c[10] /\ d[11] = c[11]
    BY <1>3, <1>9, <1>10, <2>1
  <2>5. Len(d) = 13
    <3>1. Len(c) = 11
      BY <1>9
    <3>2. Len(JwProvision) = 2
      BY <1>3
    <3>3. Len(d) = Len(c) + Len(JwProvision)
      BY <1>10
    <3> QED BY <3>1, <3>2, <3>3
  <2>6. 11 + 1 = 12 /\ 11 + 2 = 13
    OBVIOUS
  <2>7. /\ d[12] = "rfpro"
        /\ d[13] = "delete acl"
    BY <1>3, <2>3, <2>6, Zenon
  <2>8. /\ d[1] = "get doxm" /\ d[2] = "oxmsel" /\ d[3] = "om"
        /\ d[4] = "devowneruuid" /\ d[5] = "deviceuuid" /\ d[6] = "doxm rowner"
        /\ d[7] = "acl rowner" /\ d[8] = "pstat rowner" /\ d[9] = "owner cred"
        /\ d[10] = "sdi" /\ d[11] = "owned"
    BY <1>9, <2>4
  <2> QED BY <2>5, <2>7, <2>8
<1>52. e \in Seq(TransferSteps)
  BY <1>2, <1>50, Joined
<1>12. /\ Len(e) = Len(d) + Len(JwOperate)
       /\ \A i \in 1..Len(d) : e[i] = d[i]
       /\ \A i \in 1..Len(JwOperate) : e[Len(d) + i] = JwOperate[i]
  BY <1>2, <1>50, Joined
<1> HIDE DEF e
<1>13. /\ Len(e) = 15
       /\ e[1] = "get doxm" /\ e[2] = "oxmsel" /\ e[3] = "om"
       /\ e[4] = "devowneruuid" /\ e[5] = "deviceuuid" /\ e[6] = "doxm rowner"
       /\ e[7] = "acl rowner" /\ e[8] = "pstat rowner" /\ e[9] = "owner cred"
       /\ e[10] = "sdi" /\ e[11] = "owned" /\ e[12] = "rfpro"
       /\ e[13] = "delete acl" /\ e[14] = "aces" /\ e[15] = "rfnop"
  <2>1. /\ 1 \in 1..13 /\ 2 \in 1..13 /\ 3 \in 1..13 /\ 4 \in 1..13 /\ 5 \in 1..13
        /\ 6 \in 1..13 /\ 7 \in 1..13 /\ 8 \in 1..13 /\ 9 \in 1..13 /\ 10 \in 1..13
        /\ 11 \in 1..13 /\ 12 \in 1..13 /\ 13 \in 1..13
    OBVIOUS
  <2>2. 1 \in 1..2 /\ 2 \in 1..2
    OBVIOUS
  <2>3. e[13 + 1] = JwOperate[1] /\ e[13 + 2] = JwOperate[2]
    BY <1>3, <1>11, <1>12, <2>2
  <2>4. /\ e[1] = d[1] /\ e[2] = d[2] /\ e[3] = d[3] /\ e[4] = d[4]
        /\ e[5] = d[5] /\ e[6] = d[6] /\ e[7] = d[7] /\ e[8] = d[8]
        /\ e[9] = d[9] /\ e[10] = d[10] /\ e[11] = d[11] /\ e[12] = d[12]
        /\ e[13] = d[13]
    BY <1>3, <1>11, <1>12, <2>1
  <2>5. Len(e) = 15
    <3>1. Len(d) = 13
      BY <1>11
    <3>2. Len(JwOperate) = 2
      BY <1>3
    <3>3. Len(e) = Len(d) + Len(JwOperate)
      BY <1>12
    <3> QED BY <3>1, <3>2, <3>3
  <2>6. 13 + 1 = 14 /\ 13 + 2 = 15
    OBVIOUS
  <2>7. /\ e[14] = "aces"
        /\ e[15] = "rfnop"
    BY <1>3, <2>3, <2>6, Zenon
  <2>8. /\ e[1] = "get doxm" /\ e[2] = "oxmsel" /\ e[3] = "om"
        /\ e[4] = "devowneruuid" /\ e[5] = "deviceuuid" /\ e[6] = "doxm rowner"
        /\ e[7] = "acl rowner" /\ e[8] = "pstat rowner" /\ e[9] = "owner cred"
        /\ e[10] = "sdi" /\ e[11] = "owned" /\ e[12] = "rfpro"
        /\ e[13] = "delete acl"
    BY <1>11, <2>4
  <2> QED BY <2>5, <2>7, <2>8
<1>14. \A p \in 1..14 : /\ e[p] \in TransferSteps \ {"rfnop"}
                        /\ e[p + 1] = Follows[e[p]]
  <2> TAKE p \in 1..14
  <2>1. \/ p = 1 \/ p = 2 \/ p = 3 \/ p = 4 \/ p = 5 \/ p = 6 \/ p = 7
        \/ p = 8 \/ p = 9 \/ p = 10 \/ p = 11 \/ p = 12 \/ p = 13 \/ p = 14
    OBVIOUS
  <2>2. CASE p = 1
    <3>1. "get doxm" \in TransferSteps \ {"rfnop"}
      BY DEF TransferSteps
    <3>2. p + 1 = 2
      BY <2>2
    <3>3. e[1] = "get doxm" /\ e[2] = "oxmsel"
      BY <1>13
    <3> QED BY <2>2, <3>1, <3>2, <3>3, WhatFollows, Zenon
  <2>3. CASE p = 2
    <3>1. "oxmsel" \in TransferSteps \ {"rfnop"}
      BY DEF TransferSteps
    <3>2. p + 1 = 3
      BY <2>3
    <3>3. e[2] = "oxmsel" /\ e[3] = "om"
      BY <1>13
    <3> QED BY <2>3, <3>1, <3>2, <3>3, WhatFollows, Zenon
  <2>4. CASE p = 3
    <3>1. "om" \in TransferSteps \ {"rfnop"}
      BY DEF TransferSteps
    <3>2. p + 1 = 4
      BY <2>4
    <3>3. e[3] = "om" /\ e[4] = "devowneruuid"
      BY <1>13
    <3> QED BY <2>4, <3>1, <3>2, <3>3, WhatFollows, Zenon
  <2>5. CASE p = 4
    <3>1. "devowneruuid" \in TransferSteps \ {"rfnop"}
      BY DEF TransferSteps
    <3>2. p + 1 = 5
      BY <2>5
    <3>3. e[4] = "devowneruuid" /\ e[5] = "deviceuuid"
      BY <1>13
    <3> QED BY <2>5, <3>1, <3>2, <3>3, WhatFollows, Zenon
  <2>6. CASE p = 5
    <3>1. "deviceuuid" \in TransferSteps \ {"rfnop"}
      BY DEF TransferSteps
    <3>2. p + 1 = 6
      BY <2>6
    <3>3. e[5] = "deviceuuid" /\ e[6] = "doxm rowner"
      BY <1>13
    <3> QED BY <2>6, <3>1, <3>2, <3>3, WhatFollows, Zenon
  <2>7. CASE p = 6
    <3>1. "doxm rowner" \in TransferSteps \ {"rfnop"}
      BY DEF TransferSteps
    <3>2. p + 1 = 7
      BY <2>7
    <3>3. e[6] = "doxm rowner" /\ e[7] = "acl rowner"
      BY <1>13
    <3> QED BY <2>7, <3>1, <3>2, <3>3, WhatFollows, Zenon
  <2>8. CASE p = 7
    <3>1. "acl rowner" \in TransferSteps \ {"rfnop"}
      BY DEF TransferSteps
    <3>2. p + 1 = 8
      BY <2>8
    <3>3. e[7] = "acl rowner" /\ e[8] = "pstat rowner"
      BY <1>13
    <3> QED BY <2>8, <3>1, <3>2, <3>3, WhatFollows, Zenon
  <2>9. CASE p = 8
    <3>1. "pstat rowner" \in TransferSteps \ {"rfnop"}
      BY DEF TransferSteps
    <3>2. p + 1 = 9
      BY <2>9
    <3>3. e[8] = "pstat rowner" /\ e[9] = "owner cred"
      BY <1>13
    <3> QED BY <2>9, <3>1, <3>2, <3>3, WhatFollows, Zenon
  <2>10. CASE p = 9
    <3>1. "owner cred" \in TransferSteps \ {"rfnop"}
      BY DEF TransferSteps
    <3>2. p + 1 = 10
      BY <2>10
    <3>3. e[9] = "owner cred" /\ e[10] = "sdi"
      BY <1>13
    <3> QED BY <2>10, <3>1, <3>2, <3>3, WhatFollows, Zenon
  <2>11. CASE p = 10
    <3>1. "sdi" \in TransferSteps \ {"rfnop"}
      BY DEF TransferSteps
    <3>2. p + 1 = 11
      BY <2>11
    <3>3. e[10] = "sdi" /\ e[11] = "owned"
      BY <1>13
    <3> QED BY <2>11, <3>1, <3>2, <3>3, WhatFollows, Zenon
  <2>12. CASE p = 11
    <3>1. "owned" \in TransferSteps \ {"rfnop"}
      BY DEF TransferSteps
    <3>2. p + 1 = 12
      BY <2>12
    <3>3. e[11] = "owned" /\ e[12] = "rfpro"
      BY <1>13
    <3> QED BY <2>12, <3>1, <3>2, <3>3, WhatFollows, Zenon
  <2>13. CASE p = 12
    <3>1. "rfpro" \in TransferSteps \ {"rfnop"}
      BY DEF TransferSteps
    <3>2. p + 1 = 13
      BY <2>13
    <3>3. e[12] = "rfpro" /\ e[13] = "delete acl"
      BY <1>13
    <3> QED BY <2>13, <3>1, <3>2, <3>3, WhatFollows, Zenon
  <2>14. CASE p = 13
    <3>1. "delete acl" \in TransferSteps \ {"rfnop"}
      BY DEF TransferSteps
    <3>2. p + 1 = 14
      BY <2>14
    <3>3. e[13] = "delete acl" /\ e[14] = "aces"
      BY <1>13
    <3> QED BY <2>14, <3>1, <3>2, <3>3, WhatFollows, Zenon
  <2>15. CASE p = 14
    <3>1. "aces" \in TransferSteps \ {"rfnop"}
      BY DEF TransferSteps
    <3>2. p + 1 = 15
      BY <2>15
    <3>3. e[14] = "aces" /\ e[15] = "rfnop"
      BY <1>13
    <3> QED BY <2>15, <3>1, <3>2, <3>3, WhatFollows, Zenon
  <2> QED BY <2>1, <2>2, <2>3, <2>4, <2>5, <2>6, <2>7, <2>8, <2>9, <2>10, <2>11, <2>12,
             <2>13, <2>14, <2>15
<1>15. e[1] \in {"get doxm", "om"} /\ e[Len(e)] = "rfnop"
  BY <1>13
<1>16. Len(e) \in 1..15 /\ 1..(Len(e) - 1) = 1..14
  <2>1. Len(e) = 15
    BY <1>13
  <2> QED BY <2>1
<1> QED BY <1>1, <1>14, <1>15, <1>16, Zenon DEF Ordered

(* Random PIN *)
LEMMA RandomPinOrdered == Ordered(RandomPin)
<1> DEFINE a == RdpIdentity \o RdpOwners
           b == a \o RdpCred
           c == b \o RdpProvision
           d == c \o RdpOperate
<1>1. RandomPin = d
  BY DEF RandomPin
<1>2. /\ RdpIdentity \in Seq(TransferSteps)
      /\ RdpOwners \in Seq(TransferSteps)
      /\ RdpCred \in Seq(TransferSteps)
      /\ RdpProvision \in Seq(TransferSteps)
      /\ RdpOperate \in Seq(TransferSteps)
  <2>1. "om" \in TransferSteps /\ "devowneruuid" \in TransferSteps /\ "deviceuuid" \in TransferSteps
    BY DEF TransferSteps
  <2>11. RdpIdentity \in Seq(TransferSteps)
    BY <2>1, FewSteps DEF RdpIdentity
  <2>2. /\ "doxm rowner" \in TransferSteps /\ "acl rowner" \in TransferSteps
        /\ "pstat rowner" \in TransferSteps
    BY DEF TransferSteps
  <2>12. RdpOwners \in Seq(TransferSteps)
    BY <2>2, FewSteps DEF RdpOwners
  <2>3. "owner cred" \in TransferSteps /\ "sdi" \in TransferSteps /\ "owned" \in TransferSteps
    BY DEF TransferSteps
  <2>13. RdpCred \in Seq(TransferSteps)
    BY <2>3, FewSteps DEF RdpCred
  <2>4. "rfpro" \in TransferSteps /\ "delete acl" \in TransferSteps
    BY DEF TransferSteps
  <2>14. RdpProvision \in Seq(TransferSteps)
    BY <2>4, FewSteps DEF RdpProvision
  <2>5. "aces" \in TransferSteps /\ "rfnop" \in TransferSteps
    BY DEF TransferSteps
  <2>15. RdpOperate \in Seq(TransferSteps)
    BY <2>5, FewSteps DEF RdpOperate
  <2> QED BY <2>11, <2>12, <2>13, <2>14, <2>15
<1>3. /\ Len(RdpIdentity) = 3 /\ RdpIdentity[1] = "om"
      /\ RdpIdentity[2] = "devowneruuid" /\ RdpIdentity[3] = "deviceuuid"
      /\ Len(RdpOwners) = 3 /\ RdpOwners[1] = "doxm rowner"
      /\ RdpOwners[2] = "acl rowner" /\ RdpOwners[3] = "pstat rowner"
      /\ Len(RdpCred) = 3 /\ RdpCred[1] = "owner cred" /\ RdpCred[2] = "sdi" /\ RdpCred[3] = "owned"
      /\ Len(RdpProvision) = 2 /\ RdpProvision[1] = "rfpro" /\ RdpProvision[2] = "delete acl"
      /\ Len(RdpOperate) = 2 /\ RdpOperate[1] = "aces" /\ RdpOperate[2] = "rfnop"
  BY DEF RdpIdentity, RdpOwners, RdpCred, RdpProvision, RdpOperate
<1>44. a \in Seq(TransferSteps)
  BY <1>2, Joined
<1>4. /\ Len(a) = Len(RdpIdentity) + Len(RdpOwners)
      /\ \A i \in 1..Len(RdpIdentity) : a[i] = RdpIdentity[i]
      /\ \A i \in 1..Len(RdpOwners) : a[Len(RdpIdentity) + i] = RdpOwners[i]
  BY <1>2, Joined
<1> HIDE DEF a
<1>5. /\ Len(a) = 6
      /\ a[1] = "om" /\ a[2] = "devowneruuid" /\ a[3] = "deviceuuid"
      /\ a[4] = "doxm rowner" /\ a[5] = "acl rowner" /\ a[6] = "pstat rowner"
  <2>1. 1 \in 1..3 /\ 2 \in 1..3 /\ 3 \in 1..3
    OBVIOUS
  <2>2. 1 \in 1..3 /\ 2 \in 1..3 /\ 3 \in 1..3
    OBVIOUS
  <2>3. a[3 + 1] = RdpOwners[1] /\ a[3 + 2] = RdpOwners[2] /\ a[3 + 3] = RdpOwners[3]
    BY <1>3, <1>3, <1>4, <2>2
  <2>4. /\ a[1] = RdpIdentity[1] /\ a[2] = RdpIdentity[2] /\ a[3] = RdpIdentity[3]
    BY <1>3, <1>3, <1>4, <2>1
  <2>5. Len(a) = 6
    <3>1. Len(RdpIdentity) = 3
      BY <1>3
    <3>2. Len(RdpOwners) = 3
      BY <1>3
    <3>3. Len(a) = Len(RdpIdentity) + Len(RdpOwners)
      BY <1>4
    <3> QED BY <3>1, <3>2, <3>3
  <2>6. 3 + 1 = 4 /\ 3 + 2 = 5 /\ 3 + 3 = 6
    OBVIOUS
  <2>7. /\ a[4] = "doxm rowner"
        /\ a[5] = "acl rowner"
        /\ a[6] = "pstat rowner"
    BY <1>3, <2>3, <2>6, Zenon
  <2>8. /\ a[1] = "om" /\ a[2] = "devowneruuid" /\ a[3] = "deviceuuid"
    BY <1>3, <2>4
  <2> QED BY <2>5, <2>7, <2>8
<1>46. b \in Seq(TransferSteps)
  BY <1>2, <1>44, Joined
<1>6. /\ Len(b) = Len(a) + Len(RdpCred)
      /\ \A i \in 1..Len(a) : b[i] = a[i]
      /\ \A i \in 1..Len(RdpCred) : b[Len(a) + i] = RdpCred[i]
  BY <1>2, <1>44, Joined
<1> HIDE DEF b
<1>7. /\ Len(b) = 9
      /\ b[1] = "om" /\ b[2] = "devowneruuid" /\ b[3] = "deviceuuid"
      /\ b[4] = "doxm rowner" /\ b[5] = "acl rowner" /\ b[6] = "pstat rowner"
      /\ b[7] = "owner cred" /\ b[8] = "sdi" /\ b[9] = "owned"
  <2>1. 1 \in 1..6 /\ 2 \in 1..6 /\ 3 \in 1..6 /\ 4 \in 1..6 /\ 5 \in 1..6 /\ 6 \in 1..6
    OBVIOUS
  <2>2. 1 \in 1..3 /\ 2 \in 1..3 /\ 3 \in 1..3
    OBVIOUS
  <2>3. b[6 + 1] = RdpCred[1] /\ b[6 + 2] = RdpCred[2] /\ b[6 + 3] = RdpCred[3]
    BY <1>3, <1>5, <1>6, <2>2
  <2>4. /\ b[1] = a[1] /\ b[2] = a[2] /\ b[3] = a[3] /\ b[4] = a[4]
        /\ b[5] = a[5] /\ b[6] = a[6]
    BY <1>3, <1>5, <1>6, <2>1
  <2>5. Len(b) = 9
    <3>1. Len(a) = 6
      BY <1>5
    <3>2. Len(RdpCred) = 3
      BY <1>3
    <3>3. Len(b) = Len(a) + Len(RdpCred)
      BY <1>6
    <3> QED BY <3>1, <3>2, <3>3
  <2>6. 6 + 1 = 7 /\ 6 + 2 = 8 /\ 6 + 3 = 9
    OBVIOUS
  <2>7. /\ b[7] = "owner cred"
        /\ b[8] = "sdi"
        /\ b[9] = "owned"
    BY <1>3, <2>3, <2>6, Zenon
  <2>8. /\ b[1] = "om" /\ b[2] = "devowneruuid" /\ b[3] = "deviceuuid"
        /\ b[4] = "doxm rowner" /\ b[5] = "acl rowner" /\ b[6] = "pstat rowner"
    BY <1>5, <2>4
  <2> QED BY <2>5, <2>7, <2>8
<1>48. c \in Seq(TransferSteps)
  BY <1>2, <1>46, Joined
<1>8. /\ Len(c) = Len(b) + Len(RdpProvision)
      /\ \A i \in 1..Len(b) : c[i] = b[i]
      /\ \A i \in 1..Len(RdpProvision) : c[Len(b) + i] = RdpProvision[i]
  BY <1>2, <1>46, Joined
<1> HIDE DEF c
<1>9. /\ Len(c) = 11
      /\ c[1] = "om" /\ c[2] = "devowneruuid" /\ c[3] = "deviceuuid"
      /\ c[4] = "doxm rowner" /\ c[5] = "acl rowner" /\ c[6] = "pstat rowner"
      /\ c[7] = "owner cred" /\ c[8] = "sdi" /\ c[9] = "owned"
      /\ c[10] = "rfpro" /\ c[11] = "delete acl"
  <2>1. /\ 1 \in 1..9 /\ 2 \in 1..9 /\ 3 \in 1..9 /\ 4 \in 1..9 /\ 5 \in 1..9
        /\ 6 \in 1..9 /\ 7 \in 1..9 /\ 8 \in 1..9 /\ 9 \in 1..9
    OBVIOUS
  <2>2. 1 \in 1..2 /\ 2 \in 1..2
    OBVIOUS
  <2>3. c[9 + 1] = RdpProvision[1] /\ c[9 + 2] = RdpProvision[2]
    BY <1>3, <1>7, <1>8, <2>2
  <2>4. /\ c[1] = b[1] /\ c[2] = b[2] /\ c[3] = b[3] /\ c[4] = b[4]
        /\ c[5] = b[5] /\ c[6] = b[6] /\ c[7] = b[7] /\ c[8] = b[8]
        /\ c[9] = b[9]
    BY <1>3, <1>7, <1>8, <2>1
  <2>5. Len(c) = 11
    <3>1. Len(b) = 9
      BY <1>7
    <3>2. Len(RdpProvision) = 2
      BY <1>3
    <3>3. Len(c) = Len(b) + Len(RdpProvision)
      BY <1>8
    <3> QED BY <3>1, <3>2, <3>3
  <2>6. 9 + 1 = 10 /\ 9 + 2 = 11
    OBVIOUS
  <2>7. /\ c[10] = "rfpro"
        /\ c[11] = "delete acl"
    BY <1>3, <2>3, <2>6, Zenon
  <2>8. /\ c[1] = "om" /\ c[2] = "devowneruuid" /\ c[3] = "deviceuuid"
        /\ c[4] = "doxm rowner" /\ c[5] = "acl rowner" /\ c[6] = "pstat rowner"
        /\ c[7] = "owner cred" /\ c[8] = "sdi" /\ c[9] = "owned"
    BY <1>7, <2>4
  <2> QED BY <2>5, <2>7, <2>8
<1>50. d \in Seq(TransferSteps)
  BY <1>2, <1>48, Joined
<1>10. /\ Len(d) = Len(c) + Len(RdpOperate)
       /\ \A i \in 1..Len(c) : d[i] = c[i]
       /\ \A i \in 1..Len(RdpOperate) : d[Len(c) + i] = RdpOperate[i]
  BY <1>2, <1>48, Joined
<1> HIDE DEF d
<1>11. /\ Len(d) = 13
       /\ d[1] = "om" /\ d[2] = "devowneruuid" /\ d[3] = "deviceuuid"
       /\ d[4] = "doxm rowner" /\ d[5] = "acl rowner" /\ d[6] = "pstat rowner"
       /\ d[7] = "owner cred" /\ d[8] = "sdi" /\ d[9] = "owned"
       /\ d[10] = "rfpro" /\ d[11] = "delete acl" /\ d[12] = "aces"
       /\ d[13] = "rfnop"
  <2>1. /\ 1 \in 1..11 /\ 2 \in 1..11 /\ 3 \in 1..11 /\ 4 \in 1..11 /\ 5 \in 1..11
        /\ 6 \in 1..11 /\ 7 \in 1..11 /\ 8 \in 1..11 /\ 9 \in 1..11 /\ 10 \in 1..11
        /\ 11 \in 1..11
    OBVIOUS
  <2>2. 1 \in 1..2 /\ 2 \in 1..2
    OBVIOUS
  <2>3. d[11 + 1] = RdpOperate[1] /\ d[11 + 2] = RdpOperate[2]
    BY <1>3, <1>9, <1>10, <2>2
  <2>4. /\ d[1] = c[1] /\ d[2] = c[2] /\ d[3] = c[3] /\ d[4] = c[4]
        /\ d[5] = c[5] /\ d[6] = c[6] /\ d[7] = c[7] /\ d[8] = c[8]
        /\ d[9] = c[9] /\ d[10] = c[10] /\ d[11] = c[11]
    BY <1>3, <1>9, <1>10, <2>1
  <2>5. Len(d) = 13
    <3>1. Len(c) = 11
      BY <1>9
    <3>2. Len(RdpOperate) = 2
      BY <1>3
    <3>3. Len(d) = Len(c) + Len(RdpOperate)
      BY <1>10
    <3> QED BY <3>1, <3>2, <3>3
  <2>6. 11 + 1 = 12 /\ 11 + 2 = 13
    OBVIOUS
  <2>7. /\ d[12] = "aces"
        /\ d[13] = "rfnop"
    BY <1>3, <2>3, <2>6, Zenon
  <2>8. /\ d[1] = "om" /\ d[2] = "devowneruuid" /\ d[3] = "deviceuuid"
        /\ d[4] = "doxm rowner" /\ d[5] = "acl rowner" /\ d[6] = "pstat rowner"
        /\ d[7] = "owner cred" /\ d[8] = "sdi" /\ d[9] = "owned"
        /\ d[10] = "rfpro" /\ d[11] = "delete acl"
    BY <1>9, <2>4
  <2> QED BY <2>5, <2>7, <2>8
<1>12. \A p \in 1..12 : /\ d[p] \in TransferSteps \ {"rfnop"}
                        /\ d[p + 1] = Follows[d[p]]
  <2> TAKE p \in 1..12
  <2>1. \/ p = 1 \/ p = 2 \/ p = 3 \/ p = 4 \/ p = 5 \/ p = 6 \/ p = 7
        \/ p = 8 \/ p = 9 \/ p = 10 \/ p = 11 \/ p = 12
    OBVIOUS
  <2>2. CASE p = 1
    <3>1. "om" \in TransferSteps \ {"rfnop"}
      BY DEF TransferSteps
    <3>2. p + 1 = 2
      BY <2>2
    <3>3. d[1] = "om" /\ d[2] = "devowneruuid"
      BY <1>11
    <3> QED BY <2>2, <3>1, <3>2, <3>3, WhatFollows, Zenon
  <2>3. CASE p = 2
    <3>1. "devowneruuid" \in TransferSteps \ {"rfnop"}
      BY DEF TransferSteps
    <3>2. p + 1 = 3
      BY <2>3
    <3>3. d[2] = "devowneruuid" /\ d[3] = "deviceuuid"
      BY <1>11
    <3> QED BY <2>3, <3>1, <3>2, <3>3, WhatFollows, Zenon
  <2>4. CASE p = 3
    <3>1. "deviceuuid" \in TransferSteps \ {"rfnop"}
      BY DEF TransferSteps
    <3>2. p + 1 = 4
      BY <2>4
    <3>3. d[3] = "deviceuuid" /\ d[4] = "doxm rowner"
      BY <1>11
    <3> QED BY <2>4, <3>1, <3>2, <3>3, WhatFollows, Zenon
  <2>5. CASE p = 4
    <3>1. "doxm rowner" \in TransferSteps \ {"rfnop"}
      BY DEF TransferSteps
    <3>2. p + 1 = 5
      BY <2>5
    <3>3. d[4] = "doxm rowner" /\ d[5] = "acl rowner"
      BY <1>11
    <3> QED BY <2>5, <3>1, <3>2, <3>3, WhatFollows, Zenon
  <2>6. CASE p = 5
    <3>1. "acl rowner" \in TransferSteps \ {"rfnop"}
      BY DEF TransferSteps
    <3>2. p + 1 = 6
      BY <2>6
    <3>3. d[5] = "acl rowner" /\ d[6] = "pstat rowner"
      BY <1>11
    <3> QED BY <2>6, <3>1, <3>2, <3>3, WhatFollows, Zenon
  <2>7. CASE p = 6
    <3>1. "pstat rowner" \in TransferSteps \ {"rfnop"}
      BY DEF TransferSteps
    <3>2. p + 1 = 7
      BY <2>7
    <3>3. d[6] = "pstat rowner" /\ d[7] = "owner cred"
      BY <1>11
    <3> QED BY <2>7, <3>1, <3>2, <3>3, WhatFollows, Zenon
  <2>8. CASE p = 7
    <3>1. "owner cred" \in TransferSteps \ {"rfnop"}
      BY DEF TransferSteps
    <3>2. p + 1 = 8
      BY <2>8
    <3>3. d[7] = "owner cred" /\ d[8] = "sdi"
      BY <1>11
    <3> QED BY <2>8, <3>1, <3>2, <3>3, WhatFollows, Zenon
  <2>9. CASE p = 8
    <3>1. "sdi" \in TransferSteps \ {"rfnop"}
      BY DEF TransferSteps
    <3>2. p + 1 = 9
      BY <2>9
    <3>3. d[8] = "sdi" /\ d[9] = "owned"
      BY <1>11
    <3> QED BY <2>9, <3>1, <3>2, <3>3, WhatFollows, Zenon
  <2>10. CASE p = 9
    <3>1. "owned" \in TransferSteps \ {"rfnop"}
      BY DEF TransferSteps
    <3>2. p + 1 = 10
      BY <2>10
    <3>3. d[9] = "owned" /\ d[10] = "rfpro"
      BY <1>11
    <3> QED BY <2>10, <3>1, <3>2, <3>3, WhatFollows, Zenon
  <2>11. CASE p = 10
    <3>1. "rfpro" \in TransferSteps \ {"rfnop"}
      BY DEF TransferSteps
    <3>2. p + 1 = 11
      BY <2>11
    <3>3. d[10] = "rfpro" /\ d[11] = "delete acl"
      BY <1>11
    <3> QED BY <2>11, <3>1, <3>2, <3>3, WhatFollows, Zenon
  <2>12. CASE p = 11
    <3>1. "delete acl" \in TransferSteps \ {"rfnop"}
      BY DEF TransferSteps
    <3>2. p + 1 = 12
      BY <2>12
    <3>3. d[11] = "delete acl" /\ d[12] = "aces"
      BY <1>11
    <3> QED BY <2>12, <3>1, <3>2, <3>3, WhatFollows, Zenon
  <2>13. CASE p = 12
    <3>1. "aces" \in TransferSteps \ {"rfnop"}
      BY DEF TransferSteps
    <3>2. p + 1 = 13
      BY <2>13
    <3>3. d[12] = "aces" /\ d[13] = "rfnop"
      BY <1>11
    <3> QED BY <2>13, <3>1, <3>2, <3>3, WhatFollows, Zenon
  <2> QED BY <2>1, <2>2, <2>3, <2>4, <2>5, <2>6, <2>7, <2>8, <2>9, <2>10, <2>11, <2>12, <2>13
<1>13. d[1] \in {"get doxm", "om"} /\ d[Len(d)] = "rfnop"
  BY <1>11
<1>14. Len(d) \in 1..15 /\ 1..(Len(d) - 1) = 1..12
  <2>1. Len(d) = 13
    BY <1>11
  <2> QED BY <2>1
<1> QED BY <1>1, <1>12, <1>13, <1>14, Zenon DEF Ordered

(* The requests of a transfer come in this order, and the last one makes the
   device operational.                                                      *)
LEMMA TransferOrdered ==
  ASSUME NEW k \in Transfer
  PROVE  Ordered(Script[k])
<1>1. k \in Kind /\ (Script[k] = JustWorks \/ Script[k] = RandomPin)
  BY SameTransfer DEF Transfer, Script, Kind
<1> QED BY <1>1, JustWorksOrdered, RandomPinOrdered


(* Requests of the other procedures, which are not part of a transfer *)
PlainSteps == {"get doxm", "oxmsel", "get doxm s", "RFPRO", "trustca", "csr", "cred", "aces",
               "RFNOP", "delete cred", "delete ace", "get cred", "get acl2"}
PairSteps == {"RFPRO", "RFPRO2", "cred", "cred2", "RFNOP", "RFNOP2"}
StepsOf(k) == IF k = "pair" THEN PairSteps
              ELSE IF k \in {"pin", "getcred", "getacl"} THEN PlainSteps \ Switch ELSE PlainSteps

(* The other scripts *)
LEMMA OtherScripts ==
  ASSUME NEW k \in Kind \ (Transfer \cup {"reset"})
  PROVE  /\ Len(Script[k]) \in 1..15
         /\ \A p \in 1..Len(Script[k]) : Script[k][p] \in StepsOf(k)
<1>1. CASE k = "pin"
  <2> DEFINE s == RequestPin
  <2>1. Script[k] = s
    BY <1>1 DEF Script, Kind
  <2>2. Len(s) = 2 /\ s[1] = "get doxm" /\ s[2] = "oxmsel"
    BY DEF RequestPin
  <2> HIDE DEF s
  <2>3. Len(s) \in 1..15 /\ 1..Len(s) = 1..2
    <3>1. Len(s) = 2
      BY <2>2
    <3> QED BY <3>1
  <2>4. ASSUME NEW p \in 1..2
        PROVE  s[p] \in StepsOf(k)
    <3>1. \/ p = 1 \/ p = 2
      OBVIOUS
    <3>2. /\ "get doxm" \in StepsOf("pin")
          /\ "oxmsel" \in StepsOf("pin")
      BY DEF StepsOf, PlainSteps, PairSteps, Switch
    <3> QED BY <1>1, <2>2, <3>1, <3>2, Zenon
  <2> QED BY <2>1, <2>3, <2>4, Zenon
<1>2. CASE k = "idcert"
  <2> DEFINE s == Certificate
  <2>1. Script[k] = s
    BY <1>2 DEF Script, Kind
  <2>2. /\ Len(s) = 7 /\ s[1] = "get doxm s" /\ s[2] = "RFPRO" /\ s[3] = "trustca"
        /\ s[4] = "csr" /\ s[5] = "cred" /\ s[6] = "aces" /\ s[7] = "RFNOP"
    BY DEF Certificate
  <2> HIDE DEF s
  <2>3. Len(s) \in 1..15 /\ 1..Len(s) = 1..7
    <3>1. Len(s) = 7
      BY <2>2
    <3> QED BY <3>1
  <2>4. ASSUME NEW p \in 1..7
        PROVE  s[p] \in StepsOf(k)
    <3>1. \/ p = 1 \/ p = 2 \/ p = 3 \/ p = 4 \/ p = 5 \/ p = 6 \/ p = 7
      OBVIOUS
    <3>2. /\ "get doxm s" \in StepsOf("idcert")
          /\ "RFPRO" \in StepsOf("idcert")
          /\ "trustca" \in StepsOf("idcert")
          /\ "csr" \in StepsOf("idcert")
          /\ "cred" \in StepsOf("idcert")
          /\ "aces" \in StepsOf("idcert")
          /\ "RFNOP" \in StepsOf("idcert")
      BY DEF StepsOf, PlainSteps, PairSteps, Switch
    <3> QED BY <1>2, <2>2, <3>1, <3>2, Zenon
  <2> QED BY <2>1, <2>3, <2>4, Zenon
<1>3. CASE k = "ace"
  <2> DEFINE s == ProvisionAce
  <2>1. Script[k] = s
    BY <1>3 DEF Script, Kind
  <2>2. Len(s) = 3 /\ s[1] = "RFPRO" /\ s[2] = "aces" /\ s[3] = "RFNOP"
    BY DEF ProvisionAce
  <2> HIDE DEF s
  <2>3. Len(s) \in 1..15 /\ 1..Len(s) = 1..3
    <3>1. Len(s) = 3
      BY <2>2
    <3> QED BY <3>1
  <2>4. ASSUME NEW p \in 1..3
        PROVE  s[p] \in StepsOf(k)
    <3>1. \/ p = 1 \/ p = 2 \/ p = 3
      OBVIOUS
    <3>2. /\ "RFPRO" \in StepsOf("ace")
          /\ "aces" \in StepsOf("ace")
          /\ "RFNOP" \in StepsOf("ace")
      BY DEF StepsOf, PlainSteps, PairSteps, Switch
    <3> QED BY <1>3, <2>2, <3>1, <3>2, Zenon
  <2> QED BY <2>1, <2>3, <2>4, Zenon
<1>4. CASE k = "delcred"
  <2> DEFINE s == DeleteCred
  <2>1. Script[k] = s
    BY <1>4 DEF Script, Kind
  <2>2. Len(s) = 3 /\ s[1] = "RFPRO" /\ s[2] = "delete cred" /\ s[3] = "RFNOP"
    BY DEF DeleteCred
  <2> HIDE DEF s
  <2>3. Len(s) \in 1..15 /\ 1..Len(s) = 1..3
    <3>1. Len(s) = 3
      BY <2>2
    <3> QED BY <3>1
  <2>4. ASSUME NEW p \in 1..3
        PROVE  s[p] \in StepsOf(k)
    <3>1. \/ p = 1 \/ p = 2 \/ p = 3
      OBVIOUS
    <3>2. /\ "RFPRO" \in StepsOf("delcred")
          /\ "delete cred" \in StepsOf("delcred")
          /\ "RFNOP" \in StepsOf("delcred")
      BY DEF StepsOf, PlainSteps, PairSteps, Switch
    <3> QED BY <1>4, <2>2, <3>1, <3>2, Zenon
  <2> QED BY <2>1, <2>3, <2>4, Zenon
<1>5. CASE k = "delace"
  <2> DEFINE s == DeleteAce
  <2>1. Script[k] = s
    BY <1>5 DEF Script, Kind
  <2>2. Len(s) = 3 /\ s[1] = "RFPRO" /\ s[2] = "delete ace" /\ s[3] = "RFNOP"
    BY DEF DeleteAce
  <2> HIDE DEF s
  <2>3. Len(s) \in 1..15 /\ 1..Len(s) = 1..3
    <3>1. Len(s) = 3
      BY <2>2
    <3> QED BY <3>1
  <2>4. ASSUME NEW p \in 1..3
        PROVE  s[p] \in StepsOf(k)
    <3>1. \/ p = 1 \/ p = 2 \/ p = 3
      OBVIOUS
    <3>2. /\ "RFPRO" \in StepsOf("delace")
          /\ "delete ace" \in StepsOf("delace")
          /\ "RFNOP" \in StepsOf("delace")
      BY DEF StepsOf, PlainSteps, PairSteps, Switch
    <3> QED BY <1>5, <2>2, <3>1, <3>2, Zenon
  <2> QED BY <2>1, <2>3, <2>4, Zenon
<1>6. CASE k = "getcred"
  <2> DEFINE s == RetrieveCreds
  <2>1. Script[k] = s
    BY <1>6 DEF Script, Kind
  <2>2. Len(s) = 1 /\ s[1] = "get cred"
    BY DEF RetrieveCreds
  <2> HIDE DEF s
  <2>3. Len(s) \in 1..15 /\ 1..Len(s) = 1..1
    <3>1. Len(s) = 1
      BY <2>2
    <3> QED BY <3>1
  <2>4. ASSUME NEW p \in 1..1
        PROVE  s[p] \in StepsOf(k)
    <3>1. \/ p = 1
      OBVIOUS
    <3>2. /\ "get cred" \in StepsOf("getcred")
      BY DEF StepsOf, PlainSteps, PairSteps, Switch
    <3> QED BY <1>6, <2>2, <3>1, <3>2, Zenon
  <2> QED BY <2>1, <2>3, <2>4, Zenon
<1>7. CASE k = "getacl"
  <2> DEFINE s == RetrieveAcl
  <2>1. Script[k] = s
    BY <1>7 DEF Script, Kind
  <2>2. Len(s) = 1 /\ s[1] = "get acl2"
    BY DEF RetrieveAcl
  <2> HIDE DEF s
  <2>3. Len(s) \in 1..15 /\ 1..Len(s) = 1..1
    <3>1. Len(s) = 1
      BY <2>2
    <3> QED BY <3>1
  <2>4. ASSUME NEW p \in 1..1
        PROVE  s[p] \in StepsOf(k)
    <3>1. \/ p = 1
      OBVIOUS
    <3>2. /\ "get acl2" \in StepsOf("getacl")
      BY DEF StepsOf, PlainSteps, PairSteps, Switch
    <3> QED BY <1>7, <2>2, <3>1, <3>2, Zenon
  <2> QED BY <2>1, <2>3, <2>4, Zenon
<1>8. CASE k = "pair"
  <2> DEFINE s == Pairwise
  <2>1. Script[k] = s
    BY <1>8 DEF Script, Kind
  <2>2. /\ Len(s) = 6 /\ s[1] = "RFPRO" /\ s[2] = "RFPRO2" /\ s[3] = "cred"
        /\ s[4] = "cred2" /\ s[5] = "RFNOP" /\ s[6] = "RFNOP2"
    BY DEF Pairwise
  <2> HIDE DEF s
  <2>3. Len(s) \in 1..15 /\ 1..Len(s) = 1..6
    <3>1. Len(s) = 6
      BY <2>2
    <3> QED BY <3>1
  <2>4. ASSUME NEW p \in 1..6
        PROVE  s[p] \in StepsOf(k)
    <3>1. \/ p = 1 \/ p = 2 \/ p = 3 \/ p = 4 \/ p = 5 \/ p = 6
      OBVIOUS
    <3>2. /\ "RFPRO" \in StepsOf("pair")
          /\ "RFPRO2" \in StepsOf("pair")
          /\ "cred" \in StepsOf("pair")
          /\ "cred2" \in StepsOf("pair")
          /\ "RFNOP" \in StepsOf("pair")
          /\ "RFNOP2" \in StepsOf("pair")
      BY DEF StepsOf, PlainSteps, PairSteps, Switch
    <3> QED BY <1>8, <2>2, <3>1, <3>2, Zenon
  <2> QED BY <2>1, <2>3, <2>4, Zenon
<1> QED BY <1>1, <1>2, <1>3, <1>4, <1>5, <1>6, <1>7, <1>8 DEF Kind, Transfer

(* oc_obt_device_hard_reset makes one request. *)
LEMMA ResetScript == Len(Script["reset"]) = 1 /\ Script["reset"][1] = "RESET"
<1>1. Script["reset"] = HardReset
  BY DEF Script, Kind
<1>2. Len(HardReset) = 1 /\ HardReset[1] = "RESET"
  BY DEF HardReset
<1> QED BY <1>1, <1>2, Zenon


(* How a request of a transfer stands in its script *)
LEMMA TransferStep ==
  ASSUME NEW k \in Transfer, NEW p \in 1..Len(Script[k])
  PROVE  /\ Len(Script[k]) \in 1..15
         /\ Script[k][p] \in TransferSteps
         /\ p = Len(Script[k]) => Script[k][p] = "rfnop"
         /\ p # Len(Script[k]) => /\ p + 1 \in 1..Len(Script[k])
                                  /\ Script[k][p] # "rfnop"
                                  /\ Script[k][p + 1] = Follows[Script[k][p]]
         /\ Script[k][1] \in {"get doxm", "om"}
<1> DEFINE s == Script[k]
           n == Len(s)
<1>1. Ordered(s)
  BY TransferOrdered
<1>2. s[1] \in {"get doxm", "om"} /\ s[n] = "rfnop"
  BY <1>1, Zenon DEF Ordered
<1>3. \A q \in 1..(n - 1) : s[q] \in TransferSteps \ {"rfnop"} /\ s[q + 1] = Follows[s[q]]
  BY <1>1, Zenon DEF Ordered
<1>4. n \in 1..15
  BY <1>1, Zenon DEF Ordered
<1>5. "rfnop" \in TransferSteps
  BY DEF TransferSteps
<1> HIDE DEF s, n
<1>6. p \in 1..n
  BY DEF s, n
<1>7. p # n => p \in 1..(n - 1) /\ p + 1 \in 1..n
  BY <1>4, <1>6
<1>8. n \in 1..15 /\ s[p] \in TransferSteps
  BY <1>2, <1>3, <1>4, <1>5, <1>7
<1>9. p = n => s[p] = "rfnop"
  BY <1>2
<1>10. p # n => p + 1 \in 1..n /\ s[p] # "rfnop" /\ s[p + 1] = Follows[s[p]]
  BY <1>3, <1>7, Zenon
<1> QED BY <1>2, <1>8, <1>9, <1>10, Zenon DEF s, n

-----------------------------------------------------------------------------
(* The stack *)

(* What the calls of a stack made of two parts are *)
LEMMA Stacked ==
  ASSUME NEW s \in Seq(Frames), NEW t \in Seq(Frames), NEW u, u = s \o t
  PROVE  /\ u \in Seq(Frames)
         /\ \A f : Has(u, f) <=> Has(s, f) \/ Has(t, f)
         /\ \A c : On(u, c) <=> On(s, c) \/ On(t, c)
         /\ NoCalled(s) /\ NoCalled(t) => NoCalled(u)
         /\ NoCalled(u) => NoCalled(s) /\ NoCalled(t)
         /\ Once(u) => Once(s) /\ Once(t) /\ \A c : ~(On(s, c) /\ On(t, c))
         /\ Once(s) /\ Once(t) /\ (\A c : ~(On(s, c) /\ On(t, c))) => Once(u)
<1> DEFINE m == Len(s)
           n == Len(t)
<1>1. /\ u \in Seq(Frames) /\ Len(u) = m + n /\ m \in Nat /\ n \in Nat
      /\ \A i \in 1..m : u[i] = s[i]
      /\ \A i \in 1..n : u[m + i] = t[i]
  OBVIOUS
<1>2. DOMAIN u = 1..Len(u) /\ DOMAIN s = 1..m /\ DOMAIN t = 1..n
  BY <1>1
<1> HIDE DEF m, n
<1>3. ASSUME NEW i \in DOMAIN u
      PROVE  \/ i \in DOMAIN s /\ u[i] = s[i]
             \/ i - m \in DOMAIN t /\ u[i] = t[i - m]
  <2>1. CASE i \in 1..m
    BY <2>1, <1>1, <1>2
  <2>2. CASE i \notin 1..m
    <3>1. i - m \in 1..n /\ m + (i - m) = i
      BY <2>2, <1>1, <1>2
    <3> QED BY <3>1, <1>1, <1>2
  <2> QED BY <2>1, <2>2
<1>4. ASSUME NEW i \in DOMAIN s
      PROVE  i \in DOMAIN u /\ u[i] = s[i]
  BY <1>1, <1>2
<1>5. ASSUME NEW i \in DOMAIN t
      PROVE  m + i \in DOMAIN u /\ u[m + i] = t[i]
  BY <1>1, <1>2
<1>6. \A i \in DOMAIN s, j \in DOMAIN t : i # m + j
  BY <1>1, <1>2
<1>7. /\ \A i, j \in DOMAIN t : m + i = m + j => i = j
      /\ \A i, j \in DOMAIN u : i - m = j - m => i = j
  BY <1>1, <1>2
<1>31. ASSUME NEW i \in DOMAIN u
       PROVE  (\E j \in DOMAIN s : u[i] = s[j]) \/ (\E j \in DOMAIN t : u[i] = t[j])
  BY <1>3, Zenon
<1>51. ASSUME NEW i \in DOMAIN t
       PROVE  \E j \in DOMAIN u : u[j] = t[i]
  BY <1>5, Zenon
<1>8. ASSUME NEW f
      PROVE  Has(u, f) <=> Has(s, f) \/ Has(t, f)
  <2>1. Has(u, f) => Has(s, f) \/ Has(t, f)
    BY <1>31, Zenon DEF Has
  <2>2. Has(s, f) => Has(u, f)
    BY <1>4, Zenon DEF Has
  <2>3. Has(t, f) => Has(u, f)
    BY <1>51, Zenon DEF Has
  <2> QED BY <2>1, <2>2, <2>3
<1>9. ASSUME NEW c
      PROVE  On(u, c) <=> On(s, c) \/ On(t, c)
  <2>1. On(u, c) => On(s, c) \/ On(t, c)
    BY <1>31, Zenon DEF On
  <2>2. On(s, c) => On(u, c)
    BY <1>4, Zenon DEF On
  <2>3. On(t, c) => On(u, c)
    BY <1>51, Zenon DEF On
  <2> QED BY <2>1, <2>2, <2>3
<1>10. NoCalled(s) /\ NoCalled(t) <=> NoCalled(u)
  <2>1. NoCalled(s) /\ NoCalled(t) => NoCalled(u)
    BY <1>31, Zenon DEF NoCalled
  <2>2. NoCalled(u) => NoCalled(s)
    BY <1>4, Zenon DEF NoCalled
  <2>3. NoCalled(u) => NoCalled(t)
    BY <1>51, Zenon DEF NoCalled
  <2> QED BY <2>1, <2>2, <2>3
<1>11. ASSUME Once(u)
       PROVE  Once(s) /\ Once(t) /\ \A c : ~(On(s, c) /\ On(t, c))
  <2>1. Once(s)
    BY <1>4, <1>11, Zenon DEF Once
  <2>2. Once(t)
    <3>1. SUFFICES ASSUME NEW i \in DOMAIN t, NEW j \in DOMAIN t, OfCtx(t[i]), OfCtx(t[j]),
                          t[i][2] = t[j][2]
                   PROVE  i = j
      BY Zenon DEF Once
    <3>2. m + i \in DOMAIN u /\ u[m + i] = t[i] /\ m + j \in DOMAIN u /\ u[m + j] = t[j]
      BY <1>5
    <3>3. m + i = m + j
      BY <3>1, <3>2, <1>11, Zenon DEF Once
    <3> QED BY <3>3, <1>7
  <2>3. ASSUME NEW c, On(s, c), On(t, c)
        PROVE  FALSE
    <3>1. PICK i \in DOMAIN s : OfCtx(s[i]) /\ s[i][2] = c
      BY <2>3 DEF On
    <3>2. PICK j \in DOMAIN t : OfCtx(t[j]) /\ t[j][2] = c
      BY <2>3 DEF On
    <3>3. i \in DOMAIN u /\ u[i] = s[i] /\ m + j \in DOMAIN u /\ u[m + j] = t[j]
      BY <1>4, <1>5
    <3>4. i = m + j
      BY <3>1, <3>2, <3>3, <1>11, Zenon DEF Once
    <3> QED BY <3>4, <1>6
  <2> QED BY <2>1, <2>2, <2>3
<1>12. ASSUME Once(s), Once(t), \A c : ~(On(s, c) /\ On(t, c))
       PROVE  Once(u)
  <2>1. SUFFICES ASSUME NEW i \in DOMAIN u, NEW j \in DOMAIN u, OfCtx(u[i]), OfCtx(u[j]),
                        u[i][2] = u[j][2]
                 PROVE  i = j
    BY DEF Once
  <2>2. CASE i \in DOMAIN s /\ u[i] = s[i] /\ j \in DOMAIN s /\ u[j] = s[j]
    BY <2>1, <2>2, <1>12, Zenon DEF Once
  <2>3. CASE /\ i - m \in DOMAIN t /\ u[i] = t[i - m]
             /\ j - m \in DOMAIN t /\ u[j] = t[j - m]
    BY <2>1, <2>3, <1>7, <1>12, Zenon DEF Once
  <2>4. CASE i \in DOMAIN s /\ u[i] = s[i] /\ j - m \in DOMAIN t /\ u[j] = t[j - m]
    BY <2>1, <2>4, <1>12, Zenon DEF On
  <2>5. CASE i - m \in DOMAIN t /\ u[i] = t[i - m] /\ j \in DOMAIN s /\ u[j] = s[j]
    BY <2>1, <2>5, <1>12, Zenon DEF On
  <2> QED BY <2>2, <2>3, <2>4, <2>5, <1>3, Zenon
<1> QED BY <1>1, <1>8, <1>9, <1>10, <1>11, <1>12, Zenon

(* One call, and none *)
LEMMA OneFrame ==
  ASSUME NEW f \in Frames
  PROVE  /\ <<f>> \in Seq(Frames) /\ Once(<<f>>)
         /\ \A g : Has(<<f>>, g) <=> g = f
         /\ \A c : On(<<f>>, c) <=> OfCtx(f) /\ f[2] = c
         /\ NoCalled(<<f>>) <=> f[1] # "called"
<1> DEFINE s == <<f>>
<1>1. s \in Seq(Frames) /\ DOMAIN s = {1} /\ s[1] = f
  OBVIOUS
<1> HIDE DEF s
<1>2. /\ s \in Seq(Frames) /\ Once(s)
      /\ \A g : Has(s, g) <=> g = f
      /\ \A c : On(s, c) <=> OfCtx(f) /\ f[2] = c
      /\ NoCalled(s) <=> f[1] # "called"
  BY <1>1, Zenon DEF Once, Has, On, NoCalled
<1> QED BY <1>2, Zenon DEF s

(* The empty stack holds no call. *)
LEMMA NoFrame ==
  /\ <<>> \in Seq(Frames) /\ Once(<<>>) /\ NoCalled(<<>>)
  /\ \A g : ~Has(<<>>, g)
  /\ \A c : ~On(<<>>, c)
<1> DEFINE s == <<>>
<1>1. s \in Seq(Frames) /\ DOMAIN s = {}
  OBVIOUS
<1> HIDE DEF s
<1>2. /\ s \in Seq(Frames) /\ Once(s) /\ NoCalled(s)
      /\ \A g : ~Has(s, g)
      /\ \A c : ~On(s, c)
  BY <1>1, Zenon DEF Once, Has, On, NoCalled
<1> QED BY <1>2, Zenon DEF s

(* The innermost call, and the others *)
LEMMA Innermost ==
  ASSUME NEW s \in Seq(Frames), s # <<>>
  PROVE  /\ Head(s) \in Frames /\ Tail(s) \in Seq(Frames)
         /\ s = <<Head(s)>> \o Tail(s)
<1>1. Head(s) \in Frames /\ Tail(s) \in Seq(Frames)
  OBVIOUS
<1> DEFINE u == <<Head(s)>> \o Tail(s)
           n == Len(s)
           f == Head(s)
           t == Tail(s)
<1>2. /\ n \in Nat \ {0} /\ f = s[1] /\ Len(t) = n - 1 /\ \A i \in 1..(n - 1) : t[i] = s[i + 1]
  OBVIOUS
<1>3. s \in [1..n -> Frames]
  OBVIOUS
<1>4. f \in Frames /\ t \in Seq(Frames)
  BY <1>1
<1> HIDE DEF f, t
<1>5. /\ <<f>> \o t \in Seq(Frames) /\ Len(<<f>> \o t) = 1 + Len(t)
      /\ (<<f>> \o t)[1] = f /\ \A i \in 1..Len(t) : (<<f>> \o t)[1 + i] = t[i]
  BY <1>4
<1> DEFINE v == <<f>> \o t
<1>6. v \in [1..Len(v) -> Frames]
  <2>1. v \in Seq(Frames)
    BY <1>5
  <2> HIDE DEF v
  <2> QED BY <2>1
<1> HIDE DEF v
<1>7. Len(v) = n
  BY <1>2, <1>5 DEF v
<1> HIDE DEF n
<1>8. ASSUME NEW i \in 1..n
      PROVE  v[i] = s[i]
  <2>1. CASE i = 1
    BY <2>1, <1>2, <1>5 DEF v
  <2>2. CASE i # 1
    <3>1. i - 1 \in 1..(n - 1) /\ 1 + (i - 1) = i /\ (i - 1) + 1 = i
      BY <2>2, <1>2
    <3>2. v[1 + (i - 1)] = t[i - 1] /\ t[i - 1] = s[(i - 1) + 1]
      BY <3>1, <1>2, <1>5 DEF v
    <3> QED BY <3>1, <3>2
  <2> QED BY <2>1, <2>2
<1>9. v = s
  BY <1>3, <1>6, <1>7, <1>8
<1> QED BY <1>1, <1>9 DEF v, f, t


(* Frames *)
LEMMA FramesAre ==
  /\ \A d \in Device : Frame("close", d, 0) \in Frames /\ Frame("notify", d, 0) \in Frames
  /\ \A c \in Ctx : Frame("post", c, 0) \in Frames
  /\ \A c \in Ctx, st \in {0, -1} :
       Frame("end", c, st) \in Frames /\ Frame("called", c, st) \in Frames
BY DEF Frames, Frame

(* A frame is its call, what it is for and its status; close and notify are for a
   device, the others for a context.                                        *)
LEMMA FrameFields ==
  /\ \A op, x, st : Frame(op, x, st)[1] = op /\ Frame(op, x, st)[2] = x /\ Frame(op, x, st)[3] = st
  /\ \A d, c, st, ts, u : /\ Frame("close", d, ts) # Frame("end", c, st)
                          /\ Frame("close", d, ts) # Frame("called", c, st)
                          /\ Frame("notify", d, ts) # Frame("end", c, st)
                          /\ Frame("notify", d, ts) # Frame("called", c, st)
                          /\ Frame("post", d, ts) # Frame("end", c, st)
                          /\ Frame("post", d, ts) # Frame("called", c, st)
                          /\ Frame("end", d, ts) # Frame("called", c, st)
  /\ \A d, st : /\ ~OfCtx(Frame("close", d, st)) /\ ~OfCtx(Frame("notify", d, st))
                /\ OfCtx(Frame("post", d, st)) /\ OfCtx(Frame("end", d, st))
                /\ OfCtx(Frame("called", d, st))
BY DEF Frame, OfCtx

(* What a frame is, by its call *)
LEMMA FrameKinds ==
  ASSUME NEW f \in Frames
  PROVE  /\ f = Frame(f[1], f[2], f[3])
         /\ f[1] \in {"close", "notify", "post", "end", "called"}
         /\ f[1] \in {"close", "notify"} => f[2] \in Device /\ ~OfCtx(f)
         /\ f[1] \in {"post", "end", "called"} => f[2] \in Ctx /\ OfCtx(f)
         /\ f[1] \in {"end", "called"} => f[3] \in {0, -1}
<1>1. CASE f \in {"close", "notify"} \X Device \X {0}
  BY <1>1 DEF Frame, OfCtx
<1>2. CASE f \in {"post"} \X Ctx \X {0}
  BY <1>2 DEF Frame, OfCtx
<1>3. CASE f \in {"end", "called"} \X Ctx \X {0, -1}
  BY <1>3 DEF Frame, OfCtx
<1> QED BY <1>1, <1>2, <1>3 DEF Frames


(* Two calls *)
LEMMA TwoFrames ==
  ASSUME NEW f \in Frames, NEW g \in Frames
  PROVE  /\ <<f, g>> \in Seq(Frames)
         /\ ~OfCtx(f) => Once(<<f, g>>)
         /\ \A x : Has(<<f, g>>, x) <=> x = f \/ x = g
         /\ \A c : On(<<f, g>>, c) <=> (OfCtx(f) /\ f[2] = c) \/ (OfCtx(g) /\ g[2] = c)
         /\ f[1] # "called" /\ g[1] # "called" => NoCalled(<<f, g>>)
<1> DEFINE s == <<f, g>>
<1>1. s \in Seq(Frames) /\ DOMAIN s = {1, 2} /\ s[1] = f /\ s[2] = g
  OBVIOUS
<1> HIDE DEF s
<1>2. \A i \in DOMAIN s : i = 1 \/ i = 2
  BY <1>1
<1>3. ~OfCtx(f) => Once(s)
  BY <1>1, <1>2, Zenon DEF Once
<1>4. 1 \in DOMAIN s /\ 2 \in DOMAIN s
  BY <1>1
<1>5. \A x : Has(s, x) <=> x = f \/ x = g
  BY <1>1, <1>2, <1>4, Zenon DEF Has
<1>6. \A c : On(s, c) <=> (OfCtx(f) /\ f[2] = c) \/ (OfCtx(g) /\ g[2] = c)
  BY <1>1, <1>2, <1>4, Zenon DEF On
<1>7. f[1] # "called" /\ g[1] # "called" => NoCalled(s)
  BY <1>1, <1>2, Zenon DEF NoCalled
<1> QED BY <1>1, <1>3, <1>5, <1>6, <1>7, Zenon DEF s

(* r holds the contexts that s holds, and ends the procedures that s ends. *)
SameCalls(r, s) == /\ \A b \in Ctx : On(r, b) <=> On(s, b)
                   /\ \A b \in Ctx, st \in {0, -1} :
                        /\ Has(r, Frame("end", b, st)) <=> Has(s, Frame("end", b, st))
                        /\ Has(r, Frame("called", b, st)) <=> Has(s, Frame("called", b, st))
(* A stack on which no callback of the application is in progress *)
Calm(r) == r \in Seq(Frames) /\ Once(r) /\ NoCalled(r)
StackOK(s) == /\ s \in Seq(Frames) /\ Once(s)
              /\ s # <<>> => NoCalled(Tail(s))

(* A stack without a callback in progress is as StackInv wants it. *)
LEMMA CalmOK ==
  ASSUME NEW r, Calm(r)
  PROVE  StackOK(r)
<1>1. r \in Seq(Frames) /\ Once(r) /\ NoCalled(r)
  BY DEF Calm
<1>2. ASSUME r # <<>>
      PROVE  NoCalled(Tail(r))
  <2>1. /\ Head(r) \in Frames /\ Tail(r) \in Seq(Frames)
        /\ r = <<Head(r)>> \o Tail(r)
    BY <1>1, <1>2, Innermost
  <2>2. <<Head(r)>> \in Seq(Frames)
    BY <2>1, OneFrame
  <2> QED BY <1>1, <2>1, <2>2, Stacked, Zenon
<1> QED BY <1>1, <1>2 DEF StackOK

(* A session is closed inside a call, and that call returns. *)
LEMMA PushSession ==
  ASSUME NEW r, Calm(r), NEW d \in Device, NEW op \in {"close", "notify"},
         NEW t, t = <<Frame(op, d, 0)>> \o r
  PROVE  Calm(t) /\ SameCalls(t, r) /\ t # <<>>
<1> DEFINE f == Frame(op, d, 0)
<1>1. f \in Frames /\ ~OfCtx(f) /\ f[1] # "called"
  <2>1. op = "close" \/ op = "notify"
    OBVIOUS
  <2> QED BY <2>1, FramesAre, FrameFields, Zenon
<1>2. /\ \A c, st : f # Frame("end", c, st) /\ f # Frame("called", c, st)
  BY FrameFields, Zenon
<1> HIDE DEF f
<1>3. r \in Seq(Frames) /\ Once(r) /\ NoCalled(r)
  BY DEF Calm
<1>4. /\ <<f>> \in Seq(Frames) /\ Once(<<f>>) /\ NoCalled(<<f>>)
      /\ \A g : Has(<<f>>, g) <=> g = f
      /\ \A c : ~On(<<f>>, c)
  BY <1>1, OneFrame, Zenon
<1> DEFINE s == <<f>>
<1> HIDE DEF s
<1>5. /\ t \in Seq(Frames)
      /\ \A x : Has(t, x) <=> Has(s, x) \/ Has(r, x)
      /\ \A c : On(t, c) <=> On(s, c) \/ On(r, c)
      /\ NoCalled(s) /\ NoCalled(r) => NoCalled(t)
      /\ Once(s) /\ Once(r) /\ (\A c : ~(On(s, c) /\ On(r, c))) => Once(t)
  <2>1. t = s \o r /\ s \in Seq(Frames)
    BY <1>4 DEF s, f
  <2> QED BY <2>1, <1>3, Stacked, Zenon
<1>6. Calm(t)
  BY <1>3, <1>4, <1>5, Zenon DEF Calm, s
<1>7. SameCalls(t, r)
  BY <1>2, <1>4, <1>5, Zenon DEF SameCalls, s
<1>8. t # <<>>
  BY <1>4, <1>5, NoFrame, Zenon DEF s
<1> QED BY <1>6, <1>7, <1>8

(* The innermost call returns, and it was none of a context. *)
LEMMA PopSession ==
  ASSUME NEW s, StackOK(s), s # <<>>, Head(s)[1] \in {"close", "notify"}
  PROVE  /\ Calm(s) /\ Calm(Tail(s)) /\ SameCalls(Tail(s), s)
         /\ Head(s)[2] \in Device
<1> DEFINE f == Head(s)
           r == Tail(s)
<1>1. s \in Seq(Frames) /\ Once(s) /\ NoCalled(r)
  BY Zenon DEF StackOK
<1>2. f \in Frames /\ r \in Seq(Frames) /\ s = <<f>> \o r
  BY <1>1, Innermost, Zenon
<1>3. f[2] \in Device /\ ~OfCtx(f)
  BY <1>2, FrameKinds, Zenon
<1>4. f[1] # "called"
  <2>1. f[1] = "close" \/ f[1] = "notify"
    OBVIOUS
  <2> QED BY <2>1
<1>5. \A c, st : f # Frame("end", c, st) /\ f # Frame("called", c, st)
  <2>1. f[1] = "close" \/ f[1] = "notify"
    OBVIOUS
  <2> HIDE DEF f
  <2>2. f[1] # "end" /\ f[1] # "called"
    BY <2>1
  <2>3. \A c, st : Frame("end", c, st)[1] = "end" /\ Frame("called", c, st)[1] = "called"
    BY FrameFields, Zenon
  <2> QED BY <2>2, <2>3, Zenon
<1> HIDE DEF f, r
<1> DEFINE h == <<f>>
<1>6. /\ h \in Seq(Frames) /\ NoCalled(h)
      /\ \A g : Has(h, g) <=> g = f
      /\ \A c : ~On(h, c)
  BY <1>2, <1>3, <1>4, OneFrame, Zenon
<1> HIDE DEF h
<1>7. /\ \A x : Has(s, x) <=> Has(h, x) \/ Has(r, x)
      /\ \A c : On(s, c) <=> On(h, c) \/ On(r, c)
      /\ NoCalled(h) /\ NoCalled(r) => NoCalled(s)
      /\ Once(s) => Once(r)
  <2>1. s = h \o r
    BY <1>2 DEF h
  <2> QED BY <2>1, <1>2, <1>6, Stacked, Zenon
<1>8. Calm(s) /\ Calm(r)
  BY <1>1, <1>2, <1>6, <1>7, Zenon DEF Calm
<1>9. SameCalls(r, s)
  BY <1>5, <1>6, <1>7, Zenon DEF SameCalls
<1> QED BY <1>3, <1>8, <1>9 DEF r, f

(* The calls made to end a procedure *)
LEMMA EndingCalls ==
  ASSUME CtxOK, NEW c \in Active, NEW st \in {0, -1}
  PROVE  /\ Calm(Ending(c, st))
         /\ \A b : On(Ending(c, st), b) <=> b = c
         /\ \A b, s : /\ Has(Ending(c, st), Frame("end", b, s)) <=> b = c /\ s = st
                      /\ ~Has(Ending(c, st), Frame("called", b, s))
<1> DEFINE e == Frame("end", c, st)
           x == Frame("close", ctx[c].d1, 0)
           y == Frame("close", ctx[c].d2, 0)
           close == IF ctx[c].kind \in Retrieval THEN <<>>
                    ELSE IF ctx[c].h2 = Nil THEN <<x>> ELSE <<x, y>>
<1>1. Ending(c, st) = close \o <<e>>
  BY DEF Ending
<1>2. c \in Ctx /\ ctx[c].d1 \in Device /\ (ctx[c].h2 # Nil => ctx[c].d2 \in Device)
  BY DEF CtxOK, Active, Record
<1>3. e \in Frames /\ OfCtx(e) /\ e[1] = "end" /\ e[2] = c
  <2>1. e \in Frames
    BY <1>2, FramesAre
  <2>2. OfCtx(e) /\ e[1] = "end" /\ e[2] = c
    BY DEF Frame, OfCtx
  <2> QED BY <2>1, <2>2
<1>4. x \in Frames /\ ~OfCtx(x) /\ x[1] # "called"
  BY <1>2, FramesAre, FrameFields, Zenon
<1>5. ctx[c].h2 # Nil => y \in Frames /\ ~OfCtx(y) /\ y[1] # "called"
  BY <1>2, FramesAre, FrameFields, Zenon
<1>6. \A b, s : /\ x # Frame("end", b, s) /\ x # Frame("called", b, s)
                /\ y # Frame("end", b, s) /\ y # Frame("called", b, s)
                /\ e # Frame("called", b, s)
  BY FrameFields, Zenon
<1>7. \A b, s : e = Frame("end", b, s) <=> b = c /\ s = st
  BY DEF Frame
<1> HIDE DEF e, x, y
<1>8. /\ close \in Seq(Frames) /\ Once(close) /\ NoCalled(close)
      /\ \A b : ~On(close, b)
      /\ \A b, s : ~Has(close, Frame("end", b, s)) /\ ~Has(close, Frame("called", b, s))
  <2>1. CASE ctx[c].kind \in Retrieval
    <3>1. close = <<>>
      BY <2>1
    <3> HIDE DEF close
    <3> QED BY <3>1, NoFrame, Zenon
  <2>2. CASE ctx[c].kind \notin Retrieval /\ ctx[c].h2 = Nil
    <3>1. close = <<x>>
      BY <2>2
    <3> HIDE DEF close
    <3> QED BY <3>1, <1>4, <1>6, OneFrame, Zenon
  <2>3. CASE ctx[c].kind \notin Retrieval /\ ctx[c].h2 # Nil
    <3>1. close = <<x, y>>
      BY <2>3
    <3> HIDE DEF close
    <3> QED BY <2>3, <3>1, <1>4, <1>5, <1>6, TwoFrames, Zenon
  <2> QED BY <2>1, <2>2, <2>3
<1> DEFINE h == <<e>>
<1>9. /\ h \in Seq(Frames) /\ Once(h) /\ NoCalled(h)
      /\ \A g : Has(h, g) <=> g = e
      /\ \A b : On(h, b) <=> b = c
  <2>1. e[1] # "called"
    BY <1>3
  <2> QED BY <2>1, <1>3, OneFrame, Zenon
<1> HIDE DEF h, close
<1> DEFINE t == close \o h
<1>10. /\ t \in Seq(Frames)
       /\ \A g : Has(t, g) <=> Has(close, g) \/ Has(h, g)
       /\ \A b : On(t, b) <=> On(close, b) \/ On(h, b)
       /\ NoCalled(close) /\ NoCalled(h) => NoCalled(t)
       /\ Once(close) /\ Once(h) /\ (\A b : ~(On(close, b) /\ On(h, b))) => Once(t)
  BY <1>8, <1>9, Stacked, Zenon
<1> HIDE DEF t
<1>11. Calm(t)
  BY <1>8, <1>9, <1>10, Zenon DEF Calm
<1>12. /\ \A b : On(t, b) <=> b = c
       /\ \A b, s : /\ Has(t, Frame("end", b, s)) <=> b = c /\ s = st
                    /\ ~Has(t, Frame("called", b, s))
  BY <1>6, <1>7, <1>8, <1>9, <1>10, Zenon
<1>13. Ending(c, st) = t
  BY <1>1 DEF t, h
<1> QED BY <1>11, <1>12, <1>13, Zenon


-----------------------------------------------------------------------------
(* Identities that are left *)

(* Identities left and procedures that need one can be counted. *)
LEMMA LeftFinite == IsFiniteSet(Left) /\ IsFiniteSet(Needs) /\ IsFiniteSet(Active)
<1>1. Left \subseteq Uuid /\ Needs \subseteq Ctx /\ Active \subseteq Ctx
  BY DEF Left, Needs, Active
<1> QED BY <1>1, FiniteAssumption, FS_Subset

(* Whoever needs an identity finds one. *)
LEMMA FreshLeft ==
  ASSUME LeftInv, Needs # {}
  PROVE  Fresh \in Left /\ Fresh \in Uuid /\ Fresh \notin Used
<1>1. Left # {}
  <2>1. Cardinality(Needs) # 0 /\ Cardinality(Needs) \in Nat /\ Cardinality(Left) \in Nat
    BY LeftFinite, FS_EmptySet, FS_CardinalityType
  <2> QED BY <2>1, LeftFinite, FS_EmptySet DEF LeftInv
<1>2. \E u \in Uuid : u \notin Used
  BY <1>1 DEF Left
<1>3. Fresh \in Uuid /\ Fresh \notin Used
  BY <1>2 DEF Fresh
<1> QED BY <1>3 DEF Left

(* Comparing what is left and what is needed before and after a step *)
LEMMA FewerNeeds ==
  ASSUME NEW L, NEW N, NEW L1, NEW N1, IsFiniteSet(L), IsFiniteSet(N), IsFiniteSet(L1),
         Cardinality(L) >= Cardinality(N), L \subseteq L1, N1 \subseteq N
  PROVE  Cardinality(L1) >= Cardinality(N1)
<1>1. IsFiniteSet(N1) /\ Cardinality(N1) <= Cardinality(N)
  BY FS_Subset
<1>2. Cardinality(L) <= Cardinality(L1)
  BY FS_Subset
<1>3. /\ Cardinality(L) \in Nat /\ Cardinality(N) \in Nat /\ Cardinality(L1) \in Nat
      /\ Cardinality(N1) \in Nat
  BY <1>1, FS_CardinalityType
<1> QED BY <1>1, <1>2, <1>3

(* A procedure that needed an identity takes one. *)
LEMMA OneUsed ==
  ASSUME NEW L, NEW N, NEW L1, NEW N1, IsFiniteSet(L), IsFiniteSet(N), IsFiniteSet(L1),
         Cardinality(L) >= Cardinality(N), NEW x \in L, NEW c \in N,
         L \ {x} \subseteq L1, N1 \subseteq N \ {c}
  PROVE  Cardinality(L1) >= Cardinality(N1)
<1>1. /\ IsFiniteSet(L \ {x}) /\ Cardinality(L \ {x}) = Cardinality(L) - 1
      /\ IsFiniteSet(N \ {c}) /\ Cardinality(N \ {c}) = Cardinality(N) - 1
  BY FS_RemoveElement
<1>2. Cardinality(L) \in Nat /\ Cardinality(N) \in Nat
  BY FS_CardinalityType
<1>3. Cardinality(L \ {x}) >= Cardinality(N \ {c})
  BY <1>1, <1>2
<1> QED BY <1>1, <1>3, FewerNeeds

(* A procedure is started. *)
LEMMA OneMore ==
  ASSUME NEW L, NEW A, NEW L1, NEW N1, IsFiniteSet(L), IsFiniteSet(A), IsFiniteSet(L1),
         Cardinality(L) > Cardinality(A), NEW c, L \subseteq L1, N1 \subseteq A \cup {c}
  PROVE  Cardinality(L1) >= Cardinality(N1)
<1>1. IsFiniteSet(A \cup {c}) /\ Cardinality(A \cup {c}) \in Nat
  BY FS_AddElement, FS_CardinalityType
<1>2. Cardinality(A \cup {c}) <= Cardinality(A) + 1
  <2>1. Cardinality(A) \in Nat
    BY FS_CardinalityType
  <2> QED BY <2>1, FS_AddElement
<1>3. Cardinality(L) >= Cardinality(A \cup {c})
  <2>1. Cardinality(L) \in Nat /\ Cardinality(A) \in Nat
    BY FS_CardinalityType
  <2> QED BY <1>1, <1>2, <2>1
<1> QED BY <1>1, <1>3, FewerNeeds


-----------------------------------------------------------------------------
(* Contexts and their requests *)

(* Requests that a transfer shares with no other procedure, and the other way
   round                                                                    *)
LEMMA StepSets ==
  /\ \A s \in TransferSteps : s \notin Second /\ s \notin Switch
  /\ \A s \in PlainSteps : s \notin Second
  /\ \A s \in PlainSteps \cup PairSteps :
       /\ s \notin Setup /\ s \notin Reopening
       /\ s \notin {"deviceuuid", "owned", "RESET", "rfpro", "rfnop"}
<1>1. \A s \in TransferSteps : s \notin Second /\ s \notin Switch
  BY DEF TransferSteps, Second, Switch
<1>2. \A s \in PlainSteps : s \notin Second
  BY DEF PlainSteps, Second
<1>3. \A s \in PlainSteps \cup PairSteps :
        /\ s \notin Setup /\ s \notin Reopening
        /\ s \notin {"deviceuuid", "owned", "RESET", "rfpro", "rfnop"}
  BY DEF PlainSteps, PairSteps, Setup, Reopening
<1> QED BY <1>1, <1>2, <1>3

(* What a procedure in progress works on, and which request it is at *)
LEMMA StepFacts ==
  ASSUME CtxOK, NEW c \in Active
  PROVE  /\ ctx[c] \in Record /\ c \in Ctx /\ ctx[c].kind \in Kind
         /\ ctx[c].pos \in 1..Len(Script[ctx[c].kind])
         /\ Target(c) \in Device
         /\ ctx[c].h1 \in Handle /\ ctx[c].d1 \in Device
         /\ ctx[c].kind # "pair" => Target(c) = ctx[c].d1 /\ ctx[c].h2 = Nil
         /\ ctx[c].kind = "pair" => ctx[c].h2 \in Handle /\ ctx[c].d2 \in Device
         /\ Target(c) \in {ctx[c].d1, ctx[c].d2}
         /\ ctx[c].kind \in Transfer => StepOf(c) \in TransferSteps
         /\ ctx[c].kind = "reset" => StepOf(c) = "RESET" /\ ctx[c].pos = Len(Script["reset"])
         /\ ctx[c].kind \notin Transfer \cup {"reset"} => StepOf(c) \in StepsOf(ctx[c].kind)
<1>1. /\ ctx[c] \in Record /\ c \in Ctx /\ ctx[c].pos \in 1..Len(Script[ctx[c].kind])
      /\ (ctx[c].kind = "pair") = (ctx[c].h2 # Nil) /\ (ctx[c].h2 # Nil => ctx[c].d2 \in Device)
  BY DEF CtxOK, Active
<1>2. /\ ctx[c].kind \in Kind /\ ctx[c].h1 \in Handle /\ ctx[c].d1 \in Device
      /\ ctx[c].h2 \in Handle \cup {Nil}
  BY <1>1, KindsAssumption DEF Record
<1> DEFINE k == ctx[c].kind
           p == ctx[c].pos
           s == Script[k][p]
<1>3. k \in Transfer => s \in TransferSteps
  BY <1>1, TransferStep, Zenon
<1>4. k = "reset" => s = "RESET" /\ p = Len(Script["reset"])
  <2>1. SUFFICES ASSUME k = "reset"
                 PROVE  s = "RESET" /\ p = Len(Script["reset"])
    OBVIOUS
  <2>2. p \in 1..Len(Script["reset"])
    BY <1>1, <2>1
  <2>3. p = 1
    BY <2>2, ResetScript
  <2> QED BY <2>1, <2>3, ResetScript
<1>5. k \notin Transfer \cup {"reset"} => s \in StepsOf(k)
  BY <1>1, <1>2, OtherScripts, Zenon
<1>6. k # "pair" => s \notin Second
  <2>1. CASE k \in Transfer
    BY <2>1, <1>3, StepSets
  <2>2. CASE k = "reset"
    BY <2>2, <1>4 DEF Second
  <2>3. CASE k \notin Transfer \cup {"reset"} /\ k # "pair"
    <3>1. s \in PlainSteps
      BY <2>3, <1>5 DEF StepsOf
    <3> QED BY <3>1, StepSets
  <2> QED BY <2>1, <2>2, <2>3
<1>7. s = StepOf(c)
  BY DEF StepOf
<1> HIDE DEF s
<1>8. Target(c) = IF s \in Second THEN ctx[c].d2 ELSE ctx[c].d1
  BY <1>7 DEF Target
<1>9. /\ k # "pair" => Target(c) = ctx[c].d1 /\ ctx[c].h2 = Nil
      /\ k = "pair" => ctx[c].h2 \in Handle /\ ctx[c].d2 \in Device
      /\ Target(c) \in {ctx[c].d1, ctx[c].d2}
      /\ Target(c) \in Device
  BY <1>1, <1>2, <1>6, <1>8
<1> QED BY <1>1, <1>2, <1>3, <1>4, <1>5, <1>7, <1>9

(* Procedures a context may be for *)
LEMMA KindFacts ==
  /\ Transfer \subseteq OnCached /\ OnCached \subseteq Frees /\ "reset" \in Frees
  /\ "pin" \in OnCached /\ "pin" \notin Transfer
  /\ "reset" \notin OnCached /\ "pair" \notin Frees
  /\ \A k \in Frees : k \notin Retrieval /\ (k \in OnCached \/ k = "reset") /\ k # "pair"
  /\ \A k \in OnCached : k \in Transfer \/ k = "pin"
BY DEF Transfer, OnCached, Frees, Retrieval

-----------------------------------------------------------------------------
(* Answers: what a handler does, in terms of what the calls in progress hold *)

(* The procedure of c ends. *)
Stopped(c, st) ==
  /\ ctx' = [ctx EXCEPT ![c].out = FALSE]
  /\ UNCHANGED <<uuid, creds, unheard>>
  /\ \A b \in Ctx : On(stack', b) <=> On(stack, b) \/ b = c
  /\ \A b \in Ctx, s \in {0, -1} : /\ Told(b, s)' <=> Told(b, s)
                                   /\ Ended(b, s)' <=> Ended(b, s) \/ (b = c /\ s = st)

(* It makes its next request. *)
NextStep(c) == Script[ctx[c].kind][ctx[c].pos + 1]
Continued(c) ==
  /\ ctx[c].pos # Len(Script[ctx[c].kind])
  /\ ctx' = [ctx EXCEPT ![c].pos = ctx[c].pos + 1, ![c].out = NextStep(c) \notin Reopening]
  /\ uuid' = IF NextStep(c) = "deviceuuid" THEN [uuid EXCEPT ![ctx[c].h1] = Fresh] ELSE uuid
  /\ creds' = IF NextStep(c) = "owner cred" THEN creds \cup {uuid[ctx[c].h1]} ELSE creds
  /\ \A b \in Ctx : On(stack', b) <=> On(stack, b) \/ (b = c /\ NextStep(c) \in Reopening)
  /\ \A b \in Ctx, s \in {0, -1} : /\ Told(b, s)' <=> Told(b, s)
                                   /\ Ended(b, s)' <=> Ended(b, s)
  /\ unheard' = unheard

(* It waits for good. *)
Hushed(c) == unheard' = unheard \cup {c} /\ UNCHANGED <<ctx, uuid, creds, stack>>

(* Freeing a context, inside calls that hold the same contexts as before, stops
   its procedure and nothing else.                                          *)
LEMMA StopStep ==
  ASSUME CtxOK, StackInv, NEW c \in Waiting, NEW st \in {0, -1}, NEW r, Calm(r),
         SameCalls(r, stack), FreeCtx(c, st, r), unheard' = unheard
  PROVE  Stopped(c, st) /\ StackOK(stack')
<1> DEFINE e == Ending(c, st)
           t == stack'
<1>1. /\ c \in Active /\ c \in Ctx /\ ctx[c].out
  BY DEF Waiting, Active
<1>2. ~On(stack, c)
  BY <1>1 DEF StackInv
<1>3. /\ Calm(e)
      /\ \A b : On(e, b) <=> b = c
      /\ \A b, s : /\ Has(e, Frame("end", b, s)) <=> b = c /\ s = st
                   /\ ~Has(e, Frame("called", b, s))
  BY <1>1, EndingCalls
<1>4. t = e \o r
  BY DEF FreeCtx
<1> HIDE DEF e, t
<1>5. ~On(r, c)
  BY <1>1, <1>2 DEF SameCalls
<1>6. r \in Seq(Frames) /\ Once(r) /\ NoCalled(r) /\ e \in Seq(Frames) /\ Once(e) /\ NoCalled(e)
  BY <1>3 DEF Calm
<1>7. /\ t \in Seq(Frames)
      /\ \A g : Has(t, g) <=> Has(e, g) \/ Has(r, g)
      /\ \A b : On(t, b) <=> On(e, b) \/ On(r, b)
      /\ NoCalled(e) /\ NoCalled(r) => NoCalled(t)
      /\ Once(e) /\ Once(r) /\ (\A b : ~(On(e, b) /\ On(r, b))) => Once(t)
  BY <1>4, <1>6, Stacked
<1>8. Calm(t)
  BY <1>3, <1>5, <1>6, <1>7, Zenon DEF Calm
<1>9. StackOK(t)
  BY <1>8, CalmOK
<1>10. ASSUME NEW b \in Ctx
       PROVE  On(t, b) <=> On(stack, b) \/ b = c
  BY <1>3, <1>7 DEF SameCalls
<1>11. ASSUME NEW b \in Ctx, NEW s \in {0, -1}
       PROVE  /\ Has(t, Frame("called", b, s)) <=> Told(b, s)
              /\ Has(t, Frame("end", b, s)) <=>
                   Has(stack, Frame("end", b, s)) \/ (b = c /\ s = st)
  BY <1>3, <1>7 DEF SameCalls, Told
<1>12. ASSUME NEW b \in Ctx, NEW s \in {0, -1}
       PROVE  /\ Told(b, s)' <=> Told(b, s)
              /\ Ended(b, s)' <=> Ended(b, s) \/ (b = c /\ s = st)
  <2>1. Told(b, s)' = Has(t, Frame("called", b, s))
    BY DEF Told, t
  <2>2. Ended(b, s)' = (Has(t, Frame("end", b, s)) \/ Told(b, s)')
    BY DEF Ended, t
  <2> QED BY <2>1, <2>2, <1>11 DEF Ended
<1> QED BY <1>9, <1>10, <1>12 DEF Stopped, FreeCtx, t

(* Likewise the next request continues its procedure and nothing else. *)
LEMMA PostStep ==
  ASSUME CtxOK, StackInv, NEW c \in Waiting, NEW r, Calm(r), SameCalls(r, stack),
         ctx[c].pos # Len(Script[ctx[c].kind]), Post(c, ctx[c].pos + 1, r), unheard' = unheard
  PROVE  Continued(c) /\ StackOK(stack')
<1> DEFINE t == stack'
           d == ctx[c].d1
           x == Frame("close", d, 0)
           y == Frame("post", c, 0)
           e == IF NextStep(c) \in Reopening THEN <<x, y>> ELSE <<>>
<1>1. /\ c \in Active /\ c \in Ctx /\ ctx[c].out
  BY DEF Waiting, Active
<1>2. ~On(stack, c) /\ ctx[c].d1 \in Device
  BY <1>1, StepFacts DEF StackInv
<1>3. t = e \o r
  BY DEF Post, NextStep
<1>4. x \in Frames /\ y \in Frames
  BY <1>1, <1>2, FramesAre
<1>5. /\ ~OfCtx(x) /\ x[1] # "called" /\ y[1] # "called" /\ OfCtx(y) /\ y[2] = c
      /\ \A b, s : /\ x # Frame("end", b, s) /\ x # Frame("called", b, s)
                   /\ y # Frame("end", b, s) /\ y # Frame("called", b, s)
  <2>1. ~OfCtx(x) /\ x[1] # "called" /\ y[1] # "called" /\ OfCtx(y) /\ y[2] = c
    BY DEF Frame, OfCtx
  <2>2. \A b, s : /\ x # Frame("end", b, s) /\ x # Frame("called", b, s)
                  /\ y # Frame("end", b, s) /\ y # Frame("called", b, s)
    BY DEF Frame
  <2> QED BY <2>1, <2>2
<1> HIDE DEF x, y
<1>6. /\ e \in Seq(Frames) /\ Once(e) /\ NoCalled(e)
      /\ \A b : On(e, b) <=> b = c /\ NextStep(c) \in Reopening
      /\ \A b, s : ~Has(e, Frame("end", b, s)) /\ ~Has(e, Frame("called", b, s))
  <2>1. CASE NextStep(c) \in Reopening
    <3>1. e = <<x, y>>
      BY <2>1
    <3> HIDE DEF e
    <3> QED BY <2>1, <3>1, <1>4, <1>5, TwoFrames, Zenon
  <2>2. CASE NextStep(c) \notin Reopening
    <3>1. e = <<>>
      BY <2>2
    <3> HIDE DEF e
    <3> QED BY <2>2, <3>1, NoFrame, Zenon
  <2> QED BY <2>1, <2>2
<1> HIDE DEF e, t
<1>7. ~On(r, c)
  BY <1>1, <1>2 DEF SameCalls
<1>8. r \in Seq(Frames) /\ Once(r) /\ NoCalled(r)
  BY DEF Calm
<1>9. /\ t \in Seq(Frames)
      /\ \A g : Has(t, g) <=> Has(e, g) \/ Has(r, g)
      /\ \A b : On(t, b) <=> On(e, b) \/ On(r, b)
      /\ NoCalled(e) /\ NoCalled(r) => NoCalled(t)
      /\ Once(e) /\ Once(r) /\ (\A b : ~(On(e, b) /\ On(r, b))) => Once(t)
  BY <1>3, <1>6, <1>8, Stacked
<1>10. Calm(t)
  BY <1>6, <1>7, <1>8, <1>9, Zenon DEF Calm
<1>11. StackOK(t)
  BY <1>10, CalmOK
<1>12. ASSUME NEW b \in Ctx
       PROVE  On(t, b) <=> On(stack, b) \/ (b = c /\ NextStep(c) \in Reopening)
  BY <1>6, <1>9 DEF SameCalls
<1>13. ASSUME NEW b \in Ctx, NEW s \in {0, -1}
       PROVE  /\ Has(t, Frame("called", b, s)) <=> Told(b, s)
              /\ Has(t, Frame("end", b, s)) <=> Has(stack, Frame("end", b, s))
  BY <1>6, <1>9 DEF SameCalls, Told
<1>14. ASSUME NEW b \in Ctx, NEW s \in {0, -1}
       PROVE  /\ Told(b, s)' <=> Told(b, s)
              /\ Ended(b, s)' <=> Ended(b, s)
  <2>1. Told(b, s)' = Has(t, Frame("called", b, s))
    BY DEF Told, t
  <2>2. Ended(b, s)' = (Has(t, Frame("end", b, s)) \/ Told(b, s)')
    BY DEF Ended, t
  <2> QED BY <2>1, <2>2, <1>13 DEF Ended
<1>15. /\ ctx' = [ctx EXCEPT ![c].pos = ctx[c].pos + 1, ![c].out = NextStep(c) \notin Reopening]
       /\ uuid' = IF NextStep(c) = "deviceuuid" THEN [uuid EXCEPT ![ctx[c].h1] = Fresh] ELSE uuid
       /\ creds' = IF NextStep(c) = "owner cred" THEN creds \cup {uuid[ctx[c].h1]} ELSE creds
  BY Zenon DEF Post, NextStep
<1> QED BY <1>11, <1>12, <1>14, <1>15 DEF Continued, t


(* The request is served, or it is lost; a transfer only goes on when it was
   served, or when its device has no /oic/sec/sdi.                          *)
Went(c) == ctx[c].kind \in Transfer =>
             Served(c) \/ (StepOf(c) = "sdi" /\ UNCHANGED deviceVars)
AnswerStep(c) ==
  /\ c \in Waiting
  /\ UNCHANGED <<list, starts, peers, discoveryVars>>
  /\ Served(c) \/ UNCHANGED deviceVars
  /\ \/ Stopped(c, -1)
     \/ Stopped(c, 0) /\ ctx[c].pos = Len(Script[ctx[c].kind]) /\ Went(c)
     \/ Continued(c) /\ Went(c)
     \/ Hushed(c)

(* A handler that goes on to the next request, or ends with the last one, is an
   answer to its procedure ...                                              *)
LEMMA AdvanceIsAnswer ==
  ASSUME CtxOK, StackInv, NEW c \in Waiting, NEW r, Calm(r), SameCalls(r, stack),
         Advance(c, r), UNCHANGED <<unheard, list, starts, peers, discoveryVars>>,
         Served(c) \/ UNCHANGED deviceVars, Went(c)
  PROVE  AnswerStep(c) /\ StackOK(stack')
<1>1. CASE ctx[c].pos = Len(Script[ctx[c].kind])
  <2>1. FreeCtx(c, 0, r)
    BY <1>1 DEF Advance
  <2>2. Stopped(c, 0) /\ StackOK(stack')
    BY <2>1, StopStep
  <2> QED BY <1>1, <2>2 DEF AnswerStep
<1>2. CASE ctx[c].pos # Len(Script[ctx[c].kind])
  <2>1. Post(c, ctx[c].pos + 1, r)
    BY <1>2 DEF Advance
  <2>2. Continued(c) /\ StackOK(stack')
    BY <1>2, <2>1, PostStep
  <2> QED BY <2>2 DEF AnswerStep
<1> QED BY <1>1, <1>2

(* ... so is one that gives up ... *)
LEMMA FreeIsAnswer ==
  ASSUME CtxOK, StackInv, NEW c \in Waiting, NEW r, Calm(r), SameCalls(r, stack),
         FreeCtx(c, -1, r), UNCHANGED <<unheard, list, starts, peers, discoveryVars>>,
         Served(c) \/ UNCHANGED deviceVars
  PROVE  AnswerStep(c) /\ StackOK(stack')
<1>1. Stopped(c, -1) /\ StackOK(stack')
  BY StopStep
<1> QED BY <1>1 DEF AnswerStep

(* ... and one that is told 5.03, which may take it for success (switch_dos). *)
LEMMA UnavailableIsAnswer ==
  ASSUME CtxOK, StackInv, NEW c \in Waiting, NEW r, Calm(r), SameCalls(r, stack),
         Unavailable(c, r), UNCHANGED <<unheard, list, starts, peers, discoveryVars>>,
         Served(c) \/ UNCHANGED deviceVars
  PROVE  AnswerStep(c) /\ StackOK(stack')
<1>1. c \in Active
  BY DEF Waiting
<1>2. CASE StepOf(c) \in Switch
  <2>1. ctx[c].kind \notin Transfer
    BY <1>1, <1>2, StepFacts, StepSets
  <2>2. Went(c)
    BY <2>1 DEF Went
  <2>3. Advance(c, r)
    BY <1>2 DEF Unavailable
  <2> QED BY <2>2, <2>3, AdvanceIsAnswer
<1>3. CASE StepOf(c) \notin Switch
  <2>1. FreeCtx(c, -1, r)
    BY <1>3 DEF Unavailable
  <2> QED BY <2>1, FreeIsAnswer
<1> QED BY <1>2, <1>3

(* In the event loop no call is in progress. *)
LEMMA LoopCalm ==
  ASSUME EventLoop
  PROVE  /\ stack = <<>> /\ Calm(<<>>) /\ SameCalls(<<>>, stack)
         /\ \A b : ~On(stack, b)
         /\ \A b, st : ~Told(b, st) /\ ~Ended(b, st)
<1>1. stack = <<>>
  BY DEF EventLoop
<1>2. Calm(<<>>)
  BY NoFrame DEF Calm
<1>3. SameCalls(<<>>, stack)
  BY <1>1 DEF SameCalls
<1>4. \A b : ~On(stack, b)
  BY <1>1, NoFrame, Zenon
<1>5. \A b, st : ~Told(b, st) /\ ~Ended(b, st)
  BY <1>1, NoFrame, Zenon DEF Told, Ended
<1> QED BY <1>1, <1>2, <1>3, <1>4, <1>5

(* A request is served. *)
LEMMA ReplyIsAnswer ==
  ASSUME CtxOK, StackInv, NEW c \in Ctx, Reply(c)
  PROVE  AnswerStep(c) /\ StackOK(stack')
<1>1. c \in Waiting /\ EventLoop /\ Served(c) /\ UNCHANGED <<unheard, list, starts, peers, discoveryVars>>
  BY DEF Reply
<1>2. Calm(<<>>) /\ SameCalls(<<>>, stack) /\ Went(c)
  BY <1>1, LoopCalm DEF Went
<1>3. CASE Advance(c, <<>>)
  BY <1>1, <1>2, <1>3, AdvanceIsAnswer
<1>4. CASE FreeCtx(c, -1, <<>>)
  BY <1>1, <1>2, <1>4, FreeIsAnswer
<1> QED BY <1>3, <1>4 DEF Reply

(* A request is refused, which ends the procedure unless it was for
   /oic/sec/sdi.                                                            *)
LEMMA RefuseIsAnswer ==
  ASSUME CtxOK, StackInv, NEW c \in Ctx, Refuse(c)
  PROVE  AnswerStep(c) /\ StackOK(stack')
<1>1. c \in Waiting /\ EventLoop /\ UNCHANGED deviceVars
  BY DEF Refuse
<1>2. Calm(<<>>) /\ SameCalls(<<>>, stack)
  BY <1>1, LoopCalm
<1>3. UNCHANGED <<unheard, list, starts, peers, discoveryVars>>
  BY DEF Refuse
<1>4. CASE StepOf(c) = "sdi" /\ Advance(c, <<>>)
  <2>1. Went(c)
    BY <1>1, <1>4 DEF Went
  <2> QED BY <1>1, <1>2, <1>3, <1>4, <2>1, AdvanceIsAnswer
<1>5. CASE FreeCtx(c, -1, <<>>)
  BY <1>1, <1>2, <1>3, <1>5, FreeIsAnswer
<1> QED BY <1>4, <1>5 DEF Refuse

(* A request is given up: its handler is told 5.03 before its session is closed. *)
LEMMA GiveUpIsAnswer ==
  ASSUME CtxOK, StackInv, NEW c \in Ctx, GiveUp(c)
  PROVE  AnswerStep(c) /\ StackOK(stack')
<1> DEFINE r == <<Frame("close", Target(c), 0)>>
<1>1. /\ c \in Waiting /\ EventLoop /\ (Served(c) \/ UNCHANGED deviceVars)
      /\ Unavailable(c, r) /\ UNCHANGED <<unheard, list, starts, peers, discoveryVars>>
  BY DEF GiveUp
<1>2. Calm(<<>>) /\ SameCalls(<<>>, stack)
  BY <1>1, LoopCalm
<1>3. Target(c) \in Device
  BY <1>1, StepFacts DEF Waiting
<1> DEFINE f == Frame("close", Target(c), 0)
<1>4. f \in Frames /\ ~OfCtx(f) /\ f[1] # "called"
  BY <1>3, FramesAre, FrameFields, Zenon
<1>5. \A b, s : f # Frame("end", b, s) /\ f # Frame("called", b, s)
  BY FrameFields, Zenon
<1>6. Calm(r)
  BY <1>4, OneFrame, Zenon DEF Calm
<1>7. SameCalls(r, stack)
  <2>1. /\ \A b : ~On(r, b)
        /\ \A b, s : ~Has(r, Frame("end", b, s)) /\ ~Has(r, Frame("called", b, s))
    BY <1>4, <1>5, OneFrame, Zenon
  <2> HIDE DEF r
  <2>2. /\ \A b : ~On(stack, b)
        /\ \A b, s : ~Has(stack, Frame("end", b, s)) /\ ~Has(stack, Frame("called", b, s))
    BY <1>1, NoFrame, Zenon DEF EventLoop
  <2> QED BY <2>1, <2>2, Zenon DEF SameCalls
<1> HIDE DEF r
<1> QED BY <1>1, <1>6, <1>7, UnavailableIsAnswer

(* A request is acknowledged and never answered. *)
LEMMA SilenceIsAnswer ==
  ASSUME StackInv, NEW c \in Ctx, Silence(c)
  PROVE  AnswerStep(c) /\ StackOK(stack')
<1>1. /\ c \in Waiting /\ (Served(c) \/ UNCHANGED deviceVars) /\ unheard' = unheard \cup {c}
      /\ UNCHANGED <<ctx, list, uuid, creds, stack, starts, peers, discoveryVars>>
  BY DEF Silence, toolVars
<1>2. StackOK(stack')
  BY <1>1 DEF StackInv, StackOK
<1> QED BY <1>1, <1>2 DEF AnswerStep, Hushed

(* Notify lets one handler run, or it is done. *)
LEMMA NotifyIsAnswer ==
  ASSUME CtxOK, StackInv, Notify
  PROVE  \/ \E c \in Ctx : AnswerStep(c) /\ StackOK(stack')
         \/ /\ Calm(stack') /\ SameCalls(stack', stack)
            /\ UNCHANGED <<ctx, uuid, creds, unheard, list, starts, peers>>
            /\ UNCHANGED <<discoveryVars, deviceVars>>
<1>1. In("notify") /\ UNCHANGED <<unheard, list, starts, peers, discoveryVars, deviceVars>>
  BY DEF Notify
<1>2. stack # <<>> /\ Head(stack)[1] \in {"close", "notify"} /\ StackOK(stack)
  BY <1>1 DEF In, Top, StackInv, StackOK
<1>3. Calm(stack) /\ Calm(Tail(stack)) /\ SameCalls(Tail(stack), stack)
  BY <1>2, PopSession
<1>4. CASE OnSession(Top[2]) = {}
  BY <1>1, <1>3, <1>4 DEF Notify
<1>5. CASE OnSession(Top[2]) # {}
  <2>1. PICK c \in OnSession(Top[2]) : Unavailable(c, stack)
    BY <1>5 DEF Notify
  <2>2. c \in Waiting /\ c \in Ctx
    BY DEF OnSession, Waiting, Active
  <2>3. SameCalls(stack, stack)
    BY DEF SameCalls
  <2> QED BY <1>1, <1>3, <2>1, <2>2, <2>3, UnavailableIsAnswer
<1> QED BY <1>4, <1>5


-----------------------------------------------------------------------------
(* What an answer leaves as it is *)

(* An answer moves its own context only, and the records and devices of contexts
   stay.                                                                    *)
LEMMA AnswerContexts ==
  ASSUME CtxOK, StackInv, NEW c \in Ctx, AnswerStep(c)
  PROVE  /\ CtxOK' /\ Active' = Active /\ c \in Active
         /\ \A b \in Ctx : /\ ctx'[b].kind = ctx[b].kind
                           /\ ctx'[b].h1 = ctx[b].h1 /\ ctx'[b].h2 = ctx[b].h2
                           /\ ctx'[b].d1 = ctx[b].d1 /\ ctx'[b].d2 = ctx[b].d2
         /\ \A b \in Ctx : b # c => ctx'[b] = ctx[b]
         /\ \A b \in Ctx : On(stack', b) <=> b \in Active' /\ ~ctx'[b].out
         /\ \/ ctx'[c].pos = ctx[c].pos
            \/ Continued(c) /\ ctx'[c].pos = ctx[c].pos + 1
<1> DEFINE r == ctx[c]
           y == ctx'[c]
<1>1. /\ c \in Active /\ r.out = TRUE /\ r \in Record /\ ctx \in [Ctx -> Record \cup {NoCtx}]
      /\ r.pos \in 1..Len(Script[r.kind]) /\ r.kind \in Kind
  <2>1. c \in Active /\ r.out
    BY DEF AnswerStep, Waiting
  <2> QED BY <2>1, StepFacts DEF CtxOK, Record
<1>2. \A b \in Ctx : b # c => ctx'[b] = ctx[b]
  BY <1>1 DEF AnswerStep, Stopped, Continued, Hushed
<1> DEFINE G == /\ y \in Record /\ ctx' \in [Ctx -> Record \cup {NoCtx}]
                /\ y.kind = r.kind /\ y.h1 = r.h1 /\ y.h2 = r.h2 /\ y.d1 = r.d1 /\ y.d2 = r.d2
                /\ y.pos \in 1..Len(Script[r.kind])
                /\ \/ y.pos = r.pos
                   \/ Continued(c) /\ y.pos = r.pos + 1
                /\ On(stack', c) <=> ~y.out
<1>3. G
  <2>1. ~On(stack, c)
    BY <1>1 DEF StackInv
  <2>2. ASSUME NEW st, Stopped(c, st)
        PROVE  G
    <3>1. ctx' = [ctx EXCEPT ![c].out = FALSE]
      BY <2>2 DEF Stopped
    <3>2. y = [r EXCEPT !.out = FALSE]
      BY <3>1, <1>1
    <3>3. /\ y \in Record
          /\ y.kind = r.kind /\ y.h1 = r.h1 /\ y.h2 = r.h2 /\ y.d1 = r.d1 /\ y.d2 = r.d2
          /\ y.pos = r.pos /\ y.out = FALSE
      BY <3>2, <1>1 DEF Record
    <3>4. ctx' \in [Ctx -> Record \cup {NoCtx}]
      BY <3>1, <3>3, <1>1
    <3>5. On(stack', c)
      BY <2>2 DEF Stopped
    <3> QED BY <3>3, <3>4, <3>5, <1>1
  <2>3. ASSUME Continued(c)
        PROVE  G
    <3> DEFINE p == r.pos + 1
               o == NextStep(c) \notin Reopening
    <3>1. ctx' = [ctx EXCEPT ![c].pos = p, ![c].out = o]
      BY <2>3 DEF Continued
    <3>2. p \in 1..Len(Script[r.kind]) /\ p \in 1..15
      <4>1. Len(Script[r.kind]) \in 1..15
        <5>1. CASE r.kind \in Transfer
          BY <5>1, <1>1, TransferStep
        <5>2. CASE r.kind = "reset"
          BY <5>2, ResetScript
        <5>3. CASE r.kind \notin Transfer \cup {"reset"}
          BY <5>3, <1>1, OtherScripts
        <5> QED BY <5>1, <5>2, <5>3
      <4>2. r.pos # Len(Script[r.kind])
        BY <2>3 DEF Continued
      <4> DEFINE n == Len(Script[r.kind])
                 q == r.pos
      <4>3. n \in 1..15 /\ q \in 1..n /\ q # n
        BY <4>1, <4>2, <1>1
      <4> HIDE DEF n, q
      <4>4. q + 1 \in 1..n /\ q + 1 \in 1..15
        BY <4>3
      <4> QED BY <4>4 DEF n, q
    <3>3. o \in BOOLEAN
      OBVIOUS
    <3> HIDE DEF p, o
    <3>4. y = [[r EXCEPT !.pos = p] EXCEPT !.out = o]
      BY <3>1, <1>1
    <3>5. /\ y \in Record
          /\ y.kind = r.kind /\ y.h1 = r.h1 /\ y.h2 = r.h2 /\ y.d1 = r.d1 /\ y.d2 = r.d2
          /\ y.pos = p /\ y.out = o
      BY <3>2, <3>3, <3>4, <1>1 DEF Record
    <3>6. ctx' \in [Ctx -> Record \cup {NoCtx}]
      BY <3>1, <3>5, <1>1, <1>2
    <3>7. On(stack', c) <=> ~o
      BY <2>1, <2>3 DEF Continued, o
    <3> QED BY <2>3, <3>2, <3>5, <3>6, <3>7 DEF p
  <2>4. ASSUME Hushed(c)
        PROVE  G
    <3>1. ctx' = ctx /\ stack' = stack /\ y = r
      BY <2>4 DEF Hushed
    <3> QED BY <1>1, <2>1, <3>1
  <2>5. Stopped(c, -1) \/ Stopped(c, 0) \/ Continued(c) \/ Hushed(c)
    BY DEF AnswerStep
  <2> QED BY <2>2, <2>3, <2>4, <2>5, Zenon
<1>4. NoCtx \notin Record
  BY DEF NoCtx, Record
<1>5. Active' = Active
  BY <1>1, <1>2, <1>3, <1>4 DEF Active
<1>6. \A b \in Ctx : /\ ctx'[b].kind = ctx[b].kind
                     /\ ctx'[b].h1 = ctx[b].h1 /\ ctx'[b].h2 = ctx[b].h2
                     /\ ctx'[b].d1 = ctx[b].d1 /\ ctx'[b].d2 = ctx[b].d2
  BY <1>2, <1>3
<1>7. \A b \in Ctx : On(stack', b) <=> b \in Active' /\ ~ctx'[b].out
  <2>1. \A b \in Ctx : b # c => (On(stack', b) <=> On(stack, b))
    BY DEF AnswerStep, Stopped, Continued, Hushed
  <2> QED BY <1>1, <1>2, <1>3, <1>5, <2>1 DEF StackInv
<1>8. CtxOK'
  <2>1. ASSUME NEW b \in Active'
        PROVE  /\ ctx'[b].pos \in 1..Len(Script[ctx'[b].kind])
               /\ (ctx'[b].kind = "pair") = (ctx'[b].h2 # Nil)
               /\ ctx'[b].h2 # Nil => ctx'[b].d2 \in Device
               /\ ctx'[b].h2 = Nil => ctx'[b].d2 = Nil
               /\ ctx'[b].h1 # ctx'[b].h2
    <3>1. b \in Active /\ b \in Ctx
      BY <1>5 DEF Active
    <3>2. ctx'[b].pos \in 1..Len(Script[ctx'[b].kind])
      BY <3>1, <1>1, <1>2, <1>3 DEF CtxOK
    <3> QED BY <3>1, <3>2, <1>6 DEF CtxOK
  <2> QED BY <2>1, <1>3 DEF CtxOK
<1> QED BY <1>1, <1>2, <1>3, <1>5, <1>6, <1>7, <1>8


(* The requests that an identity, the owner credential or a need end with *)
LEMMA WhatComesBefore ==
  ASSUME NEW s \in TransferSteps \ {"rfnop"}
  PROVE  /\ Follows[s] = "deviceuuid" => s = "devowneruuid"
         /\ Follows[s] = "owner cred" => s = "pstat rowner"
         /\ Follows[s] \in UpToOwner => s \in UpToOwner /\ s # "devowneruuid"
         /\ s \in TransferSteps
<1>1. \/ s = "get doxm" \/ s = "oxmsel" \/ s = "om" \/ s = "devowneruuid" \/ s = "deviceuuid"
      \/ s = "doxm rowner" \/ s = "acl rowner" \/ s = "pstat rowner" \/ s = "owner cred"
      \/ s = "sdi" \/ s = "owned" \/ s = "rfpro" \/ s = "delete acl" \/ s = "aces"
  BY DEF TransferSteps
<1> QED BY <1>1, WhatFollows DEF UpToOwner

(* What the tool notes with an answer *)
LEMMA ToolEffect ==
  ASSUME CtxOK, StackInv, NEW c \in Ctx, AnswerStep(c)
  PROVE  \/ UNCHANGED <<uuid, creds>>
         \/ /\ ctx[c].kind \in Transfer /\ StepOf(c) = "devowneruuid" /\ Continued(c)
            /\ uuid' = [uuid EXCEPT ![ctx[c].h1] = Fresh] /\ creds' = creds
         \/ /\ ctx[c].kind \in Transfer /\ StepOf(c) = "pstat rowner" /\ Continued(c)
            /\ uuid' = uuid /\ creds' = creds \cup {uuid[ctx[c].h1]}
<1>1. c \in Active
  BY DEF AnswerStep, Waiting
<1>2. CASE Stopped(c, -1) \/ Stopped(c, 0)
  BY <1>2 DEF Stopped
<1>3. CASE Continued(c)
  <2> DEFINE k == ctx[c].kind
             p == ctx[c].pos
  <2>1. /\ k \in Kind /\ p \in 1..Len(Script[k])
        /\ k = "reset" => p = Len(Script["reset"])
    BY <1>1, StepFacts
  <2>2. p # Len(Script[k]) /\ k # "reset"
    BY <2>1, <1>3 DEF Continued
  <2>3. CASE k \in Transfer
    <3>1. NextStep(c) = Follows[StepOf(c)] /\ StepOf(c) \in TransferSteps \ {"rfnop"}
      BY <2>1, <2>2, <2>3, TransferStep DEF NextStep, StepOf
    <3>2. /\ NextStep(c) = "deviceuuid" => StepOf(c) = "devowneruuid"
          /\ NextStep(c) = "owner cred" => StepOf(c) = "pstat rowner"
      BY <3>1, WhatComesBefore
    <3>3. ~(NextStep(c) = "deviceuuid" /\ NextStep(c) = "owner cred")
      OBVIOUS
    <3> QED BY <2>3, <3>2, <3>3, <1>3 DEF Continued
  <2>4. CASE k \notin Transfer
    <3>1. NextStep(c) \in StepsOf(k)
      <4>1. /\ Len(Script[k]) \in 1..15
            /\ \A i \in 1..Len(Script[k]) : Script[k][i] \in StepsOf(k)
        BY <2>1, <2>2, <2>4, OtherScripts
      <4> DEFINE n == Len(Script[k])
      <4>2. n \in 1..15 /\ p \in 1..n /\ p # n
        BY <2>1, <2>2, <4>1
      <4> HIDE DEF n, p
      <4>3. p + 1 \in 1..n
        BY <4>2
      <4> QED BY <4>1, <4>3 DEF NextStep, n, p
    <3>2. NextStep(c) \in PlainSteps \cup PairSteps
      BY <3>1 DEF StepsOf
    <3>3. NextStep(c) # "deviceuuid" /\ NextStep(c) # "owner cred"
      BY <3>2, StepSets DEF Setup
    <3> QED BY <3>3, <1>3 DEF Continued
  <2> QED BY <2>3, <2>4
<1>4. CASE Hushed(c)
  BY <1>4 DEF Hushed
<1> QED BY <1>2, <1>3, <1>4 DEF AnswerStep

(* A request changes its device only. *)
LEMMA Elsewhere ==
  ASSUME TypeInv, NEW c \in Ctx, AnswerStep(c)
  PROVE  /\ Target(c) \in Device /\ c \in Active
         /\ \A e \in Device : e # Target(c) =>
              /\ dos'[e] = dos[e] /\ owned'[e] = owned[e]
              /\ configured'[e] = configured[e] /\ deviceuuid'[e] = deviceuuid[e]
<1>1. Target(c) \in Device /\ c \in Active
  BY StepFacts DEF AnswerStep, Waiting, TypeInv
<1>2. CASE UNCHANGED deviceVars
  BY <1>1, <1>2 DEF deviceVars
<1>3. CASE Served(c)
  BY <1>1, <1>3 DEF Served, Apply, TypeInv
<1> QED BY <1>1, <1>2, <1>3 DEF AnswerStep

(* Which devices change hands or identity *)
LEMMA DeviceEffect ==
  ASSUME TypeInv, StackInv, NEW c \in Ctx, AnswerStep(c)
  PROVE  \/ UNCHANGED <<deviceuuid, owned>>
         \/ /\ ctx[c].kind \in Transfer /\ StepOf(c) = "deviceuuid" /\ owned' = owned
            /\ deviceuuid' = [deviceuuid EXCEPT ![ctx[c].d1] = uuid[ctx[c].h1]]
         \/ /\ ctx[c].kind \in Transfer /\ StepOf(c) = "owned" /\ deviceuuid' = deviceuuid
            /\ owned' = [owned EXCEPT ![ctx[c].d1] = TRUE]
         \/ /\ ctx[c].kind = "reset" /\ dos'[ctx[c].d1] = "RFOTM"
            /\ deviceuuid' = [deviceuuid EXCEPT ![ctx[c].d1] = Fresh]
            /\ owned' = [owned EXCEPT ![ctx[c].d1] = FALSE]
<1> DEFINE s == StepOf(c)
           d == ctx[c].d1
           k == ctx[c].kind
<1>1. /\ c \in Active
      /\ k # "pair" => Target(c) = d
      /\ k \in Transfer => s \in TransferSteps
      /\ k = "reset" => s = "RESET"
      /\ k \notin Transfer \cup {"reset"} => s \in StepsOf(k)
      /\ Target(c) \in Device
  BY StepFacts DEF AnswerStep, Waiting, TypeInv
<1>2. CASE UNCHANGED deviceVars
  BY <1>2 DEF deviceVars
<1>3. CASE Served(c)
  <2> DEFINE e == Target(c)
  <2>1. /\ owned' = [owned EXCEPT ![e] = (owned[e] \/ s = "owned") /\ s # "RESET"]
        /\ deviceuuid' = [deviceuuid EXCEPT ![e] = IF s = "deviceuuid" THEN uuid[ctx[c].h1]
                                                   ELSE IF s = "RESET" THEN Fresh
                                                   ELSE deviceuuid[e]]
        /\ s = "RESET" => dos'[e] = "RFOTM"
    BY <1>1, <1>3 DEF Served, Apply, TypeInv
  <2>2. s \notin {"owned", "deviceuuid", "RESET"} => UNCHANGED <<deviceuuid, owned>>
    BY <1>1, <2>1 DEF TypeInv
  <2>3. CASE k \in Transfer
    <3>1. s # "RESET" /\ e = d
      BY <1>1, <2>3 DEF TransferSteps, Transfer
    <3>2. CASE s = "owned"
      <4>1. owned' = [owned EXCEPT ![d] = TRUE]
        BY <2>1, <3>1, <3>2
      <4>2. deviceuuid' = deviceuuid
        BY <1>1, <2>1, <3>1, <3>2 DEF TypeInv
      <4> QED BY <2>3, <3>2, <4>1, <4>2
    <3>3. CASE s = "deviceuuid"
      <4>1. deviceuuid' = [deviceuuid EXCEPT ![d] = uuid[ctx[c].h1]]
        BY <2>1, <3>1, <3>3
      <4>2. owned' = owned
        BY <1>1, <2>1, <3>1, <3>3 DEF TypeInv
      <4> QED BY <2>3, <3>3, <4>1, <4>2
    <3> QED BY <2>2, <3>1, <3>2, <3>3
  <2>4. CASE k = "reset"
    <3>1. e = d /\ s = "RESET"
      BY <1>1, <2>4
    <3>2. owned' = [owned EXCEPT ![d] = FALSE]
      BY <2>1, <3>1
    <3>3. deviceuuid' = [deviceuuid EXCEPT ![d] = Fresh]
      BY <2>1, <3>1
    <3> QED BY <2>1, <2>4, <3>1, <3>2, <3>3
  <2>5. CASE k \notin Transfer \cup {"reset"}
    <3>1. s \in PlainSteps \cup PairSteps
      BY <1>1, <2>5 DEF StepsOf
    <3> QED BY <2>2, <3>1, StepSets
  <2> QED BY <2>3, <2>4, <2>5
<1> QED BY <1>2, <1>3 DEF AnswerStep


(* A procedure that has ended is held by a call, once. *)
LEMMA EndedHeld ==
  ASSUME StackInv, NEW b \in Ctx
  PROVE  /\ \A st : Ended(b, st) => On(stack, b)
         /\ \A st : Told(b, st) => Ended(b, st)
         /\ ~(Ended(b, 0) /\ Ended(b, -1))
         /\ b \in Active \ unheard /\ ctx[b].out => Going(b)
<1>1. ASSUME NEW st, Ended(b, st)
      PROVE  \E i \in DOMAIN stack : OfCtx(stack[i]) /\ stack[i][2] = b /\ stack[i][3] = st
  <2>1. PICK i \in DOMAIN stack :
          stack[i] = Frame("end", b, st) \/ stack[i] = Frame("called", b, st)
    BY <1>1 DEF Ended, Told, Has
  <2>2. OfCtx(stack[i]) /\ stack[i][2] = b /\ stack[i][3] = st
    BY <2>1 DEF Frame, OfCtx
  <2> QED BY <2>2
<1>2. \A st : Ended(b, st) => On(stack, b)
  BY <1>1 DEF On
<1>3. ~(Ended(b, 0) /\ Ended(b, -1))
  <2>1. SUFFICES ASSUME Ended(b, 0), Ended(b, -1)
                 PROVE  FALSE
    OBVIOUS
  <2>2. PICK i \in DOMAIN stack : OfCtx(stack[i]) /\ stack[i][2] = b /\ stack[i][3] = 0
    BY <1>1, <2>1
  <2>3. PICK j \in DOMAIN stack : OfCtx(stack[j]) /\ stack[j][2] = b /\ stack[j][3] = -1
    BY <1>1, <2>1
  <2>4. i = j
    BY <2>2, <2>3, Zenon DEF StackInv, Once
  <2>5. 0 = -1
    BY <2>2, <2>3, <2>4
  <2> QED BY <2>5
<1>4. \A st : Told(b, st) => Ended(b, st)
  BY DEF Ended
<1>5. b \in Active \ unheard /\ ctx[b].out => Going(b)
  BY <1>2 DEF Going, StackInv
<1> QED BY <1>2, <1>3, <1>4, <1>5

(* A procedure that may free its record has it, and the device, for itself. *)
LEMMA Others ==
  ASSUME TypeInv, ApartInv, NEW c \in Active, NEW b \in Active, b # c,
         ctx[c].kind \in Frees, ctx[b].kind \notin Retrieval
  PROVE  /\ ctx[b].h1 # ctx[c].h1 /\ ctx[b].h2 # ctx[c].h1
         /\ c \notin unheard /\ b \notin unheard =>
              /\ ctx[b].d1 # ctx[c].d1 /\ ctx[b].d2 # ctx[c].d1
              /\ Target(b) # ctx[c].d1
<1>1. /\ ctx[c].h1 \in Handle /\ ctx[c].d1 \in Device /\ ctx[b].h1 \in Handle
      /\ ctx[b].d1 \in Device /\ Target(b) \in {ctx[b].d1, ctx[b].d2}
  BY StepFacts DEF TypeInv
<1>2. ctx[c].h1 # Nil /\ ctx[c].d1 # Nil
  BY <1>1, NilAssumption
<1>3. ctx[c].kind \notin Retrieval
  BY KindFacts
<1>4. ctx[c].h1 \in Held(c) /\ ctx[c].d1 \in Works(c)
  BY <1>2, <1>3 DEF Held, Works
<1>5. /\ ctx[c].h1 \notin Held(b)
      /\ c \notin unheard /\ b \notin unheard => ctx[c].d1 \notin Works(b)
  BY <1>4 DEF ApartInv
<1> QED BY <1>1, <1>2, <1>5 DEF Held, Works

(* The procedure whose request is answered *)
LEMMA AnsweredProcedure ==
  ASSUME IInv, NEW c \in Ctx, AnswerStep(c)
  PROVE  /\ c \in Active /\ ctx[c].out = TRUE /\ Going(c) /\ ctx[c].h1 \in Handle
         /\ ctx[c].d1 \in Device
         /\ ctx[c].kind \in OnCached => list[ctx[c].h1] = "cache"
         /\ ctx[c].kind \in Frees => uuid[ctx[c].h1] # Nil /\ uuid[ctx[c].h1] \in Uuid
         /\ ctx[c].kind \in Transfer =>
              /\ Progress(ctx[c].d1, uuid[ctx[c].h1], StepOf(c))
              /\ IF StepOf(c) = "deviceuuid" THEN Alone(c) ELSE Steady(c)
         /\ ctx[c].kind \in Transfer /\ StepOf(c) = "devowneruuid" => c \in Needs
         /\ ctx[c].kind = "reset" => c \in Needs
<1> USE DEF IInv
<1>1. c \in Active \ unheard /\ ctx[c].out
  BY DEF AnswerStep, Waiting
<1>2. ctx[c].out = TRUE
  BY <1>1 DEF TypeInv, CtxOK, Record, Active
<1>3. Going(c)
  BY <1>1, EndedHeld
<1>4. ctx[c].h1 \in Handle /\ ctx[c].d1 \in Device
  BY <1>1, StepFacts DEF TypeInv
<1>5. ctx[c].kind \in OnCached => list[ctx[c].h1] = "cache"
  <2>1. ~Told(c, 0)
    BY <1>3 DEF Going, Ended
  <2> QED BY <1>1, <2>1 DEF ApartInv
<1>6. ctx[c].kind \in Frees => list[ctx[c].h1] \in {"cache", "devices"}
  <2>1. SUFFICES ASSUME ctx[c].kind = "reset"
                 PROVE  list[ctx[c].h1] = "devices"
    BY <1>5, KindFacts
  <2>2. ctx[c].h1 \in Held(c)
    BY <1>4, <2>1, NilAssumption, KindFacts DEF Held
  <2> QED BY <1>1, <2>1, <2>2, KindFacts DEF ApartInv
<1>7. ctx[c].kind \in Frees => uuid[ctx[c].h1] # Nil /\ uuid[ctx[c].h1] \in Uuid
  BY <1>4, <1>6 DEF UniqueInv, TypeInv
<1>8. ctx[c].kind \in Transfer =>
        /\ Progress(ctx[c].d1, uuid[ctx[c].h1], StepOf(c))
        /\ IF StepOf(c) = "deviceuuid" THEN Alone(c) ELSE Steady(c)
  <2>1. SUFFICES ASSUME ctx[c].kind \in Transfer
                 PROVE  /\ Progress(ctx[c].d1, uuid[ctx[c].h1], StepOf(c))
                        /\ IF StepOf(c) = "deviceuuid" THEN Alone(c) ELSE Steady(c)
    OBVIOUS
  <2>2. Progress(ctx[c].d1, uuid[ctx[c].h1], StepOf(c))
    BY <1>1, <1>3, <2>1 DEF TransferInv
  <2>3. ctx[c].kind \notin Retrieval
    BY <2>1, KindFacts
  <2>4. IF Renaming(c) THEN Alone(c) ELSE Steady(c)
    BY <1>1, <1>3, <2>3 DEF BoundInv
  <2>5. Renaming(c) <=> StepOf(c) = "deviceuuid"
    BY <2>1 DEF Renaming
  <2> QED BY <2>2, <2>4, <2>5
<1>9. ctx[c].kind \in Transfer /\ StepOf(c) = "devowneruuid" => c \in Needs
  BY <1>1 DEF Needs, UpToOwner
<1>10. ctx[c].kind = "reset" => c \in Needs
  BY <1>1, <1>3 DEF Needs
<1> QED BY <1>1, <1>2, <1>3, <1>4, <1>5, <1>7, <1>8, <1>9, <1>10


(* An identity nobody has *)
Unused(u) == /\ u \in Uuid /\ u \notin creds
             /\ \A d \in Device : deviceuuid[d] # u
             /\ \A h \in Handle : uuid[h] # u

(* What an answer does to identities, credentials and owners *)
Effect(c) ==
  \/ UNCHANGED <<uuid, creds, deviceuuid, owned>>
  \/ /\ ctx[c].kind \in Transfer /\ StepOf(c) = "devowneruuid" /\ Unused(Fresh) /\ Continued(c)
     /\ uuid' = [uuid EXCEPT ![ctx[c].h1] = Fresh] /\ UNCHANGED <<creds, deviceuuid, owned>>
  \/ /\ ctx[c].kind \in Transfer /\ StepOf(c) = "deviceuuid"
     /\ deviceuuid' = [deviceuuid EXCEPT ![ctx[c].d1] = uuid[ctx[c].h1]]
     /\ UNCHANGED <<uuid, creds, owned>>
  \/ /\ ctx[c].kind \in Transfer /\ StepOf(c) = "pstat rowner" /\ Continued(c)
     /\ creds' = creds \cup {uuid[ctx[c].h1]} /\ UNCHANGED <<uuid, deviceuuid, owned>>
  \/ /\ ctx[c].kind \in Transfer /\ StepOf(c) = "owned"
     /\ owned' = [owned EXCEPT ![ctx[c].d1] = TRUE] /\ UNCHANGED <<uuid, creds, deviceuuid>>
  \/ /\ ctx[c].kind = "reset" /\ Unused(Fresh) /\ dos'[ctx[c].d1] = "RFOTM"
     /\ deviceuuid' = [deviceuuid EXCEPT ![ctx[c].d1] = Fresh]
     /\ owned' = [owned EXCEPT ![ctx[c].d1] = FALSE] /\ UNCHANGED <<uuid, creds>>

(* A procedure that needs an identity gets one that nobody has. *)
LEMMA FreshUnused ==
  ASSUME LeftInv, Needs # {}
  PROVE  Unused(Fresh)
BY FreshLeft DEF Used, Unused

(* What an answer does to identities, credentials and owners *)
LEMMA AnswerEffect ==
  ASSUME IInv, NEW c \in Ctx, AnswerStep(c)
  PROVE  Effect(c)
<1>1. TypeInv /\ CtxOK /\ StackInv /\ LeftInv
  BY DEF IInv, TypeInv
<1>2. (ctx[c].kind \in Transfer /\ StepOf(c) = "devowneruuid") \/ ctx[c].kind = "reset" =>
        Unused(Fresh)
  BY <1>1, AnsweredProcedure, FreshUnused
<1>3. \/ UNCHANGED <<uuid, creds>>
      \/ /\ ctx[c].kind \in Transfer /\ StepOf(c) = "devowneruuid" /\ Continued(c)
         /\ uuid' = [uuid EXCEPT ![ctx[c].h1] = Fresh] /\ creds' = creds
      \/ /\ ctx[c].kind \in Transfer /\ StepOf(c) = "pstat rowner" /\ Continued(c)
         /\ uuid' = uuid /\ creds' = creds \cup {uuid[ctx[c].h1]}
  BY <1>1, ToolEffect
<1>4. \/ UNCHANGED <<deviceuuid, owned>>
      \/ /\ ctx[c].kind \in Transfer /\ StepOf(c) = "deviceuuid" /\ owned' = owned
         /\ deviceuuid' = [deviceuuid EXCEPT ![ctx[c].d1] = uuid[ctx[c].h1]]
      \/ /\ ctx[c].kind \in Transfer /\ StepOf(c) = "owned" /\ deviceuuid' = deviceuuid
         /\ owned' = [owned EXCEPT ![ctx[c].d1] = TRUE]
      \/ /\ ctx[c].kind = "reset" /\ dos'[ctx[c].d1] = "RFOTM"
         /\ deviceuuid' = [deviceuuid EXCEPT ![ctx[c].d1] = Fresh]
         /\ owned' = [owned EXCEPT ![ctx[c].d1] = FALSE]
  BY <1>1, DeviceEffect
<1>5. "reset" \notin Transfer
  BY DEF Transfer
<1>6. CASE UNCHANGED <<uuid, creds>>
  BY <1>2, <1>4, <1>6 DEF Effect
<1>7. CASE /\ ctx[c].kind \in Transfer /\ StepOf(c) = "devowneruuid" /\ Continued(c)
           /\ uuid' = [uuid EXCEPT ![ctx[c].h1] = Fresh] /\ creds' = creds
  <2>1. UNCHANGED <<deviceuuid, owned>>
    BY <1>4, <1>5, <1>7
  <2> QED BY <1>2, <1>7, <2>1 DEF Effect
<1>8. CASE /\ ctx[c].kind \in Transfer /\ StepOf(c) = "pstat rowner" /\ Continued(c)
           /\ uuid' = uuid /\ creds' = creds \cup {uuid[ctx[c].h1]}
  <2>1. UNCHANGED <<deviceuuid, owned>>
    BY <1>4, <1>5, <1>8
  <2> QED BY <1>8, <2>1 DEF Effect
<1> QED BY <1>3, <1>6, <1>7, <1>8

(* Answers keep the types ... *)
LEMMA AnswerTypes ==
  ASSUME IInv, NEW c \in Ctx, AnswerStep(c)
  PROVE  TypeInv'
<1>1. TypeInv /\ CtxOK /\ StackInv
  BY DEF IInv, TypeInv
<1>2. CtxOK'
  BY <1>1, AnswerContexts
<1>3. /\ c \in Active /\ ctx[c].h1 \in Handle /\ ctx[c].d1 \in Device
      /\ ctx[c].kind \in Frees => uuid[ctx[c].h1] \in Uuid
      /\ Target(c) \in Device
  BY <1>1, AnsweredProcedure, StepFacts
<1>4. Effect(c)
  BY AnswerEffect
<1>5. /\ uuid' \in [Handle -> Uuid \cup {Nil}] /\ creds' \subseteq Uuid
      /\ deviceuuid' \in [Device -> Uuid] /\ owned' \in [Device -> BOOLEAN]
  <2>1. uuid' = uuid \/ (uuid' = [uuid EXCEPT ![ctx[c].h1] = Fresh] /\ Unused(Fresh))
    BY <1>4 DEF Effect
  <2>2. \/ creds' = creds
        \/ creds' = creds \cup {uuid[ctx[c].h1]} /\ ctx[c].kind \in Transfer
    BY <1>4 DEF Effect
  <2>3. \/ deviceuuid' = deviceuuid
        \/ /\ deviceuuid' = [deviceuuid EXCEPT ![ctx[c].d1] = uuid[ctx[c].h1]]
           /\ ctx[c].kind \in Transfer
        \/ deviceuuid' = [deviceuuid EXCEPT ![ctx[c].d1] = Fresh] /\ Unused(Fresh)
    BY <1>4 DEF Effect
  <2>4. \/ owned' = owned
        \/ owned' = [owned EXCEPT ![ctx[c].d1] = TRUE]
        \/ owned' = [owned EXCEPT ![ctx[c].d1] = FALSE]
    BY <1>4 DEF Effect
  <2>5. ctx[c].kind \in Transfer => uuid[ctx[c].h1] \in Uuid
    BY <1>3, KindFacts
  <2>6. uuid' \in [Handle -> Uuid \cup {Nil}]
    BY <1>1, <2>1 DEF TypeInv, Unused
  <2>7. creds' \subseteq Uuid
    BY <1>1, <2>2, <2>5 DEF TypeInv
  <2>8. deviceuuid' \in [Device -> Uuid]
    BY <1>1, <2>3, <2>5 DEF TypeInv, Unused
  <2>9. owned' \in [Device -> BOOLEAN]
    BY <1>1, <2>4 DEF TypeInv
  <2> QED BY <2>6, <2>7, <2>8, <2>9
<1>6. dos' \in [Device -> {"RFOTM", "RFPRO", "RFNOP"}] /\ configured' \in [Device -> SUBSET Setup]
  <2>1. CASE UNCHANGED deviceVars
    BY <1>1, <2>1 DEF deviceVars, TypeInv
  <2>2. CASE Served(c)
    BY <1>1, <1>3, <2>2 DEF Served, Apply, TypeInv
  <2> QED BY <2>1, <2>2 DEF AnswerStep
<1>7. UNCHANGED <<list, starts, peers, discovering, asking>>
  BY DEF AnswerStep, discoveryVars
<1> QED BY <1>1, <1>2, <1>5, <1>6, <1>7 DEF TypeInv

(* ... what is unheard ... *)
LEMMA AnswerUnheard ==
  ASSUME IInv, NEW c \in Ctx, AnswerStep(c)
  PROVE  UnheardInv'
<1>1. /\ Active' = Active /\ c \in Active
      /\ \A b \in Ctx : b # c => ctx'[b] = ctx[b]
  BY AnswerContexts DEF IInv, TypeInv
<1>2. c \notin unheard /\ ctx[c].out
  BY DEF AnswerStep, Waiting
<1>3. unheard \subseteq Active /\ (\A b \in unheard : ctx[b].out) /\ Active \subseteq Ctx
  BY DEF IInv, UnheardInv, Active
<1>4. CASE Hushed(c)
  <2>1. ctx' = ctx /\ unheard' = unheard \cup {c}
    BY <1>4 DEF Hushed
  <2> QED BY <1>1, <1>2, <1>3, <2>1 DEF UnheardInv
<1>5. CASE ~Hushed(c)
  <2>1. unheard' = unheard
    BY <1>5 DEF AnswerStep, Stopped, Continued
  <2> QED BY <1>1, <1>2, <1>3, <2>1 DEF UnheardInv
<1> QED BY <1>4, <1>5

(* ... the stack ... *)
LEMMA AnswerStack ==
  ASSUME IInv, NEW c \in Ctx, AnswerStep(c), StackOK(stack')
  PROVE  StackInv'
<1>1. \A b \in Ctx : On(stack', b) <=> b \in Active' /\ ~ctx'[b].out
  BY AnswerContexts DEF IInv, TypeInv
<1> QED BY <1>1 DEF StackInv, StackOK

(* ... the separation of procedures ... *)
LEMMA AnswerApart ==
  ASSUME IInv, NEW c \in Ctx, AnswerStep(c)
  PROVE  ApartInv'
<1>1. /\ Active' = Active
      /\ \A b \in Ctx : /\ ctx'[b].kind = ctx[b].kind
                        /\ ctx'[b].h1 = ctx[b].h1 /\ ctx'[b].h2 = ctx[b].h2
                        /\ ctx'[b].d1 = ctx[b].d1 /\ ctx'[b].d2 = ctx[b].d2
  BY AnswerContexts DEF IInv, TypeInv
<1>2. UNCHANGED <<list, discovering>>
  BY DEF AnswerStep, discoveryVars
<1>3. \A b \in Ctx : Told(b, 0)' <=> Told(b, 0)
  BY DEF AnswerStep, Stopped, Continued, Hushed, Told
<1>4. \A b \in Ctx : Held(b)' = Held(b) /\ Works(b)' = Works(b)
  BY <1>1 DEF Held, Works
<1>6. unheard \subseteq unheard'
  BY DEF AnswerStep, Stopped, Continued, Hushed
<1>5. Active \subseteq Ctx /\ ApartInv
  BY DEF Active, IInv
<1> QED BY <1>1, <1>2, <1>3, <1>4, <1>5, <1>6 DEF ApartInv

(* ... and the identities apart. *)
LEMMA AnswerUnique ==
  ASSUME IInv, NEW c \in Ctx, AnswerStep(c)
  PROVE  UniqueInv'
<1>1. TypeInv /\ UniqueInv
  BY DEF IInv
<1>2. list' = list
  BY DEF AnswerStep
<1>3. /\ c \in Active /\ ctx[c].h1 \in Handle /\ ctx[c].d1 \in Device
      /\ ctx[c].kind \in Frees => uuid[ctx[c].h1] # Nil /\ uuid[ctx[c].h1] \in Uuid
      /\ ctx[c].kind \in Transfer /\ StepOf(c) = "deviceuuid" => Alone(c)
  BY AnsweredProcedure
<1>4. ctx[c].kind \in Transfer => uuid[ctx[c].h1] # Nil
  BY <1>3, KindFacts
<1>5. Effect(c)
  BY AnswerEffect
<1>6. \/ uuid' = uuid
      \/ uuid' = [uuid EXCEPT ![ctx[c].h1] = Fresh] /\ Unused(Fresh) /\ uuid[ctx[c].h1] # Nil
  BY <1>4, <1>5 DEF Effect
<1>7. \/ deviceuuid' = deviceuuid
      \/ deviceuuid' = [deviceuuid EXCEPT ![ctx[c].d1] = uuid[ctx[c].h1]] /\ Alone(c)
      \/ deviceuuid' = [deviceuuid EXCEPT ![ctx[c].d1] = Fresh] /\ Unused(Fresh)
  BY <1>3, <1>5 DEF Effect
<1>8. \A h \in Handle : uuid'[h] = Nil <=> uuid[h] = Nil
  BY <1>1, <1>3, <1>6, NilAssumption DEF Unused, TypeInv
<1>9. \A h, g \in Handle : uuid'[h] = uuid'[g] /\ uuid'[h] # Nil => h = g
  BY <1>1, <1>3, <1>6 DEF Unused, TypeInv, UniqueInv
<1>10. \A d, e \in Device : deviceuuid'[d] = deviceuuid'[e] => d = e
  BY <1>1, <1>3, <1>7 DEF Unused, TypeInv, UniqueInv, Alone
<1> QED BY <1>1, <1>2, <1>8, <1>9, <1>10 DEF UniqueInv


(* The tool holds the credentials it should. *)
LEMMA AnswerCreds ==
  ASSUME IInv, NEW c \in Ctx, AnswerStep(c)
  PROVE  CredsInv'
<1> DEFINE h1 == ctx[c].h1
           d1 == ctx[c].d1
           trans == ctx[c].kind \in Transfer
<1>1. TypeInv /\ UniqueInv /\ CredsInv /\ ApartInv /\ StackInv
  BY DEF IInv
<1>2. /\ c \in Active /\ Going(c) /\ h1 \in Handle /\ d1 \in Device
      /\ trans => /\ list[h1] = "cache" /\ uuid[h1] # Nil /\ uuid[h1] \in Uuid
                  /\ Progress(d1, uuid[h1], StepOf(c))
                  /\ StepOf(c) # "deviceuuid" => Steady(c)
  BY AnsweredProcedure, KindFacts
<1>3. /\ Active' = Active /\ Active \subseteq Ctx
      /\ \A b \in Ctx : /\ ctx'[b].kind = ctx[b].kind
                        /\ ctx'[b].h1 = ctx[b].h1 /\ ctx'[b].d1 = ctx[b].d1
  BY <1>1, AnswerContexts DEF TypeInv, Active
<1>4. \A b \in Ctx : (Told(b, 0)' <=> Told(b, 0)) /\ (Told(b, -1)' <=> Told(b, -1))
  BY DEF AnswerStep, Stopped, Continued, Hushed, Told
<1>5. list' = list
  BY DEF AnswerStep
<1>6. Effect(c)
  BY AnswerEffect
<1>7. \A h : (Taken(h)' <=> Taken(h)) /\ (BeingReset(h)' <=> BeingReset(h))
  BY <1>3, <1>4 DEF Taken, BeingReset
<1>8. \/ uuid' = uuid
      \/ /\ trans /\ StepOf(c) = "devowneruuid" /\ Unused(Fresh)
         /\ uuid' = [uuid EXCEPT ![h1] = Fresh]
         /\ creds' = creds /\ deviceuuid' = deviceuuid /\ owned' = owned
  BY <1>6 DEF Effect
<1>9. \/ creds' = creds
      \/ /\ trans /\ StepOf(c) = "pstat rowner" /\ creds' = creds \cup {uuid[h1]}
         /\ uuid' = uuid /\ deviceuuid' = deviceuuid /\ owned' = owned
  BY <1>6 DEF Effect
<1>10. trans => Taken(h1)
  BY <1>2 DEF Taken
<1>11. trans /\ StepOf(c) \in {"devowneruuid", "pstat rowner", "owned"} =>
         uuid[h1] = deviceuuid[d1]
  BY <1>2 DEF Steady
<1>12. trans /\ StepOf(c) = "devowneruuid" => uuid[h1] \notin creds
  BY <1>2 DEF Progress, UpToPstat, UpToAcl, UpToDoxm, UpToOwner
<1>13. ASSUME NEW b \in Active, b # c, trans, ctx[b].kind \in OnCached
       PROVE  ctx[b].h1 # h1 /\ ctx[b].h1 \in Handle
  BY <1>1, <1>2, <1>13, Others, StepFacts, KindFacts DEF TypeInv
<1>14. \A h \in Handle : list'[h] = "devices" => uuid'[h] \in creds' \/ BeingReset(h)'
  <2>1. SUFFICES ASSUME NEW h \in Handle, list[h] = "devices"
                 PROVE  uuid'[h] \in creds' \/ BeingReset(h)
    BY <1>5, <1>7
  <2>2. uuid'[h] = uuid[h]
    BY <1>1, <1>2, <1>8, <2>1 DEF TypeInv
  <2>3. creds \subseteq creds'
    BY <1>9
  <2> QED BY <1>1, <2>1, <2>2, <2>3 DEF CredsInv
<1>15. ASSUME NEW d \in Device, deviceuuid'[d] \in creds', ~owned'[d]
       PROVE  \E b \in Active' : /\ ctx'[b].kind \in Transfer /\ ctx'[b].d1 = d
                                 /\ uuid'[ctx'[b].h1] = deviceuuid'[d]
  <2>1. SUFFICES \E b \in Active : /\ ctx[b].kind \in Transfer /\ ctx[b].d1 = d
                                   /\ uuid'[ctx[b].h1] = deviceuuid'[d]
    BY <1>3
  <2>2. deviceuuid[d] \in creds /\ ~owned[d] =>
          \E b \in Active : /\ ctx[b].kind \in Transfer /\ ctx[b].d1 = d
                            /\ uuid[ctx[b].h1] = deviceuuid[d]
    BY <1>1 DEF CredsInv
  <2>3. CASE UNCHANGED <<uuid, creds, deviceuuid, owned>>
    BY <1>15, <2>2, <2>3
  <2>4. CASE /\ trans /\ StepOf(c) = "devowneruuid" /\ Unused(Fresh)
             /\ uuid' = [uuid EXCEPT ![h1] = Fresh] /\ UNCHANGED <<creds, deviceuuid, owned>>
    <3>1. PICK b \in Active : /\ ctx[b].kind \in Transfer /\ ctx[b].d1 = d
                              /\ uuid[ctx[b].h1] = deviceuuid[d]
      BY <1>15, <2>2, <2>4
    <3>2. b # c
      BY <1>11, <1>12, <1>15, <2>4, <3>1
    <3>3. ctx[b].h1 # h1 /\ ctx[b].h1 \in Handle
      BY <1>13, <2>4, <3>1, <3>2, KindFacts
    <3>4. uuid'[ctx[b].h1] = uuid[ctx[b].h1]
      BY <1>1, <2>4, <3>3 DEF TypeInv
    <3> QED BY <2>4, <3>1, <3>4
  <2>5. CASE /\ trans /\ deviceuuid' = [deviceuuid EXCEPT ![d1] = uuid[h1]]
             /\ UNCHANGED <<uuid, creds, owned>>
    <3>1. CASE d = d1
      BY <1>1, <1>2, <2>5, <3>1 DEF TypeInv
    <3>2. CASE d # d1
      <4>1. deviceuuid'[d] = deviceuuid[d]
        BY <1>1, <2>5, <3>2 DEF TypeInv
      <4> QED BY <1>15, <2>2, <2>5, <4>1
    <3> QED BY <3>1, <3>2
  <2>6. CASE /\ trans /\ StepOf(c) = "pstat rowner" /\ creds' = creds \cup {uuid[h1]}
             /\ UNCHANGED <<uuid, deviceuuid, owned>>
    <3>1. CASE deviceuuid[d] = uuid[h1]
      <4>1. d = d1
        BY <1>1, <1>2, <1>11, <2>6, <3>1 DEF UniqueInv
      <4> QED BY <1>2, <2>6, <3>1, <4>1
    <3>2. CASE deviceuuid[d] # uuid[h1]
      BY <1>15, <2>2, <2>6, <3>2
    <3> QED BY <3>1, <3>2
  <2>7. CASE /\ owned' = [owned EXCEPT ![d1] = TRUE] /\ UNCHANGED <<uuid, creds, deviceuuid>>
    <3>1. ~owned[d]
      BY <1>1, <1>2, <1>15, <2>7 DEF TypeInv
    <3> QED BY <1>15, <2>2, <2>7, <3>1
  <2>8. CASE /\ Unused(Fresh) /\ deviceuuid' = [deviceuuid EXCEPT ![d1] = Fresh]
             /\ owned' = [owned EXCEPT ![d1] = FALSE] /\ UNCHANGED <<uuid, creds>>
    <3>1. d # d1
      BY <1>1, <1>15, <2>8 DEF TypeInv, Unused
    <3>2. deviceuuid'[d] = deviceuuid[d] /\ owned'[d] = owned[d]
      BY <1>1, <2>8, <3>1 DEF TypeInv
    <3>3. deviceuuid[d] \in creds /\ ~owned[d]
      <4>1. creds' = creds
        BY <2>8
      <4> QED BY <1>15, <3>2, <4>1, Zenon
    <3>4. PICK b \in Active : /\ ctx[b].kind \in Transfer /\ ctx[b].d1 = d
                              /\ uuid[ctx[b].h1] = deviceuuid[d]
      BY <2>2, <3>3
    <3>5. uuid'[ctx[b].h1] = deviceuuid'[d]
      BY <2>8, <3>2, <3>4
    <3> QED BY <3>4, <3>5
  <2> QED BY <1>6, <2>3, <2>4, <2>5, <2>6, <2>7, <2>8 DEF Effect
<1>16. \A h \in Handle : list'[h] = "cache" /\ uuid'[h] \in creds' => Taken(h)'
  <2>1. SUFFICES ASSUME NEW h \in Handle, list[h] = "cache", uuid'[h] \in creds', ~Taken(h)
                 PROVE  FALSE
    BY <1>5, <1>7
  <2>2. trans => h # h1
    BY <1>10, <2>1
  <2>3. uuid'[h] = uuid[h]
    BY <1>1, <1>8, <2>2 DEF TypeInv
  <2>4. uuid[h] \in creds \/ (trans /\ uuid[h] = uuid[h1])
    <3>1. creds' = creds \/ (trans /\ creds' = creds \cup {uuid[h1]})
      BY <1>9, Zenon
    <3> HIDE DEF h1, trans
    <3> QED BY <3>1, <2>1, <2>3
  <2>5. uuid[h] \in creds
    BY <1>1, <1>2, <2>2, <2>4 DEF UniqueInv
  <2> QED BY <1>1, <2>1, <2>5 DEF CredsInv
<1>17. \A h \in Handle, d \in Device :
         list'[h] = "cache" /\ uuid'[h] = deviceuuid'[d] /\ owned'[d] => Taken(h)'
  <2>1. SUFFICES ASSUME NEW h \in Handle, NEW d \in Device, list[h] = "cache",
                        uuid'[h] = deviceuuid'[d], owned'[d], ~Taken(h)
                 PROVE  FALSE
    BY <1>5, <1>7
  <2>2. trans => h # h1
    BY <1>10, <2>1
  <2>3. uuid'[h] = uuid[h] /\ uuid[h] # Nil
    BY <1>1, <1>8, <2>1, <2>2 DEF TypeInv, UniqueInv
  <2>4. trans => uuid[h] # uuid[h1]
    BY <1>1, <1>2, <2>2, <2>3 DEF UniqueInv
  <2>5. ~(uuid[h] = deviceuuid[d] /\ owned[d])
    BY <1>1, <2>1 DEF CredsInv
  <2>6. CASE deviceuuid' = deviceuuid /\ owned' = owned
    BY <2>1, <2>3, <2>5, <2>6
  <2>7. CASE trans /\ deviceuuid' = [deviceuuid EXCEPT ![d1] = uuid[h1]] /\ owned' = owned
    BY <1>1, <1>2, <2>1, <2>3, <2>4, <2>5, <2>7 DEF TypeInv
  <2>8. CASE /\ trans /\ StepOf(c) = "owned" /\ owned' = [owned EXCEPT ![d1] = TRUE]
             /\ deviceuuid' = deviceuuid
    BY <1>1, <1>2, <1>11, <2>1, <2>3, <2>4, <2>5, <2>8 DEF TypeInv
  <2>9. CASE /\ Unused(Fresh) /\ deviceuuid' = [deviceuuid EXCEPT ![d1] = Fresh]
             /\ owned' = [owned EXCEPT ![d1] = FALSE]
    BY <1>1, <1>2, <2>1, <2>3, <2>5, <2>9 DEF TypeInv, Unused
  <2> QED BY <1>6, <2>6, <2>7, <2>8, <2>9 DEF Effect
<1>18. \A b \in Active' : ctx'[b].kind \in OnCached /\ Told(b, -1)' =>
         uuid'[ctx'[b].h1] \notin creds'
  <2>1. SUFFICES ASSUME NEW b \in Active, ctx[b].kind \in OnCached, Told(b, -1)
                 PROVE  uuid'[ctx[b].h1] \notin creds'
    BY <1>3, <1>4
  <2>2. b # c
    BY <1>2, <2>1 DEF Going, Ended
  <2>3. uuid[ctx[b].h1] \notin creds
    BY <1>1, <2>1 DEF CredsInv
  <2>4. trans => ctx[b].h1 # h1
    BY <1>13, <2>1, <2>2
  <2>5. ctx[b].h1 \in Handle
    BY <1>1, StepFacts DEF TypeInv
  <2>6. uuid'[ctx[b].h1] = uuid[ctx[b].h1]
    BY <1>1, <1>8, <2>4, <2>5 DEF TypeInv
  <2>7. trans => uuid[ctx[b].h1] # uuid[h1]
    BY <1>1, <1>2, <2>4, <2>5 DEF UniqueInv
  <2>8. creds' = creds \/ (trans /\ creds' = creds \cup {uuid[h1]})
    BY <1>9, Zenon
  <2> DEFINE g == ctx[b].h1
  <2>9. uuid'[g] = uuid[g] /\ uuid[g] \notin creds /\ (trans => uuid[g] # uuid[h1])
    BY <2>3, <2>6, <2>7
  <2> HIDE DEF g, h1, trans
  <2>10. uuid'[g] \notin creds'
    BY <2>8, <2>9
  <2> QED BY <2>10 DEF g
<1> QED BY <1>14, <1>15, <1>16, <1>17, <1>18 DEF CredsInv

(* A device without an owner can be taken over. *)
LEMMA AnswerDevices ==
  ASSUME IInv, NEW c \in Ctx, AnswerStep(c)
  PROVE  DeviceInv'
<1>1. TypeInv /\ DeviceInv
  BY DEF IInv
<1>2. CASE UNCHANGED deviceVars
  BY <1>1, <1>2 DEF deviceVars, DeviceInv
<1>3. CASE Served(c)
  <2> DEFINE e == Target(c)
             s == StepOf(c)
  <2>1. e \in Device
    BY <1>1, Elsewhere
  <2>2. \A d \in Device : d # e => dos'[d] = dos[d] /\ owned'[d] = owned[d]
    BY <1>1, Elsewhere
  <2>3. /\ owned'[e] = ((owned[e] \/ s = "owned") /\ s # "RESET")
        /\ dos'[e] = IF s \in {"rfpro", "RFPRO", "RFPRO2"} THEN "RFPRO"
                     ELSE IF s \in {"rfnop", "RFNOP", "RFNOP2"} THEN "RFNOP"
                     ELSE IF s = "RESET" THEN "RFOTM" ELSE dos[e]
    BY <1>1, <1>3, <2>1 DEF Served, Apply, TypeInv
  <2>4. s \in {"rfpro", "rfnop", "RFPRO", "RFPRO2", "RFNOP", "RFNOP2"} => owned[e]
    BY <1>3 DEF Served, Accepts, ProvisionedDevice, Switch
  <2>5. ~owned'[e] => dos'[e] = "RFOTM"
    BY <1>1, <2>1, <2>3, <2>4 DEF DeviceInv
  <2> QED BY <1>1, <2>2, <2>5 DEF DeviceInv
<1> QED BY <1>2, <1>3 DEF AnswerStep


(* Which procedures go on, and with which requests *)
LEMMA AnswerGoing ==
  ASSUME IInv, NEW c \in Ctx, AnswerStep(c)
  PROVE  /\ Active' = Active /\ c \in Active
         /\ \A b \in Active : b # c => /\ StepOf(b)' = StepOf(b) /\ (Going(b)' <=> Going(b))
                                       /\ \A st \in {0, -1} : Ended(b, st)' <=> Ended(b, st)
         /\ Going(c)' => Continued(c) /\ Went(c) /\ StepOf(c)' = NextStep(c)
         /\ Ended(c, 0)' => ctx[c].pos = Len(Script[ctx[c].kind]) /\ Went(c) /\ Stopped(c, 0)
         /\ Continued(c) => StepOf(c)' = NextStep(c)
         /\ ~Continued(c) => StepOf(c)' = StepOf(c)
         /\ Continued(c) /\ ctx[c].kind \in Transfer =>
              /\ NextStep(c) = Follows[StepOf(c)] /\ StepOf(c) \in TransferSteps \ {"rfnop"}
         /\ ctx[c].kind = "reset" => ~Continued(c)
<1>1. CtxOK /\ StackInv
  BY DEF IInv, TypeInv
<1>2. /\ Active' = Active /\ c \in Active
      /\ \A b \in Ctx : ctx'[b].kind = ctx[b].kind
      /\ \A b \in Ctx : b # c => ctx'[b] = ctx[b]
      /\ \/ ctx'[c].pos = ctx[c].pos
         \/ Continued(c) /\ ctx'[c].pos = ctx[c].pos + 1
  BY <1>1, AnswerContexts
<1>3. Active \subseteq Ctx
  BY DEF Active
<1>4. /\ \A b \in Ctx, st \in {0, -1} : b # c => (Ended(b, st)' <=> Ended(b, st))
      /\ \A b \in Ctx : b # c => (b \in unheard' <=> b \in unheard)
  BY DEF AnswerStep, Stopped, Continued, Hushed, Ended, Told
<1>5. Going(c) /\ ~Ended(c, 0)
  BY AnsweredProcedure DEF Going
<1>6. ASSUME NEW b \in Active, b # c
      PROVE  /\ StepOf(b)' = StepOf(b) /\ (Going(b)' <=> Going(b))
             /\ \A st \in {0, -1} : Ended(b, st)' <=> Ended(b, st)
  <2>1. StepOf(b)' = StepOf(b)
    BY <1>2, <1>3, <1>6 DEF StepOf
  <2>2. /\ \A st \in {0, -1} : Ended(b, st)' <=> Ended(b, st)
    BY <1>3, <1>4, <1>6
  <2>3. (Ended(b, 0)' <=> Ended(b, 0)) /\ (Ended(b, -1)' <=> Ended(b, -1))
    BY <2>2
  <2>4. Going(b)' <=> Going(b)
    BY <1>2, <1>3, <1>4, <1>6, <2>3 DEF Going
  <2> QED BY <2>1, <2>2, <2>4
<1>7. Stopped(c, -1) => ~Going(c)' /\ ~Ended(c, 0)'
  <2>1. Stopped(c, -1) => (Ended(c, -1)' <=> Ended(c, -1) \/ (c = c /\ -1 = -1))
    BY DEF Stopped
  <2>2. Stopped(c, -1) => (Ended(c, 0)' <=> Ended(c, 0) \/ (c = c /\ 0 = -1))
    BY DEF Stopped
  <2> QED BY <1>5, <2>1, <2>2 DEF Going
<1>8. Stopped(c, 0) => ~Going(c)'
  <2>1. Stopped(c, 0) => (Ended(c, 0)' <=> Ended(c, 0) \/ (c = c /\ 0 = 0))
    BY DEF Stopped
  <2> QED BY <2>1 DEF Going
<1>9. Continued(c) => ~Ended(c, 0)'
  BY <1>5 DEF Continued
<1>16. Hushed(c) => ~Going(c)' /\ ~Ended(c, 0)'
  BY <1>5 DEF Hushed, Going, Ended, Told
<1>10. Going(c)' => Continued(c) /\ Went(c)
  BY <1>7, <1>8, <1>16, Zenon DEF AnswerStep
<1>11. Ended(c, 0)' => ctx[c].pos = Len(Script[ctx[c].kind]) /\ Went(c) /\ Stopped(c, 0)
  BY <1>7, <1>9, <1>16, Zenon DEF AnswerStep
<1>12. Continued(c) => StepOf(c)' = NextStep(c)
  <2>1. SUFFICES ASSUME Continued(c)
                 PROVE  StepOf(c)' = NextStep(c)
    OBVIOUS
  <2>2. ctx'[c].pos = ctx[c].pos + 1
    <3>1. ctx' = [ctx EXCEPT ![c].pos = ctx[c].pos + 1, ![c].out = NextStep(c) \notin Reopening]
      BY <2>1 DEF Continued
    <3>2. ctx \in [Ctx -> Record \cup {NoCtx}] /\ ctx[c] \in Record
      BY <1>1, <1>2, StepFacts DEF CtxOK
    <3> DEFINE o == NextStep(c) \notin Reopening
               p == ctx[c].pos + 1
    <3>3. ctx'[c] = [[ctx[c] EXCEPT !.pos = p] EXCEPT !.out = o]
      BY <3>1, <3>2
    <3> HIDE DEF o, p
    <3>4. ctx'[c].pos = p
      BY <3>2, <3>3 DEF Record
    <3> QED BY <3>4 DEF p
  <2> QED BY <1>2, <2>2 DEF StepOf, NextStep
<1>13. ~Continued(c) => StepOf(c)' = StepOf(c)
  BY <1>2 DEF StepOf
<1>14. ctx[c].kind = "reset" => ~Continued(c)
  BY <1>1, <1>2, StepFacts DEF Continued
<1>15. Continued(c) /\ ctx[c].kind \in Transfer =>
         NextStep(c) = Follows[StepOf(c)] /\ StepOf(c) \in TransferSteps \ {"rfnop"}
  <2>1. SUFFICES ASSUME Continued(c), ctx[c].kind \in Transfer
                 PROVE  NextStep(c) = Follows[StepOf(c)] /\ StepOf(c) \in TransferSteps \ {"rfnop"}
    OBVIOUS
  <2>2. ctx[c].pos \in 1..Len(Script[ctx[c].kind]) /\ ctx[c].pos # Len(Script[ctx[c].kind])
    BY <1>1, <1>2, <2>1, StepFacts DEF Continued
  <2> QED BY <2>1, <2>2, TransferStep DEF NextStep, StepOf
<1> QED BY <1>2, <1>6, <1>10, <1>11, <1>12, <1>13, <1>14, <1>15

(* The device of a procedure has the identity of its record. *)
LEMMA AnswerBound ==
  ASSUME IInv, NEW c \in Ctx, AnswerStep(c)
  PROVE  BoundInv'
<1> DEFINE h1 == ctx[c].h1
           d1 == ctx[c].d1
           trans == ctx[c].kind \in Transfer
<1>1. TypeInv /\ CtxOK /\ UniqueInv /\ ApartInv /\ StackInv /\ BoundInv
  BY DEF IInv, TypeInv
<1>2. /\ c \in Active /\ Going(c) /\ h1 \in Handle /\ d1 \in Device
      /\ ctx[c].kind \in Frees => uuid[h1] # Nil
      /\ trans => /\ uuid[h1] # Nil
                  /\ Progress(d1, uuid[h1], StepOf(c))
                  /\ IF StepOf(c) = "deviceuuid" THEN Alone(c) ELSE Steady(c)
  BY AnsweredProcedure, KindFacts
<1>3. /\ Active' = Active /\ Active \subseteq Ctx
      /\ \A b \in Ctx : /\ ctx'[b].kind = ctx[b].kind
                        /\ ctx'[b].h1 = ctx[b].h1 /\ ctx'[b].d1 = ctx[b].d1
                        /\ ctx'[b].h2 = ctx[b].h2 /\ ctx'[b].d2 = ctx[b].d2
  BY <1>1, AnswerContexts DEF Active
<1>4. Effect(c)
  BY AnswerEffect
<1>5. /\ \A b \in Active : b # c => StepOf(b)' = StepOf(b) /\ (Going(b)' <=> Going(b))
      /\ Going(c)' => Continued(c) /\ Went(c) /\ StepOf(c)' = NextStep(c)
      /\ Continued(c) /\ trans =>
           NextStep(c) = Follows[StepOf(c)] /\ StepOf(c) \in TransferSteps \ {"rfnop"}
      /\ ctx[c].kind = "reset" => ~Continued(c)
  BY AnswerGoing
<1>6. ctx[c].kind \notin Frees => UNCHANGED <<uuid, creds, deviceuuid>>
  BY <1>4, KindFacts DEF Effect
<1>7. \/ uuid' = uuid
      \/ uuid' = [uuid EXCEPT ![h1] = Fresh] /\ Unused(Fresh)
  BY <1>4 DEF Effect
<1>8. \/ deviceuuid' = deviceuuid
      \/ deviceuuid' = [deviceuuid EXCEPT ![d1] = uuid[h1]] /\ trans
      \/ deviceuuid' = [deviceuuid EXCEPT ![d1] = Fresh] /\ Unused(Fresh)
  BY <1>4 DEF Effect
<1>9. creds' = creds \/ creds' = creds \cup {uuid[h1]}
  BY <1>4 DEF Effect
<1>10. SUFFICES ASSUME NEW b \in Active, Going(b)', ctx[b].kind \notin Retrieval
                PROVE  IF Renaming(b)' THEN Alone(b)' ELSE Steady(b)'
  BY <1>3 DEF BoundInv
<1>11. b \in Ctx /\ ctx[b].h1 \in Handle /\ ctx[b].d1 \in Device
       /\ (ctx[b].h2 # Nil => ctx[b].h2 \in Handle /\ ctx[b].d2 \in Device)
  BY <1>1, StepFacts
<1>12. /\ Steady(b)' <=> /\ uuid'[ctx[b].h1] = deviceuuid'[ctx[b].d1]
                         /\ ctx[b].h2 # Nil => uuid'[ctx[b].h2] = deviceuuid'[ctx[b].d2]
       /\ Alone(b)' <=> /\ \A d \in Device : deviceuuid'[d] # uuid'[ctx[b].h1]
                        /\ \A h \in Handle : uuid'[h] # deviceuuid'[ctx[b].d1]
                        /\ deviceuuid'[ctx[b].d1] \notin creds'
       /\ Renaming(b)' <=> ctx[b].kind \in Transfer /\ StepOf(b)' = "deviceuuid"
  BY <1>3, <1>11 DEF Steady, Alone, Renaming
<1>13. CASE b # c
  <2>1. Going(b) /\ (Renaming(b)' <=> Renaming(b))
    BY <1>5, <1>10, <1>12, <1>13 DEF Renaming
  <2>2. IF Renaming(b) THEN Alone(b) ELSE Steady(b)
    BY <1>1, <1>10, <2>1 DEF BoundInv
  <2>3. CASE ctx[c].kind \notin Frees
    BY <1>6, <1>12, <2>1, <2>2, <2>3 DEF Steady, Alone
  <2>4. CASE ctx[c].kind \in Frees
    <3>1. /\ ctx[b].h1 # h1 /\ ctx[b].h2 # h1 /\ ctx[b].d1 # d1 /\ ctx[b].d2 # d1
      BY <1>1, <1>2, <1>10, <1>13, <2>1, <2>4, Others DEF Going
    <3>2. /\ uuid'[ctx[b].h1] = uuid[ctx[b].h1]
          /\ ctx[b].h2 # Nil => uuid'[ctx[b].h2] = uuid[ctx[b].h2]
      BY <1>1, <1>7, <1>11, <3>1 DEF TypeInv
    <3>3. /\ deviceuuid'[ctx[b].d1] = deviceuuid[ctx[b].d1]
          /\ ctx[b].h2 # Nil => deviceuuid'[ctx[b].d2] = deviceuuid[ctx[b].d2]
      BY <1>1, <1>8, <1>11, <3>1 DEF TypeInv
    <3>4. Steady(b) => Steady(b)'
      BY <1>12, <3>2, <3>3 DEF Steady
    <3>5. ASSUME Alone(b)
          PROVE  Alone(b)'
      <4>1. uuid[ctx[b].h1] # uuid[h1]
        BY <1>1, <1>2, <1>11, <2>4, <3>1 DEF UniqueInv
      <4>2. \A d \in Device : deviceuuid'[d] # uuid[ctx[b].h1]
        BY <1>1, <1>2, <1>8, <1>11, <3>5, <4>1 DEF TypeInv, Alone, Unused
      <4>3. \A h \in Handle : uuid'[h] # deviceuuid[ctx[b].d1]
        BY <1>1, <1>2, <1>7, <1>11, <3>5 DEF TypeInv, Alone, Unused
      <4>4. deviceuuid[ctx[b].d1] \notin creds'
        BY <1>2, <1>9, <3>5 DEF Alone
      <4> QED BY <1>12, <3>2, <3>3, <4>2, <4>3, <4>4
    <3> QED BY <2>1, <2>2, <3>4, <3>5
  <2> QED BY <2>3, <2>4
<1>14. CASE b = c
  <2>1. Continued(c) /\ Went(c) /\ StepOf(c)' = NextStep(c)
    BY <1>5, <1>10, <1>14
  <2>2. CASE trans /\ StepOf(c) = "devowneruuid"
    <3>1. NextStep(c) = "deviceuuid"
      BY <1>5, <2>1, <2>2, WhatFollows
    <3>2. uuid' = [uuid EXCEPT ![h1] = Fresh] /\ creds' = creds /\ deviceuuid' = deviceuuid
      <4>1. uuid' = [uuid EXCEPT ![h1] = Fresh] /\ creds' = creds
        BY <2>1, <3>1 DEF Continued
      <4>2. deviceuuid' = deviceuuid
        <5>1. ctx[c].kind # "reset"
          BY <1>5, <2>1
        <5> QED BY <1>4, <2>2, <5>1 DEF Effect
      <4> QED BY <4>1, <4>2
    <3>3. Unused(Fresh)
      <4>1. LeftInv /\ Needs # {}
        BY <2>2, AnsweredProcedure DEF IInv
      <4> QED BY <4>1, FreshUnused
    <3>4. Steady(c) /\ uuid[h1] \notin creds
      BY <1>2, <2>2 DEF Progress, UpToPstat, UpToAcl, UpToDoxm, UpToOwner
    <3>5. uuid'[h1] = Fresh /\ \A h \in Handle : h # h1 => uuid'[h] = uuid[h]
      BY <1>1, <1>2, <3>2 DEF TypeInv
    <3>6. \A h \in Handle : uuid'[h] # deviceuuid[d1]
      BY <1>1, <1>2, <2>2, <3>3, <3>4, <3>5 DEF Steady, UniqueInv, Unused
    <3>7. deviceuuid[d1] \notin creds
      BY <3>4 DEF Steady
    <3>8. Alone(c)'
      BY <1>12, <1>14, <3>2, <3>3, <3>5, <3>6, <3>7 DEF Unused
    <3> QED BY <1>12, <1>14, <2>1, <2>2, <3>1, <3>8
  <2>3. CASE trans /\ StepOf(c) = "deviceuuid"
    <3>1. NextStep(c) = "doxm rowner"
      BY <1>5, <2>1, <2>3, WhatFollows
    <3>2. uuid' = uuid
      BY <2>1, <3>1 DEF Continued
    <3>3. Served(c) /\ Target(c) = d1 /\ ctx[c].h2 = Nil
      <4>1. ctx[c].kind # "pair"
        BY <2>3 DEF Transfer
      <4> QED BY <1>1, <1>2, <2>1, <2>3, <4>1, StepFacts DEF Went
    <3>4. deviceuuid'[d1] = uuid[h1]
      BY <1>1, <1>2, <2>3, <3>3 DEF Served, Apply, TypeInv
    <3> QED BY <1>12, <1>14, <2>1, <3>1, <3>2, <3>3, <3>4
  <2>4. CASE trans /\ StepOf(c) \notin {"devowneruuid", "deviceuuid"}
    <3>1. NextStep(c) # "deviceuuid"
      BY <1>5, <2>1, <2>4, WhatComesBefore
    <3>2. uuid' = uuid
      BY <2>1, <3>1 DEF Continued
    <3>3. deviceuuid' = deviceuuid
      <4>1. ctx[c].kind # "reset"
        BY <1>5, <2>1
      <4> QED BY <1>4, <2>4, <4>1 DEF Effect
    <3>4. Steady(c)
      BY <1>2, <2>4
    <3> QED BY <1>12, <1>14, <2>1, <3>1, <3>2, <3>3, <3>4 DEF Steady
  <2>5. CASE ~trans
    <3>1. UNCHANGED <<uuid, deviceuuid>>
      BY <1>4, <1>5, <2>1, <2>5 DEF Effect
    <3>2. Steady(c)
      BY <1>1, <1>2, <1>10, <1>14, <2>5 DEF BoundInv, Renaming
    <3> QED BY <1>12, <1>14, <2>5, <3>1, <3>2 DEF Steady
  <2> QED BY <2>2, <2>3, <2>4, <2>5
<1> QED BY <1>13, <1>14


(* The order of the requests fits what is said of them. *)
LEMMA StageFollows ==
  ASSUME NEW s \in TransferSteps \ {"rfnop"}, NEW f, f = Follows[s]
  PROVE  /\ f \notin UpToOwner => s \notin UpToOwner \/ s = "devowneruuid"
         /\ f \notin UpToDoxm => s \notin UpToDoxm \/ s = "doxm rowner"
         /\ f \notin UpToAcl => s \notin UpToAcl \/ s = "acl rowner"
         /\ f \notin UpToPstat => s \notin UpToPstat \/ s = "pstat rowner"
         /\ f \notin UpToCred => s \notin UpToCred \/ s = "owner cred"
         /\ f \notin UpToOwned => s \notin UpToOwned \/ s = "owned"
         /\ f \notin Operating => s \notin Operating /\ s # "rfpro"
         /\ f \in Operating => s \in Operating \/ s = "rfpro"
         /\ f \in UpToPstat <=> s \in UpToPstat /\ s # "pstat rowner"
<1>1. \/ s = "get doxm" \/ s = "oxmsel" \/ s = "om" \/ s = "devowneruuid" \/ s = "deviceuuid"
      \/ s = "doxm rowner" \/ s = "acl rowner" \/ s = "pstat rowner" \/ s = "owner cred"
      \/ s = "sdi" \/ s = "owned" \/ s = "rfpro" \/ s = "delete acl" \/ s = "aces"
  BY DEF TransferSteps
<1>2. /\ s = "get doxm" => f = "oxmsel"
      /\ s = "oxmsel" => f = "om"
      /\ s = "om" => f = "devowneruuid"
      /\ s = "devowneruuid" => f = "deviceuuid"
      /\ s = "deviceuuid" => f = "doxm rowner"
      /\ s = "doxm rowner" => f = "acl rowner"
      /\ s = "acl rowner" => f = "pstat rowner"
      /\ s = "pstat rowner" => f = "owner cred"
      /\ s = "owner cred" => f = "sdi"
      /\ s = "sdi" => f = "owned"
      /\ s = "owned" => f = "rfpro"
      /\ s = "rfpro" => f = "delete acl"
      /\ s = "delete acl" => f = "aces"
      /\ s = "aces" => f = "rfnop"
  BY WhatFollows
<1> HIDE DEF Follows
<1>3. f \notin UpToOwner => s \notin UpToOwner \/ s = "devowneruuid"
  BY <1>1, <1>2 DEF UpToOwner
<1>4. f \notin UpToDoxm => s \notin UpToDoxm \/ s = "doxm rowner"
  BY <1>1, <1>2 DEF UpToOwner, UpToDoxm
<1>5. f \notin UpToAcl => s \notin UpToAcl \/ s = "acl rowner"
  BY <1>1, <1>2 DEF UpToOwner, UpToDoxm, UpToAcl
<1>6. f \notin UpToPstat => s \notin UpToPstat \/ s = "pstat rowner"
  BY <1>1, <1>2 DEF UpToOwner, UpToDoxm, UpToAcl, UpToPstat
<1>7. f \notin UpToCred => s \notin UpToCred \/ s = "owner cred"
  BY <1>1, <1>2 DEF UpToOwner, UpToDoxm, UpToAcl, UpToPstat, UpToCred
<1>8. f \notin UpToOwned => s \notin UpToOwned \/ s = "owned"
  BY <1>1, <1>2 DEF UpToOwner, UpToDoxm, UpToAcl, UpToPstat, UpToCred, UpToOwned
<1>9. f \notin Operating => s \notin Operating /\ s # "rfpro"
  BY <1>1, <1>2 DEF Operating
<1>10. f \in Operating => s \in Operating \/ s = "rfpro"
  BY <1>1, <1>2 DEF Operating
<1>11. f \in UpToPstat <=> s \in UpToPstat /\ s # "pstat rowner"
  BY <1>1, <1>2 DEF UpToOwner, UpToDoxm, UpToAcl, UpToPstat
<1> QED BY <1>3, <1>4, <1>5, <1>6, <1>7, <1>8, <1>9, <1>10, <1>11

(* A procedure that only reads leaves its device as it is. *)
LEMMA RetrievalReads ==
  ASSUME TypeInv, NEW c \in Ctx, AnswerStep(c), ctx[c].kind \in Retrieval
  PROVE  \A e \in Device : /\ dos'[e] = dos[e] /\ owned'[e] = owned[e]
                           /\ configured'[e] = configured[e] /\ deviceuuid'[e] = deviceuuid[e]
<1> DEFINE e == Target(c)
           s == StepOf(c)
<1>1. e \in Device /\ c \in Active
  BY Elsewhere
<1>2. s \in PlainSteps /\ s \notin Switch
  <2>1. ctx[c].kind \in {"getcred", "getacl"} /\ ctx[c].kind \notin Transfer \cup {"reset"}
    BY DEF Retrieval, Transfer
  <2>2. s \in StepsOf(ctx[c].kind)
    BY <1>1, <2>1, StepFacts DEF TypeInv
  <2> QED BY <2>1, <2>2 DEF StepsOf
<1>3. /\ s \notin Setup /\ s \notin {"deviceuuid", "owned", "RESET", "rfpro", "rfnop"}
      /\ s \notin {"RFPRO", "RFPRO2", "RFNOP", "RFNOP2"}
  BY <1>2, StepSets DEF Switch
<1>4. CASE UNCHANGED deviceVars
  BY <1>4 DEF deviceVars
<1>5. CASE Served(c)
  <2>1. /\ dos'[e] = dos[e] /\ owned'[e] = owned[e]
        /\ configured'[e] = configured[e] /\ deviceuuid'[e] = deviceuuid[e]
    <3>1. dos'[e] = dos[e] /\ deviceuuid'[e] = deviceuuid[e]
      BY <1>1, <1>3, <1>5 DEF Served, Apply, TypeInv
    <3>2. owned'[e] = ((owned[e] \/ s = "owned") /\ s # "RESET") /\ owned[e] \in BOOLEAN
      BY <1>1, <1>5 DEF Served, Apply, TypeInv
    <3>3. configured'[e] = configured[e] \cup ({s} \cap Setup)
      BY <1>1, <1>3, <1>5 DEF Served, Apply, TypeInv
    <3>4. configured'[e] = configured[e]
      BY <1>3, <3>3
    <3>5. owned'[e] = owned[e]
      BY <1>3, <3>2
    <3> QED BY <3>1, <3>4, <3>5
  <2> QED BY <1>1, <2>1, Elsewhere
<1> QED BY <1>4, <1>5 DEF AnswerStep

(* How far a transfer has come *)
LEMMA AnswerTransfer ==
  ASSUME IInv, NEW c \in Ctx, AnswerStep(c)
  PROVE  TransferInv'
<1> DEFINE h1 == ctx[c].h1
           d1 == ctx[c].d1
           trans == ctx[c].kind \in Transfer
           s == StepOf(c)
           New(d, u, f) == /\ f \notin UpToOwner => "devowneruuid" \in configured'[d]
                           /\ f \notin UpToDoxm => "doxm rowner" \in configured'[d]
                           /\ f \notin UpToAcl => "acl rowner" \in configured'[d]
                           /\ f \notin UpToPstat => "pstat rowner" \in configured'[d]
                           /\ f \notin UpToCred => "owner cred" \in configured'[d]
                           /\ f \notin UpToOwned => owned'[d]
                           /\ f \notin Operating => dos'[d] = "RFOTM"
                           /\ f \in Operating => dos'[d] = "RFPRO"
                           /\ f \in UpToPstat <=> u \notin creds'
           Done(d, u) == /\ dos'[d] = "RFNOP" /\ owned'[d] /\ configured'[d] = Setup
                         /\ deviceuuid'[d] = u /\ u \in creds'
<1>1. TypeInv /\ CtxOK /\ UniqueInv /\ ApartInv /\ StackInv /\ TransferInv /\ BoundInv
  BY DEF IInv, TypeInv
<1>2. /\ c \in Active /\ Going(c) /\ h1 \in Handle /\ d1 \in Device
      /\ trans => /\ uuid[h1] # Nil
                  /\ Progress(d1, uuid[h1], s)
                  /\ s # "deviceuuid" => Steady(c)
  BY AnsweredProcedure, KindFacts
<1>3. /\ Active' = Active /\ Active \subseteq Ctx
      /\ \A b \in Ctx : /\ ctx'[b].kind = ctx[b].kind
                        /\ ctx'[b].h1 = ctx[b].h1 /\ ctx'[b].d1 = ctx[b].d1
  BY <1>1, AnswerContexts DEF Active
<1>4. Effect(c)
  BY AnswerEffect
<1>5. /\ \A b \in Active : b # c => /\ StepOf(b)' = StepOf(b) /\ (Going(b)' <=> Going(b))
                                    /\ Ended(b, 0)' <=> Ended(b, 0)
      /\ Going(c)' => Continued(c) /\ Went(c) /\ StepOf(c)' = NextStep(c)
      /\ Ended(c, 0)' => ctx[c].pos = Len(Script[ctx[c].kind]) /\ Went(c) /\ Stopped(c, 0)
      /\ Continued(c) /\ trans =>
           NextStep(c) = Follows[s] /\ s \in TransferSteps \ {"rfnop"}
  BY AnswerGoing
<1>6. SUFFICES ASSUME NEW b \in Active, ctx[b].kind \in Transfer
               PROVE  /\ Going(b)' => New(ctx[b].d1, uuid'[ctx[b].h1], StepOf(b)')
                      /\ Ended(b, 0)' => Done(ctx[b].d1, uuid'[ctx[b].h1])
  BY <1>3 DEF TransferInv, Progress, Finished, ProvisionedDevice
<1>7. b \in Ctx /\ ctx[b].h1 \in Handle /\ ctx[b].d1 \in Device /\ ctx[b].kind \in Frees
  BY <1>1, <1>6, StepFacts, KindFacts
<1>8. CASE b # c
  <2> DEFINE d == ctx[b].d1
             u == uuid[ctx[b].h1]
  <2>1. b \notin unheard =>
          /\ dos'[d] = dos[d] /\ owned'[d] = owned[d]
          /\ configured'[d] = configured[d] /\ deviceuuid'[d] = deviceuuid[d]
    <3>1. CASE ctx[c].kind \in Retrieval
      BY <1>1, <1>7, <3>1, RetrievalReads
    <3>2. CASE ctx[c].kind \notin Retrieval
      <4>1. b \notin unheard => Target(c) # d
        BY <1>1, <1>2, <1>7, <1>8, <3>2, Others DEF Going
      <4> QED BY <1>1, <1>7, <4>1, Elsewhere
    <3> QED BY <3>1, <3>2
  <2>12. Going(b) \/ Ended(b, 0) => b \notin unheard
    BY <1>1, <1>7, EndedHeld DEF Going, StackInv, IInv, UnheardInv
  <2>2. trans => ctx[b].h1 # h1
    <3>1. ctx[b].kind \notin Retrieval
      BY <1>7, KindFacts
    <3> QED BY <1>1, <1>2, <1>8, <3>1, Others, KindFacts
  <2>3. \/ uuid' = uuid
        \/ uuid' = [uuid EXCEPT ![h1] = Fresh] /\ trans
    BY <1>4 DEF Effect
  <2>4. uuid'[ctx[b].h1] = u
    BY <1>1, <1>7, <2>2, <2>3 DEF TypeInv
  <2>5. creds' = creds \/ (creds' = creds \cup {uuid[h1]} /\ trans)
    BY <1>4 DEF Effect
  <2>6. trans => u # uuid[h1]
    BY <1>1, <1>2, <1>7, <2>2 DEF UniqueInv
  <2>7. u \in creds' <=> u \in creds
    <3> HIDE DEF u
    <3> QED BY <2>5, <2>6
  <2>8. Going(b) => Progress(d, u, StepOf(b))
    BY <1>1, <1>6 DEF TransferInv
  <2>9. Ended(b, 0) => Finished(d, u)
    BY <1>1, <1>6 DEF TransferInv
  <2>10. Going(b) => New(d, u, StepOf(b))
    <3> HIDE DEF u, d
    <3> QED BY <2>1, <2>7, <2>8, <2>12 DEF Progress
  <2>11. Ended(b, 0) => Done(d, u)
    <3> HIDE DEF u, d
    <3> QED BY <2>1, <2>7, <2>9, <2>12 DEF Finished, ProvisionedDevice
  <2> QED BY <1>5, <1>8, <2>4, <2>10, <2>11
<1>9. CASE b = c
  <2> DEFINE u == uuid[h1]
             u1 == uuid'[h1]
             f == Follows[s]
  <2>1. trans /\ Target(c) = d1 /\ Progress(d1, u, s) /\ s \in TransferSteps
    BY <1>1, <1>2, <1>6, <1>9, StepFacts DEF Transfer
  <2>2. s # "RESET" /\ s \notin {"RFPRO", "RFPRO2", "RFNOP", "RFNOP2"}
    BY <2>1 DEF TransferSteps
  <2>3. ASSUME Went(c)
        PROVE  /\ configured'[d1] = configured[d1] \cup ({s} \cap Setup)
               /\ owned'[d1] <=> owned[d1] \/ s = "owned"
               /\ dos'[d1] = IF s = "rfpro" THEN "RFPRO"
                             ELSE IF s = "rfnop" THEN "RFNOP" ELSE dos[d1]
               /\ s # "sdi" => Served(c)
    <3>1. CASE Served(c)
      <4>1. /\ configured'[d1] = configured[d1] \cup ({s} \cap Setup)
            /\ dos'[d1] = IF s = "rfpro" THEN "RFPRO"
                          ELSE IF s = "rfnop" THEN "RFNOP" ELSE dos[d1]
        BY <1>1, <1>2, <2>1, <2>2, <3>1 DEF Served, Apply, TypeInv
      <4>2. owned'[d1] <=> owned[d1] \/ s = "owned"
        BY <1>1, <1>2, <2>1, <2>2, <3>1 DEF Served, Apply, TypeInv
      <4> QED BY <3>1, <4>1, <4>2
    <3>2. CASE s = "sdi" /\ UNCHANGED deviceVars
      <4>1. s \notin Setup
        BY <3>2 DEF Setup
      <4> QED BY <3>2, <4>1 DEF deviceVars
    <3> QED BY <2>1, <2>3, <3>1, <3>2 DEF Went
  <2>4. ASSUME Going(c)'
        PROVE  New(d1, u1, StepOf(c)')
    <3>1. Continued(c) /\ Went(c) /\ StepOf(c)' = f /\ s \in TransferSteps \ {"rfnop"}
      BY <1>5, <2>1, <2>4
    <3>2. NextStep(c) = f
      BY <1>5, <2>1, <3>1
    <3>3. u1 \in creds' <=> u \in creds \/ s = "pstat rowner"
      <4>1. CASE s = "devowneruuid"
        <5>1. f = "deviceuuid"
          BY <4>1, WhatFollows
        <5>2. uuid' = [uuid EXCEPT ![h1] = Fresh] /\ creds' = creds
          BY <3>1, <3>2, <5>1 DEF Continued
        <5>3. Unused(Fresh)
          BY <2>1, <4>1, AnsweredProcedure, FreshUnused DEF IInv
        <5>4. u1 = Fresh
          BY <1>1, <1>2, <5>2 DEF TypeInv
        <5>5. u \notin creds
          BY <2>1, <4>1 DEF Progress, UpToPstat, UpToAcl, UpToDoxm, UpToOwner
        <5> QED BY <4>1, <5>2, <5>3, <5>4, <5>5 DEF Unused
      <4>2. CASE s = "pstat rowner"
        <5>1. f = "owner cred"
          BY <4>2, WhatFollows
        <5>2. uuid' = uuid /\ creds' = creds \cup {u}
          BY <3>1, <3>2, <5>1 DEF Continued
        <5> QED BY <4>2, <5>2
      <4>3. CASE s \notin {"devowneruuid", "pstat rowner"}
        <5>1. f # "deviceuuid" /\ f # "owner cred"
          BY <3>1, <4>3, WhatComesBefore
        <5>2. uuid' = uuid /\ creds' = creds
          BY <3>1, <3>2, <5>1 DEF Continued
        <5> QED BY <4>3, <5>2
      <4> QED BY <4>1, <4>2, <4>3
    <3>4. /\ f \notin UpToOwner => s \notin UpToOwner \/ s = "devowneruuid"
          /\ f \notin UpToDoxm => s \notin UpToDoxm \/ s = "doxm rowner"
          /\ f \notin UpToAcl => s \notin UpToAcl \/ s = "acl rowner"
          /\ f \notin UpToPstat => s \notin UpToPstat \/ s = "pstat rowner"
          /\ f \notin UpToCred => s \notin UpToCred \/ s = "owner cred"
          /\ f \notin UpToOwned => s \notin UpToOwned \/ s = "owned"
          /\ f \notin Operating => s \notin Operating /\ s # "rfpro"
          /\ f \in Operating => s \in Operating \/ s = "rfpro"
          /\ f \in UpToPstat <=> s \in UpToPstat /\ s # "pstat rowner"
      BY <3>1, StageFollows
    <3>5. /\ configured'[d1] = configured[d1] \cup ({s} \cap Setup)
          /\ owned'[d1] <=> owned[d1] \/ s = "owned"
          /\ dos'[d1] = IF s = "rfpro" THEN "RFPRO"
                        ELSE IF s = "rfnop" THEN "RFNOP" ELSE dos[d1]
      BY <2>3, <3>1
    <3> HIDE DEF f, s, u, u1, d1
    <3>6. /\ f \notin UpToOwner => "devowneruuid" \in configured'[d1]
          /\ f \notin UpToDoxm => "doxm rowner" \in configured'[d1]
          /\ f \notin UpToAcl => "acl rowner" \in configured'[d1]
          /\ f \notin UpToPstat => "pstat rowner" \in configured'[d1]
          /\ f \notin UpToCred => "owner cred" \in configured'[d1]
      BY <2>1, <3>4, <3>5 DEF Progress, Setup
    <3>7. f \notin UpToOwned => owned'[d1]
      BY <2>1, <3>4, <3>5 DEF Progress
    <3>8. /\ f \notin Operating => dos'[d1] = "RFOTM"
          /\ f \in Operating => dos'[d1] = "RFPRO"
      BY <2>1, <3>1, <3>4, <3>5 DEF Progress
    <3>9. f \in UpToPstat <=> u1 \notin creds'
      BY <2>1, <3>3, <3>4 DEF Progress
    <3> QED BY <3>1, <3>6, <3>7, <3>8, <3>9
  <2>5. ASSUME Ended(c, 0)'
        PROVE  Done(d1, u1)
    <3>1. ctx[c].pos = Len(Script[ctx[c].kind]) /\ Went(c) /\ Stopped(c, 0)
      BY <1>5, <2>5
    <3>2. s = "rfnop"
      BY <1>1, <1>2, <2>1, <3>1, StepFacts, TransferStep DEF StepOf
    <3>3. Served(c)
      BY <2>3, <3>1, <3>2
    <3>4. uuid' = uuid /\ creds' = creds
      BY <3>1 DEF Stopped
    <3>5. deviceuuid' = deviceuuid
      BY <1>4, <2>1, <3>2 DEF Effect, Transfer
    <3>6. ProvisionedDevice(d1)
      BY <2>1, <3>2, <3>3 DEF Served, Accepts
    <3>7. "rfnop" \notin Setup
      BY DEF Setup
    <3>8. configured'[d1] = Setup /\ owned'[d1] /\ dos'[d1] = "RFNOP"
      BY <2>3, <3>1, <3>2, <3>6, <3>7 DEF ProvisionedDevice
    <3>9. deviceuuid[d1] = u
      BY <1>2, <2>1, <3>2 DEF Steady
    <3>10. u \in creds
      BY <2>1, <3>2 DEF Progress, UpToPstat, UpToAcl, UpToDoxm, UpToOwner
    <3> QED BY <3>4, <3>5, <3>8, <3>9, <3>10
  <2> QED BY <1>9, <2>4, <2>5
<1> QED BY <1>8, <1>9


(* Enough identities are left. *)
LEMMA AnswerLeft ==
  ASSUME IInv, NEW c \in Ctx, AnswerStep(c)
  PROVE  LeftInv'
<1> DEFINE h1 == ctx[c].h1
           d1 == ctx[c].d1
           trans == ctx[c].kind \in Transfer
<1>1. TypeInv /\ CtxOK /\ LeftInv
  BY DEF IInv, TypeInv
<1>2. /\ c \in Active /\ h1 \in Handle /\ d1 \in Device
      /\ trans /\ StepOf(c) = "devowneruuid" => c \in Needs
      /\ ctx[c].kind = "reset" => c \in Needs
  BY AnsweredProcedure
<1>3. /\ Active' = Active /\ Active \subseteq Ctx
      /\ \A b \in Ctx : ctx'[b].kind = ctx[b].kind
      /\ \A b \in Ctx : b # c => ctx'[b] = ctx[b]
  BY <1>1, AnswerContexts DEF IInv, Active
<1>4. Effect(c)
  BY AnswerEffect
<1>5. /\ \A b \in Active : b # c => StepOf(b)' = StepOf(b) /\ (Going(b)' <=> Going(b))
      /\ Going(c)' => Continued(c)
      /\ Continued(c) => StepOf(c)' = NextStep(c)
      /\ ~Continued(c) => StepOf(c)' = StepOf(c)
      /\ Continued(c) /\ trans =>
           NextStep(c) = Follows[StepOf(c)] /\ StepOf(c) \in TransferSteps \ {"rfnop"}
      /\ ctx[c].kind = "reset" => ~Continued(c)
  BY AnswerGoing
<1>6. IsFiniteSet(Left) /\ IsFiniteSet(Needs) /\ IsFiniteSet(Left')
  <2>1. Left' \subseteq Uuid
    BY DEF Left
  <2> QED BY <2>1, LeftFinite, FiniteAssumption, FS_Subset
<1>7. Cardinality(Left) >= Cardinality(Needs)
  BY <1>1 DEF LeftInv
<1>8. ASSUME NEW b \in Needs', b # c
      PROVE  b \in Needs
  <2>1. /\ b \in Active /\ ctx'[b] = ctx[b] /\ StepOf(b)' = StepOf(b)
        /\ Going(b)' <=> Going(b)
    BY <1>3, <1>5, <1>8 DEF Needs
  <2>2. \/ ctx'[b].kind \in Transfer /\ StepOf(b)' \in UpToOwner
        \/ ctx'[b].kind = "reset" /\ Going(b)'
    BY <1>8 DEF Needs
  <2> QED BY <2>1, <2>2 DEF Needs
<1>9. ASSUME c \in Needs'
      PROVE  c \in Needs /\ trans /\ (Continued(c) => StepOf(c) # "devowneruuid")
  <2>1. \/ trans /\ StepOf(c)' \in UpToOwner
        \/ ctx[c].kind = "reset" /\ Going(c)'
    BY <1>3, <1>9 DEF Needs
  <2>2. trans /\ StepOf(c)' \in UpToOwner
    BY <1>5, <2>1
  <2>3. Continued(c) => StepOf(c) \in UpToOwner /\ StepOf(c) # "devowneruuid"
    <3>1. SUFFICES ASSUME Continued(c)
                   PROVE  StepOf(c) \in UpToOwner /\ StepOf(c) # "devowneruuid"
      OBVIOUS
    <3>2. StepOf(c) \in TransferSteps \ {"rfnop"} /\ Follows[StepOf(c)] \in UpToOwner
      BY <1>5, <2>2, <3>1
    <3> QED BY <3>2, WhatComesBefore
  <2>4. StepOf(c) \in UpToOwner
    BY <1>5, <2>2, <2>3
  <2> QED BY <1>2, <2>2, <2>3, <2>4 DEF Needs
<1>10. Needs' \subseteq Needs
  BY <1>8, <1>9
<1>11. Left' = Uuid \ Used' /\ Left = Uuid \ Used
  BY DEF Left
<1>12. CASE /\ uuid' = uuid
            /\ creds' = creds \/ creds' = creds \cup {uuid[h1]}
            /\ deviceuuid' = deviceuuid \/ deviceuuid' = [deviceuuid EXCEPT ![d1] = uuid[h1]]
  <2>1. ASSUME NEW u \in Used'
        PROVE  u \in Used
    <3>1. \/ \E d \in Device : u = deviceuuid'[d]
          \/ \E h \in Handle : u = uuid'[h]
          \/ u \in creds'
      BY <2>1 DEF Used
    <3>2. uuid[h1] \in Used
      BY <1>2 DEF Used
    <3>3. CASE \E d \in Device : u = deviceuuid'[d]
      <4>1. PICK d \in Device : u = deviceuuid'[d]
        BY <3>3
      <4>2. deviceuuid'[d] = deviceuuid[d] \/ deviceuuid'[d] = uuid[h1]
        BY <1>1, <1>12 DEF TypeInv
      <4> QED BY <3>2, <4>1, <4>2 DEF Used
    <3>4. CASE \E h \in Handle : u = uuid'[h]
      BY <1>12, <3>4 DEF Used
    <3>5. CASE u \in creds'
      <4>1. u \in creds \/ u = uuid[h1]
        BY <1>12, <3>5
      <4> QED BY <3>2, <4>1 DEF Used
    <3> QED BY <3>1, <3>3, <3>4, <3>5
  <2>2. Left \subseteq Left'
    BY <2>1, <1>11
  <2>3. Cardinality(Left') >= Cardinality(Needs')
    BY <2>2, <1>6, <1>7, <1>10, FewerNeeds
  <2> QED BY <2>3 DEF LeftInv
<1>13. CASE /\ c \in Needs /\ c \notin Needs' /\ creds' = creds
            /\ uuid' = uuid \/ uuid' = [uuid EXCEPT ![h1] = Fresh]
            /\ deviceuuid' = deviceuuid \/ deviceuuid' = [deviceuuid EXCEPT ![d1] = Fresh]
  <2>1. ASSUME NEW u \in Used'
        PROVE  u \in Used \/ u = Fresh
    <3>1. \/ \E d \in Device : u = deviceuuid'[d]
          \/ \E h \in Handle : u = uuid'[h]
          \/ u \in creds'
      BY <2>1 DEF Used
    <3>2. CASE \E d \in Device : u = deviceuuid'[d]
      <4>1. PICK d \in Device : u = deviceuuid'[d]
        BY <3>2
      <4>2. deviceuuid'[d] = deviceuuid[d] \/ deviceuuid'[d] = Fresh
        BY <1>1, <1>13 DEF TypeInv
      <4> QED BY <4>1, <4>2 DEF Used
    <3>3. CASE \E h \in Handle : u = uuid'[h]
      <4>1. PICK h \in Handle : u = uuid'[h]
        BY <3>3
      <4>2. uuid'[h] = uuid[h] \/ uuid'[h] = Fresh
        BY <1>1, <1>13 DEF TypeInv
      <4> QED BY <4>1, <4>2 DEF Used
    <3> QED BY <1>13, <3>1, <3>2, <3>3 DEF Used
  <2>2. Left \ {Fresh} \subseteq Left'
    BY <2>1, <1>11
  <2>3. Fresh \in Left
    BY <1>1, <1>13, FreshLeft
  <2>4. Needs' \subseteq Needs \ {c}
    BY <1>10, <1>13
  <2>5. Cardinality(Left') >= Cardinality(Needs')
    BY <2>2, <2>3, <2>4, <1>6, <1>7, <1>13, OneUsed
  <2> QED BY <2>5 DEF LeftInv
<1>14. trans /\ StepOf(c) = "devowneruuid" /\ Continued(c) => c \in Needs /\ c \notin Needs'
  BY <1>2, <1>9
<1>15. ctx[c].kind = "reset" => c \in Needs /\ c \notin Needs'
  BY <1>2, <1>9 DEF Transfer
<1> QED BY <1>4, <1>12, <1>13, <1>14, <1>15 DEF Effect

(* An answer keeps the inductive invariant. *)
LEMMA AnswerKeeps ==
  ASSUME IInv, NEW c \in Ctx, AnswerStep(c), StackOK(stack')
  PROVE  IInv'
<1>1. TypeInv' /\ StackInv' /\ ApartInv' /\ UniqueInv'
  BY AnswerTypes, AnswerStack, AnswerApart, AnswerUnique
<1>3. UnheardInv'
  BY AnswerUnheard
<1>2. CredsInv' /\ DeviceInv' /\ BoundInv' /\ TransferInv' /\ LeftInv'
  BY AnswerCreds, AnswerDevices, AnswerBound, AnswerTransfer, AnswerLeft
<1> QED BY <1>1, <1>2, <1>3 DEF IInv

(* Calls that end and begin nothing leave procedures and devices alone. *)
LEMMA CallKeeps ==
  ASSUME IInv, StackOK(stack'), CtxOK', Active' = Active, peers' \subseteq Device,
         \A b \in Ctx : On(stack', b) <=> b \in Active' /\ ~ctx'[b].out,
         \A b \in Ctx, st \in {0, -1} : /\ Told(b, st)' <=> Told(b, st)
                                        /\ Ended(b, st)' <=> Ended(b, st),
         \A b \in Ctx : /\ ctx'[b].kind = ctx[b].kind /\ ctx'[b].pos = ctx[b].pos
                         /\ ctx'[b].h1 = ctx[b].h1 /\ ctx'[b].h2 = ctx[b].h2
                         /\ ctx'[b].d1 = ctx[b].d1 /\ ctx'[b].d2 = ctx[b].d2,
         UNCHANGED <<unheard, list, uuid, creds, starts, discovering, asking>>,
         \A b \in unheard : ctx'[b].out,
         UNCHANGED <<dos, owned, deviceuuid, configured>>
  PROVE  IInv'
<1>1. Active \subseteq Ctx
  BY DEF Active
<1>2. \A b \in Ctx : /\ (Told(b, 0)' <=> Told(b, 0)) /\ (Told(b, -1)' <=> Told(b, -1))
                     /\ (Ended(b, 0)' <=> Ended(b, 0)) /\ (Ended(b, -1)' <=> Ended(b, -1))
  OBVIOUS
<1>3. \A b \in Ctx : Going(b)' <=> Going(b)
  BY <1>2 DEF Going
<1>4. \A b \in Ctx : /\ StepOf(b)' = StepOf(b) /\ Held(b)' = Held(b) /\ Works(b)' = Works(b)
  BY DEF StepOf, Held, Works
<1>41. \A b \in Ctx : /\ (Renaming(b)' <=> Renaming(b)) /\ (Steady(b)' <=> Steady(b))
                      /\ (Alone(b)' <=> Alone(b))
  BY <1>4 DEF Renaming, Steady, Alone
<1>5. TypeInv'
  BY DEF IInv, TypeInv
<1>6. StackInv' /\ UnheardInv'
  BY DEF IInv, StackInv, StackOK, UnheardInv
<1>7. ApartInv'
  BY <1>1, <1>2, <1>4 DEF IInv, ApartInv
<1>8. UniqueInv' /\ DeviceInv'
  BY DEF IInv, UniqueInv, DeviceInv
<1>9. CredsInv'
  <2>1. \A h : (Taken(h)' <=> Taken(h)) /\ (BeingReset(h)' <=> BeingReset(h))
    BY <1>1, <1>2 DEF Taken, BeingReset
  <2> QED BY <1>1, <1>2, <2>1 DEF IInv, CredsInv
<1>10. BoundInv'
  BY <1>1, <1>3, <1>4, <1>41 DEF IInv, BoundInv
<1>11. TransferInv'
  <2>1. SUFFICES ASSUME NEW b \in Active, ctx[b].kind \in Transfer
                 PROVE  /\ Going(b)' => Progress(ctx[b].d1, uuid[ctx[b].h1], StepOf(b))'
                        /\ Ended(b, 0)' => Finished(ctx[b].d1, uuid[ctx[b].h1])'
    BY <1>1 DEF TransferInv
  <2>2. /\ Going(b) => Progress(ctx[b].d1, uuid[ctx[b].h1], StepOf(b))
        /\ Ended(b, 0) => Finished(ctx[b].d1, uuid[ctx[b].h1])
    BY <2>1 DEF IInv, TransferInv
  <2>3. ctx'[b].d1 = ctx[b].d1 /\ ctx'[b].h1 = ctx[b].h1 /\ StepOf(b)' = StepOf(b)
    BY <1>1, <1>4
  <2>4. Going(b)' => Progress(ctx[b].d1, uuid[ctx[b].h1], StepOf(b))'
    BY <1>1, <1>3, <2>2, <2>3 DEF Progress
  <2>5. Ended(b, 0)' => Finished(ctx[b].d1, uuid[ctx[b].h1])'
    BY <1>1, <1>2, <2>2, <2>3 DEF Finished, ProvisionedDevice
  <2> QED BY <2>4, <2>5
<1>12. LeftInv'
  <2>1. Needs' = Needs
    BY <1>1, <1>3, <1>4 DEF Needs
  <2>2. Left' = Left
    BY DEF Left, Used
  <2> QED BY <2>1, <2>2 DEF IInv, LeftInv
<1> QED BY <1>5, <1>6, <1>7, <1>8, <1>9, <1>10, <1>11, <1>12 DEF IInv

(* So do calls that end sessions, and connecting. *)
LEMMA SessionKeeps ==
  ASSUME IInv, StackOK(stack'), SameCalls(stack', stack), peers' \subseteq Device,
         UNCHANGED <<ctx, unheard, list, uuid, creds, starts, discovering, asking>>,
         UNCHANGED <<dos, owned, deviceuuid, configured>>
  PROVE  IInv'
<1>1. Active' = Active /\ CtxOK'
  BY DEF IInv, TypeInv, CtxOK, Active
<1>2. \A b \in Ctx : On(stack', b) <=> b \in Active' /\ ~ctx'[b].out
  BY <1>1 DEF IInv, StackInv, SameCalls
<1>3. ASSUME NEW b \in Ctx, NEW st \in {0, -1}
      PROVE  (Told(b, st)' <=> Told(b, st)) /\ (Ended(b, st)' <=> Ended(b, st))
  BY DEF Told, Ended, SameCalls
<1>4. \A b \in unheard : ctx'[b].out
  BY DEF IInv, UnheardInv
<1> QED BY <1>1, <1>2, <1>3, <1>4, CallKeeps


-----------------------------------------------------------------------------
(* Calls in progress *)

(* The innermost call is one of a context. *)
LEMMA PopContext ==
  ASSUME NEW s, StackOK(s), s # <<>>, Head(s)[1] \in {"post", "end", "called"}
  PROVE  /\ Head(s) \in Frames /\ Head(s)[2] \in Ctx /\ Calm(Tail(s))
         /\ Head(s)[1] # "post" => Head(s)[3] \in {0, -1}
         /\ Head(s) = Frame(Head(s)[1], Head(s)[2], Head(s)[3])
         /\ ~On(Tail(s), Head(s)[2])
         /\ \A b : On(s, b) <=> b = Head(s)[2] \/ On(Tail(s), b)
         /\ \A x : Has(s, x) <=> x = Head(s) \/ Has(Tail(s), x)
<1> DEFINE f == Head(s)
           r == Tail(s)
<1>1. s \in Seq(Frames) /\ Once(s) /\ NoCalled(r)
  BY Zenon DEF StackOK
<1>2. f \in Frames /\ r \in Seq(Frames) /\ s = <<f>> \o r
  BY <1>1, Innermost, Zenon
<1>3. f[2] \in Ctx /\ OfCtx(f) /\ f = Frame(f[1], f[2], f[3])
  BY <1>2, FrameKinds, Zenon
<1>4. f[1] # "post" => f[3] \in {0, -1}
  <2>1. f[1] # "post" => f[1] \in {"end", "called"}
    OBVIOUS
  <2> QED BY <2>1, <1>2, FrameKinds
<1> HIDE DEF f, r
<1> DEFINE h == <<f>>
<1>6. /\ h \in Seq(Frames)
      /\ \A g : Has(h, g) <=> g = f
      /\ \A c : On(h, c) <=> f[2] = c
  BY <1>2, <1>3, OneFrame, Zenon
<1> HIDE DEF h
<1>7. /\ \A x : Has(s, x) <=> Has(h, x) \/ Has(r, x)
      /\ \A c : On(s, c) <=> On(h, c) \/ On(r, c)
      /\ Once(s) => Once(r) /\ \A c : ~(On(h, c) /\ On(r, c))
  <2>1. s = h \o r
    BY <1>2 DEF h
  <2> QED BY <2>1, <1>2, <1>6, Stacked, Zenon
<1>8. Calm(r)
  BY <1>1, <1>2, <1>7, Zenon DEF Calm
<1>9. /\ ~On(r, f[2])
      /\ \A b : On(s, b) <=> b = f[2] \/ On(r, b)
      /\ \A x : Has(s, x) <=> x = f \/ Has(r, x)
  BY <1>1, <1>6, <1>7, Zenon
<1> QED BY <1>2, <1>3, <1>4, <1>8, <1>9 DEF r, f

(* A stack that does not hold c ends no procedure of c. *)
LEMMA NotOn ==
  ASSUME NEW s, NEW c, ~On(s, c)
  PROVE  \A st : ~Has(s, Frame("end", c, st)) /\ ~Has(s, Frame("called", c, st))
<1>1. ASSUME NEW st, NEW i \in DOMAIN s,
             s[i] = Frame("end", c, st) \/ s[i] = Frame("called", c, st)
      PROVE  FALSE
  <2>1. OfCtx(s[i]) /\ s[i][2] = c
    BY <1>1 DEF Frame, OfCtx
  <2> QED BY <2>1 DEF On
<1> QED BY <1>1 DEF Has

(* t is r, inside which the application is told the result of c. *)
Telling(t, c, st, r) == /\ \A b : On(t, b) <=> b = c \/ On(r, b)
                        /\ \A x : Has(t, x) <=> x = Frame("called", c, st) \/ Has(r, x)

(* The application is told inside calls that do not hold its context. *)
LEMMA PushCalled ==
  ASSUME NEW r, Calm(r), NEW c, ~On(r, c), NEW st,
         Frame("called", c, st) \in Frames, NEW t, t = <<Frame("called", c, st)>> \o r
  PROVE  StackOK(t) /\ Telling(t, c, st, r)
<1> DEFINE f == Frame("called", c, st)
           h == <<f>>
<1>1. f \in Frames
  OBVIOUS
<1>2. OfCtx(f) /\ f[2] = c
  BY DEF Frame, OfCtx
<1>3. r \in Seq(Frames) /\ Once(r) /\ NoCalled(r)
  BY DEF Calm
<1> HIDE DEF f
<1>4. /\ h \in Seq(Frames) /\ Once(h)
      /\ \A g : Has(h, g) <=> g = f
      /\ \A b : On(h, b) <=> b = c
  BY <1>1, <1>2, OneFrame, Zenon
<1>5. Tail(h \o r) = r
  BY <1>1, <1>3
<1> HIDE DEF h
<1>6. t = h \o r
  BY DEF h, f
<1>7. /\ t \in Seq(Frames)
      /\ \A x : Has(t, x) <=> Has(h, x) \/ Has(r, x)
      /\ \A b : On(t, b) <=> On(h, b) \/ On(r, b)
      /\ Once(h) /\ Once(r) /\ (\A b : ~(On(h, b) /\ On(r, b))) => Once(t)
  BY <1>3, <1>4, <1>6, Stacked, Zenon
<1>8. Once(t)
  BY <1>3, <1>4, <1>7, Zenon
<1>9. StackOK(t)
  BY <1>3, <1>5, <1>6, <1>7, <1>8, Zenon DEF StackOK
<1>10. /\ \A b : On(t, b) <=> b = c \/ On(r, b)
       /\ \A x : Has(t, x) <=> x = f \/ Has(r, x)
  BY <1>4, <1>7, Zenon
<1> QED BY <1>9, <1>10 DEF f, Telling

(* oc_tls_close_connection *)
LEMMA CloseKeeps ==
  ASSUME IInv, Close
  PROVE  IInv'
<1>1. stack # <<>> /\ Head(stack)[1] \in {"close", "notify"} /\ StackOK(stack)
  BY DEF Close, In, Top, IInv, StackInv, StackOK
<1>2. Calm(Tail(stack)) /\ SameCalls(Tail(stack), stack) /\ Head(stack)[2] \in Device
  BY <1>1, PopSession
<1>3. StackOK(stack') /\ SameCalls(stack', stack)
  <2>1. CASE Top[2] \in peers
    <3>1. stack' = <<Frame("notify", Head(stack)[2], 0)>> \o Tail(stack)
      BY <2>1 DEF Close, Top
    <3>2. Calm(stack') /\ SameCalls(stack', Tail(stack))
      <4> DEFINE d == Head(stack)[2]
                 r == Tail(stack)
      <4>1. d \in Device /\ Calm(r) /\ stack' = <<Frame("notify", d, 0)>> \o r
        BY <1>2, <3>1
      <4> HIDE DEF d, r
      <4>2. "notify" \in {"close", "notify"}
        OBVIOUS
      <4>3. Calm(stack') /\ SameCalls(stack', r)
        BY <4>1, <4>2, PushSession, Zenon
      <4> QED BY <4>3 DEF r
    <3>3. SameCalls(stack', stack)
      BY <1>2, <3>2 DEF SameCalls
    <3> QED BY <3>2, <3>3, CalmOK
  <2>2. CASE Top[2] \notin peers
    <3>1. stack' = <<>> \o Tail(stack)
      BY <2>2 DEF Close
    <3>2. stack' = Tail(stack)
      <4> DEFINE r == Tail(stack)
      <4>1. r \in Seq(Frames) /\ stack' = <<>> \o r
        BY <1>2, <3>1 DEF Calm
      <4> HIDE DEF r
      <4>2. stack' = r
        BY <4>1
      <4> QED BY <4>2 DEF r
    <3> QED BY <1>2, <3>2, CalmOK
  <2> QED BY <2>1, <2>2
<1>4. peers' \subseteq Device
  BY DEF Close, IInv, TypeInv
<1>5. /\ UNCHANGED <<ctx, unheard, list, uuid, creds, starts, discovering, asking>>
      /\ UNCHANGED <<dos, owned, deviceuuid, configured>>
  BY DEF Close, toolVars, discoveryVars, deviceVars
<1> QED BY <1>3, <1>4, <1>5, SessionKeeps

(* oc_ri_free_client_cbs_by_endpoint *)
LEMMA NotifyKeeps ==
  ASSUME IInv, Notify
  PROVE  IInv'
<1>1. CtxOK /\ StackInv
  BY DEF IInv, TypeInv
<1>2. CASE \E c \in Ctx : AnswerStep(c) /\ StackOK(stack')
  BY <1>2, AnswerKeeps
<1>3. CASE /\ Calm(stack') /\ SameCalls(stack', stack)
           /\ UNCHANGED <<ctx, uuid, creds, list, starts, peers, discoveryVars, deviceVars>>
           /\ UNCHANGED unheard
  <2>1. StackOK(stack')
    BY <1>3, CalmOK
  <2>2. peers' \subseteq Device
    BY <1>3 DEF IInv, TypeInv
  <2> QED BY <1>3, <2>1, <2>2, SessionKeeps DEF discoveryVars, deviceVars
<1> QED BY <1>1, <1>2, <1>3, NotifyIsAnswer

(* The request of a step that opened a new session *)
LEMMA PostReopenedKeeps ==
  ASSUME IInv, PostReopened
  PROVE  IInv'
<1> DEFINE c == Head(stack)[2]
           r == Tail(stack)
<1>1. stack # <<>> /\ Head(stack)[1] = "post" /\ StackOK(stack) /\ StackInv /\ CtxOK
  BY DEF PostReopened, In, Top, IInv, StackInv, StackOK, TypeInv
<1>2. /\ c \in Ctx /\ Calm(r) /\ ~On(r, c)
      /\ \A b : On(stack, b) <=> b = c \/ On(r, b)
      /\ \A x : Has(stack, x) <=> x = Head(stack) \/ Has(r, x)
  BY <1>1, PopContext
<1>3. stack' = r /\ ctx' = [ctx EXCEPT ![c].out = TRUE]
  BY DEF PostReopened, Top
<1>4. c \in Active
  BY <1>1, <1>2 DEF StackInv
<1>5. \A b, st : Head(stack) # Frame("end", b, st) /\ Head(stack) # Frame("called", b, st)
  BY <1>1, FrameFields
<1> HIDE DEF c, r
<1>6. ctx[c] \in Record /\ ctx \in [Ctx -> Record \cup {NoCtx}]
  BY <1>1, <1>4, StepFacts DEF CtxOK
<1>7. /\ ctx'[c] = [ctx[c] EXCEPT !.out = TRUE]
      /\ \A b \in Ctx : b # c => ctx'[b] = ctx[b]
  BY <1>2, <1>3, <1>6
<1>8. /\ ctx'[c] \in Record /\ ctx'[c].out = TRUE
      /\ ctx'[c].kind = ctx[c].kind /\ ctx'[c].pos = ctx[c].pos
      /\ ctx'[c].h1 = ctx[c].h1 /\ ctx'[c].h2 = ctx[c].h2
      /\ ctx'[c].d1 = ctx[c].d1 /\ ctx'[c].d2 = ctx[c].d2
  BY <1>6, <1>7 DEF Record
<1>9. \A b \in Ctx : /\ ctx'[b].kind = ctx[b].kind /\ ctx'[b].pos = ctx[b].pos
                     /\ ctx'[b].h1 = ctx[b].h1 /\ ctx'[b].h2 = ctx[b].h2
                     /\ ctx'[b].d1 = ctx[b].d1 /\ ctx'[b].d2 = ctx[b].d2
  BY <1>7, <1>8
<1>10. ctx'[c] # NoCtx
  BY <1>8 DEF NoCtx
<1>11. Active' = Active
  BY <1>4, <1>7, <1>10 DEF Active
<1>12. CtxOK'
  <2>1. ctx' \in [Ctx -> Record \cup {NoCtx}]
    BY <1>2, <1>3, <1>6, <1>7, <1>8
  <2>2. \A b \in Active : /\ ctx'[b].pos \in 1..Len(Script[ctx'[b].kind])
                          /\ (ctx'[b].kind = "pair") = (ctx'[b].h2 # Nil)
                          /\ ctx'[b].h2 # Nil => ctx'[b].d2 \in Device
                          /\ ctx'[b].h2 = Nil => ctx'[b].d2 = Nil
                          /\ ctx'[b].h1 # ctx'[b].h2
    BY <1>1, <1>9 DEF CtxOK, Active
  <2> QED BY <1>11, <2>1, <2>2 DEF CtxOK
<1>13. \A b \in Ctx : On(stack', b) <=> b \in Active' /\ ~ctx'[b].out
  BY <1>1, <1>2, <1>3, <1>7, <1>8, <1>11 DEF StackInv
<1>14. \A b \in Ctx, st \in {0, -1} : /\ Told(b, st)' <=> Told(b, st)
                                      /\ Ended(b, st)' <=> Ended(b, st)
  BY <1>2, <1>3, <1>5 DEF Told, Ended
<1>15. StackOK(stack')
  BY <1>2, <1>3, CalmOK
<1>16. /\ UNCHANGED <<unheard, list, uuid, creds, starts, discovering, asking>>
       /\ UNCHANGED <<dos, owned, deviceuuid, configured>>
       /\ peers' \subseteq Device
  BY DEF PostReopened, discoveryVars, deviceVars, IInv, TypeInv
<1>17. \A b \in unheard : ctx'[b].out
  BY <1>7, <1>8 DEF IInv, UnheardInv, Active
<1> QED BY <1>9, <1>11, <1>12, <1>13, <1>14, <1>15, <1>16, <1>17, CallKeeps


(* The procedure whose end is the innermost call *)
LEMMA EndingProcedure ==
  ASSUME IInv, stack # <<>>, Head(stack)[1] \in {"end", "called"},
         NEW c, c = Head(stack)[2], NEW st, st = Head(stack)[3]
  PROVE  /\ c \in Active /\ c \in Ctx /\ st \in {0, -1} /\ ctx[c].out = FALSE
         /\ Calm(Tail(stack)) /\ ~On(Tail(stack), c)
         /\ Ended(c, st) /\ ~Going(c)
         /\ \A s \in {0, -1} : Ended(c, s) <=> s = st
         /\ \A b : On(stack, b) <=> b = c \/ On(Tail(stack), b)
         /\ \A x : Has(stack, x) <=> x = Head(stack) \/ Has(Tail(stack), x)
         /\ Head(stack) = Frame(Head(stack)[1], c, st)
         /\ \A b, s : ~Has(Tail(stack), Frame("called", b, s))
         /\ ctx[c].h1 \in Handle /\ ctx[c].d1 \in Device
         /\ ctx[c].kind \in Frees => uuid[ctx[c].h1] # Nil
<1> DEFINE r == Tail(stack)
<1>1. StackOK(stack) /\ StackInv /\ CtxOK
  BY DEF IInv, StackInv, StackOK, TypeInv
<1>2. /\ c \in Ctx /\ Calm(r) /\ ~On(r, c) /\ st \in {0, -1}
      /\ Head(stack) = Frame(Head(stack)[1], c, st)
      /\ \A b : On(stack, b) <=> b = c \/ On(r, b)
      /\ \A x : Has(stack, x) <=> x = Head(stack) \/ Has(r, x)
  <2>1. Head(stack)[1] \in {"post", "end", "called"} /\ Head(stack)[1] # "post"
    OBVIOUS
  <2> QED BY <1>1, <2>1, PopContext
<1>3. c \in Active /\ ctx[c].out = FALSE
  <2>1. c \in Active /\ ~ctx[c].out
    BY <1>1, <1>2 DEF StackInv
  <2>2. ctx[c].out \in BOOLEAN
    BY <1>1, <2>1, StepFacts DEF Record
  <2> QED BY <2>1, <2>2
<1>4. Ended(c, st)
  <2>1. Has(stack, Head(stack))
    BY <1>2
  <2>2. Head(stack)[1] = "end" \/ Head(stack)[1] = "called"
    OBVIOUS
  <2>3. Head(stack) = Frame("end", c, st) \/ Head(stack) = Frame("called", c, st)
    BY <1>2, <2>2
  <2> QED BY <2>1, <2>3 DEF Ended, Told
<1>5. st = 0 \/ st = -1
  BY <1>2
<1>6. ~(Ended(c, 0) /\ Ended(c, -1))
  BY <1>1, <1>2, EndedHeld
<1>7. ~Going(c) /\ \A s \in {0, -1} : Ended(c, s) <=> s = st
  BY <1>4, <1>5, <1>6 DEF Going
<1>8. \A b, s : ~Has(r, Frame("called", b, s))
  <2>1. NoCalled(r)
    BY <1>2 DEF Calm
  <2>2. \A b, s : Frame("called", b, s)[1] = "called"
    BY FrameFields
  <2> QED BY <2>1, <2>2 DEF NoCalled, Has
<1>9. ctx[c].h1 \in Handle /\ ctx[c].d1 \in Device
  BY <1>1, <1>3, StepFacts
<1>10. ctx[c].kind \in Frees => uuid[ctx[c].h1] # Nil
  <2>1. ctx[c].kind \in Frees => list[ctx[c].h1] \in {"cache", "devices"}
    <3>1. ctx[c].kind \in OnCached => list[ctx[c].h1] \in {"cache", "devices"}
      BY <1>3 DEF IInv, ApartInv
    <3>2. ctx[c].kind = "reset" => list[ctx[c].h1] = "devices"
      <4>1. ctx[c].kind = "reset" => ctx[c].h1 \in Held(c) /\ ctx[c].kind \notin OnCached
        BY <1>9, NilAssumption, KindFacts DEF Held
      <4> QED BY <1>3, <4>1 DEF IInv, ApartInv
    <3> QED BY <3>1, <3>2, KindFacts
  <2> QED BY <1>9, <2>1 DEF IInv, UniqueInv
<1> QED BY <1>2, <1>3, <1>4, <1>7, <1>8, <1>9, <1>10

(* The end of a procedure, up to the callback of the application *)
LEMMA EndKeeps ==
  ASSUME IInv, End
  PROVE  IInv'
<1>01. PICK c : c = Head(stack)[2]
  OBVIOUS
<1>02. PICK st : st = Head(stack)[3]
  OBVIOUS
<1> DEFINE r == Tail(stack)
           h1 == ctx[c].h1
           forgets == FailedTransfer(c, st) \/ (ctx[c].kind = "reset" /\ st = 0)
           moves == ctx[c].kind \in Transfer /\ st = 0
<1>0. stack # <<>> /\ Head(stack)[1] = "end" /\ Head(stack)[1] \in {"end", "called"}
  BY DEF End, In, Top
<1>1. /\ c \in Active /\ c \in Ctx /\ st \in {0, -1} /\ Calm(r) /\ ~On(r, c)
      /\ Ended(c, st) /\ ~Going(c)
      /\ \A s \in {0, -1} : Ended(c, s) <=> s = st
      /\ \A b : On(stack, b) <=> b = c \/ On(r, b)
      /\ \A x : Has(stack, x) <=> x = Head(stack) \/ Has(r, x)
      /\ Head(stack) = Frame("end", c, st)
      /\ \A b, s : ~Has(r, Frame("called", b, s))
      /\ h1 \in Handle /\ (ctx[c].kind \in Frees => uuid[h1] # Nil)
  BY <1>0, <1>01, <1>02, EndingProcedure
<1>2. /\ creds' = IF forgets THEN creds \ {uuid[h1]} ELSE creds
      /\ list' = IF moves THEN [list EXCEPT ![h1] = "devices"] ELSE list
      /\ stack' = <<Frame("called", c, st)>> \o r
      /\ UNCHANGED <<ctx, unheard, uuid, starts, peers, discovering, asking>>
      /\ UNCHANGED <<dos, owned, deviceuuid, configured>>
  BY <1>01, <1>02 DEF End, Top, discoveryVars, deviceVars
<1> HIDE DEF r
<1>3. TypeInv /\ CtxOK /\ StackInv /\ ApartInv /\ UniqueInv /\ CredsInv
  BY DEF IInv, TypeInv
<1>4. /\ StackOK(stack')
      /\ \A b : On(stack', b) <=> b = c \/ On(r, b)
      /\ \A x : Has(stack', x) <=> x = Frame("called", c, st) \/ Has(r, x)
  <2>1. Calm(r) /\ ~On(r, c) /\ Frame("called", c, st) \in Frames
    BY <1>1, FramesAre
  <2>2. stack' = <<Frame("called", c, st)>> \o r
    BY <1>2
  <2>3. StackOK(stack') /\ Telling(stack', c, st, r)
    BY <2>1, <2>2, PushCalled, Zenon
  <2> QED BY <2>3 DEF Telling
<1>5. \A b \in Ctx, s \in {0, -1} : /\ Told(b, s)' <=> b = c /\ s = st
                                    /\ ~Told(b, s)
                                    /\ Ended(b, s)' <=> Ended(b, s)
  <2>1. SUFFICES ASSUME NEW b \in Ctx, NEW s \in {0, -1}
                 PROVE  /\ Told(b, s)' <=> b = c /\ s = st
                        /\ ~Told(b, s)
                        /\ Ended(b, s)' <=> Ended(b, s)
    OBVIOUS
  <2>2. /\ Frame("called", b, s) = Frame("called", c, st) <=> b = c /\ s = st
        /\ Frame("end", b, s) = Frame("end", c, st) <=> b = c /\ s = st
        /\ Frame("end", b, s) # Frame("called", c, st)
        /\ Frame("called", b, s) # Frame("end", c, st)
    BY DEF Frame
  <2>3. /\ Has(stack', Frame("called", b, s)) <=> b = c /\ s = st
        /\ Has(stack', Frame("end", b, s)) <=> Has(r, Frame("end", b, s))
        /\ ~Has(stack, Frame("called", b, s))
        /\ Has(stack, Frame("end", b, s)) <=> (b = c /\ s = st) \/ Has(r, Frame("end", b, s))
    BY <1>1, <1>4, <2>2
  <2> QED BY <2>3 DEF Told, Ended
<1>6. Active' = Active /\ Active \subseteq Ctx
  BY <1>2 DEF Active
<1>7. \A b \in Ctx : /\ Going(b)' <=> Going(b)
                     /\ Held(b)' = Held(b) /\ Works(b)' = Works(b) /\ StepOf(b)' = StepOf(b)
  BY <1>2, <1>5, <1>6 DEF Going, Held, Works, StepOf
<1>8. /\ ctx[c].kind \in OnCached => list[h1] = "cache" /\ ctx[c].kind \in Frees
      /\ forgets => ctx[c].kind \in Frees
      /\ moves => ctx[c].kind \in OnCached /\ ~forgets
  <2>1. ~Told(c, 0)
    BY <1>1, <1>5
  <2>2. ctx[c].kind \in OnCached => list[h1] = "cache" /\ ctx[c].kind \in Frees
    BY <1>1, <1>3, <2>1, KindFacts DEF ApartInv
  <2> QED BY <2>2, KindFacts DEF FailedTransfer
<1>9. \A b \in Active : b # c /\ ctx[b].kind \notin Retrieval /\ ctx[c].kind \in Frees =>
        /\ ctx[b].h1 # h1 /\ ctx[b].h1 \in Handle /\ uuid[ctx[b].h1] # uuid[h1]
  <2>1. SUFFICES ASSUME NEW b \in Active, b # c, ctx[b].kind \notin Retrieval,
                        ctx[c].kind \in Frees
                 PROVE  ctx[b].h1 # h1 /\ ctx[b].h1 \in Handle /\ uuid[ctx[b].h1] # uuid[h1]
    OBVIOUS
  <2>2. ctx[b].h1 # h1 /\ ctx[b].h1 \in Handle
    BY <1>1, <1>3, <2>1, Others, StepFacts
  <2> QED BY <1>1, <1>3, <2>1, <2>2 DEF UniqueInv
<1>10. TypeInv'
  <2>1. CtxOK'
    BY <1>2, <1>3 DEF CtxOK, Active
  <2>2. list' \in [Handle -> {"free", "cache", "devices"}] /\ creds' \subseteq Uuid
    BY <1>1, <1>2, <1>3 DEF TypeInv
  <2> QED BY <1>2, <1>3, <2>1, <2>2 DEF TypeInv
<1>11. StackInv'
  <2>1. \A b \in Ctx : On(stack', b) <=> b \in Active' /\ ~ctx'[b].out
    BY <1>1, <1>2, <1>3, <1>4, <1>6 DEF StackInv
  <2> QED BY <1>4, <2>1 DEF StackInv, StackOK
<1>12. \A h \in Handle : /\ h # h1 => list'[h] = list[h]
                         /\ list[h] = "devices" => list'[h] = "devices"
                         /\ list'[h] = "free" <=> list[h] = "free"
                         /\ list'[h] = "cache" => list[h] = "cache"
  BY <1>1, <1>2, <1>3, <1>8 DEF TypeInv
<1>13. ApartInv'
  <2>1. ASSUME NEW b \in Active, ctx[b].kind \in OnCached
        PROVE  /\ ~discovering
               /\ list'[ctx[b].h1] = IF ctx[b].kind \in Transfer /\ Told(b, 0)'
                                     THEN "devices" ELSE "cache"
    <3>1. ~discovering /\ list[ctx[b].h1] = "cache" /\ ctx[b].h1 \in Handle
      <4>1. ~Told(b, 0)
        BY <1>5, <1>6
      <4> QED BY <1>3, <2>1, <4>1, StepFacts DEF ApartInv
    <3>2. CASE b = c
      <4>1. Told(b, 0)' <=> st = 0
        BY <1>1, <1>5, <3>2
      <4> QED BY <1>1, <1>2, <1>3, <3>1, <3>2, <4>1 DEF TypeInv
    <3>3. CASE b # c
      <4>1. ~Told(b, 0)'
        BY <1>5, <1>6, <3>3
      <4>2. moves => ctx[b].h1 # h1
        <5>1. ctx[b].kind \notin Retrieval
          BY <2>1, KindFacts
        <5> QED BY <1>8, <1>9, <3>3, <5>1
      <4>3. list'[ctx[b].h1] = list[ctx[b].h1]
        BY <1>2, <1>3, <3>1, <4>2 DEF TypeInv
      <4> QED BY <3>1, <4>1, <4>3
    <3> QED BY <3>2, <3>3
  <2>2. \A b \in Active : ctx[b].kind \notin OnCached =>
          \A h \in Held(b) : list'[h] = "devices"
    <3>1. \A b \in Active : Held(b) \subseteq Handle
      <4>1. \A b \in Active : ctx[b] \in Record
        BY <1>3, StepFacts
      <4> QED BY <4>1 DEF Held, Record
    <3> QED BY <1>3, <1>12, <3>1 DEF ApartInv
  <2> QED BY <1>2, <1>3, <1>6, <1>7, <2>1, <2>2 DEF ApartInv
<1>14. UniqueInv'
  BY <1>2, <1>3, <1>12 DEF UniqueInv
<1>15. \A h : Taken(h)' <=> Taken(h)
  BY <1>2, <1>6 DEF Taken
<1>16. creds' \subseteq creds
  BY <1>2
<1>17. CredsInv'
  <2>1. ASSUME NEW h \in Handle, list'[h] = "devices"
        PROVE  uuid[h] \in creds' \/ BeingReset(h)'
    <3>1. ~BeingReset(h)
      BY <1>5, <1>6 DEF BeingReset
    <3>2. CASE moves
      <4>1. h = h1 => uuid[h] \in creds
        <5>1. Ended(c, 0)
          BY <1>1, <3>2
        <5> QED BY <1>1, <3>2, <5>1 DEF IInv, TransferInv, Finished
      <4>2. h # h1 => uuid[h] \in creds
        BY <1>3, <1>12, <2>1, <3>1 DEF CredsInv
      <4> QED BY <1>2, <1>8, <3>2, <4>1, <4>2
    <3>3. CASE ~moves
      <4>1. list[h] = "devices" /\ uuid[h] \in creds
        <5>1. list[h] = "devices"
          BY <1>2, <2>1, <3>3
        <5> QED BY <1>3, <3>1, <5>1 DEF CredsInv
      <4>2. CASE ~forgets
        BY <1>2, <4>1, <4>2
      <4>3. CASE FailedTransfer(c, st)
        <5>1. h # h1
          BY <1>8, <4>1, <4>3 DEF FailedTransfer
        <5>2. uuid[h] # uuid[h1]
          BY <1>1, <1>3, <1>8, <4>3, <5>1 DEF UniqueInv, FailedTransfer
        <5> QED BY <1>2, <4>1, <5>2
      <4>4. CASE ctx[c].kind = "reset" /\ st = 0
        <5>1. CASE h = h1
          <6>1. Told(c, 0)'
            BY <1>1, <1>5, <4>4
          <6>2. BeingReset(h)'
            BY <1>1, <1>2, <1>6, <4>4, <5>1, <6>1 DEF BeingReset
          <6> QED BY <6>2
        <5>2. CASE h # h1
          <6>1. uuid[h] # uuid[h1]
            BY <1>1, <1>3, <1>8, <4>4, <5>2 DEF UniqueInv
          <6> QED BY <1>2, <4>1, <6>1
        <5> QED BY <5>1, <5>2
      <4> QED BY <4>2, <4>3, <4>4
    <3> QED BY <3>2, <3>3
  <2>2. \A d \in Device : deviceuuid'[d] \in creds' =>
          owned'[d] \/ \E b \in Active' : /\ ctx'[b].kind \in Transfer /\ ctx'[b].d1 = d
                                          /\ uuid'[ctx'[b].h1] = deviceuuid'[d]
    BY <1>2, <1>3, <1>6, <1>16 DEF CredsInv
  <2>3. \A h \in Handle : list'[h] = "cache" /\ uuid'[h] \in creds' => Taken(h)'
    BY <1>2, <1>3, <1>12, <1>15, <1>16 DEF CredsInv
  <2>4. \A h \in Handle, d \in Device :
          list'[h] = "cache" /\ uuid'[h] = deviceuuid'[d] /\ owned'[d] => Taken(h)'
    BY <1>2, <1>3, <1>12, <1>15 DEF CredsInv
  <2>5. \A b \in Active : ctx[b].kind \in OnCached /\ Told(b, -1)' =>
          uuid[ctx[b].h1] \notin creds'
    <3>1. SUFFICES ASSUME NEW b \in Active, ctx[b].kind \in OnCached, Told(b, -1)'
                   PROVE  uuid[ctx[b].h1] \notin creds'
      OBVIOUS
    <3>2. b = c /\ st = -1
      BY <1>5, <1>6, <3>1
    <3>3. forgets
      BY <3>1, <3>2 DEF FailedTransfer
    <3> QED BY <1>2, <3>2, <3>3
  <2> QED BY <1>2, <1>6, <2>1, <2>2, <2>3, <2>4, <2>5 DEF CredsInv
<1>18. DeviceInv'
  BY <1>2 DEF IInv, DeviceInv
<1>19. BoundInv'
  <2>1. \A b \in Ctx : /\ Renaming(b)' <=> Renaming(b)
                       /\ Steady(b) => Steady(b)'
                       /\ Alone(b) => Alone(b)'
    BY <1>2, <1>7, <1>16 DEF Renaming, Steady, Alone
  <2> QED BY <1>2, <1>6, <1>7, <2>1 DEF IInv, BoundInv
<1>20. TransferInv'
  <2>1. SUFFICES ASSUME NEW b \in Active, ctx[b].kind \in Transfer
                 PROVE  /\ Going(b)' => Progress(ctx[b].d1, uuid[ctx[b].h1], StepOf(b))'
                        /\ Ended(b, 0)' => Finished(ctx[b].d1, uuid[ctx[b].h1])'
    BY <1>2, <1>6 DEF TransferInv
  <2>2. /\ Going(b) => Progress(ctx[b].d1, uuid[ctx[b].h1], StepOf(b))
        /\ Ended(b, 0) => Finished(ctx[b].d1, uuid[ctx[b].h1])
    BY <2>1 DEF IInv, TransferInv
  <2>3. Going(b) \/ Ended(b, 0) => (uuid[ctx[b].h1] \in creds' <=> uuid[ctx[b].h1] \in creds)
    <3>1. CASE b = c
      <4>1. Going(b) \/ Ended(b, 0) => st = 0
        BY <1>1, <3>1
      <4>2. ctx[b].kind # "reset"
        BY <2>1 DEF Transfer
      <4> QED BY <1>2, <3>1, <4>1, <4>2 DEF FailedTransfer
    <3>2. CASE b # c
      <4>1. forgets => uuid[ctx[b].h1] # uuid[h1]
        <5>1. ctx[b].kind \notin Retrieval
          BY <2>1, KindFacts
        <5> QED BY <1>8, <1>9, <3>2, <5>1
      <4> QED BY <1>2, <4>1
    <3> QED BY <3>1, <3>2
  <2>4. StepOf(b)' = StepOf(b) /\ (Going(b)' <=> Going(b)) /\ (Ended(b, 0)' <=> Ended(b, 0))
    BY <1>5, <1>6, <1>7
  <2>5. Going(b)' => Progress(ctx[b].d1, uuid[ctx[b].h1], StepOf(b))'
    BY <1>2, <2>2, <2>3, <2>4 DEF Progress
  <2>6. Ended(b, 0)' => Finished(ctx[b].d1, uuid[ctx[b].h1])'
    BY <1>2, <2>2, <2>3, <2>4 DEF Finished, ProvisionedDevice
  <2> QED BY <2>5, <2>6
<1>21. LeftInv'
  <2>1. Needs' \subseteq Needs
    BY <1>2, <1>6, <1>7 DEF Needs
  <2>2. Left \subseteq Left'
    BY <1>2, <1>16 DEF Left, Used
  <2>3. IsFiniteSet(Left')
    <3>1. Left' \subseteq Uuid
      BY DEF Left
    <3> QED BY <3>1, FiniteAssumption, FS_Subset
  <2>4. Cardinality(Left') >= Cardinality(Needs')
    BY <2>1, <2>2, <2>3, LeftFinite, FewerNeeds DEF IInv, LeftInv
  <2> QED BY <2>4 DEF LeftInv
<1>22. UnheardInv'
  BY <1>2, <1>6 DEF IInv, UnheardInv
<1> QED BY <1>10, <1>11, <1>13, <1>14, <1>17, <1>18, <1>19, <1>20, <1>21, <1>22 DEF IInv


(* The end of a procedure, after the callback of the application *)
LEMMA CalledKeeps ==
  ASSUME IInv, Called
  PROVE  IInv'
<1>01. PICK c : c = Head(stack)[2]
  OBVIOUS
<1>02. PICK st : st = Head(stack)[3]
  OBVIOUS
<1> DEFINE r == Tail(stack)
           h1 == ctx[c].h1
           frees == FailedTransfer(c, st) \/ ctx[c].kind = "reset"
<1>0. stack # <<>> /\ Head(stack)[1] = "called" /\ Head(stack)[1] \in {"end", "called"}
  BY DEF Called, In, Top
<1>1. /\ c \in Active /\ c \in Ctx /\ st \in {0, -1} /\ Calm(r) /\ ~On(r, c)
      /\ Ended(c, st) /\ ~Going(c)
      /\ \A s \in {0, -1} : Ended(c, s) <=> s = st
      /\ \A b : On(stack, b) <=> b = c \/ On(r, b)
      /\ \A x : Has(stack, x) <=> x = Head(stack) \/ Has(r, x)
      /\ Head(stack) = Frame("called", c, st)
      /\ \A b, s : ~Has(r, Frame("called", b, s))
      /\ h1 \in Handle /\ (ctx[c].kind \in Frees => uuid[h1] # Nil)
  BY <1>0, <1>01, <1>02, EndingProcedure
<1>2. /\ list' = [h \in Handle |-> IF frees /\ h = h1 THEN "free" ELSE list[h]]
      /\ uuid' = [h \in Handle |-> IF frees /\ h = h1 THEN Nil ELSE uuid[h]]
      /\ ctx' = [ctx EXCEPT ![c] = NoCtx]
      /\ stack' = r
      /\ UNCHANGED <<unheard, creds, starts, peers, discovering, asking>>
      /\ UNCHANGED <<dos, owned, deviceuuid, configured>>
  BY <1>01, <1>02 DEF Called, Top, discoveryVars, deviceVars
<1> HIDE DEF r
<1>3. TypeInv /\ CtxOK /\ StackInv /\ ApartInv /\ UniqueInv /\ CredsInv
  BY DEF IInv, TypeInv
<1>4. StackOK(stack')
  BY <1>1, <1>2, CalmOK
<1>5. \A b \in Ctx, s \in {0, -1} : /\ ~Told(b, s)'
                                    /\ Told(b, s) <=> b = c /\ s = st
                                    /\ b # c => (Ended(b, s)' <=> Ended(b, s))
  <2>1. SUFFICES ASSUME NEW b \in Ctx, NEW s \in {0, -1}
                 PROVE  /\ ~Told(b, s)'
                        /\ Told(b, s) <=> b = c /\ s = st
                        /\ b # c => (Ended(b, s)' <=> Ended(b, s))
    OBVIOUS
  <2>2. /\ Frame("called", b, s) = Frame("called", c, st) <=> b = c /\ s = st
        /\ Frame("end", b, s) # Frame("called", c, st)
    BY DEF Frame
  <2>3. /\ ~Has(stack', Frame("called", b, s))
        /\ Has(stack', Frame("end", b, s)) <=> Has(stack, Frame("end", b, s))
        /\ Has(stack, Frame("called", b, s)) <=> b = c /\ s = st
    BY <1>1, <1>2, <2>2
  <2> QED BY <2>3 DEF Told, Ended
<1>6. /\ Active' = Active \ {c} /\ Active \subseteq Ctx
      /\ \A b \in Ctx : b # c => ctx'[b] = ctx[b]
      /\ ctx'[c] = NoCtx /\ ctx' \in [Ctx -> Record \cup {NoCtx}]
  <2>1. /\ \A b \in Ctx : b # c => ctx'[b] = ctx[b]
        /\ ctx'[c] = NoCtx /\ ctx' \in [Ctx -> Record \cup {NoCtx}]
    BY <1>1, <1>2, <1>3 DEF CtxOK
  <2> QED BY <1>1, <2>1 DEF Active
<1>7. \A b \in Active' : /\ Going(b)' <=> Going(b)
                         /\ Held(b)' = Held(b) /\ Works(b)' = Works(b)
                         /\ StepOf(b)' = StepOf(b)
                         /\ b \in Active /\ b \in Ctx /\ b # c /\ ctx'[b] = ctx[b]
  <2>1. \A b \in Active' : b \in Active /\ b \in Ctx /\ b # c /\ ctx'[b] = ctx[b]
    BY <1>6
  <2>2. \A b \in Active' : (Ended(b, 0)' <=> Ended(b, 0)) /\ (Ended(b, -1)' <=> Ended(b, -1))
    BY <1>5, <2>1
  <2> QED BY <1>2, <2>1, <2>2 DEF Going, Held, Works, StepOf
<1>8. frees => ctx[c].kind \in Frees
  BY KindFacts DEF FailedTransfer
<1>9. ASSUME NEW b \in Active, b # c, ctx[b].kind \notin Retrieval
      PROVE  /\ ctx[b].h1 \in Handle /\ uuid'[ctx[b].h1] = uuid[ctx[b].h1]
             /\ list'[ctx[b].h1] = list[ctx[b].h1]
             /\ ctx[b].h2 # Nil => /\ ctx[b].h2 \in Handle
                                   /\ uuid'[ctx[b].h2] = uuid[ctx[b].h2]
                                   /\ list'[ctx[b].h2] = list[ctx[b].h2]
  <2>1. ctx[b].h1 \in Handle /\ (ctx[b].h2 # Nil => ctx[b].h2 \in Handle)
    BY <1>3, StepFacts DEF Record
  <2>2. frees => ctx[b].h1 # h1 /\ ctx[b].h2 # h1
    BY <1>1, <1>3, <1>8, <1>9, Others
  <2> QED BY <1>2, <2>1, <2>2
<1>10. TypeInv'
  <2>1. CtxOK'
    <3>1. \A b \in Active' : /\ ctx'[b].pos \in 1..Len(Script[ctx'[b].kind])
                             /\ (ctx'[b].kind = "pair") = (ctx'[b].h2 # Nil)
                             /\ ctx'[b].h2 # Nil => ctx'[b].d2 \in Device
                             /\ ctx'[b].h2 = Nil => ctx'[b].d2 = Nil
                             /\ ctx'[b].h1 # ctx'[b].h2
      BY <1>3, <1>7 DEF CtxOK
    <3> QED BY <1>6, <3>1 DEF CtxOK
  <2>2. list' \in [Handle -> {"free", "cache", "devices"}] /\ uuid' \in [Handle -> Uuid \cup {Nil}]
    BY <1>2, <1>3 DEF TypeInv
  <2> QED BY <1>2, <1>3, <2>1, <2>2 DEF TypeInv
<1>11. StackInv'
  <2>1. \A b \in Ctx : On(stack', b) <=> b \in Active' /\ ~ctx'[b].out
    <3>1. SUFFICES ASSUME NEW b \in Ctx
                   PROVE  On(r, b) <=> b \in Active' /\ ~ctx'[b].out
      BY <1>2
    <3>2. CASE b = c
      BY <1>1, <1>6, <3>2
    <3>3. CASE b # c
      <4>1. On(stack, b) <=> b \in Active /\ ~ctx[b].out
        BY <1>3 DEF StackInv
      <4> QED BY <1>1, <1>6, <3>3, <4>1
    <3> QED BY <3>2, <3>3
  <2> QED BY <1>4, <2>1 DEF StackInv, StackOK
<1>12. \A h \in Handle : \/ list'[h] = list[h] /\ uuid'[h] = uuid[h] /\ ~(frees /\ h = h1)
                         \/ list'[h] = "free" /\ uuid'[h] = Nil /\ frees /\ h = h1
  BY <1>2
<1>13. ApartInv'
  <2>1. ASSUME NEW b \in Active', ctx'[b].kind \in OnCached
        PROVE  /\ ~discovering
               /\ ~Told(b, 0)' /\ list'[ctx'[b].h1] = "cache"
    <3>1. b \in Active /\ b \in Ctx /\ b # c /\ ctx'[b] = ctx[b]
      BY <1>7
    <3>2. ~Told(b, 0) /\ ~Told(b, 0)'
      BY <1>5, <3>1
    <3>3. ~discovering /\ list[ctx[b].h1] = "cache"
      BY <1>3, <2>1, <3>1, <3>2 DEF ApartInv
    <3>4. ctx[b].kind \notin Retrieval
      BY <2>1, <3>1, KindFacts
    <3> QED BY <1>9, <3>1, <3>2, <3>3, <3>4
  <2>2. ASSUME NEW b \in Active', ctx'[b].kind \notin OnCached, NEW h \in Held(b)'
        PROVE  list'[h] = "devices"
    <3>1. b \in Active /\ b # c /\ ctx'[b] = ctx[b] /\ Held(b)' = Held(b)
      BY <1>7
    <3>2. list[h] = "devices"
      BY <1>3, <2>2, <3>1 DEF ApartInv
    <3>3. ctx[b].kind \notin Retrieval /\ (h = ctx[b].h1 \/ (h = ctx[b].h2 /\ h # Nil))
      BY <2>2, <3>1 DEF Held
    <3> QED BY <1>9, <3>1, <3>2, <3>3
  <2>5. \A a, b \in Active' :
          a # b /\ ctx'[a].kind \in Frees /\ ctx'[b].kind \notin Retrieval =>
            /\ Held(a)' \cap Held(b)' = {}
            /\ a \notin unheard /\ b \notin unheard => Works(a)' \cap Works(b)' = {}
    BY <1>3, <1>7 DEF ApartInv
  <2> QED BY <1>2, <2>1, <2>2, <2>5 DEF ApartInv
<1>14. UniqueInv'
  BY <1>2, <1>3, <1>12 DEF UniqueInv
<1>15. \A h \in Handle : list[h] = "cache" /\ Taken(h) /\ ~(frees /\ h = h1) => Taken(h)'
  <2>1. SUFFICES ASSUME NEW h \in Handle, list[h] = "cache", Taken(h), ~(frees /\ h = h1)
                 PROVE  Taken(h)'
    OBVIOUS
  <2>2. PICK b \in Active : ctx[b].kind \in Transfer /\ ctx[b].h1 = h
    BY <2>1 DEF Taken
  <2>3. b # c
    <3>1. SUFFICES ASSUME b = c
                   PROVE  FALSE
      OBVIOUS
    <3>2. ctx[c].kind \in OnCached /\ h = h1
      BY <2>2, <3>1, KindFacts
    <3>3. CASE st = 0
      <4>1. Told(c, 0)
        BY <1>1, <1>5, <3>3
      <4>2. list[h1] = "devices"
        BY <1>1, <1>3, <2>2, <3>1, <3>2, <4>1 DEF ApartInv
      <4> QED BY <2>1, <3>2, <4>2
    <3>4. CASE st = -1
      BY <2>1, <3>2, <3>4 DEF FailedTransfer
    <3> QED BY <1>1, <3>3, <3>4
  <2>4. b \in Active' /\ ctx'[b] = ctx[b]
    BY <1>6, <2>3
  <2> QED BY <2>2, <2>4 DEF Taken
<1>16. CredsInv'
  <2>1. ASSUME NEW h \in Handle, list'[h] = "devices"
        PROVE  uuid'[h] \in creds
    <3>1. list[h] = "devices" /\ uuid'[h] = uuid[h] /\ ~(frees /\ h = h1)
      BY <1>12, <2>1
    <3>2. ~BeingReset(h)
      <4>1. SUFFICES ASSUME NEW b \in Active, Told(b, 0), ctx[b].kind = "reset", ctx[b].h1 = h
                     PROVE  FALSE
        BY DEF BeingReset
      <4>2. b = c
        BY <1>5, <1>6, <4>1
      <4> QED BY <3>1, <4>1, <4>2
    <3> QED BY <1>3, <3>1, <3>2 DEF CredsInv
  <2>2. ASSUME NEW d \in Device, deviceuuid[d] \in creds, ~owned[d]
        PROVE  \E b \in Active' : /\ ctx'[b].kind \in Transfer /\ ctx'[b].d1 = d
                                  /\ uuid'[ctx'[b].h1] = deviceuuid[d]
    <3>1. PICK b \in Active : /\ ctx[b].kind \in Transfer /\ ctx[b].d1 = d
                              /\ uuid[ctx[b].h1] = deviceuuid[d]
      BY <1>3, <2>2 DEF CredsInv
    <3>2. b # c
      <4>1. SUFFICES ASSUME b = c
                     PROVE  FALSE
        OBVIOUS
      <4>2. CASE st = 0
        <5>1. Ended(c, 0)
          BY <1>1, <4>2
        <5>2. Finished(d, uuid[h1])
          BY <1>1, <3>1, <4>1, <5>1 DEF IInv, TransferInv
        <5> QED BY <2>2, <5>2 DEF Finished, ProvisionedDevice
      <4>3. CASE st = -1
        <5>1. Told(c, -1) /\ ctx[c].kind \in OnCached
          BY <1>1, <1>5, <3>1, <4>1, <4>3, KindFacts
        <5> QED BY <1>1, <1>3, <2>2, <3>1, <4>1, <5>1 DEF CredsInv
      <4> QED BY <1>1, <4>2, <4>3
    <3>3. ctx[b].kind \notin Retrieval
      BY <3>1, KindFacts
    <3>4. b \in Active' /\ ctx'[b] = ctx[b]
      BY <1>6, <3>2
    <3>5. uuid'[ctx[b].h1] = uuid[ctx[b].h1]
      BY <1>9, <3>2, <3>3
    <3> QED BY <3>1, <3>4, <3>5
  <2>3. \A h \in Handle : list'[h] = "cache" /\ uuid'[h] \in creds => Taken(h)'
    BY <1>3, <1>12, <1>15 DEF CredsInv
  <2>4. \A h \in Handle, d \in Device :
          list'[h] = "cache" /\ uuid'[h] = deviceuuid[d] /\ owned[d] => Taken(h)'
    BY <1>3, <1>12, <1>15 DEF CredsInv
  <2>5. \A b \in Active' : ~Told(b, -1)'
    BY <1>5, <1>6
  <2> QED BY <1>2, <2>1, <2>2, <2>3, <2>4, <2>5 DEF CredsInv
<1>17. DeviceInv'
  BY <1>2 DEF IInv, DeviceInv
<1>18. BoundInv'
  <2>1. SUFFICES ASSUME NEW b \in Active', Going(b)', ctx'[b].kind \notin Retrieval
                 PROVE  IF Renaming(b)' THEN Alone(b)' ELSE Steady(b)'
    BY DEF BoundInv
  <2>2. /\ b \in Active /\ b # c /\ ctx'[b] = ctx[b] /\ Going(b) /\ StepOf(b)' = StepOf(b)
        /\ ctx[b].kind \notin Retrieval
    BY <1>7, <2>1
  <2>3. IF Renaming(b) THEN Alone(b) ELSE Steady(b)
    BY <2>2 DEF IInv, BoundInv
  <2>4. /\ uuid'[ctx[b].h1] = uuid[ctx[b].h1]
        /\ ctx[b].h2 # Nil => uuid'[ctx[b].h2] = uuid[ctx[b].h2]
    BY <1>9, <2>2
  <2>5. Renaming(b)' <=> Renaming(b)
    BY <2>2 DEF Renaming
  <2>6. Steady(b) => Steady(b)'
    BY <1>2, <2>2, <2>4 DEF Steady
  <2>7. Alone(b) => Alone(b)'
    <3>1. ctx[b].d1 \in Device /\ deviceuuid[ctx[b].d1] # Nil
      BY <1>3, <2>2, StepFacts, NilAssumption DEF TypeInv
    <3>2. Alone(b) => \A h \in Handle : uuid'[h] # deviceuuid[ctx[b].d1]
      BY <1>12, <3>1 DEF Alone
    <3> QED BY <1>2, <2>2, <2>4, <3>2 DEF Alone
  <2> QED BY <2>3, <2>5, <2>6, <2>7
<1>19. TransferInv'
  <2>1. SUFFICES ASSUME NEW b \in Active', ctx'[b].kind \in Transfer
                 PROVE  /\ Going(b)' => Progress(ctx[b].d1, uuid[ctx[b].h1], StepOf(b))'
                        /\ Ended(b, 0)' => Finished(ctx[b].d1, uuid[ctx[b].h1])'
    BY DEF TransferInv
  <2>2. /\ b \in Active /\ b \in Ctx /\ b # c /\ ctx'[b] = ctx[b] /\ (Going(b)' <=> Going(b))
        /\ StepOf(b)' = StepOf(b) /\ ctx[b].kind \notin Retrieval
    BY <1>7, <2>1, KindFacts
  <2>3. /\ Going(b) => Progress(ctx[b].d1, uuid[ctx[b].h1], StepOf(b))
        /\ Ended(b, 0) => Finished(ctx[b].d1, uuid[ctx[b].h1])
    BY <2>1, <2>2 DEF IInv, TransferInv
  <2>4. uuid'[ctx[b].h1] = uuid[ctx[b].h1] /\ (Ended(b, 0)' <=> Ended(b, 0))
    BY <1>5, <1>9, <2>2
  <2>41. /\ UNCHANGED <<creds, dos, owned, configured>>
         /\ ctx'[b].d1 = ctx[b].d1 /\ uuid'[ctx'[b].h1] = uuid[ctx[b].h1]
    BY <1>2, <2>2, <2>4
  <2>5. Going(b)' => Progress(ctx[b].d1, uuid[ctx[b].h1], StepOf(b))'
    BY <2>2, <2>3, <2>41 DEF Progress
  <2>6. Ended(b, 0)' => Finished(ctx[b].d1, uuid[ctx[b].h1])'
    BY <1>2, <2>2, <2>3, <2>4 DEF Finished, ProvisionedDevice
  <2> QED BY <2>5, <2>6
<1>20. LeftInv'
  <2>1. Needs' \subseteq Needs
    <3>1. SUFFICES ASSUME NEW b \in Needs'
                   PROVE  b \in Needs
      OBVIOUS
    <3>2. /\ b \in Active'
          /\ \/ ctx'[b].kind \in Transfer /\ StepOf(b)' \in UpToOwner
             \/ ctx'[b].kind = "reset" /\ Going(b)'
      BY DEF Needs
    <3>3. /\ b \in Active /\ ctx'[b] = ctx[b] /\ StepOf(b)' = StepOf(b)
          /\ Going(b)' <=> Going(b)
      BY <1>7, <3>2
    <3> QED BY <3>2, <3>3 DEF Needs
  <2>2. Left \subseteq Left'
    <3>1. SUFFICES ASSUME NEW u \in Uuid, u \in Used'
                   PROVE  u \in Used
      BY DEF Left
    <3>2. u # Nil
      BY NilAssumption
    <3>3. \/ \E d \in Device : u = deviceuuid[d]
          \/ \E h \in Handle : u = uuid'[h]
          \/ u \in creds
      BY <1>2, <3>1 DEF Used
    <3> QED BY <1>12, <3>2, <3>3 DEF Used
  <2>3. IsFiniteSet(Left')
    <3>1. Left' \subseteq Uuid
      BY DEF Left
    <3> QED BY <3>1, FiniteAssumption, FS_Subset
  <2>4. Cardinality(Left') >= Cardinality(Needs')
    BY <2>1, <2>2, <2>3, LeftFinite, FewerNeeds DEF IInv, LeftInv
  <2> QED BY <2>4 DEF LeftInv
<1>21. UnheardInv'
  <2>1. c \notin unheard
    BY <1>0, <1>01, EndingProcedure DEF IInv, UnheardInv
  <2> QED BY <1>2, <1>6, <2>1 DEF IInv, UnheardInv
<1> QED BY <1>10, <1>11, <1>13, <1>14, <1>16, <1>17, <1>18, <1>19, <1>20, <1>21 DEF IInv


-----------------------------------------------------------------------------
(* Starting procedures *)

(* The first request of a procedure *)
LEMMA FirstStep ==
  ASSUME NEW k \in Kind
  PROVE  /\ 1 \in 1..Len(Script[k])
         /\ k \in Transfer => /\ Script[k][1] \in UpToOwner /\ Script[k][1] \notin Operating
                              /\ Script[k][1] # "deviceuuid"
<1> DEFINE n == Len(Script[k])
           s == Script[k][1]
<1>1. ASSUME n \in 1..15
      PROVE  1 \in 1..n
  <2> HIDE DEF n
  <2> QED BY <1>1
<1>2. CASE k \in Transfer
  <2>1. n \in 1..15 /\ s \in {"get doxm", "om"}
    BY <1>2, TransferOrdered, Zenon DEF Ordered
  <2>2. 1 \in 1..n
    BY <1>1, <2>1
  <2> HIDE DEF n, s
  <2>3. s \in UpToOwner /\ s \notin Operating /\ s # "deviceuuid"
    BY <2>1 DEF UpToOwner, Operating
  <2> QED BY <2>2, <2>3, Zenon DEF n, s
<1>3. CASE k = "reset"
  BY <1>3, ResetScript DEF Transfer
<1>4. CASE k \notin Transfer \cup {"reset"}
  <2>1. n \in 1..15
    BY <1>4, OtherScripts
  <2>2. 1 \in 1..n /\ k \notin Transfer
    BY <1>1, <1>4, <2>1
  <2> QED BY <2>2, Zenon
<1> QED BY <1>2, <1>3, <1>4

(* A device whose record a procedure does not hold is none of its devices. *)
LEMMA OtherDevice ==
  ASSUME IInv, NEW b \in Active, Going(b), ctx[b].kind \notin Retrieval,
         NEW x \in Handle, x \notin Held(b), uuid[x] # Nil,
         NEW e \in Device, deviceuuid[e] = uuid[x]
  PROVE  e \notin Works(b)
<1>1. CtxOK /\ UniqueInv
  BY DEF IInv, TypeInv
<1>2. /\ ctx[b].h1 \in Handle /\ ctx[b].h1 # Nil /\ ctx[b].h2 \in Handle \cup {Nil}
      /\ ctx[b].h2 = Nil => ctx[b].d2 = Nil
      /\ ctx[b].kind # "pair" => ctx[b].h2 = Nil
  BY <1>1, StepFacts, NilAssumption DEF Record, CtxOK
<1>3. x # ctx[b].h1 /\ (ctx[b].h2 # Nil => x # ctx[b].h2)
  BY <1>2 DEF Held
<1>4. IF Renaming(b) THEN Alone(b) ELSE Steady(b)
  BY DEF IInv, BoundInv
<1>5. CASE Renaming(b)
  <2>1. e # ctx[b].d1
    BY <1>4, <1>5 DEF Alone
  <2>2. ctx[b].d2 = Nil
    BY <1>2, <1>5 DEF Renaming, Transfer
  <2> QED BY <2>1, <2>2 DEF Works
<1>6. CASE ~Renaming(b)
  <2>1. uuid[ctx[b].h1] # uuid[x] /\ (ctx[b].h2 # Nil => uuid[ctx[b].h2] # uuid[x])
    BY <1>1, <1>2, <1>3 DEF UniqueInv
  <2>2. e # ctx[b].d1 /\ (ctx[b].h2 # Nil => e # ctx[b].d2)
    BY <1>4, <1>6, <2>1 DEF Steady
  <2> QED BY <1>2, <2>2 DEF Works
<1> QED BY <1>5, <1>6

(* The device of a record *)
LEMMA FoundDevice ==
  ASSUME NEW h, Reachable(h)
  PROVE  DeviceOf(h) \in Device /\ deviceuuid[DeviceOf(h)] = uuid[h] /\ uuid[h] # Nil
BY DEF DeviceOf, Reachable

(* A procedure is started, in the event loop. *)
LEMMA StartKeeps ==
  ASSUME IInv, EventLoop, NEW c \in Ctx, ctx[c] = NoCtx, IdentitiesLeft,
         starts < MaxStarts, starts' = starts + 1,
         NEW k \in Kinds, NEW h \in Handle, NEW g \in Handle \cup {Nil},
         (k = "pair") = (g # Nil), h # g, NEW hs, hs = {h, g} \ {Nil},
         \A x \in hs : Reachable(x), Apart(k, hs),
         k \in OnCached => list[h] = "cache" /\ creds' = creds \ {uuid[h]},
         k \notin OnCached => creds' = creds /\ \A x \in hs : list[x] = "devices",
         ctx' = [ctx EXCEPT ![c] = Context(k, h, g)],
         StackOK(stack'), \A b : On(stack', b) <=> b = c /\ Script[k][1] \in Reopening,
         \A b, s : ~Told(b, s)' /\ ~Ended(b, s)',
         UNCHANGED <<unheard, list, uuid, peers, discovering, asking>>,
         UNCHANGED <<dos, owned, deviceuuid, configured>>
  PROVE  IInv'
<1>1. TypeInv /\ CtxOK /\ StackInv /\ ApartInv /\ UniqueInv /\ CredsInv
  BY DEF IInv, TypeInv
<1>2. \A b, s : ~On(stack, b) /\ ~Told(b, s) /\ ~Ended(b, s)
  BY LoopCalm
<1>3. \A b \in Active : /\ ctx[b].out /\ b \in Ctx /\ b # c
                        /\ b \notin unheard => Going(b)
  BY <1>1, <1>2 DEF StackInv, Going, Active
<1>4. h \in hs /\ hs \subseteq Handle /\ (g # Nil => g \in hs) /\ h # Nil /\ k \in Kind
  BY NilAssumption, KindsAssumption
<1> DEFINE d == DeviceOf(h)
           e == IF g = Nil THEN Nil ELSE DeviceOf(g)
           o == Script[k][1] \notin Reopening
<1>5. /\ d \in Device /\ deviceuuid[d] = uuid[h] /\ uuid[h] # Nil
      /\ g # Nil => e \in Device /\ deviceuuid[e] = uuid[g] /\ uuid[g] # Nil
      /\ g = Nil => e = Nil
  BY <1>4, FoundDevice
<1>6. ctx'[c] = [kind |-> k, pos |-> 1, h1 |-> h, h2 |-> g, d1 |-> d, d2 |-> e, out |-> o]
  BY <1>1 DEF CtxOK, Context
<1>7. o \in BOOLEAN
  OBVIOUS
<1> HIDE DEF d, e, o
<1>8. /\ ctx'[c].kind = k /\ ctx'[c].pos = 1 /\ ctx'[c].h1 = h /\ ctx'[c].h2 = g
      /\ ctx'[c].d1 = d /\ ctx'[c].d2 = e /\ ctx'[c].out = o
  BY <1>6
<1>9. ctx'[c] \in Record /\ ctx'[c] # NoCtx
  <2>1. ctx'[c] \in Record
    BY <1>4, <1>5, <1>6, <1>7 DEF Record
  <2> QED BY <1>8, <2>1 DEF NoCtx
<1>10. /\ \A b \in Ctx : b # c => ctx'[b] = ctx[b]
       /\ ctx' \in [Ctx -> Record \cup {NoCtx}]
  <2>1. ctx \in [Ctx -> Record \cup {NoCtx}]
    BY <1>1 DEF CtxOK
  <2> DEFINE X == Context(k, h, g)
  <2>2. ctx' = [ctx EXCEPT ![c] = X]
    OBVIOUS
  <2> HIDE DEF X
  <2>3. \A b \in Ctx : b # c => ctx'[b] = ctx[b]
    BY <2>1, <2>2
  <2>4. X \in Record
    BY <1>9, <2>1, <2>2
  <2> QED BY <2>1, <2>2, <2>3, <2>4
<1>11. /\ Active' = Active \cup {c} /\ c \notin Active
       /\ \A b \in Active : ctx'[b] = ctx[b]
  BY <1>3, <1>9, <1>10 DEF Active
<1>12. CtxOK'
  <2>1. /\ 1 \in 1..Len(Script[k])
    BY <1>4, FirstStep
  <2>2. /\ ctx'[c].pos \in 1..Len(Script[ctx'[c].kind])
        /\ (ctx'[c].kind = "pair") = (ctx'[c].h2 # Nil)
        /\ ctx'[c].h2 # Nil => ctx'[c].d2 \in Device
        /\ ctx'[c].h2 = Nil => ctx'[c].d2 = Nil
        /\ ctx'[c].h1 # ctx'[c].h2
    BY <1>5, <1>8, <2>1
  <2>3. \A b \in Active : /\ ctx'[b].pos \in 1..Len(Script[ctx'[b].kind])
                          /\ (ctx'[b].kind = "pair") = (ctx'[b].h2 # Nil)
                          /\ ctx'[b].h2 # Nil => ctx'[b].d2 \in Device
                          /\ ctx'[b].h2 = Nil => ctx'[b].d2 = Nil
                          /\ ctx'[b].h1 # ctx'[b].h2
    BY <1>1, <1>11 DEF CtxOK
  <2> QED BY <1>10, <1>11, <2>2, <2>3 DEF CtxOK
<1>13. creds' \subseteq creds /\ creds' \subseteq Uuid
  BY <1>1 DEF TypeInv
<1>14. TypeInv'
  <2>1. starts' \in 0..MaxStarts
    BY <1>1, BoundsAssumption DEF TypeInv
  <2> QED BY <1>1, <1>12, <1>13, <2>1 DEF TypeInv
<1>15. StackInv'
  <2>1. ASSUME NEW b \in Ctx
        PROVE  On(stack', b) <=> b \in Active' /\ ~ctx'[b].out
    <3>1. CASE b = c
      BY <1>8, <1>11, <3>1 DEF o
    <3>2. CASE b # c
      BY <1>3, <1>11, <3>2
    <3> QED BY <3>1, <3>2
  <2> QED BY <2>1 DEF StackInv, StackOK
<1>16. /\ \A b \in Active : /\ Held(b)' = Held(b) /\ Works(b)' = Works(b)
                            /\ StepOf(b)' = StepOf(b)
       /\ k \notin Retrieval => Held(c)' = hs
       /\ k \in Retrieval => Held(c)' = {}
       /\ Works(c)' = {d, e} \ {Nil}
       /\ StepOf(c)' = Script[k][1]
  BY <1>8, <1>11 DEF Held, Works, StepOf
<1>17. ASSUME NEW b \in Active, ctx[b].kind \notin Retrieval, Held(b) \cap hs = {},
              b \notin unheard
       PROVE  Works(b) \cap ({d, e} \ {Nil}) = {}
  <2>1. Going(b)
    BY <1>3, <1>17
  <2>2. d \notin Works(b)
    <3>1. h \notin Held(b)
      BY <1>4, <1>17
    <3> QED BY <1>5, <1>17, <2>1, <3>1, OtherDevice
  <2>3. g # Nil => e \notin Works(b)
    <3>1. g # Nil => g \notin Held(b) /\ g \in Handle
      BY <1>4, <1>17
    <3> QED BY <1>5, <1>17, <2>1, <3>1, OtherDevice
  <2> QED BY <1>5, <2>2, <2>3
<1>18. ApartInv'
  <2>1. ASSUME NEW b \in Active', ctx'[b].kind \in OnCached
        PROVE  ~discovering /\ list[ctx'[b].h1] = "cache"
    <3>1. CASE b = c
      <4>1. k \in OnCached /\ k \in Frees
        BY <1>8, <2>1, <3>1, KindFacts
      <4> QED BY <1>8, <3>1, <4>1 DEF Apart
    <3>2. CASE b \in Active
      BY <1>1, <1>2, <1>11, <2>1, <3>2 DEF ApartInv
    <3> QED BY <1>11, <3>1, <3>2
  <2>2. ASSUME NEW b \in Active', ctx'[b].kind \notin OnCached, NEW x \in Held(b)'
        PROVE  list[x] = "devices"
    <3>1. CASE b = c
      BY <1>8, <1>16, <2>2, <3>1
    <3>2. CASE b \in Active
      BY <1>1, <1>11, <1>16, <2>2, <3>2 DEF ApartInv
    <3> QED BY <1>11, <3>1, <3>2
  <2>4. ASSUME NEW a \in Active', NEW b \in Active', a # b, ctx'[a].kind \in Frees,
               ctx'[b].kind \notin Retrieval
        PROVE  /\ Held(a)' \cap Held(b)' = {}
               /\ a \notin unheard /\ b \notin unheard => Works(a)' \cap Works(b)' = {}
    <3>1. CASE a \in Active /\ b \in Active
      BY <1>1, <1>11, <1>16, <2>4, <3>1 DEF ApartInv
    <3>2. CASE a = c /\ b \in Active
      <4>1. Held(b) \cap hs = {} /\ ctx[b].kind \notin Retrieval /\ k \notin Retrieval
        BY <1>8, <1>11, <2>4, <3>2, KindFacts DEF Apart
      <4>2. b \notin unheard => Works(b) \cap ({d, e} \ {Nil}) = {}
        BY <1>17, <3>2, <4>1
      <4> QED BY <1>16, <3>2, <4>1, <4>2
    <3>3. CASE a \in Active /\ b = c
      <4>1. Held(a) \cap hs = {} /\ ctx[a].kind \notin Retrieval /\ k \notin Retrieval
        BY <1>8, <1>11, <2>4, <3>3, KindFacts DEF Apart
      <4>2. a \notin unheard => Works(a) \cap ({d, e} \ {Nil}) = {}
        BY <1>17, <3>3, <4>1
      <4> QED BY <1>16, <3>3, <4>1, <4>2
    <3> QED BY <1>11, <2>4, <3>1, <3>2, <3>3
  <2> QED BY <2>1, <2>2, <2>4 DEF ApartInv
<1>19. UniqueInv' /\ DeviceInv'
  BY DEF IInv, UniqueInv, DeviceInv
<1>20. CredsInv'
  <2>1. ASSUME NEW x \in Handle, list[x] = "devices"
        PROVE  uuid[x] \in creds'
    <3>1. uuid[x] \in creds
      BY <1>1, <1>2, <2>1 DEF CredsInv, BeingReset
    <3>2. k \in OnCached => uuid[x] # uuid[h]
      BY <1>1, <1>5, <2>1 DEF UniqueInv
    <3> QED BY <3>1, <3>2
  <2>2. \A x : Taken(x) => Taken(x)'
    BY <1>11 DEF Taken
  <2>3. ASSUME NEW f \in Device, deviceuuid[f] \in creds', ~owned[f]
        PROVE  \E b \in Active' : /\ ctx'[b].kind \in Transfer /\ ctx'[b].d1 = f
                                  /\ uuid[ctx'[b].h1] = deviceuuid[f]
    BY <1>1, <1>11, <1>13, <2>3 DEF CredsInv
  <2>4. \A x \in Handle : list[x] = "cache" /\ uuid[x] \in creds' => Taken(x)'
    BY <1>1, <1>13, <2>2 DEF CredsInv
  <2>5. \A x \in Handle, f \in Device :
          list[x] = "cache" /\ uuid[x] = deviceuuid[f] /\ owned[f] => Taken(x)'
    BY <1>1, <2>2 DEF CredsInv
  <2> QED BY <2>1, <2>3, <2>4, <2>5 DEF CredsInv
<1>21. BoundInv'
  <2>1. SUFFICES ASSUME NEW b \in Active', Going(b)', ctx'[b].kind \notin Retrieval
                 PROVE  IF Renaming(b)' THEN Alone(b)' ELSE Steady(b)'
    BY DEF BoundInv
  <2>2. CASE b = c
    <3>1. ~Renaming(b)'
      BY <1>4, <1>8, <1>16, <2>2, FirstStep DEF Renaming
    <3>2. Steady(b)'
      BY <1>5, <1>8, <2>2 DEF Steady
    <3> QED BY <3>1, <3>2
  <2>3. CASE b \in Active
    <3>1. IF Renaming(b) THEN Alone(b) ELSE Steady(b)
      BY <1>3, <1>11, <2>1, <2>3 DEF IInv, BoundInv, Going
    <3>2. /\ Renaming(b)' <=> Renaming(b)
          /\ Steady(b) => Steady(b)'
          /\ Alone(b) => Alone(b)'
      BY <1>11, <1>13, <1>16, <2>3 DEF Renaming, Steady, Alone
    <3> QED BY <3>1, <3>2
  <2> QED BY <1>11, <2>2, <2>3
<1>22. TransferInv'
  <2>1. SUFFICES ASSUME NEW b \in Active', ctx'[b].kind \in Transfer, Going(b)'
                 PROVE  Progress(ctx[b].d1, uuid[ctx[b].h1], StepOf(b))'
    BY DEF TransferInv
  <2>2. CASE b = c
    <3>1. k \in Transfer /\ k \in OnCached /\ k \in Frees
      BY <1>8, <2>1, <2>2, KindFacts
    <3>2. ~Taken(h)
      <4>1. SUFFICES ASSUME NEW a \in Active, ctx[a].kind \in Transfer, ctx[a].h1 = h
                     PROVE  FALSE
        BY DEF Taken
      <4>2. h \in Held(a)
        BY <1>4, <4>1, KindFacts DEF Held
      <4> QED BY <1>4, <3>1, <4>2 DEF Apart
    <3>3. dos[d] = "RFOTM"
      <4>1. ~owned[d]
        BY <1>1, <1>5, <3>1, <3>2 DEF CredsInv
      <4> QED BY <1>5, <4>1 DEF IInv, DeviceInv
    <3>4. /\ Script[k][1] \in UpToOwner /\ Script[k][1] \notin Operating
      BY <1>4, <3>1, FirstStep
    <3>5. uuid[h] \notin creds'
      BY <3>1
    <3>6. /\ ctx'[b].d1 = d /\ ctx'[b].h1 = h /\ StepOf(b)' = Script[k][1]
      BY <1>8, <1>16, <2>2
    <3> DEFINE s == Script[k][1]
    <3>7. /\ s \in UpToDoxm /\ s \in UpToAcl /\ s \in UpToPstat /\ s \in UpToCred
          /\ s \in UpToOwned
      BY <3>4 DEF UpToDoxm, UpToAcl, UpToPstat, UpToCred, UpToOwned
    <3> HIDE DEF s
    <3>8. s \in UpToOwner /\ s \notin Operating /\ StepOf(b)' = s
      BY <3>4, <3>6 DEF s
    <3> QED BY <3>3, <3>5, <3>6, <3>7, <3>8 DEF Progress
  <2>3. CASE b \in Active
    <3>1. ctx'[b] = ctx[b] /\ StepOf(b)' = StepOf(b) /\ ctx[b].kind \in Transfer
      BY <1>11, <1>16, <2>1, <2>3
    <3>2. Progress(ctx[b].d1, uuid[ctx[b].h1], StepOf(b))
      BY <1>3, <2>1, <2>3, <3>1 DEF IInv, TransferInv, Going
    <3>3. uuid[ctx[b].h1] \in creds' <=> uuid[ctx[b].h1] \in creds
      <4>1. CASE k \in OnCached
        <5>1. Held(b) \cap hs = {}
          BY <2>3, <4>1, KindFacts DEF Apart
        <5>2. ctx[b].h1 \in Handle /\ ctx[b].h1 \in Held(b)
          BY <1>1, <2>3, <3>1, StepFacts, NilAssumption, KindFacts DEF Held
        <5>3. uuid[ctx[b].h1] # uuid[h]
          BY <1>1, <1>4, <1>5, <5>1, <5>2 DEF UniqueInv
        <5> QED BY <4>1, <5>3
      <4> QED BY <4>1
    <3>4. ctx'[b].d1 = ctx[b].d1 /\ ctx'[b].h1 = ctx[b].h1
      BY <3>1
    <3> QED BY <3>1, <3>2, <3>3, <3>4 DEF Progress
  <2> QED BY <1>11, <2>2, <2>3
<1>23. LeftInv'
  <2>1. Needs' \subseteq Active \cup {c}
    BY <1>11 DEF Needs
  <2>2. Left \subseteq Left'
    BY <1>13 DEF Left, Used
  <2>3. IsFiniteSet(Left')
    <3>1. Left' \subseteq Uuid
      BY DEF Left
    <3> QED BY <3>1, FiniteAssumption, FS_Subset
  <2>4. Cardinality(Left) > Cardinality(Active)
    BY DEF Left, IdentitiesLeft
  <2>5. Cardinality(Left') >= Cardinality(Needs')
    BY <2>1, <2>2, <2>3, <2>4, LeftFinite, OneMore
  <2> QED BY <2>5 DEF LeftInv
<1>24. UnheardInv'
  BY <1>11 DEF IInv, UnheardInv
<1> QED BY <1>14, <1>15, <1>18, <1>19, <1>20, <1>21, <1>22, <1>23, <1>24 DEF IInv


(* oc_obt_perform_just_works_otm and its like *)
LEMMA StartCachedKeeps ==
  ASSUME Guarded, IInv, NEW c \in Ctx, NEW k \in Kinds, NEW h \in Handle, StartCached(c, k, h)
  PROVE  IInv'
<1> DEFINE d == DeviceOf(h)
           s == Script[k][1]
<1>1. /\ EventLoop /\ ctx[c] = NoCtx /\ IdentitiesLeft /\ starts < MaxStarts
      /\ starts' = starts + 1 /\ k \in OnCached /\ list[h] = "cache" /\ Reachable(h)
      /\ Apart(k, {h}) /\ creds' = creds \ {uuid[h]}
      /\ ctx' = [ctx EXCEPT ![c] = Context(k, h, Nil)]
  BY DEF StartCached
<1>2. /\ UNCHANGED <<unheard, list, uuid, peers, discovering, asking>>
      /\ UNCHANGED <<dos, owned, deviceuuid, configured>>
  BY DEF StartCached, discoveryVars, deviceVars
<1>3. stack' = IF s \in Reopening
               THEN <<Frame("close", d, 0), Frame("post", c, 0)>> ELSE <<>>
  BY DEF StartCached
<1>4. d \in Device
  BY <1>1, FoundDevice
<1> HIDE DEF d, s
<1> DEFINE f == Frame("close", d, 0)
           p == Frame("post", c, 0)
<1>5. /\ f \in Frames /\ p \in Frames /\ ~OfCtx(f) /\ OfCtx(p) /\ p[2] = c
      /\ f[1] # "called" /\ p[1] # "called"
  BY <1>4, FramesAre, FrameFields
<1>6. \A b, st : /\ f # Frame("end", b, st) /\ f # Frame("called", b, st)
                 /\ p # Frame("end", b, st) /\ p # Frame("called", b, st)
  BY FrameFields, Zenon
<1>7. /\ Calm(stack')
      /\ \A b : On(stack', b) <=> b = c /\ s \in Reopening
      /\ \A b, st : ~Has(stack', Frame("end", b, st)) /\ ~Has(stack', Frame("called", b, st))
  <2>1. CASE s \in Reopening
    <3>1. stack' = <<f, p>>
      BY <1>3, <2>1
    <3> HIDE DEF f, p
    <3>2. /\ <<f, p>> \in Seq(Frames) /\ Once(<<f, p>>) /\ NoCalled(<<f, p>>)
          /\ \A x : Has(<<f, p>>, x) <=> x = f \/ x = p
          /\ \A b : On(<<f, p>>, b) <=> c = b
      BY <1>5, TwoFrames, Zenon
    <3> DEFINE t == <<f, p>>
    <3> HIDE DEF t
    <3>3. stack' = t
      BY <3>1 DEF t
    <3> QED BY <1>6, <2>1, <3>2, <3>3, Zenon DEF Calm, t
  <2>2. CASE s \notin Reopening
    <3>1. stack' = <<>>
      BY <1>3, <2>2
    <3> QED BY <2>2, <3>1, NoFrame, Zenon DEF Calm
  <2> QED BY <2>1, <2>2
<1>8. StackOK(stack') /\ \A b, st : ~Told(b, st)' /\ ~Ended(b, st)'
  BY <1>7, CalmOK DEF Told, Ended
<1>9. (k = "pair") = (Nil # Nil) /\ h # Nil
  BY <1>1, KindFacts, NilAssumption
<1>10. {h} = {h, Nil} \ {Nil} /\ \A x \in {h} : Reachable(x)
  BY <1>1, <1>9
<1>11. \A b : On(stack', b) <=> b = c /\ Script[k][1] \in Reopening
  BY <1>7 DEF s
<1>12. /\ k \in OnCached => list[h] = "cache" /\ creds' = creds \ {uuid[h]}
       /\ k \notin OnCached => creds' = creds /\ \A x \in {h} : list[x] = "devices"
  BY <1>1
<1>13. Nil \in Handle \cup {Nil}
  OBVIOUS
<1> QED BY <1>1, <1>2, <1>8, <1>9, <1>10, <1>11, <1>12, <1>13, StartKeeps

(* The other procedures *)
LEMMA StartOwnedKeeps ==
  ASSUME Guarded, IInv, NEW c \in Ctx, NEW k \in Kinds, NEW h \in Handle,
         NEW g \in Handle \cup {Nil}, StartOwned(c, k, h, g)
  PROVE  IInv'
<1>1. /\ EventLoop /\ ctx[c] = NoCtx /\ IdentitiesLeft /\ starts < MaxStarts
      /\ starts' = starts + 1 /\ k \notin OnCached /\ (k = "pair") = (g # Nil) /\ h # g
      /\ \A x \in {h, g} \ {Nil} : list[x] = "devices" /\ Reachable(x)
      /\ Apart(k, {h, g} \ {Nil}) /\ creds' = creds
      /\ ctx' = [ctx EXCEPT ![c] = Context(k, h, g)]
  BY DEF StartOwned
<1>2. /\ UNCHANGED <<unheard, list, uuid, peers, discovering, asking>>
      /\ UNCHANGED <<dos, owned, deviceuuid, configured>>
      /\ stack' = stack
  BY DEF StartOwned, discoveryVars, deviceVars
<1>3. stack' = <<>> /\ StackOK(stack')
  BY <1>1, <1>2, LoopCalm, CalmOK
<1>4. \A b, st : ~Told(b, st)' /\ ~Ended(b, st)'
  BY <1>3, NoFrame, Zenon DEF Told, Ended
<1>5. k \in Kind
  BY KindsAssumption
<1>6. Script[k][1] \notin Reopening
  <2>1. k \notin Transfer
    BY <1>1, KindFacts
  <2>2. CASE k = "reset"
    BY <2>2, ResetScript DEF Reopening
  <2>3. CASE k # "reset"
    <3>1. 1 \in 1..Len(Script[k])
      BY <1>5, FirstStep
    <3>2. Script[k][1] \in StepsOf(k)
      BY <1>5, <2>1, <2>3, <3>1, OtherScripts
    <3>3. Script[k][1] \in PlainSteps \cup PairSteps
      BY <3>2 DEF StepsOf
    <3> QED BY <3>3, StepSets
  <2> QED BY <2>2, <2>3
<1>7. \A b : On(stack', b) <=> b = c /\ Script[k][1] \in Reopening
  BY <1>3, <1>6, NoFrame, Zenon
<1> DEFINE hs == {h, g} \ {Nil}
<1>8. /\ hs = {h, g} \ {Nil} /\ \A x \in hs : Reachable(x)
      /\ Apart(k, hs)
      /\ k \in OnCached => list[h] = "cache" /\ creds' = creds \ {uuid[h]}
      /\ k \notin OnCached => creds' = creds /\ \A x \in hs : list[x] = "devices"
  BY <1>1
<1> HIDE DEF hs
<1> QED BY <1>1, <1>2, <1>3, <1>4, <1>7, <1>8, StartKeeps


-----------------------------------------------------------------------------
(* Discovery *)

(* Discoveries begin and end, and ask known devices for their endpoints. *)
LEMMA AskingKeeps ==
  ASSUME IInv, UNCHANGED <<ctx, unheard, stack, list, uuid, creds, starts, peers>>,
         UNCHANGED <<dos, owned, deviceuuid, configured>>,
         discovering' \in BOOLEAN, asking' \in [Handle -> 0..MaxAsked],
         discovering' => \A c \in Active : ctx[c].kind \notin OnCached
  PROVE  IInv'
<1>1. Active' = Active
  BY DEF Active
<1>2. \A b, s : (Told(b, s)' <=> Told(b, s)) /\ (Ended(b, s)' <=> Ended(b, s))
  BY DEF Told, Ended
<1>3. \A b : /\ Going(b)' <=> Going(b)
             /\ Held(b)' = Held(b) /\ Works(b)' = Works(b) /\ StepOf(b)' = StepOf(b)
  BY <1>1, <1>2 DEF Going, Held, Works, StepOf
<1>4. TypeInv'
  BY <1>1 DEF IInv, TypeInv, CtxOK
<1>5. StackInv' /\ UnheardInv'
  BY <1>1 DEF IInv, StackInv, UnheardInv
<1>6. ApartInv'
  BY <1>1, <1>2, <1>3 DEF IInv, ApartInv
<1>7. UniqueInv' /\ DeviceInv'
  BY DEF IInv, UniqueInv, DeviceInv
<1>8. CredsInv'
  <2>1. \A h : (Taken(h)' <=> Taken(h)) /\ (BeingReset(h)' <=> BeingReset(h))
    BY <1>1, <1>2 DEF Taken, BeingReset
  <2> QED BY <1>1, <1>2, <2>1 DEF IInv, CredsInv
<1>9. BoundInv'
  <2>1. \A b : /\ Renaming(b)' <=> Renaming(b)
               /\ Steady(b)' <=> Steady(b)
               /\ Alone(b)' <=> Alone(b)
    BY <1>3 DEF Renaming, Steady, Alone
  <2> QED BY <1>1, <1>3, <2>1 DEF IInv, BoundInv
<1>10. TransferInv'
  <2>1. SUFFICES ASSUME NEW b \in Active, ctx[b].kind \in Transfer
                 PROVE  /\ Going(b)' => Progress(ctx[b].d1, uuid[ctx[b].h1], StepOf(b))'
                        /\ Ended(b, 0)' => Finished(ctx[b].d1, uuid[ctx[b].h1])'
    BY <1>1 DEF TransferInv
  <2>2. /\ Going(b) => Progress(ctx[b].d1, uuid[ctx[b].h1], StepOf(b))
        /\ Ended(b, 0) => Finished(ctx[b].d1, uuid[ctx[b].h1])
    BY <2>1 DEF IInv, TransferInv
  <2>3. Going(b)' => Progress(ctx[b].d1, uuid[ctx[b].h1], StepOf(b))'
    BY <1>3, <2>2 DEF Progress
  <2>4. Ended(b, 0)' => Finished(ctx[b].d1, uuid[ctx[b].h1])'
    BY <1>2, <2>2 DEF Finished, ProvisionedDevice
  <2> QED BY <2>3, <2>4
<1>11. LeftInv'
  <2>1. Needs' = Needs
    BY <1>1, <1>3 DEF Needs
  <2>2. Left' = Left
    BY DEF Left, Used
  <2> QED BY <2>1, <2>2 DEF IInv, LeftInv
<1> QED BY <1>4, <1>5, <1>6, <1>7, <1>8, <1>9, <1>10, <1>11 DEF IInv

(* A record is made of the device d, which has none. *)
LEMMA FoundKeeps ==
  ASSUME IInv, EventLoop, UNCHANGED <<ctx, unheard, stack, creds, starts, peers, discovering>>,
         UNCHANGED <<dos, owned, deviceuuid, configured>>,
         \A c \in Active : ctx[c].kind \notin OnCached,
         NEW h \in Handle, list[h] = "free", NEW d \in Device,
         \A g \in Handle : uuid[g] # deviceuuid[d],
         NEW l \in {"cache", "devices"},
         l = "devices" => deviceuuid[d] \in creds,
         l = "cache" => deviceuuid[d] \notin creds /\ ~owned[d],
         list' = [list EXCEPT ![h] = l], uuid' = [uuid EXCEPT ![h] = deviceuuid[d]],
         asking' \in [Handle -> 0..MaxAsked]
  PROVE  IInv'
<1>1. TypeInv /\ CtxOK /\ StackInv /\ ApartInv /\ UniqueInv /\ CredsInv
  BY DEF IInv, TypeInv
<1>2. \A b, s : /\ ~Told(b, s) /\ ~Ended(b, s) /\ ~Told(b, s)' /\ ~Ended(b, s)'
  <2>1. \A b, s : ~Told(b, s) /\ ~Ended(b, s)
    BY LoopCalm
  <2> QED BY <2>1 DEF Told, Ended
<1>3. Active' = Active
  BY DEF Active
<1>4. \A b : /\ Held(b)' = Held(b) /\ Works(b)' = Works(b) /\ StepOf(b)' = StepOf(b)
  BY DEF Held, Works, StepOf
<1>5. \A b \in Active : ctx[b].kind \notin Transfer /\ (Going(b)' <=> Going(b))
  BY <1>2, <1>3, KindFacts DEF Going
<1>6. /\ list'[h] = l /\ uuid'[h] = deviceuuid[d] /\ deviceuuid[d] # Nil
      /\ deviceuuid[d] \in Uuid
      /\ \A g \in Handle : g # h => list'[g] = list[g] /\ uuid'[g] = uuid[g]
  BY <1>1, NilAssumption DEF TypeInv
<1>7. uuid[h] = Nil /\ l # "free"
  BY <1>1 DEF UniqueInv
<1>8. ASSUME NEW b \in Active, NEW x \in Held(b)
      PROVE  x \in Handle /\ list[x] = "devices" /\ x # h
  <2>1. ctx[b] \in Record
    BY <1>1, StepFacts
  <2>2. x \in Handle
    BY <1>8, <2>1 DEF Held, Record
  <2>3. list[x] = "devices"
    BY <1>1, <1>8 DEF ApartInv
  <2> QED BY <2>2, <2>3
<1>9. TypeInv'
  <2>1. CtxOK'
    BY <1>1, <1>3 DEF CtxOK
  <2>2. list' \in [Handle -> {"free", "cache", "devices"}] /\ uuid' \in [Handle -> Uuid \cup {Nil}]
    BY <1>1, <1>6 DEF TypeInv
  <2> QED BY <1>1, <2>1, <2>2 DEF TypeInv
<1>10. StackInv' /\ UnheardInv'
  BY <1>1, <1>3 DEF StackInv, IInv, UnheardInv
<1>11. ApartInv'
  <2>1. \A b \in Active : \A x \in Held(b) : list'[x] = "devices"
    BY <1>6, <1>8
  <2> QED BY <1>1, <1>3, <1>4, <2>1 DEF ApartInv
<1>12. UniqueInv'
  BY <1>1, <1>6, <1>7 DEF UniqueInv
<1>13. DeviceInv'
  BY DEF IInv, DeviceInv
<1>14. \A x \in Handle : ~Taken(x) /\ ~BeingReset(x)
  BY <1>2, <1>5 DEF Taken, BeingReset
<1>15. CredsInv'
  <2>1. \A x \in Handle : list'[x] = "devices" => uuid'[x] \in creds
    BY <1>1, <1>6, <1>14 DEF CredsInv
  <2>2. \A f \in Device : deviceuuid[f] \in creds => owned[f]
    BY <1>1, <1>5 DEF CredsInv
  <2>3. \A x \in Handle : list'[x] = "cache" => uuid'[x] \notin creds
    BY <1>1, <1>6, <1>14 DEF CredsInv
  <2>4. ASSUME NEW x \in Handle, NEW f \in Device, list'[x] = "cache",
               uuid'[x] = deviceuuid[f], owned[f]
        PROVE  FALSE
    <3>1. CASE x = h
      <4>1. f = d /\ l = "cache"
        BY <1>1, <1>6, <2>4, <3>1 DEF UniqueInv
      <4> QED BY <2>4, <4>1
    <3>2. CASE x # h
      BY <1>1, <1>6, <1>14, <2>4, <3>2 DEF CredsInv
    <3> QED BY <3>1, <3>2
  <2>5. \A b \in Active : ctx[b].kind \notin OnCached
    OBVIOUS
  <2> QED BY <1>3, <2>1, <2>2, <2>3, <2>4, <2>5 DEF CredsInv
<1>16. BoundInv'
  <2>1. SUFFICES ASSUME NEW b \in Active, Going(b)', ctx[b].kind \notin Retrieval
                 PROVE  ~Renaming(b)' /\ Steady(b)'
    BY <1>3 DEF BoundInv
  <2>2. ~Renaming(b) /\ ~Renaming(b)'
    BY <1>5, <2>1 DEF Renaming
  <2>3. Steady(b)
    BY <1>5, <2>1, <2>2 DEF IInv, BoundInv
  <2>4. /\ uuid'[ctx[b].h1] = uuid[ctx[b].h1]
        /\ ctx[b].h2 # Nil => uuid'[ctx[b].h2] = uuid[ctx[b].h2]
    <3>1. ctx[b].h1 \in Held(b) /\ (ctx[b].h2 # Nil => ctx[b].h2 \in Held(b))
      BY <1>1, <2>1, StepFacts, NilAssumption DEF Held
    <3> QED BY <1>6, <1>8, <3>1
  <2> QED BY <2>2, <2>3, <2>4 DEF Steady
<1>17. TransferInv'
  BY <1>3, <1>5 DEF TransferInv
<1>18. LeftInv'
  <2>1. Needs' \subseteq Needs
    BY <1>3, <1>4, <1>5 DEF Needs
  <2>2. Left \subseteq Left'
    <3>1. SUFFICES ASSUME NEW u \in Uuid, u \in Used'
                   PROVE  u \in Used
      BY DEF Left
    <3>2. \/ \E e \in Device : u = deviceuuid[e]
          \/ \E g \in Handle : u = uuid'[g]
          \/ u \in creds
      BY <3>1 DEF Used
    <3> QED BY <1>6, <3>2 DEF Used
  <2>3. IsFiniteSet(Left')
    <3>1. Left' \subseteq Uuid
      BY DEF Left
    <3> QED BY <3>1, FiniteAssumption, FS_Subset
  <2>4. Cardinality(Left') >= Cardinality(Needs')
    BY <2>1, <2>2, <2>3, LeftFinite, FewerNeeds DEF IInv, LeftInv
  <2> QED BY <2>4 DEF LeftInv
<1> QED BY <1>9, <1>10, <1>11, <1>12, <1>13, <1>15, <1>16, <1>17, <1>18 DEF IInv

(* While a discovery goes on, no transfer does; the devices whose credential the
   tool holds have an owner, and records of oc_cache have none.             *)
LEMMA WhileDiscovering ==
  ASSUME IInv, EventLoop, discovering
  PROVE  /\ \A c \in Active : ctx[c].kind \notin OnCached
         /\ \A d \in Device : deviceuuid[d] \in creds => owned[d]
         /\ \A g \in Handle : list[g] = "cache" => uuid[g] \notin creds
         /\ \A g \in Handle : list[g] = "devices" => uuid[g] \in creds
         /\ \A g \in Handle : list[g] = "free" => uuid[g] = Nil
<1>1. \A c \in Active : ctx[c].kind \notin OnCached /\ ctx[c].kind \notin Transfer
  BY KindFacts DEF IInv, ApartInv
<1>2. \A g : ~Taken(g) /\ ~BeingReset(g)
  BY <1>1, LoopCalm DEF Taken, BeingReset
<1>3. \A d \in Device : deviceuuid[d] \in creds => owned[d]
  BY <1>1 DEF IInv, CredsInv
<1>4. /\ \A g \in Handle : list[g] = "cache" => uuid[g] \notin creds
      /\ \A g \in Handle : list[g] = "devices" => uuid[g] \in creds
  BY <1>2 DEF IInv, CredsInv
<1>5. \A g \in Handle : list[g] = "free" => uuid[g] = Nil
  BY DEF IInv, UniqueInv
<1> QED BY <1>1, <1>3, <1>4, <1>5

(* obt_check_owned *)
LEMMA CheckOwnedKeeps ==
  ASSUME IInv, NEW d \in Device, NEW h \in Handle, CheckOwned(d, h)
  PROVE  IInv'
<1>1. /\ EventLoop /\ discovering /\ ~owned[d] /\ CacheNewDevice("cache", deviceuuid[d], h)
      /\ asking[h] < MaxAsked /\ asking' = [asking EXCEPT ![h] = @ + 1]
      /\ UNCHANGED <<ctx, unheard, stack, creds, starts, peers, discovering>>
      /\ UNCHANGED <<dos, owned, deviceuuid, configured>>
  BY DEF CheckOwned, deviceVars
<1>2. /\ \A c \in Active : ctx[c].kind \notin OnCached
      /\ deviceuuid[d] \notin creds
      /\ \A g \in Handle : list[g] = "devices" => uuid[g] \in creds
      /\ \A g \in Handle : list[g] = "free" => uuid[g] = Nil
  BY <1>1, WhileDiscovering
<1>3. TypeInv /\ CtxOK /\ ApartInv
  BY DEF IInv, TypeInv
<1>4. /\ list' = [list EXCEPT ![h] = "cache"] /\ uuid' = [uuid EXCEPT ![h] = deviceuuid[d]]
  BY <1>1 DEF CacheNewDevice
<1>7. asking' \in [Handle -> 0..MaxAsked]
  BY <1>1, <1>3, BoundsAssumption DEF TypeInv
<1>5. CASE list[h] = "cache" /\ uuid[h] = deviceuuid[d]
  <2>1. list' = list /\ uuid' = uuid
    BY <1>3, <1>4, <1>5 DEF TypeInv
  <2>4. discovering' \in BOOLEAN
    BY <1>1
  <2> QED BY <1>1, <1>2, <1>7, <2>1, <2>4, AskingKeeps
<1>6. CASE ~(list[h] = "cache" /\ uuid[h] = deviceuuid[d])
  <2>1. list[h] = "free" /\ \A g \in Handle : ~(list[g] = "cache" /\ uuid[g] = deviceuuid[d])
    BY <1>1, <1>6 DEF CacheNewDevice
  <2>2. \A g \in Handle : uuid[g] # deviceuuid[d]
    <3>1. deviceuuid[d] # Nil
      BY <1>3, NilAssumption DEF TypeInv
    <3>2. \A g \in Handle : list[g] \in {"free", "cache", "devices"}
      BY <1>3 DEF TypeInv
    <3> QED BY <1>2, <2>1, <3>1, <3>2
  <2>3. "cache" \in {"cache", "devices"} /\ "cache" # "devices"
    OBVIOUS
  <2> QED BY <1>1, <1>2, <1>4, <1>7, <2>1, <2>2, <2>3, FoundKeeps
<1> QED BY <1>5, <1>6

(* get_endpoints, for a device of ours *)
LEMMA OwnedAnswersKeeps ==
  ASSUME IInv, NEW d \in Device, NEW h \in Handle, OwnedAnswers(d, h)
  PROVE  IInv'
<1>1. /\ EventLoop /\ discovering /\ deviceuuid[d] \in creds
      /\ CacheNewDevice("devices", deviceuuid[d], h)
      /\ UNCHANGED <<ctx, unheard, stack, creds, starts, peers, discovering>>
      /\ asking' = asking
      /\ UNCHANGED <<dos, owned, deviceuuid, configured>>
  BY DEF OwnedAnswers, deviceVars, discoveryVars
<1>2. /\ \A c \in Active : ctx[c].kind \notin OnCached
      /\ \A g \in Handle : list[g] = "cache" => uuid[g] \notin creds
      /\ \A g \in Handle : list[g] = "free" => uuid[g] = Nil
  BY <1>1, WhileDiscovering
<1>3. TypeInv /\ CtxOK /\ ApartInv
  BY DEF IInv, TypeInv
<1>4. /\ list' = [list EXCEPT ![h] = "devices"] /\ uuid' = [uuid EXCEPT ![h] = deviceuuid[d]]
  BY <1>1 DEF CacheNewDevice
<1>5. CASE list[h] = "devices" /\ uuid[h] = deviceuuid[d]
  <2>1. list' = list /\ uuid' = uuid
    BY <1>3, <1>4, <1>5 DEF TypeInv
  <2>2. asking' \in [Handle -> 0..MaxAsked] /\ discovering' \in BOOLEAN
    BY <1>1, <1>3 DEF TypeInv
  <2> QED BY <1>1, <1>2, <2>1, <2>2, AskingKeeps
<1>6. CASE ~(list[h] = "devices" /\ uuid[h] = deviceuuid[d])
  <2>1. list[h] = "free" /\ \A g \in Handle : ~(list[g] = "devices" /\ uuid[g] = deviceuuid[d])
    BY <1>1, <1>6 DEF CacheNewDevice
  <2>2. \A g \in Handle : uuid[g] # deviceuuid[d]
    <3>1. deviceuuid[d] # Nil
      BY <1>3, NilAssumption DEF TypeInv
    <3>2. \A g \in Handle : list[g] \in {"free", "cache", "devices"}
      BY <1>3 DEF TypeInv
    <3> QED BY <1>1, <1>2, <2>1, <3>1, <3>2
  <2>3. "devices" \in {"cache", "devices"} /\ "cache" # "devices"
    OBVIOUS
  <2>4. asking' \in [Handle -> 0..MaxAsked]
    BY <1>1, <1>3 DEF TypeInv
  <2> QED BY <1>1, <1>2, <1>4, <2>1, <2>2, <2>3, <2>4, FoundKeeps
<1> QED BY <1>5, <1>6

(* Discoveries begin and end, and get_endpoints is told. *)
LEMMA DiscoveryKeeps ==
  ASSUME Guarded, IInv, Discover \/ DiscoveryEnds \/ \E h \in Handle : GetEndpoints(h)
  PROVE  IInv'
<1>1. TypeInv /\ ApartInv
  BY DEF IInv
<1>2. /\ UNCHANGED <<ctx, unheard, stack, list, uuid, creds, starts, peers>>
      /\ UNCHANGED <<dos, owned, deviceuuid, configured>>
  BY DEF Discover, DiscoveryEnds, GetEndpoints, toolVars, deviceVars
<1>3. /\ discovering' \in BOOLEAN
      /\ discovering' => \A c \in Active : ctx[c].kind \notin OnCached
  <2>1. CASE Discover
    BY <2>1 DEF Discover
  <2>2. CASE DiscoveryEnds
    BY <2>2 DEF DiscoveryEnds
  <2>3. CASE \E h \in Handle : GetEndpoints(h)
    <3>1. discovering' = discovering
      BY <2>3 DEF GetEndpoints
    <3>2. discovering => \A c \in Active : ctx[c].kind \notin OnCached
      BY <1>1 DEF ApartInv
    <3>3. discovering \in BOOLEAN
      BY <1>1 DEF TypeInv
    <3> QED BY <3>1, <3>2, <3>3
  <2> QED BY <2>1, <2>2, <2>3
<1>4. asking' \in [Handle -> 0..MaxAsked]
  <2>1. asking \in [Handle -> 0..MaxAsked]
    BY <1>1 DEF TypeInv
  <2>2. CASE Discover \/ DiscoveryEnds
    BY <2>1, <2>2 DEF Discover, DiscoveryEnds
  <2>3. ASSUME NEW h \in Handle, GetEndpoints(h)
        PROVE  asking' \in [Handle -> 0..MaxAsked]
    BY <2>1, <2>3, BoundsAssumption DEF GetEndpoints
  <2> QED BY <2>2, <2>3
<1> QED BY <1>2, <1>3, <1>4, AskingKeeps


-----------------------------------------------------------------------------
(* The theorems *)

(* The tool is started with the credentials of the devices it owns. *)
LEMMA InitInv ==
  ASSUME Init
  PROVE  IInv
<1>1. /\ deviceuuid \in [Device -> Uuid]
      /\ \A d, e \in Device : deviceuuid[d] = deviceuuid[e] => d = e
  BY IdentityAssumption DEF Init
<1>2. /\ ctx = [c \in Ctx |-> NoCtx] /\ stack = <<>>
      /\ list = [h \in Handle |-> "free"] /\ uuid = [h \in Handle |-> Nil]
      /\ starts = 0 /\ peers = {} /\ discovering = FALSE
      /\ asking = [h \in Handle |-> 0] /\ unheard = {}
      /\ owned \in [Device -> BOOLEAN]
      /\ creds = {deviceuuid[d] : d \in {e \in Device : owned[e]}}
      /\ dos = [d \in Device |-> IF owned[d] THEN "RFNOP" ELSE "RFOTM"]
      /\ configured = [d \in Device |-> IF owned[d] THEN Setup ELSE {}]
  BY DEF Init
<1>3. Active = {}
  BY <1>2 DEF Active
<1>4. TypeInv
  <2>1. CtxOK
    BY <1>2, <1>3 DEF CtxOK
  <2>2. creds \subseteq Uuid
    BY <1>1, <1>2
  <2>3. starts \in 0..MaxStarts
    BY <1>2, BoundsAssumption
  <2>4. dos \in [Device -> {"RFOTM", "RFPRO", "RFNOP"}]
    BY <1>2
  <2>5. configured \in [Device -> SUBSET Setup]
    BY <1>2
  <2>6. asking \in [Handle -> 0..MaxAsked]
    BY <1>2, BoundsAssumption
  <2> QED BY <1>1, <1>2, <2>1, <2>2, <2>3, <2>4, <2>5, <2>6 DEF TypeInv
<1>5. StackInv
  <2>1. EventLoop
    BY <1>2 DEF EventLoop
  <2>2. Calm(stack) /\ \A b : ~On(stack, b)
    BY <2>1, LoopCalm
  <2> QED BY <1>2, <1>3, <2>2 DEF StackInv, Calm
<1>6. ApartInv
  BY <1>2, <1>3 DEF ApartInv
<1>7. UniqueInv
  BY <1>1, <1>2 DEF UniqueInv
<1>8. CredsInv
  <2>1. \A h \in Handle : list[h] = "free"
    BY <1>2
  <2>2. \A d \in Device : deviceuuid[d] \in creds => owned[d]
    BY <1>1, <1>2
  <2> QED BY <1>3, <2>1, <2>2 DEF CredsInv
<1>9. DeviceInv
  BY <1>2 DEF DeviceInv
<1>10. BoundInv /\ TransferInv
  BY <1>3 DEF BoundInv, TransferInv
<1>11. LeftInv
  <2>1. Needs = {}
    BY <1>3 DEF Needs
  <2>2. Cardinality(Needs) = 0 /\ Cardinality(Left) \in Nat
    BY <2>1, LeftFinite, FS_EmptySet, FS_CardinalityType
  <2> QED BY <2>2 DEF LeftInv
<1>12. UnheardInv
  BY <1>2 DEF UnheardInv
<1> QED BY <1>4, <1>5, <1>6, <1>7, <1>8, <1>9, <1>10, <1>11, <1>12 DEF IInv

(* Connections come and go. *)
LEMMA PeersKeep ==
  ASSUME IInv, NEW d \in Device, Connect(d) \/ PeerGone(d)
  PROVE  IInv'
<1>1. EventLoop /\ peers' \subseteq Device
  BY DEF Connect, PeerGone, IInv, TypeInv
<1>2. stack = <<>> /\ Calm(<<>>) /\ SameCalls(<<>>, stack)
  BY <1>1, LoopCalm
<1>3. StackOK(stack') /\ SameCalls(stack', stack)
  <2>1. CASE Connect(d)
    BY <1>2, <2>1, CalmOK DEF Connect
  <2>2. CASE PeerGone(d)
    <3> DEFINE f == Frame("notify", d, 0)
               r == <<>>
    <3>1. f \in Frames
      BY FramesAre
    <3>2. stack' = <<f>>
      BY <2>2 DEF PeerGone
    <3> HIDE DEF f
    <3>3. stack' = <<f>> \o r
      BY <3>2
    <3> HIDE DEF r
    <3>4. Calm(r)
      BY <1>2 DEF r
    <3>5. "notify" \in {"close", "notify"}
      OBVIOUS
    <3>6. Calm(stack') /\ SameCalls(stack', r)
      BY <3>3, <3>4, <3>5, PushSession, Zenon DEF f
    <3> QED BY <1>2, <3>6, CalmOK DEF r
  <2> QED BY <2>1, <2>2
<1>4. /\ UNCHANGED <<ctx, unheard, list, uuid, creds, starts, discovering, asking>>
      /\ UNCHANGED <<dos, owned, deviceuuid, configured>>
  BY DEF Connect, PeerGone, toolVars, discoveryVars, deviceVars
<1> QED BY <1>1, <1>3, <1>4, SessionKeeps

(* Nothing happens. *)
LEMMA StutterKeeps ==
  ASSUME IInv, UNCHANGED vars
  PROVE  IInv'
<1>1. /\ UNCHANGED <<ctx, unheard, stack, list, uuid, creds, starts, peers, discovering, asking>>
      /\ UNCHANGED <<dos, owned, deviceuuid, configured>>
  BY DEF vars, toolVars, discoveryVars, deviceVars
<1>2. StackOK(stack') /\ SameCalls(stack', stack)
  BY <1>1 DEF IInv, StackInv, StackOK, SameCalls
<1>3. peers' \subseteq Device
  BY <1>1 DEF IInv, TypeInv
<1> QED BY <1>1, <1>2, <1>3, SessionKeeps

(* What makes the promises of the tool inductive, with an application that keeps
   procedures apart: a procedure that may free its record has the record and the
   device to itself, no two records are of one identity, whose credentials the
   tool holds, and what the requests of a transfer before the one that is out
   have brought about on the device.                                        *)
THEOREM InductiveInvariant ==
  ASSUME Guarded
  PROVE  Spec => []IInv
<1>1. Init => IInv
  BY InitInv
<1>2. IInv /\ [Next]_vars => IInv'
  <2> SUFFICES ASSUME IInv, [Next]_vars
               PROVE  IInv'
    OBVIOUS
  <2>1. CtxOK /\ StackInv
    BY DEF IInv, TypeInv
  <2>2. ASSUME NEW c \in Ctx, Reply(c) \/ Refuse(c) \/ GiveUp(c) \/ Silence(c)
        PROVE  IInv'
    <3>1. AnswerStep(c) /\ StackOK(stack')
      BY <2>1, <2>2, ReplyIsAnswer, RefuseIsAnswer, GiveUpIsAnswer, SilenceIsAnswer
    <3> QED BY <3>1, AnswerKeeps
  <2>3. ASSUME NEW c \in Ctx, NEW k \in Kinds, NEW h \in Handle, StartCached(c, k, h)
        PROVE  IInv'
    BY <2>3, StartCachedKeeps
  <2>4. ASSUME NEW c \in Ctx, NEW k \in Kinds, NEW h \in Handle,
               NEW g \in Handle \cup {Nil}, StartOwned(c, k, h, g)
        PROVE  IInv'
    BY <2>4, StartOwnedKeeps
  <2>5. CASE Call
    BY <2>5, CloseKeeps, NotifyKeeps, PostReopenedKeeps, EndKeeps, CalledKeeps DEF Call
  <2>6. ASSUME NEW d \in Device, Connect(d) \/ PeerGone(d)
        PROVE  IInv'
    BY <2>6, PeersKeep
  <2>7. CASE Discover \/ DiscoveryEnds \/ \E h \in Handle : GetEndpoints(h)
    BY <2>7, DiscoveryKeeps
  <2>8. ASSUME NEW d \in Device, NEW h \in Handle, CheckOwned(d, h) \/ OwnedAnswers(d, h)
        PROVE  IInv'
    BY <2>8, CheckOwnedKeeps, OwnedAnswersKeeps
  <2>9. CASE UNCHANGED vars
    BY <2>9, StutterKeeps
  <2> QED BY <2>2, <2>3, <2>4, <2>5, <2>6, <2>7, <2>8, <2>9, Zenon DEF Next
<1> QED BY <1>1, <1>2, PTL DEF Spec

(* The contexts in use are what the handlers of their procedures expect, at a
   request of the procedure's script.                                       *)
THEOREM TypeCorrect ==
  ASSUME Guarded
  PROVE  Spec => []TypeOK
<1>1. IInv => TypeOK
  <2> SUFFICES ASSUME IInv
               PROVE  TypeOK
    OBVIOUS
  <2> DEFINE Any == [kind : Kinds \cup {Nil}, pos : 0 .. 15, h1 : Handle \cup {Nil},
                     h2 : Handle \cup {Nil}, d1 : Device \cup {Nil},
                     d2 : Device \cup {Nil}, out : BOOLEAN]
  <2>1. TypeInv /\ CtxOK /\ StackInv
    BY DEF IInv, TypeInv
  <2>2. Record \subseteq Any /\ NoCtx \in Any
    BY DEF Record, NoCtx
  <2>3. ctx \in [Ctx -> Any]
    <3> HIDE DEF Any
    <3> QED BY <2>1, <2>2 DEF CtxOK
  <2>4. \A c \in Active : ctx[c].pos \in 1 .. Len(Script[ctx[c].kind])
    BY <2>1 DEF CtxOK
  <2>5. \A i \in 1 .. Len(stack) :
          stack[i][1] \in {"close", "notify", "post", "end", "called"}
    <3>1. \A i \in 1 .. Len(stack) : stack[i] \in Frames
      BY <2>1 DEF StackInv
    <3> QED BY <3>1, FrameKinds
  <2>6. unheard \subseteq Active
    BY DEF IInv, UnheardInv
  <2> QED BY <2>1, <2>3, <2>4, <2>5, <2>6 DEF TypeInv, TypeOK
<1> QED BY <1>1, InductiveInvariant, PTL

(* Whenever the event loop is reached, oc_devices holds only devices whose owner
   credential the tool has.                                                 *)
THEOREM DevicesAreOwned ==
  ASSUME Guarded
  PROVE  Spec => []OwnedHaveCreds
<1>1. IInv => OwnedHaveCreds
  <2> SUFFICES ASSUME IInv, EventLoop, NEW h \in Handle, list[h] = "devices"
               PROVE  uuid[h] \in creds
    BY DEF OwnedHaveCreds
  <2>1. ~BeingReset(h)
    BY LoopCalm DEF BeingReset
  <2> QED BY <2>1 DEF IInv, CredsInv
<1> QED BY <1>1, InductiveInvariant, PTL

(* No request of an ownership transfer is refused because of the state that the
   requests before it left the device in.                                   *)
THEOREM TransfersFit ==
  ASSUME Guarded
  PROVE  Spec => []TransferFits
<1>1. IInv => TransferFits
  <2> SUFFICES ASSUME IInv, NEW c \in Waiting, ctx[c].kind \in Transfer
               PROVE  Accepts(Target(c), StepOf(c))
    BY DEF TransferFits
  <2>1. CtxOK /\ StackInv /\ TypeInv
    BY DEF IInv, TypeInv
  <2>2. c \in Active \ unheard /\ ctx[c].out /\ c \in Ctx
    BY DEF Waiting, Active
  <2> DEFINE d == ctx[c].d1
             s == StepOf(c)
  <2>3. Target(c) = d /\ d \in Device /\ s \in TransferSteps
    <3>1. ctx[c].kind # "pair"
      BY DEF Transfer
    <3> QED BY <2>1, <2>2, <3>1, StepFacts
  <2>4. Progress(d, uuid[ctx[c].h1], s)
    BY <2>1, <2>2, EndedHeld DEF IInv, TransferInv
  <2> HIDE DEF d, s
  <2>5. s \in Setup \cup {"deviceuuid", "owned"} => dos[d] = "RFOTM"
    <3>1. s \in Setup \cup {"deviceuuid", "owned"} => s \notin Operating
      BY DEF Setup, Operating
    <3> QED BY <2>4, <3>1 DEF Progress
  <2>6. s \in {"rfpro", "rfnop"} \cup (Switch \ {"RESET"}) => ProvisionedDevice(d)
    <3>1. SUFFICES ASSUME s \in {"rfpro", "rfnop"} \cup (Switch \ {"RESET"})
                   PROVE  ProvisionedDevice(d)
      OBVIOUS
    <3>2. s = "rfpro" \/ s = "rfnop"
      BY <2>3, <3>1, StepSets
    <3>3. /\ s \notin UpToOwner /\ s \notin UpToDoxm /\ s \notin UpToAcl
          /\ s \notin UpToPstat /\ s \notin UpToCred /\ s \notin UpToOwned
      BY <3>2 DEF UpToOwner, UpToDoxm, UpToAcl, UpToPstat, UpToCred, UpToOwned
    <3>4. Setup \subseteq configured[d] /\ owned[d]
      BY <2>4, <3>3 DEF Progress, Setup
    <3>5. configured[d] \subseteq Setup
      BY <2>1, <2>3 DEF TypeInv
    <3> QED BY <3>4, <3>5 DEF ProvisionedDevice
  <2>7. s \in {"cred", "cred2", "trustca", "delete cred", "delete acl", "delete ace"} =>
          dos[d] # "RFNOP"
    <3>1. s \in {"cred", "cred2", "trustca", "delete cred", "delete acl", "delete ace"} =>
            s \in Operating
      BY <2>3 DEF TransferSteps, Operating
    <3> QED BY <2>4, <3>1 DEF Progress
  <2>8. Accepts(d, s)
    BY <2>5, <2>6, <2>7 DEF Accepts
  <2> QED BY <2>3, <2>8 DEF s
<1> QED BY <1>1, InductiveInvariant, PTL

(* A transfer reported as done was done: the device is operational, with the
   identity and the owner credential the tool has noted for it.             *)
THEOREM TransfersReportTrue ==
  ASSUME Guarded
  PROVE  Spec => []TransferTrue
<1>1. IInv => TransferTrue
  <2> SUFFICES ASSUME IInv, In("called"), ctx[Top[2]].kind \in Transfer, Top[3] = 0,
                      NEW c, c = Top[2]
               PROVE  /\ dos[ctx[c].d1] = "RFNOP" /\ ProvisionedDevice(ctx[c].d1)
                      /\ deviceuuid[ctx[c].d1] = uuid[ctx[c].h1]
                      /\ deviceuuid[ctx[c].d1] \in creds
    BY DEF TransferTrue
  <2>1. /\ stack # <<>> /\ Head(stack)[1] \in {"end", "called"} /\ Head(stack)[3] = 0
        /\ c = Head(stack)[2]
    BY DEF In, Top
  <2>2. c \in Active /\ Ended(c, 0)
    BY <2>1, EndingProcedure
  <2>3. Finished(ctx[c].d1, uuid[ctx[c].h1])
    BY <2>2 DEF IInv, TransferInv
  <2> QED BY <2>3 DEF Finished
<1> QED BY <1>1, InductiveInvariant, PTL
=============================================================================
