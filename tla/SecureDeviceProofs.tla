-------------------------- MODULE SecureDeviceProofs --------------------------
(***************************************************************************)
(* Theorems about SecureDevice for every set of identities.                *)
(***************************************************************************)
EXTENDS SecureDevice, TLAPS

USE UuidAssumption, AbsentAssumption, EmptyAssumption

(* A property of a request or, in its absence, the old value is of the type
   of both. *)
LEMMA ChooseType == ASSUME NEW S, Absent \notin S, NEW old \in S, NEW new \in S \cup {Absent}
                    PROVE  Choose(new, old) \in S
  BY DEF Choose

(* The defaults of a reset are typed. *)
LEMMA DefaultsTyped == /\ DefaultPstat \in Pstat /\ DefaultDoxm \in Doxm
                       /\ DefaultCred \in Cred /\ DefaultAcl \in Acl
  BY DEF DefaultPstat, DefaultDoxm, DefaultCred, DefaultAcl, Pstat, Doxm, Cred, Acl,
         Owner, DosType

(* The least file of dirty: with a single pending file it is that file, and
   pstat comes last.                                                        *)
LEMMA CurrentPstat == ASSUME TypeOK, Current("pstat")
                      PROVE  dirty = {"pstat"}
<1>1. PICK i \in 1 .. 4 : /\ "pstat" = WriteOrder[i]
                          /\ "pstat" \in dirty
                          /\ \A j \in 1 .. i - 1 : WriteOrder[j] \notin dirty
  BY DEF Current
<1>2. i = 4
  BY <1>1 DEF WriteOrder
<1>3. "doxm" \notin dirty /\ "cred" \notin dirty /\ "acl" \notin dirty
  <2>1. WriteOrder[1] \notin dirty /\ WriteOrder[2] \notin dirty /\ WriteOrder[3] \notin dirty
    BY <1>1, <1>2
  <2>. QED  BY <2>1 DEF WriteOrder
<1>. QED  BY <1>1, <1>3 DEF TypeOK, File

(* The first boot is typed, *)
LEMMA TypeInit == Init => TypeOK
  BY DefaultsTyped DEF Init, TypeOK, File

(* and every request, file write, restart and power failure keeps it so. *)
LEMMA TypeNext == TypeOK /\ [Next]_vars => TypeOK'
<1>. SUFFICES ASSUME TypeOK, [Next]_vars PROVE TypeOK'
  OBVIOUS
<1>. USE DEF TypeOK
<1>1. ASSUME NEW r \in PstatRequest, PostPstat(r) PROVE TypeOK'
  <2>1. Choose(r.s, pstat.s) \in DosType /\ Choose(r.rowneruuid, pstat.rowneruuid) \in Owner
    BY DEF PstatRequest, Pstat, Choose, Owner
  <2>2. pstat' \in Pstat
    BY <1>1, <2>1 DEF PostPstat, Pstat
  <2>. QED  BY <1>1, <2>2 DEF PostPstat, Idle, File
<1>2. ASSUME Reset PROVE TypeOK'
  BY <1>2, DefaultsTyped DEF Reset, Idle, File
<1>3. ASSUME NEW r \in DoxmRequest, PostDoxm(r) PROVE TypeOK'
  <2>1. /\ Choose(r.owned, doxm.owned) \in BOOLEAN
        /\ Choose(r.devowneruuid, doxm.devowneruuid) \in Owner
        /\ Choose(r.rowneruuid, doxm.rowneruuid) \in Owner
        /\ Choose(r.hasDeviceuuid, doxm.hasDeviceuuid) \in BOOLEAN
    BY DEF DoxmRequest, Doxm, Choose, Owner
  <2>2. doxm' \in Doxm
    BY <1>3, <2>1 DEF PostDoxm, Doxm
  <2>. QED  BY <1>3, <2>2 DEF PostDoxm, Idle, File
<1>4. ASSUME NEW r \in CredRequest PROVE AfterCred(r) \in Cred
  BY DEF CredRequest, Cred, AfterCred, Choose, Owner
<1>5. ASSUME NEW r \in CredRequest, PostCred(r) PROVE TypeOK'
  BY <1>4, <1>5 DEF PostCred, Idle, File
<1>6. ASSUME NEW r \in CredRequest, PostCredRejected(r) PROVE TypeOK'
  <2>1. cred' \in Cred
    <3>1. CASE cred' = AfterCred(r)
      BY <1>4, <3>1
    <3>2. CASE cred' = [creds |-> cred.creds \ {r.replaced},
                        rowneruuid |-> Choose(r.rowneruuid, cred.rowneruuid)]
      BY <3>2 DEF CredRequest, Cred, Choose, Owner
    <3>. QED  BY <1>6, <3>1, <3>2 DEF PostCredRejected
  <2>. QED  BY <1>6, <2>1 DEF PostCredRejected
<1>7. ASSUME NEW gone, DeleteCred(gone) PROVE TypeOK'
  <2>1. cred' \in Cred
    BY <1>7 DEF DeleteCred, Cred
  <2>. QED  BY <1>7, <2>1 DEF DeleteCred, Idle, File
<1>7a. ASSUME NEW u \in Owner \cup {Absent}, NEW gone, PostRoles(u) \/ PostRolesRejected(u, gone)
       PROVE  TypeOK'
  <2>1. cred' \in Cred
    BY <1>7a DEF PostRoles, PostRolesRejected, Cred, Choose, Owner
  <2>2. CASE PostRoles(u)
    BY <2>1, <2>2 DEF PostRoles, Idle, File
  <2>3. CASE PostRolesRejected(u, gone)
    BY <2>1, <2>3 DEF PostRolesRejected
  <2>. QED  BY <1>7a, <2>2, <2>3
<1>7b. CASE DeleteRoles
  BY <1>7b DEF DeleteRoles, Idle, File
<1>8. ASSUME NEW u \in Owner \cup {Absent}, PostAcl(u) PROVE TypeOK'
  BY <1>8 DEF PostAcl, Idle, File, Acl, Choose, Owner
<1>9. CASE DeleteAcl
  BY <1>9 DEF DeleteAcl, Idle, File
<1>10. ASSUME NEW f \in File, OpenFile(f) PROVE TypeOK'
  BY <1>10 DEF OpenFile, Current, File
<1>11. ASSUME NEW f \in File, FillFile(f) PROVE TypeOK'
  <2>1. unsaved' \in BOOLEAN
    BY <1>11 DEF FillFile
  <2>. QED  BY <1>11, <2>1 DEF FillFile, Current, File, Memory
<1>12. CASE Boot
  <2>1. ZeroDoxm \in Doxm
    BY DEF ZeroDoxm, Doxm, Owner
  <2>2. LoadDoxm \in Doxm /\ LoadCred \in Cred /\ LoadAcl \in Acl
    BY <2>1, DefaultsTyped DEF LoadDoxm, LoadCred, LoadAcl
  <2>3. CASE Load
    BY <1>12, <2>2, <2>3 DEF Boot, Load, File
  <2>4. CASE LoadDefault
    BY <1>12, <2>4, DefaultsTyped DEF Boot, LoadDefault, File
  <2>. QED  BY <1>12, <2>3, <2>4 DEF Boot
<1>13. CASE UNCHANGED vars
  BY <1>13 DEF vars
<1>. QED
  BY <1>1, <1>2, <1>3, <1>5, <1>6, <1>7, <1>7a, <1>7b, <1>8, <1>9, <1>10, <1>11, <1>12, <1>13
     DEF Next, Requests, PostPstatReset, ResetDevice, Restart, PowerFail

(* The resources and files keep their types through every request, restart
   and power failure.                                                       *)
THEOREM DeviceTypeCorrect == Spec => []TypeOK
  BY TypeInit, TypeNext, PTL DEF Spec

-----------------------------------------------------------------------------
(* The environments in which an operational device stays owned: power does
   not fail while a handler writes.                                         *)
CalmEnv == "crash" \notin Env /\ "torn" \notin Env

(* The files not being written agree with memory, that of the credentials
   unless a refused POST has changed memory alone.                          *)
FilesAgree ==
  \A f \in File \ dirty : store[f] = Memory(f) \/ (f = "cred" /\ unsaved)

(* Memory alone differs only in cred, whose file holds something. *)
CredFileFull == "cred" \notin dirty => store["cred"] # Empty

OwnedInv == TypeOK /\ OperationalOwned /\ FilesAgree /\ CredFileFull

(* A device that was never owned is not operational. *)
LEMMA OwnedInvInit == Init => OwnedInv
  BY TypeInit DEF Init, OwnedInv, OperationalOwned, FilesAgree, CredFileFull, DefaultPstat, File

(* Requests and file writes keep memory and the clean files equal. *)
LEMMA FilesAgreeNext == ASSUME CalmEnv, OwnedInv, [Next]_vars, ~Restart
                        PROVE  FilesAgree' /\ CredFileFull'
<1>. DEFINE Agrees(g) == store[g] = Memory(g) \/ (g = "cred" /\ unsaved)
<1>. SUFFICES ASSUME NEW g \in File, g \notin dirty'
              PROVE  Agrees(g)' /\ (g = "cred" => store'["cred"] # Empty)
  BY DEF FilesAgree, CredFileFull, File
<1>0. g \notin dirty => Agrees(g) /\ (g = "cred" => store["cred"] # Empty)
  BY DEF OwnedInv, FilesAgree, CredFileFull
<1>. USE DEF File, Memory
<1>1. ASSUME NEW r \in PstatRequest, PostPstat(r)
      PROVE  Agrees(g)' /\ (g = "cred" => store'["cred"] # Empty)
  BY <1>0, <1>1 DEF PostPstat, Idle
<1>2. ASSUME Reset PROVE Agrees(g)' /\ (g = "cred" => store'["cred"] # Empty)
  BY <1>2 DEF Reset
<1>3. ASSUME NEW r \in DoxmRequest, PostDoxm(r)
      PROVE  Agrees(g)' /\ (g = "cred" => store'["cred"] # Empty)
  BY <1>0, <1>3 DEF PostDoxm, Idle
<1>4. ASSUME NEW r \in CredRequest, PostCred(r)
      PROVE  Agrees(g)' /\ (g = "cred" => store'["cred"] # Empty)
  BY <1>0, <1>4 DEF PostCred, Idle
<1>5. ASSUME NEW r \in CredRequest, PostCredRejected(r)
      PROVE  Agrees(g)' /\ (g = "cred" => store'["cred"] # Empty)
  BY <1>0, <1>5 DEF PostCredRejected, Idle
<1>6. ASSUME NEW gone, DeleteCred(gone)
      PROVE  Agrees(g)' /\ (g = "cred" => store'["cred"] # Empty)
  BY <1>0, <1>6 DEF DeleteCred, Idle
<1>6a. ASSUME NEW u, NEW gone, PostRoles(u) \/ PostRolesRejected(u, gone) \/ DeleteRoles
       PROVE  Agrees(g)' /\ (g = "cred" => store'["cred"] # Empty)
  BY <1>0, <1>6a DEF PostRoles, PostRolesRejected, DeleteRoles, Idle
<1>7. ASSUME NEW u \in Owner \cup {Absent}, PostAcl(u)
      PROVE  Agrees(g)' /\ (g = "cred" => store'["cred"] # Empty)
  BY <1>0, <1>7 DEF PostAcl, Idle
<1>8. CASE DeleteAcl
  BY <1>0, <1>8 DEF DeleteAcl, Idle
<1>9. ASSUME NEW f \in File, OpenFile(f)
      PROVE  Agrees(g)' /\ (g = "cred" => store'["cred"] # Empty)
  <2>1. g # f /\ store'[g] = store[g]
    BY <1>9 DEF OpenFile, Current, OwnedInv, TypeOK
  <2>. QED  BY <1>0, <1>9, <2>1 DEF OpenFile
<1>10. ASSUME NEW f \in File, FillFile(f)
       PROVE  Agrees(g)' /\ (g = "cred" => store'["cred"] # Empty)
  <2>1. CASE g = f
    BY <1>10, <2>1 DEF FillFile, OwnedInv, TypeOK
  <2>2. CASE g # f
    <3>1. store'[g] = store[g] /\ g \notin dirty
      BY <1>10, <2>2 DEF FillFile, OwnedInv, TypeOK
    <3>2. g = "cred" => unsaved' = unsaved
      BY <1>10, <2>2 DEF FillFile, OwnedInv, TypeOK
    <3>. QED  BY <1>0, <1>10, <3>1, <3>2 DEF FillFile
  <2>. QED  BY <2>1, <2>2
<1>11. CASE PowerFail
  BY <1>11 DEF PowerFail, CalmEnv
<1>12. CASE UNCHANGED vars
  BY <1>0, <1>12 DEF vars
<1>. QED
  BY <1>1, <1>2, <1>3, <1>4, <1>5, <1>6, <1>6a, <1>7, <1>8, <1>9, <1>10, <1>11, <1>12
     DEF Next, Requests, PostPstatReset, ResetDevice

(* A restart in a calm environment reads back what memory held, except for
   credentials that only refused POSTs had changed.                         *)
LEMMA RestartReadsBack == ASSUME CalmEnv, OwnedInv, Restart
                          PROVE  /\ pstat' = pstat /\ doxm' = doxm /\ acl' = acl
                                 /\ cred' = store["cred"] /\ store["cred"] # Empty
                                 /\ store' = store /\ dirty' = {}
<1>1. \A f \in File : store[f] = Memory(f) \/ f = "cred"
  BY DEF CalmEnv, OwnedInv, FilesAgree, Restart, Idle
<1>2. store["pstat"] = pstat /\ store["doxm"] = doxm /\ store["acl"] = acl
  BY <1>1 DEF File, Memory
<1>3. /\ store["pstat"] # Empty /\ store["doxm"] # Empty
      /\ store["cred"] # Empty /\ store["acl"] # Empty
  BY <1>2 DEF OwnedInv, TypeOK, CredFileFull, Restart, Idle
<1>. QED
  BY <1>2, <1>3 DEF Restart, Boot, Load, LoadDefault, LoadDoxm, LoadCred, LoadAcl

(* Every step of a calm environment keeps an operational device owned. *)
LEMMA OperationalNext == ASSUME CalmEnv, OwnedInv, [Next]_vars
                         PROVE  OperationalOwned'
<1>. USE DEF OperationalOwned
<1>0. TypeOK /\ OperationalOwned
  BY DEF OwnedInv
<1>1. ASSUME NEW r \in PstatRequest, PostPstat(r) PROVE OperationalOwned'
  <2>1. CASE r.s = Absent
    <3>1. pstat'.s = pstat.s /\ pstat'.isop = pstat.isop
      BY <1>1, <2>1 DEF PostPstat, Choose
    <3>2. pstat.s = "RFNOP" => pstat'.rowneruuid = pstat.rowneruuid
      BY <1>1, <2>1 DEF PostPstat, PstatOwnerAllowed, Choose
    <3>. QED  BY <1>0, <1>1, <3>1, <3>2 DEF PostPstat
  <2>2. CASE r.s # Absent
    <3>1. /\ pstat'.s = r.s /\ pstat'.isop = (r.s = "RFNOP")
          /\ StateAccepted(r.s, pstat'.rowneruuid)
      BY <1>1, <2>2 DEF PostPstat, Choose
    <3>. QED  BY <1>1, <3>1 DEF PostPstat, StateAccepted, Provisioned, OwnerHasCred
  <2>. QED  BY <2>1, <2>2
<1>2. ASSUME Reset PROVE OperationalOwned'
  BY <1>2 DEF Reset, DefaultPstat
<1>3. ASSUME NEW r \in DoxmRequest, PostDoxm(r) PROVE OperationalOwned'
  <2>1. pstat.s = "RFNOP" => doxm' = doxm
    BY <1>0, <1>3 DEF PostDoxm, Choose, TypeOK, Doxm
  <2>. QED  BY <1>0, <1>3, <2>1 DEF PostDoxm
<1>4. ASSUME NEW r \in CredRequest, PostCred(r) \/ PostCredRejected(r)
      PROVE  OperationalOwned'
  BY <1>0, <1>4 DEF PostCred, PostCredRejected
<1>5. ASSUME NEW gone, DeleteCred(gone) PROVE OperationalOwned'
  BY <1>0, <1>5 DEF DeleteCred
<1>5a. ASSUME NEW u, NEW gone, PostRoles(u) \/ PostRolesRejected(u, gone) \/ DeleteRoles
       PROVE  OperationalOwned'
  BY <1>0, <1>5a DEF PostRoles, PostRolesRejected, DeleteRoles
<1>6. ASSUME NEW u \in Owner \cup {Absent}, PostAcl(u) PROVE OperationalOwned'
  BY <1>0, <1>6 DEF PostAcl, Choose, TypeOK, Acl
<1>7. CASE DeleteAcl
  BY <1>0, <1>7 DEF DeleteAcl
<1>8. ASSUME NEW f \in File, OpenFile(f) \/ FillFile(f) PROVE OperationalOwned'
  BY <1>0, <1>8 DEF OpenFile, FillFile
<1>9. CASE Restart
  BY <1>0, <1>9, RestartReadsBack
<1>10. CASE PowerFail
  BY <1>10 DEF PowerFail, CalmEnv
<1>11. CASE UNCHANGED vars
  BY <1>0, <1>11 DEF vars
<1>. QED
  BY <1>1, <1>2, <1>3, <1>4, <1>5, <1>5a, <1>6, <1>7, <1>8, <1>9, <1>10, <1>11
     DEF Next, Requests, PostPstatReset, ResetDevice

(* The parts of OwnedInv hold together in a calm environment. *)
LEMMA OwnedInvAlways == ASSUME CalmEnv PROVE Spec => []OwnedInv
<1>1. OwnedInv /\ [Next]_vars => OwnedInv'
  <2>. SUFFICES ASSUME OwnedInv, [Next]_vars PROVE OwnedInv'
    OBVIOUS
  <2>1. TypeOK'
    BY TypeNext DEF OwnedInv
  <2>2. FilesAgree' /\ CredFileFull'
    <3>1. CASE Restart
      <4>1. \A f \in File : store[f] = Memory(f) \/ f = "cred"
        BY <3>1 DEF OwnedInv, FilesAgree, Restart, Idle
      <4>2. \A f \in File : store'[f] = Memory(f)'
        BY <3>1, <4>1, RestartReadsBack DEF Memory, File
      <4>. QED  BY <3>1, <4>2, RestartReadsBack DEF FilesAgree, CredFileFull
    <3>2. CASE ~Restart
      BY <3>2, FilesAgreeNext
    <3>. QED  BY <3>1, <3>2
  <2>3. OperationalOwned'
    BY OperationalNext
  <2>. QED  BY <2>1, <2>2, <2>3 DEF OwnedInv
<1>. QED  BY <1>1, OwnedInvInit, PTL DEF Spec

(* While power does not fail in the middle of a write, an operational device
   keeps its owner and the owners of pstat, doxm and acl2, through refused
   requests and restarts too.                                               *)
THEOREM OperationalStaysOwned == ASSUME CalmEnv PROVE Spec => []OperationalOwned
<1>1. OwnedInv => OperationalOwned
  BY DEF OwnedInv
<1>. QED  BY <1>1, OwnedInvAlways, PTL

(* While power does not fail in the middle of a write, the files hold the
   running device between any two handlers, except for what refused POSTs
   changed in cred since its file was written or read.                      *)
THEOREM FilesHoldDevice == ASSUME CalmEnv PROVE Spec => []Durable
<1>1. OwnedInv => Durable
  BY DEF OwnedInv, FilesAgree, Durable, Idle
<1>. QED  BY <1>1, OwnedInvAlways, PTL

(* In every environment, power failures included, an accepted request that
   leaves the device operational takes no credential from the owners of
   pstat, doxm and acl2.                                                    *)
THEOREM AcceptedTakesNoOwner == Spec => AcceptedKeepsReachable
<1>1. TypeOK /\ [Next]_vars
        => [/\ Idle /\ ~Idle'
            /\ pstat'.s = "RFNOP"
            /\ pstat.s = "RFNOP" => Reachable
            => Reachable']_vars
  <2>. SUFFICES ASSUME TypeOK, Next, Idle, ~Idle', pstat'.s = "RFNOP",
                       pstat.s = "RFNOP" => Reachable
                PROVE  Reachable'
    OBVIOUS
  <2>. USE DEF Reachable, OwnerHasCred
  <2>1. ASSUME NEW r \in PstatRequest, PostPstat(r) PROVE Reachable'
    <3>1. CASE r.s = Absent
      <4>1. pstat'.s = pstat.s /\ pstat'.rowneruuid = pstat.rowneruuid
        BY <2>1, <3>1 DEF PostPstat, PstatOwnerAllowed, Choose
      <4>. QED  BY <2>1, <4>1 DEF PostPstat
    <3>2. CASE r.s # Absent
      <4>1. StateAccepted("RFNOP", pstat'.rowneruuid)
        BY <2>1, <3>2 DEF PostPstat, Choose
      <4>. QED  BY <2>1, <4>1 DEF PostPstat, StateAccepted, Provisioned
    <3>. QED  BY <3>1, <3>2
  <2>2. ASSUME Reset PROVE Reachable'
    BY <2>2 DEF Reset, DefaultPstat
  <2>3. ASSUME NEW r \in DoxmRequest, PostDoxm(r) PROVE Reachable'
    BY <2>3 DEF PostDoxm, Choose
  <2>4. ASSUME NEW r \in CredRequest, PostCred(r) PROVE Reachable'
    <3>1. cred'.creds = cred.creds
      BY <2>4 DEF PostCred, CredAllowed, AfterCred, TypeOK, Cred
    <3>. QED  BY <2>4, <3>1 DEF PostCred
  <2>5. ASSUME NEW gone, DeleteCred(gone) PROVE Reachable'
    BY <2>5 DEF DeleteCred
  <2>6. ASSUME NEW u, PostRoles(u) \/ DeleteRoles PROVE Reachable'
    BY <2>6 DEF PostRoles, DeleteRoles
  <2>7. ASSUME NEW u \in Owner \cup {Absent}, PostAcl(u) PROVE Reachable'
    BY <2>7 DEF PostAcl, Choose, TypeOK, Acl
  <2>8. CASE DeleteAcl
    BY <2>8 DEF DeleteAcl
  <2>9. ASSUME NEW f \in File, OpenFile(f) \/ FillFile(f) PROVE FALSE
    BY <2>9 DEF OpenFile, FillFile, Current, Idle
  <2>10. ASSUME NEW r, NEW u, NEW gone, PostCredRejected(r) \/ PostRolesRejected(u, gone)
         PROVE  FALSE
    BY <2>10 DEF PostCredRejected, PostRolesRejected, Idle
  <2>11. CASE Restart
    BY <2>11 DEF Restart, Boot, Load, LoadDefault, Idle, DefaultPstat
  <2>12. CASE PowerFail
    BY <2>12 DEF PowerFail
  <2>. QED
    BY <2>1, <2>2, <2>3, <2>4, <2>5, <2>6, <2>7, <2>8, <2>9, <2>10, <2>11, <2>12
       DEF Next, Requests, PostPstatReset, ResetDevice
<1>. QED  BY <1>1, DeviceTypeCorrect, PTL DEF Spec, AcceptedKeepsReachable

-----------------------------------------------------------------------------
(* What survives every power failure.  A pstat file past RFOTM is
   accompanied by a doxm file that is empty or names the owner if it says
   owned (PstatFileOwned), and memory past RFOTM by one with the same owner
   or none (SameOwnerOnFile).                                               *)
NamesOwner(d) == d.owned => d.devowneruuid # Nil

PstatFileOwned ==
  \/ store["pstat"] = Empty
  \/ store["pstat"].s = "RFOTM"
  \/ store["doxm"] = Empty
  \/ NamesOwner(store["doxm"])

SameOwnerOnFile ==
  \/ pstat.s = "RFOTM"
  \/ store["doxm"] = Empty
  \/ store["doxm"].devowneruuid \in {doxm.devowneruuid, Nil}

PstatFileCurrent == "pstat" \notin dirty => store["pstat"] = pstat

DoxmFileCurrent ==
  "doxm" \notin dirty => \/ store["doxm"] = doxm
                         \/ store["doxm"] = Empty

(* Only a reset writes both, and it leaves no owner. *)
BothDirtyInReset == {"doxm", "pstat"} \subseteq dirty => pstat.s = "RFOTM" /\ ~doxm.owned

PowerInv == /\ TypeOK /\ OwnedNamesOwner
            /\ PstatFileOwned /\ SameOwnerOnFile
            /\ PstatFileCurrent /\ DoxmFileCurrent /\ BothDirtyInReset

(* With no files there is nothing to disagree. *)
LEMMA PowerInvInit == Init => PowerInv
  BY TypeInit DEF Init, PowerInv, OwnedNamesOwner, PstatFileOwned, SameOwnerOnFile,
     PstatFileCurrent, DoxmFileCurrent, BothDirtyInReset, DefaultPstat, DefaultDoxm, File

(* Every step of every environment preserves PowerInv. *)
LEMMA PowerInvNext == PowerInv /\ [Next]_vars => PowerInv'
<1>. SUFFICES ASSUME PowerInv, [Next]_vars PROVE PowerInv'
  OBVIOUS
<1>0. TypeOK'
  BY TypeNext DEF PowerInv
<1>. USE <1>0 DEF PowerInv, OwnedNamesOwner, PstatFileOwned, SameOwnerOnFile,
                  PstatFileCurrent, DoxmFileCurrent, BothDirtyInReset, NamesOwner
<1>1. ASSUME NEW r \in PstatRequest, PostPstat(r) PROVE PowerInv'
  <2>1. pstat'.s # "RFOTM" => NamesOwner(doxm)
    <3>1. CASE r.s = Absent
      BY <1>1, <3>1 DEF PostPstat, Choose
    <3>2. CASE r.s # Absent
      BY <1>1, <3>2 DEF PostPstat, Choose, StateAccepted, Provisioned
    <3>. QED  BY <3>1, <3>2
  <2>. QED  BY <1>1, <2>1 DEF PostPstat, Idle
<1>2. ASSUME Reset PROVE PowerInv'
  BY <1>2 DEF Reset, DefaultPstat, DefaultDoxm, File
<1>3. ASSUME NEW r \in DoxmRequest, PostDoxm(r) PROVE PowerInv'
  <2>1. pstat.s # "RFOTM" => doxm'.owned = doxm.owned /\ doxm'.devowneruuid = doxm.devowneruuid
    BY <1>3 DEF PostDoxm, Choose
  <2>. QED  BY <1>3, <2>1 DEF PostDoxm, Idle
<1>4. ASSUME NEW r \in CredRequest, PostCred(r) \/ PostCredRejected(r) PROVE PowerInv'
  BY <1>4 DEF PostCred, PostCredRejected, Idle
<1>5. ASSUME NEW gone, DeleteCred(gone) PROVE PowerInv'
  BY <1>5 DEF DeleteCred, Idle
<1>5a. ASSUME NEW u, NEW gone, PostRoles(u) \/ PostRolesRejected(u, gone) \/ DeleteRoles
       PROVE  PowerInv'
  BY <1>5a DEF PostRoles, PostRolesRejected, DeleteRoles, Idle
<1>6. ASSUME NEW u, PostAcl(u) PROVE PowerInv'
  BY <1>6 DEF PostAcl, Idle
<1>7. CASE DeleteAcl
  BY <1>7 DEF DeleteAcl, Idle
<1>8. ASSUME NEW f \in File, OpenFile(f) PROVE PowerInv'
  BY <1>8 DEF OpenFile, Current, TypeOK, File
<1>9. ASSUME NEW f \in File, FillFile(f) PROVE PowerInv'
  <2>1. CASE f = "pstat"
    <3>1. dirty = {"pstat"}
      BY <1>9, <2>1, CurrentPstat DEF FillFile
    <3>2. store'["pstat"] = pstat /\ store'["doxm"] = store["doxm"]
      BY <1>9, <2>1 DEF FillFile, Memory, TypeOK, File
    <3>. QED  BY <1>9, <2>1, <3>1, <3>2 DEF FillFile
  <2>2. CASE f = "doxm"
    <3>1. store'["pstat"] = store["pstat"] /\ store'["doxm"] = doxm
      BY <1>9, <2>2 DEF FillFile, Memory, TypeOK, File
    <3>2. "doxm" \in dirty /\ dirty' = dirty \ {"doxm"}
      BY <1>9, <2>2 DEF FillFile, Current
    <3>. QED  BY <1>9, <2>2, <3>1, <3>2 DEF FillFile
  <2>3. CASE f \notin {"pstat", "doxm"}
    <3>1. store'["pstat"] = store["pstat"] /\ store'["doxm"] = store["doxm"]
      BY <1>9, <2>3 DEF FillFile, TypeOK, File
    <3>. QED  BY <1>9, <2>3, <3>1 DEF FillFile
  <2>. QED  BY <2>1, <2>2, <2>3
<1>10. CASE Boot
  <2>1. CASE Load
    BY <1>10, <2>1 DEF Boot, Load, LoadDoxm, ZeroDoxm
  <2>2. CASE LoadDefault
    BY <1>10, <2>2 DEF Boot, LoadDefault, DefaultPstat, DefaultDoxm, File
  <2>. QED  BY <1>10, <2>1, <2>2 DEF Boot
<1>11. CASE UNCHANGED vars
  BY <1>11 DEF vars
<1>. QED
  BY <1>1, <1>2, <1>3, <1>4, <1>5, <1>5a, <1>6, <1>7, <1>8, <1>9, <1>10, <1>11
     DEF Next, Requests, PostPstatReset, ResetDevice, Restart, PowerFail

(* PowerInv is an invariant of the device. *)
LEMMA PowerInvAlways == Spec => []PowerInv
  BY PowerInvInit, PowerInvNext, PTL DEF Spec

(* In every environment, power failures included, a device past ownership
   transfer that says it is owned names its owner.                          *)
THEOREM OwnedAlwaysNamesOwner == Spec => []OwnedNamesOwner
<1>1. PowerInv => OwnedNamesOwner
  BY DEF PowerInv
<1>. QED  BY <1>1, PowerInvAlways, PTL

(* In every environment the owner of a device past ownership transfer is
   never replaced by another one in one step.                               *)
THEOREM OwnerNeverSwapped == Spec => OwnerKeptUntilReset
<1>1. PowerInv /\ [Next]_vars
        => [pstat.s # "RFOTM" => doxm'.devowneruuid \in {doxm.devowneruuid, Nil}]_vars
  <2>. SUFFICES ASSUME PowerInv, Next, pstat.s # "RFOTM"
                PROVE  doxm'.devowneruuid \in {doxm.devowneruuid, Nil}
    OBVIOUS
  <2>1. ASSUME NEW r \in PstatRequest, PostPstat(r) PROVE doxm' = doxm
    BY <2>1 DEF PostPstat
  <2>2. ASSUME Reset PROVE doxm'.devowneruuid = Nil
    BY <2>2 DEF Reset, DefaultDoxm
  <2>3. ASSUME NEW r \in DoxmRequest, PostDoxm(r) PROVE doxm'.devowneruuid = doxm.devowneruuid
    BY <2>3 DEF PostDoxm, Choose
  <2>4. ASSUME NEW r \in CredRequest, PostCred(r) \/ PostCredRejected(r) PROVE doxm' = doxm
    BY <2>4 DEF PostCred, PostCredRejected
  <2>5. ASSUME NEW u, DeleteCred(u) \/ PostAcl(u) \/ DeleteAcl PROVE doxm' = doxm
    BY <2>5 DEF DeleteCred, PostAcl, DeleteAcl
  <2>5a. ASSUME NEW u, NEW gone, PostRoles(u) \/ PostRolesRejected(u, gone) \/ DeleteRoles
         PROVE  doxm' = doxm
    BY <2>5a DEF PostRoles, PostRolesRejected, DeleteRoles
  <2>6. ASSUME NEW f \in File, OpenFile(f) \/ FillFile(f) PROVE doxm' = doxm
    BY <2>6 DEF OpenFile, FillFile
  <2>7. CASE Boot
    BY <2>7 DEF Boot, Load, LoadDefault, LoadDoxm, ZeroDoxm, DefaultDoxm, PowerInv,
       SameOwnerOnFile
  <2>. QED
    BY <2>1, <2>2, <2>3, <2>4, <2>5, <2>5a, <2>6, <2>7
       DEF Next, Requests, PostPstatReset, ResetDevice, Restart, PowerFail
<1>. QED  BY <1>1, PowerInvAlways, PTL DEF Spec, OwnerKeptUntilReset
=============================================================================
