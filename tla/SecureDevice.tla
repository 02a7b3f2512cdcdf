---------------------------- MODULE SecureDevice ----------------------------
(***************************************************************************)
(* The security virtual resources of one device and their files: pstat     *)
(* (security/oc_pstat.c), doxm (oc_doxm.c), cred (oc_cred.c) and acl2      *)
(* (oc_acl.c), stored by oc_store.c and port/linux/storage.c and loaded by *)
(* oc_main_init.                                                           *)
(*                                                                         *)
(* Handlers run one at a time on the event loop.  A handler changes the    *)
(* resources in memory and then writes the files named in dirty, in the    *)
(* order doxm, cred, acl, pstat; oc_storage_write truncates a file         *)
(* (fopen "wb") before it fills it.  Only a power failure can come between *)
(* two of these steps.                                                     *)
(*                                                                         *)
(* Requests are any that oc_sec_check_acl lets through.  The access        *)
(* control entries themselves, the om, tm, cm and sm modes, oxmsel and the *)
(* secrets inside credentials are left out: no decision modelled here      *)
(* reads them.  A credential is its subject.  The manufacturer             *)
(* certificates that the application's factory presets callback installs   *)
(* during a reset have the device itself or "*" as subject, never a peer:  *)
(* they are left out, and so is their rewriting of the cred file that the  *)
(* same reset has just rewritten.                                          *)
(***************************************************************************)
EXTENDS Naturals, Sequences

CONSTANTS Uuid,    \* identities of onboarding tools and other peers
          Nil,     \* the nil UUID
          Absent,  \* a property a request does not carry
          Empty,   \* a file without data, or no file
          Env      \* what the environment may do besides well-formed requests

(* "restart": the process stops between two handlers and starts again;
   "crash": power fails between two file writes of one handler;
   "torn": power fails between the truncation and the filling of a file;
   "reject": a POST to /oic/sec/cred or /oic/sec/roles whose later entries
   are refused.                                                             *)
ASSUME EnvAssumption == Env \subseteq {"restart", "crash", "torn", "reject"}
ASSUME UuidAssumption == Nil \notin Uuid /\ Absent \notin Uuid \cup {Nil} \cup BOOLEAN

VARIABLES pstat, doxm, cred, acl,  \* the resources in memory
          store,                   \* the file of each resource
          dirty,                   \* the files the running handler has yet to write
          open,                    \* the first of them is truncated and not yet filled
          unsaved                  \* history: a refused POST changed cred in memory after
                                   \* its file was last written or read

vars == <<pstat, doxm, cred, acl, store, dirty, open, unsaved>>

(* oc_dostype_t; RESET is a request only: handling it falls through to RFOTM *)
DosType == {"RFOTM", "RFPRO", "RFNOP", "SRESET"}
File == {"doxm", "cred", "acl", "pstat"}
(* The files are written in this order when a reset writes them all. *)
WriteOrder == <<"doxm", "cred", "acl", "pstat">>
Owner == Uuid \cup {Nil}

Pstat == [s : DosType, isop : BOOLEAN, rowneruuid : Owner]
Doxm == [owned : BOOLEAN, devowneruuid : Owner, rowneruuid : Owner,
         hasDeviceuuid : BOOLEAN]
Cred == [creds : SUBSET Uuid, rowneruuid : Owner]
Acl == [rowneruuid : Owner]

ASSUME AbsentAssumption == Absent \notin DosType
ASSUME EmptyAssumption == Empty \notin Pstat \cup Doxm \cup Cred \cup Acl

TypeOK == /\ pstat \in Pstat
          /\ doxm \in Doxm
          /\ cred \in Cred
          /\ acl \in Acl
          /\ store["pstat"] \in Pstat \cup {Empty}
          /\ store["doxm"] \in Doxm \cup {Empty}
          /\ store["cred"] \in Cred \cup {Empty}
          /\ store["acl"] \in Acl \cup {Empty}
          /\ DOMAIN store = File
          /\ dirty \subseteq File
          /\ open \in BOOLEAN
          /\ open => dirty # {}
          /\ unsaved \in BOOLEAN

(* What oc_pstat_handle_state leaves behind for RESET ... *)
DefaultPstat == [s |-> "RFOTM", isop |-> FALSE, rowneruuid |-> Nil]
(* ... oc_sec_doxm_default (with a new temporary device UUID) ... *)
DefaultDoxm == [owned |-> FALSE, devowneruuid |-> Nil, rowneruuid |-> Nil,
                hasDeviceuuid |-> TRUE]
(* ... oc_sec_cred_default ... *)
DefaultCred == [creds |-> {}, rowneruuid |-> Nil]
(* ... and oc_sec_acl_default. *)
DefaultAcl == [rowneruuid |-> Nil]

Memory(f) == IF f = "pstat" THEN pstat ELSE
             IF f = "doxm" THEN doxm ELSE
             IF f = "cred" THEN cred ELSE acl

(* A handler returns to the event loop: nothing left to write. *)
Idle == dirty = {}

(* First boot: no files, so oc_sec_load_pstat resets the device and writes
   the defaults before anything else runs.                                  *)
Init == /\ pstat = DefaultPstat /\ doxm = DefaultDoxm
        /\ cred = DefaultCred /\ acl = DefaultAcl
        /\ store = [f \in File |-> Empty]
        /\ dirty = File
        /\ open = FALSE
        /\ unsaved = FALSE

-----------------------------------------------------------------------------
(* oc_sec_find_creds_for_subject on a resource owner that must not be nil *)
OwnerHasCred(u) == u # Nil /\ u \in cred.creds

(* The conditions RFPRO, RFNOP and SRESET share in oc_pstat_handle_state *)
Provisioned(rowneruuid) ==
  /\ doxm.owned
  /\ doxm.devowneruuid # Nil
  /\ doxm.hasDeviceuuid
  /\ \A u \in {rowneruuid, doxm.rowneruuid, acl.rowneruuid, cred.rowneruuid} :
        OwnerHasCred(u)

(* valid_transition *)
ValidTransition(from, to) ==
  to \notin (IF from = "RFOTM" THEN {"SRESET"} ELSE
             IF from = "SRESET" THEN {"RFOTM", "RFNOP"} ELSE {"RFOTM"})

(* The acceptance test of oc_pstat_handle_state *)
StateAccepted(to, rowneruuid) ==
  IF to = "RFOTM" THEN ~doxm.owned /\ doxm.devowneruuid = Nil /\ ~pstat.isop
  ELSE Provisioned(rowneruuid)

(* decode_pstat takes rowneruuid unless the state it has decoded so far,
   which is the requested one when dos precedes rowneruuid, forbids it.     *)
PstatOwnerAllowed(r) ==
  r.rowneruuid # Absent =>
    (IF r.dosFirst /\ r.s # Absent THEN r.s ELSE pstat.s) \notin {"RFPRO", "RFNOP"}

Choose(new, old) == IF new = Absent THEN old ELSE new

PstatRequest == [s : DosType \cup {Absent}, rowneruuid : Owner \cup {Absent},
                 dosFirst : BOOLEAN]

(* Faulty post_pstat: the transition is taken on the state alone. *)
PostPstatUnchecked(r) ==
  LET s == Choose(r.s, pstat.s)
      rowneruuid == Choose(r.rowneruuid, pstat.rowneruuid)
  IN  /\ Idle
      /\ PstatOwnerAllowed(r)
      /\ ValidTransition(pstat.s, s)
      /\ pstat' = [s |-> s, rowneruuid |-> rowneruuid,
                   isop |-> IF r.s = Absent THEN pstat.isop ELSE s = "RFNOP"]
      /\ dirty' = {"pstat"}
      /\ UNCHANGED <<doxm, cred, acl, store, open, unsaved>>

(* post_pstat, no reset: oc_sec_decode_pstat, then oc_sec_dump_pstat.
   Without dos the decoded properties are copied as they are.               *)
PostPstat(r) ==
  LET s == Choose(r.s, pstat.s)
      rowneruuid == Choose(r.rowneruuid, pstat.rowneruuid)
  IN  /\ Idle
      /\ PstatOwnerAllowed(r)
      /\ ValidTransition(pstat.s, s)
      /\ r.s # Absent => StateAccepted(s, rowneruuid)
      /\ pstat' = [s |-> s, rowneruuid |-> rowneruuid,
                   isop |-> IF r.s = Absent THEN pstat.isop ELSE s = "RFNOP"]
      /\ dirty' = {"pstat"}
      /\ UNCHANGED <<doxm, cred, acl, store, open, unsaved>>

(* oc_pstat_handle_state for RESET and the dumps of the defaults it calls;
   it never fails: the defaults satisfy the RFOTM conditions.               *)
Reset ==
  /\ Idle
  /\ pstat' = DefaultPstat /\ doxm' = DefaultDoxm
  /\ cred' = DefaultCred /\ acl' = DefaultAcl
  /\ dirty' = File
  /\ UNCHANGED <<store, open, unsaved>>

(* post_pstat with dos.s = RESET: every state may go to RESET *)
PostPstatReset == Reset

(* oc_reset_device, oc_reset: the application resets the device itself *)
ResetDevice == Reset

DoxmRequest == [owned : BOOLEAN \cup {Absent}, devowneruuid : Owner \cup {Absent},
                rowneruuid : Owner \cup {Absent}, hasDeviceuuid : BOOLEAN \cup {Absent}]

(* Faulty post_doxm: the state is not looked at. *)
PostDoxmAnyState(r) ==
  /\ Idle
  /\ doxm' = [owned |-> Choose(r.owned, doxm.owned),
              devowneruuid |-> Choose(r.devowneruuid, doxm.devowneruuid),
              rowneruuid |-> Choose(r.rowneruuid, doxm.rowneruuid),
              hasDeviceuuid |-> Choose(r.hasDeviceuuid, doxm.hasDeviceuuid)]
  /\ dirty' = {"doxm"}
  /\ UNCHANGED <<pstat, cred, acl, store, open, unsaved>>

(* post_doxm: every property is validated before any is applied *)
PostDoxm(r) ==
  /\ Idle
  /\ (r.owned # Absent \/ r.devowneruuid # Absent \/ r.hasDeviceuuid # Absent)
       => pstat.s = "RFOTM"
  /\ r.rowneruuid # Absent => pstat.s \in {"RFOTM", "SRESET"}
  /\ doxm' = [owned |-> Choose(r.owned, doxm.owned),
              devowneruuid |-> Choose(r.devowneruuid, doxm.devowneruuid),
              rowneruuid |-> Choose(r.rowneruuid, doxm.rowneruuid),
              hasDeviceuuid |-> Choose(r.hasDeviceuuid, doxm.hasDeviceuuid)]
  /\ dirty' = {"doxm"}
  /\ UNCHANGED <<pstat, cred, acl, store, open, unsaved>>

(* A credential for add replaces the one whose credid it reuses, if any. *)
CredRequest == [rowneruuid : Owner \cup {Absent}, add : Uuid \cup {Absent},
                replaced : Uuid \cup {Absent}]

CredAllowed(r) ==
  /\ r.rowneruuid # Absent => pstat.s \in {"RFOTM", "SRESET"}
  /\ r.add # Absent => pstat.s \in {"RFOTM", "SRESET", "RFPRO"}
  /\ r.replaced # Absent => r.add # Absent /\ r.replaced \in cred.creds

AfterCred(r) ==
  [creds |-> (cred.creds \ {r.replaced}) \cup ({r.add} \ {Absent}),
   rowneruuid |-> Choose(r.rowneruuid, cred.rowneruuid)]

(* Faulty post_cred: the dump is forgotten. *)
PostCredNotSaved(r) ==
  /\ Idle
  /\ CredAllowed(r)
  /\ cred' = AfterCred(r)
  /\ UNCHANGED <<pstat, doxm, acl, store, dirty, open, unsaved>>

(* post_cred that succeeds *)
PostCred(r) ==
  /\ Idle
  /\ CredAllowed(r)
  /\ cred' = AfterCred(r)
  /\ dirty' = {"cred"}
  /\ UNCHANGED <<pstat, doxm, acl, store, open, unsaved>>

(* post_cred that fails at a later credential, or in oc_sec_derive_owner_psk
   with the owner credential taken out again: what was applied stays in
   memory, the answer is 4.00 and nothing is written.                       *)
PostCredRejected(r) ==
  /\ "reject" \in Env
  /\ Idle
  /\ CredAllowed(r)
  /\ \/ cred' = AfterCred(r)
     \/ cred' = [creds |-> cred.creds \ {r.replaced},
                 rowneruuid |-> Choose(r.rowneruuid, cred.rowneruuid)]
  /\ unsaved' = TRUE
  /\ UNCHANGED <<pstat, doxm, acl, store, dirty, open>>

(* Faulty delete_cred: also in RFNOP. *)
DeleteCredAnyState(gone) ==
  /\ Idle
  /\ cred' = [creds |-> cred.creds \ gone, rowneruuid |-> cred.rowneruuid]
  /\ dirty' = {"cred"}
  /\ UNCHANGED <<pstat, doxm, acl, store, open, unsaved>>

(* delete_cred: one credential by its credid, or all of them *)
DeleteCred(gone) ==
  /\ Idle
  /\ pstat.s # "RFNOP"
  /\ cred' = [creds |-> cred.creds \ gone, rowneruuid |-> cred.rowneruuid]
  /\ dirty' = {"cred"}
  /\ UNCHANGED <<pstat, doxm, acl, store, open, unsaved>>

(* post_cred for /oic/sec/roles: oc_sec_decode_cred validates nothing against
   the state, so rowneruuid of cred is taken in every state; the role
   certificates go to the session and the credentials stay as they are.     *)
PostRoles(rowneruuid) ==
  /\ Idle
  /\ cred' = [creds |-> cred.creds, rowneruuid |-> Choose(rowneruuid, cred.rowneruuid)]
  /\ dirty' = {"cred"}
  /\ UNCHANGED <<pstat, doxm, acl, store, open, unsaved>>

(* post_cred for /oic/sec/roles that fails at a later entry: rowneruuid stays
   in memory, and the credential gone, which an earlier entry named by its
   credid, may have been taken for the owner credential and removed.        *)
PostRolesRejected(rowneruuid, gone) ==
  /\ "reject" \in Env
  /\ Idle
  /\ cred' = [creds |-> cred.creds \ gone,
              rowneruuid |-> Choose(rowneruuid, cred.rowneruuid)]
  /\ unsaved' = TRUE
  /\ UNCHANGED <<pstat, doxm, acl, store, dirty, open>>

(* delete_cred for /oic/sec/roles: the roles of the session go, the cred file
   is rewritten                                                             *)
DeleteRoles ==
  /\ Idle
  /\ dirty' = {"cred"}
  /\ UNCHANGED <<pstat, doxm, cred, acl, store, open, unsaved>>

(* post_acl; a request without rowneruuid brings entries only *)
PostAcl(rowneruuid) ==
  /\ Idle
  /\ rowneruuid # Absent => pstat.s \notin {"RFNOP", "RFPRO"}
  /\ acl' = [rowneruuid |-> Choose(rowneruuid, acl.rowneruuid)]
  /\ dirty' = {"acl"}
  /\ UNCHANGED <<pstat, doxm, cred, store, open, unsaved>>

(* delete_acl removes entries and rewrites the file *)
DeleteAcl ==
  /\ Idle
  /\ pstat.s # "RFNOP"
  /\ dirty' = {"acl"}
  /\ UNCHANGED <<pstat, doxm, cred, acl, store, open, unsaved>>

-----------------------------------------------------------------------------
(* The next file of the running handler *)
Current(f) == \E i \in 1 .. 4 : /\ f = WriteOrder[i]
                                /\ f \in dirty
                                /\ \A j \in 1 .. i - 1 : WriteOrder[j] \notin dirty

(* oc_storage_write: fopen(store_path, "wb") ... *)
OpenFile(f) ==
  /\ ~open
  /\ Current(f)
  /\ store' = [store EXCEPT ![f] = Empty]
  /\ open' = TRUE
  /\ UNCHANGED <<pstat, doxm, cred, acl, dirty, unsaved>>

(* Faulty oc_storage_write: the file is not closed. *)
FillFileNotClosed(f) ==
  /\ open
  /\ Current(f)
  /\ store' = [store EXCEPT ![f] = Memory(f)]
  /\ dirty' = dirty \ {f}
  /\ unsaved' = (unsaved /\ f # "cred")
  /\ UNCHANGED <<pstat, doxm, cred, acl, open>>

(* ... fwrite and fclose of the encoded resource *)
FillFile(f) ==
  /\ open
  /\ Current(f)
  /\ store' = [store EXCEPT ![f] = Memory(f)]
  /\ open' = FALSE
  /\ dirty' = dirty \ {f}
  /\ unsaved' = (unsaved /\ f # "cred")
  /\ UNCHANGED <<pstat, doxm, cred, acl>>

(* oc_sec_load_*: an empty doxm, cred or acl file leaves the zeroed memory *)
ZeroDoxm == [owned |-> FALSE, devowneruuid |-> Nil, rowneruuid |-> Nil,
             hasDeviceuuid |-> FALSE]
LoadDoxm == IF store["doxm"] = Empty THEN ZeroDoxm ELSE store["doxm"]
LoadCred == IF store["cred"] = Empty THEN DefaultCred ELSE store["cred"]
LoadAcl == IF store["acl"] = Empty THEN DefaultAcl ELSE store["acl"]

(* oc_main_init with a pstat file: what the files say is believed as it is *)
Load == /\ store["pstat"] # Empty
        /\ pstat' = store["pstat"]
        /\ doxm' = LoadDoxm
        /\ cred' = LoadCred
        /\ acl' = LoadAcl
        /\ dirty' = {}

(* oc_main_init without one: oc_sec_pstat_default resets everything *)
LoadDefault == /\ store["pstat"] = Empty
               /\ pstat' = DefaultPstat /\ doxm' = DefaultDoxm
               /\ cred' = DefaultCred /\ acl' = DefaultAcl
               /\ dirty' = File

Boot == (Load \/ LoadDefault) /\ open' = FALSE /\ unsaved' = FALSE /\ UNCHANGED store

Restart == "restart" \in Env /\ Idle /\ Boot
PowerFail == /\ IF open THEN "torn" \in Env ELSE "crash" \in Env
             /\ ~Idle
             /\ Boot

Requests ==
  \/ \E r \in PstatRequest : PostPstat(r)
  \/ PostPstatReset
  \/ ResetDevice
  \/ \E r \in DoxmRequest : PostDoxm(r)
  \/ \E r \in CredRequest : PostCred(r) \/ PostCredRejected(r)
  \/ \E u \in Uuid : DeleteCred({u})
  \/ DeleteCred(Uuid)
  \/ \E u \in Owner \cup {Absent} :
        PostRoles(u) \/ \E gone \in {{}} \cup {{v} : v \in Uuid} : PostRolesRejected(u, gone)
  \/ DeleteRoles
  \/ \E u \in Owner \cup {Absent} : PostAcl(u)
  \/ DeleteAcl

Next == \/ Requests
        \/ \E f \in File : OpenFile(f) \/ FillFile(f)
        \/ Restart
        \/ PowerFail

Spec == Init /\ [][Next]_vars

-----------------------------------------------------------------------------
(* A device that is, or says it is, operational has an owner, and its pstat,
   doxm and acl2 resources name theirs: what the entry check of RFNOP in
   oc_pstat_handle_state demands of them stays true of the running device
   through every later POST and DELETE, the refused ones included, and every
   restart of the process.  Nothing is said of cred: POST /oic/sec/roles
   replaces its owner in RFNOP too.                                         *)
OperationalOwned ==
  (pstat.s = "RFNOP" \/ pstat.isop) =>
     /\ pstat.s = "RFNOP" /\ pstat.isop
     /\ doxm.owned /\ doxm.devowneruuid # Nil /\ doxm.hasDeviceuuid
     /\ Nil \notin {pstat.rowneruuid, doxm.rowneruuid, acl.rowneruuid}

(* The owners of pstat, doxm and acl2 have credentials. *)
Reachable == \A u \in {pstat.rowneruuid, doxm.rowneruuid, acl.rowneruuid} : OwnerHasCred(u)

(* A request that the device accepts and saves and that leaves it operational
   leaves the owners of pstat, doxm and acl2 their credentials: it found them
   there and took none, or it made the device operational and the check of
   oc_pstat_handle_state found them.  A refused POST may take one in memory,
   and a restart one that only a refused POST had brought.                  *)
AcceptedKeepsReachable ==
  [][/\ Idle /\ ~Idle'
     /\ pstat'.s = "RFNOP"
     /\ pstat.s = "RFNOP" => Reachable
     => Reachable']_vars

(* Between handlers the files hold the running device, so a restart of the
   process brings back what the peers were told; only the cred file may lack
   something, what POSTs that were refused since it was written or read left
   in memory.                                                               *)
Durable ==
  Idle => \A f \in File : store[f] = Memory(f) \/ (f = "cred" /\ unsaved)

(* Past ownership transfer a device that says it is owned names its owner,
   whatever power failures and refused requests it went through.            *)
OwnedNamesOwner == pstat.s # "RFOTM" /\ doxm.owned => doxm.devowneruuid # Nil

(* Past ownership transfer the owner of a device is replaced only by passing
   through no owner, never by another one: no request, restart or power
   failure hands the device over.                                           *)
OwnerKeptUntilReset ==
  [][pstat.s # "RFOTM" => doxm'.devowneruuid \in {doxm.devowneruuid, Nil}]_vars
=============================================================================
