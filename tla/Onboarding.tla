----------------------------- MODULE Onboarding -----------------------------
(***************************************************************************)
(* The onboarding tool: the procedures of security/oc_obt.c and of         *)
(* oc_obt_otm_justworks.c, oc_obt_otm_randompin.c and oc_obt_otm_cert.c,   *)
(* the device records they share, and the devices they configure.          *)
(*                                                                         *)
(* A procedure is a chain of response handlers, each of which makes the    *)
(* next request: a script of steps.  Its context is in a list while it     *)
(* runs and has exactly one request outstanding whenever the event loop is *)
(* reached.  A step in upper case is a switch_dos request; "2" marks the   *)
(* second device of a pair.                                                *)
(*                                                                         *)
(* Closing a DTLS session answers 5.03 to the requests that wait on it, so *)
(* procedures end, and go on, inside calls made by other procedures: stack *)
(* holds the calls in progress, innermost first, and is empty in the event *)
(* loop.  A device is what SecureDevice says of it, reduced to what the    *)
(* steps of an ownership transfer change.                                  *)
(*                                                                         *)
(* Left out: the contents of credentials, certificates and access control  *)
(* entries, endpoint lists, shutdown, and starts that return -1 (the       *)
(* context allocated by some of them is leaked).                           *)
(***************************************************************************)
EXTENDS Integers, Sequences, FiniteSets

CONSTANTS Ctx,      \* contexts of procedures
          Device,   \* devices on the network
          Handle,   \* oc_device_t records of the tool
          Uuid,     \* device identities
          Nil,      \* NULL, no identity
          Kinds,    \* the procedures the application uses
          Earlier,  \* devices the tool took over before it was started again
          MaxStarts, \* bound on the procedures that are started
          MaxAsked, \* bound on the requests for endpoints about one record
          Guarded   \* whether the application keeps procedures apart, as in Apart

ASSUME NilAssumption == Nil \notin Ctx \cup Handle \cup Uuid \cup Device
ASSUME EarlierAssumption == Earlier \subseteq Device
ASSUME BoundsAssumption == MaxStarts \in Nat /\ MaxAsked \in Nat
ASSUME FiniteAssumption == IsFiniteSet(Uuid) /\ IsFiniteSet(Ctx)
(* Devices come with identities of their own. *)
ASSUME IdentityAssumption ==
  \E f \in [Device -> Uuid] : \A d, e \in Device : f[d] = f[e] => d = e
ASSUME GuardedAssumption == Guarded \in BOOLEAN

VARIABLES
  ctx,          \* what each context in use holds
  stack,        \* the calls in progress, innermost first
  list,         \* oc_cache or oc_devices, or free
  uuid,         \* of each record
  creds,        \* identities the tool holds an owner credential for
  peers,        \* devices with a DTLS session
  starts,       \* procedures started so far
  discovering,  \* a multicast discovery is waiting for answers
  asking,       \* requests GET /oic/res that wait with each record
  unheard,      \* contexts whose request will have no answer, not even 5.03
  dos, owned, deviceuuid, configured   \* the devices

toolVars == <<ctx, list, uuid, creds>>
discoveryVars == <<discovering, asking>>
deviceVars == <<dos, owned, deviceuuid, configured>>
vars == <<toolVars, unheard, stack, starts, peers, discoveryVars, deviceVars>>

-----------------------------------------------------------------------------
(* The scripts *)

(* Just works: oc_obt_perform_just_works_otm and obt_jw_2, without DTLS *)
JwSelect == <<"get doxm", "oxmsel">>
(* obt_jw_3 to obt_jw_5 *)
JwIdentity == <<"om", "devowneruuid", "deviceuuid">>
(* obt_jw_6 to obt_jw_8 *)
JwOwners == <<"doxm rowner", "acl rowner", "pstat rowner">>
(* obt_jw_9 to obt_jw_11 *)
JwCred == <<"owner cred", "sdi", "owned">>
(* obt_jw_12 and obt_jw_13 *)
JwProvision == <<"rfpro", "delete acl">>
(* obt_jw_14 to obt_jw_16 *)
JwOperate == <<"aces", "rfnop">>
JustWorks == JwSelect \o JwIdentity \o JwOwners \o JwCred \o JwProvision \o JwOperate

(* oc_obt_request_random_pin, obt_rrdp_2 and obt_rrdp_3 *)
RequestPin == <<"get doxm", "oxmsel">>
(* oc_obt_perform_random_pin_otm, obt_rdp_2 and obt_rdp_3 *)
RdpIdentity == <<"om", "devowneruuid", "deviceuuid">>
(* obt_rdp_4 to obt_rdp_6 *)
RdpOwners == <<"doxm rowner", "acl rowner", "pstat rowner">>
(* obt_rdp_7 to obt_rdp_9 *)
RdpCred == <<"owner cred", "sdi", "owned">>
(* obt_rdp_10 and obt_rdp_11 *)
RdpProvision == <<"rfpro", "delete acl">>
(* obt_rdp_12 to obt_rdp_14 *)
RdpOperate == <<"aces", "rfnop">>
RandomPin == RdpIdentity \o RdpOwners \o RdpCred \o RdpProvision \o RdpOperate

(* Certificates: oc_obt_perform_cert_otm and obt_cert_2 *)
CertSelect == <<"get doxm", "oxmsel">>
(* obt_cert_3 to obt_cert_5 *)
CertIdentity == <<"om", "devowneruuid", "deviceuuid">>
(* obt_cert_6 to obt_cert_8 *)
CertOwners == <<"doxm rowner", "acl rowner", "pstat rowner">>
(* obt_cert_9 to obt_cert_11 *)
CertCred == <<"owner cred", "sdi", "owned">>
(* obt_cert_12 and obt_cert_13 *)
CertProvision == <<"rfpro", "delete acl">>
(* obt_cert_14 to obt_cert_16 *)
CertOperate == <<"aces", "rfnop">>
CertOtm == CertSelect \o CertIdentity \o CertOwners \o CertCred \o CertProvision
           \o CertOperate

(* Transfers by certificate take the same requests as just-works ones. *)
ASSUME SameTransfer == CertOtm = JustWorks

(* oc_obt_device_hard_reset *)
HardReset == <<"RESET">>
(* oc_obt_provision_pairwise_credentials *)
Pairwise == <<"RFPRO", "RFPRO2", "cred", "cred2", "RFNOP", "RFNOP2">>
(* device_RFPRO, device_root, device_CSR, device_cred, device_authcrypt_roles
   and device_RFNOP, after the request of the API function                  *)
Certificate == <<"get doxm s", "RFPRO", "trustca", "csr", "cred", "aces", "RFNOP">>
(* oc_obt_provision_ace *)
ProvisionAce == <<"RFPRO", "aces", "RFNOP">>
(* oc_obt_delete_cred_by_credid *)
DeleteCred == <<"RFPRO", "delete cred", "RFNOP">>
(* oc_obt_delete_ace_by_aceid *)
DeleteAce == <<"RFPRO", "delete ace", "RFNOP">>
(* oc_obt_retrieve_creds *)
RetrieveCreds == <<"get cred">>
(* oc_obt_retrieve_acl *)
RetrieveAcl == <<"get acl2">>

Kind == {"jw", "pin", "rdp", "cert", "reset", "pair", "idcert", "ace", "delcred",
         "delace", "getcred", "getacl"}
Script == [k \in Kind |->
             CASE k = "jw" -> JustWorks [] k = "pin" -> RequestPin
               [] k = "rdp" -> RandomPin [] k = "cert" -> CertOtm
               [] k = "reset" -> HardReset [] k = "pair" -> Pairwise
               [] k = "idcert" -> Certificate [] k = "ace" -> ProvisionAce
               [] k = "delcred" -> DeleteCred [] k = "delace" -> DeleteAce
               [] k = "getcred" -> RetrieveCreds [] k = "getacl" -> RetrieveAcl]

ASSUME KindsAssumption == Kinds \subseteq Kind

Transfer == {"jw", "rdp", "cert"}     \* end in the record moving to oc_devices
OnCached == Transfer \cup {"pin"}     \* use oc_otm_ctx_t, on a record of oc_cache
Retrieval == {"getcred", "getacl"}    \* keep no record
Frees == OnCached \cup {"reset"}      \* may free the record they work on

Unsecured == {"get doxm", "oxmsel"}
Reopening == {"om", "rfpro"}          \* close the session and open another
Switch == {"RFPRO", "RFPRO2", "RFNOP", "RFNOP2", "RESET"}
Second == {"RFPRO2", "cred2", "RFNOP2"}

-----------------------------------------------------------------------------
(* The devices *)

Setup == {"devowneruuid", "doxm rowner", "acl rowner", "pstat rowner", "owner cred"}
ProvisionedDevice(d) == owned[d] /\ configured[d] = Setup

(* What SecureDevice lets a device accept; it may refuse the rest as well. *)
Accepts(d, step) ==
  /\ step \in Setup \cup {"deviceuuid", "owned"} => dos[d] = "RFOTM"
  /\ step \in {"rfpro", "rfnop"} \cup (Switch \ {"RESET"}) => ProvisionedDevice(d)
  /\ step \in {"cred", "cred2", "trustca", "delete cred", "delete acl", "delete ace"}
       => dos[d] # "RFNOP"

Used == {deviceuuid[d] : d \in Device} \cup {uuid[h] : h \in Handle} \cup creds
Fresh == CHOOSE u \in Uuid : u \notin Used

(* Faulty device: it stays in RESET instead of going on to RFOTM. *)
ApplyStaysReset(d, step, u) ==
  /\ dos' = [dos EXCEPT ![d] = IF step \in {"rfpro", "RFPRO", "RFPRO2"} THEN "RFPRO"
                               ELSE IF step \in {"rfnop", "RFNOP", "RFNOP2"} THEN "RFNOP"
                               ELSE IF step = "RESET" THEN "RESET" ELSE @]
  /\ UNCHANGED <<owned, configured, deviceuuid>>

(* The effect of an accepted request; u is the identity "deviceuuid" carries *)
Apply(d, step, u) ==
  /\ dos' = [dos EXCEPT ![d] = IF step \in {"rfpro", "RFPRO", "RFPRO2"} THEN "RFPRO"
                               ELSE IF step \in {"rfnop", "RFNOP", "RFNOP2"} THEN "RFNOP"
                               ELSE IF step = "RESET" THEN "RFOTM" ELSE @]
  /\ owned' = [owned EXCEPT ![d] = (@ \/ step = "owned") /\ step # "RESET"]
  /\ configured' = [configured EXCEPT ![d] = IF step = "RESET" THEN {}
                                             ELSE @ \cup ({step} \cap Setup)]
  /\ deviceuuid' = [deviceuuid EXCEPT ![d] = IF step = "deviceuuid" THEN u
                                             ELSE IF step = "RESET" THEN Fresh ELSE @]

-----------------------------------------------------------------------------
(* Contexts and records *)

NoCtx == [kind |-> Nil, pos |-> 0, h1 |-> Nil, h2 |-> Nil, d1 |-> Nil, d2 |-> Nil,
          out |-> FALSE]
Active == {c \in Ctx : ctx[c] # NoCtx}
StepOf(c) == Script[ctx[c].kind][ctx[c].pos]
(* The record and the device the outstanding request of c goes to *)
HandleOf(c) == IF StepOf(c) \in Second THEN ctx[c].h2 ELSE ctx[c].h1
Target(c) == IF StepOf(c) \in Second THEN ctx[c].d2 ELSE ctx[c].d1
(* The records c points to *)
Held(c) == IF ctx[c].kind \in Retrieval THEN {} ELSE {ctx[c].h1, ctx[c].h2} \ {Nil}
Waiting == {c \in Active \ unheard : ctx[c].out}
OnSession(d) == {c \in Waiting : StepOf(c) \notin Unsecured /\ Target(c) = d}

Frame(op, x, st) == <<op, x, st>>
Top == Head(stack)
In(op) == stack # <<>> /\ Top[1] = op
EventLoop == stack = <<>>

(* free_otm_state, free_hard_reset_ctx, free_credprov_state,
   free_acl2prov_state, free_creddel_state, free_acedel_state up to their
   calls of oc_tls_close_connection; cred_rsrc and acl2_rsrc make none      *)
Ending(c, st) ==
  LET closes == IF ctx[c].kind \in Retrieval THEN <<>>
                ELSE IF ctx[c].h2 = Nil THEN <<Frame("close", ctx[c].d1, 0)>>
                ELSE <<Frame("close", ctx[c].d1, 0), Frame("close", ctx[c].d2, 0)>>
  IN  closes \o <<Frame("end", c, st)>>

(* Faulty error path of cred_rsrc and acl2_rsrc: the context is left as it is. *)
FreeCtxForgotten(c, st, rest) ==
  /\ ctx' = [ctx EXCEPT ![c].out = FALSE]
  /\ stack' = (IF ctx[c].kind \in Retrieval /\ st = -1 THEN <<>> ELSE Ending(c, st)) \o rest
  /\ UNCHANGED <<uuid, creds>>

(* The context leaves its list and no request of it is outstanding. *)
FreeCtx(c, st, rest) ==
  /\ ctx' = [ctx EXCEPT ![c].out = FALSE]
  /\ stack' = Ending(c, st) \o rest
  /\ UNCHANGED <<uuid, creds>>

(* Faulty request: the owner credential is sent but not noted. *)
PostNoCred(c, pos, rest) ==
  LET step == Script[ctx[c].kind][pos]
      reopen == step \in Reopening
  IN  /\ ctx' = [ctx EXCEPT ![c].pos = pos, ![c].out = ~reopen]
      /\ uuid' = IF step = "deviceuuid" THEN [uuid EXCEPT ![ctx[c].h1] = Fresh] ELSE uuid
      /\ creds' = creds
      /\ stack' = (IF reopen THEN <<Frame("close", ctx[c].d1, 0), Frame("post", c, 0)>>
                   ELSE <<>>) \o rest

(* The next request of c: a new identity for the device, or the owner
   credential, is noted by the tool before it is sent; a step that opens a
   new session closes the old one first.                                    *)
Post(c, pos, rest) ==
  LET step == Script[ctx[c].kind][pos]
      reopen == step \in Reopening
  IN  /\ ctx' = [ctx EXCEPT ![c].pos = pos, ![c].out = ~reopen]
      /\ uuid' = IF step = "deviceuuid" THEN [uuid EXCEPT ![ctx[c].h1] = Fresh] ELSE uuid
      /\ creds' = IF step = "owner cred" THEN creds \cup {uuid[ctx[c].h1]} ELSE creds
      /\ stack' = (IF reopen THEN <<Frame("close", ctx[c].d1, 0), Frame("post", c, 0)>>
                   ELSE <<>>) \o rest

(* A handler that is content *)
Advance(c, rest) ==
  IF ctx[c].pos = Len(Script[ctx[c].kind]) THEN FreeCtx(c, 0, rest)
  ELSE Post(c, ctx[c].pos + 1, rest)

(* Faulty handlers: 5.03 is taken for success by all of them. *)
UnavailableIgnored(c, rest) == Advance(c, rest)

(* A handler that is told 5.03: pstat_POST_dos1_to_dos2 takes it for success *)
Unavailable(c, rest) ==
  IF StepOf(c) \in Switch THEN Advance(c, rest) ELSE FreeCtx(c, -1, rest)

-----------------------------------------------------------------------------
(* Starting procedures *)

(* External: what an application has to keep to, since free_device frees a record
   that others may point to.  A procedure that may free its record has it for
   itself, and no discovery holds it.  Neither oc_obt.c nor obtmain.c sees to
   it: obtmain.c starts what its user asks for.                             *)
Apart(k, hs) ==
  /\ k \in Frees => /\ \A c \in Active : Held(c) \cap hs = {}
                    /\ ~discovering /\ \A h \in hs : asking[h] = 0
  /\ \A c \in Active : ctx[c].kind \in Frees => Held(c) \cap hs = {}

DeviceOf(h) == CHOOSE d \in Device : deviceuuid[d] = uuid[h]
Reachable(h) == uuid[h] # Nil /\ \E d \in Device : deviceuuid[d] = uuid[h]

Context(k, h1, h2) ==
  [kind |-> k, pos |-> 1, h1 |-> h1, h2 |-> h2, d1 |-> DeviceOf(h1),
   d2 |-> IF h2 = Nil THEN Nil ELSE DeviceOf(h2), out |-> Script[k][1] \notin Reopening]

(* Bound: every procedure in progress may need an identity nobody uses. *)
IdentitiesLeft == Cardinality(Uuid \ Used) > Cardinality(Active)

(* oc_obt_perform_just_works_otm and its like: on a record of oc_cache.  Asking
   for a PIN is refused for a device the tool owns; the others forget its
   credential.                                                              *)
StartCached(c, k, h) ==
  /\ EventLoop /\ ctx[c] = NoCtx /\ IdentitiesLeft /\ starts < MaxStarts
  /\ starts' = starts + 1
  /\ k \in Kinds \cap OnCached /\ list[h] = "cache" /\ Reachable(h)
  /\ Guarded => Apart(k, {h})
  /\ k = "pin" => uuid[h] \notin creds
  /\ creds' = creds \ {uuid[h]}
  /\ ctx' = [ctx EXCEPT ![c] = Context(k, h, Nil)]
  /\ stack' = IF Script[k][1] \in Reopening
              THEN <<Frame("close", DeviceOf(h), 0), Frame("post", c, 0)>> ELSE <<>>
  /\ UNCHANGED <<unheard, list, uuid, peers, discoveryVars, deviceVars>>

(* The other procedures: on one record of oc_devices, or on two *)
StartOwned(c, k, h1, h2) ==
  /\ EventLoop /\ ctx[c] = NoCtx /\ IdentitiesLeft /\ starts < MaxStarts
  /\ starts' = starts + 1
  /\ k \in Kinds \ OnCached
  /\ (k = "pair") = (h2 # Nil) /\ h1 # h2
  /\ \A h \in {h1, h2} \ {Nil} : list[h] = "devices" /\ uuid[h] \in creds /\ Reachable(h)
  /\ Guarded => Apart(k, {h1, h2} \ {Nil})
  /\ ctx' = [ctx EXCEPT ![c] = Context(k, h1, h2)]
  /\ UNCHANGED <<unheard, stack, list, uuid, creds, peers, discoveryVars, deviceVars>>

-----------------------------------------------------------------------------
(* Answers *)

(* The request of c reached the device and was accepted. *)
Served(c) == Accepts(Target(c), StepOf(c)) /\ Apply(Target(c), StepOf(c), uuid[ctx[c].h1])

(* A good response; the next request, if there is one, may find no memory. *)
Reply(c) ==
  /\ EventLoop /\ c \in Waiting
  /\ StepOf(c) \notin Unsecured => Target(c) \in peers
  /\ Served(c)
  /\ \/ Advance(c, <<>>)
     \/ ctx[c].pos < Len(Script[ctx[c].kind]) /\ FreeCtx(c, -1, <<>>)
  /\ UNCHANGED <<unheard, list, starts, peers, discoveryVars>>

(* An error response; /oic/sec/sdi need not exist. *)
Refuse(c) ==
  /\ EventLoop /\ c \in Waiting
  /\ StepOf(c) \notin Unsecured => Target(c) \in peers
  /\ FreeCtx(c, -1, <<>>) \/ (StepOf(c) = "sdi" /\ Advance(c, <<>>))
  /\ UNCHANGED <<unheard, list, starts, peers, discoveryVars, deviceVars>>

(* coap_send_transaction gives up: the handler is told 5.03 and the session
   is closed.  The request or only its answer was lost.                     *)
GiveUp(c) ==
  /\ EventLoop /\ c \in Waiting
  /\ Served(c) \/ UNCHANGED deviceVars
  /\ Unavailable(c, <<Frame("close", Target(c), 0)>>)
  /\ UNCHANGED <<unheard, list, starts, peers, discoveryVars>>

(* oc_ri_remove_client_cb: the device acknowledged the request, so that it is no
   longer retransmitted, and its response did not come while the callback
   lived.  The handler is not called: the procedure stays where it is.      *)
Silence(c) ==
  /\ EventLoop /\ c \in Waiting
  /\ StepOf(c) \notin Unsecured => Target(c) \in peers
  /\ Served(c) \/ UNCHANGED deviceVars
  /\ unheard' = unheard \cup {c}
  /\ UNCHANGED <<toolVars, stack, starts, peers, discoveryVars>>

(* oc_tls_init_connection for a request that waits to be sent *)
Connect(d) ==
  /\ EventLoop /\ d \notin peers /\ OnSession(d) # {}
  /\ peers' = peers \cup {d}
  /\ UNCHANGED <<toolVars, unheard, stack, starts, discoveryVars, deviceVars>>

(* The session of d ends: closed by the device, by an alert or by inactivity *)
PeerGone(d) ==
  /\ EventLoop /\ d \in peers
  /\ peers' = peers \ {d}
  /\ stack' = <<Frame("notify", d, 0)>>
  /\ UNCHANGED <<toolVars, unheard, starts, discoveryVars, deviceVars>>

-----------------------------------------------------------------------------
(* Calls in progress *)

(* oc_tls_close_connection *)
Close ==
  /\ In("close")
  /\ peers' = peers \ {Top[2]}
  /\ stack' = (IF Top[2] \in peers THEN <<Frame("notify", Top[2], 0)>> ELSE <<>>)
              \o Tail(stack)
  /\ UNCHANGED <<toolVars, unheard, starts, discoveryVars, deviceVars>>

(* oc_ri_free_client_cbs_by_endpoint: it starts again after each handler, so
   that a request a handler makes on the same session is told 5.03 as well  *)
Notify ==
  /\ In("notify")
  /\ IF OnSession(Top[2]) = {}
     THEN stack' = Tail(stack) /\ UNCHANGED <<ctx, uuid, creds>>
     ELSE \E c \in OnSession(Top[2]) : Unavailable(c, stack)
  /\ UNCHANGED <<unheard, list, starts, peers, discoveryVars, deviceVars>>

(* The request of a step that opened a new session *)
PostReopened ==
  /\ In("post")
  /\ ctx' = [ctx EXCEPT ![Top[2]].out = TRUE]
  /\ stack' = Tail(stack)
  /\ UNCHANGED <<unheard, list, uuid, creds, starts, peers, discoveryVars, deviceVars>>

FailedTransfer(c, st) == ctx[c].kind \in OnCached /\ st = -1

(* After the session is closed: the credential of a failed transfer or of a
   device that was reset is forgotten, the record of a device that was taken
   over moves to oc_devices, and the application is told.                   *)
End ==
  /\ In("end")
  /\ LET c == Top[2]
         st == Top[3]
     IN  /\ creds' = IF FailedTransfer(c, st) \/ (ctx[c].kind = "reset" /\ st = 0)
                     THEN creds \ {uuid[ctx[c].h1]} ELSE creds
         /\ list' = IF ctx[c].kind \in Transfer /\ st = 0
                    THEN [list EXCEPT ![ctx[c].h1] = "devices"] ELSE list
         /\ stack' = <<Frame("called", c, st)>> \o Tail(stack)
  /\ UNCHANGED <<unheard, ctx, uuid, starts, peers, discoveryVars, deviceVars>>

(* Faulty end: the record of a device that was reset stays in oc_devices. *)
CalledKeepsReset ==
  /\ In("called")
  /\ LET c == Top[2]
         gone == IF FailedTransfer(c, Top[3]) THEN {ctx[c].h1} ELSE {}
     IN  /\ list' = [h \in Handle |-> IF h \in gone THEN "free" ELSE list[h]]
         /\ uuid' = [h \in Handle |-> IF h \in gone THEN Nil ELSE uuid[h]]
         /\ ctx' = [ctx EXCEPT ![c] = NoCtx]
  /\ stack' = Tail(stack)
  /\ UNCHANGED <<unheard, creds, starts, peers, discoveryVars, deviceVars>>

(* After the application's callback: free_device and oc_memb_free *)
Called ==
  /\ In("called")
  /\ LET c == Top[2]
         gone == IF FailedTransfer(c, Top[3]) \/ ctx[c].kind = "reset"
                 THEN {ctx[c].h1} ELSE {}
     IN  /\ list' = [h \in Handle |-> IF h \in gone THEN "free" ELSE list[h]]
         /\ uuid' = [h \in Handle |-> IF h \in gone THEN Nil ELSE uuid[h]]
         /\ ctx' = [ctx EXCEPT ![c] = NoCtx]
  /\ stack' = Tail(stack)
  /\ UNCHANGED <<unheard, creds, starts, peers, discoveryVars, deviceVars>>

-----------------------------------------------------------------------------
(* Discovery *)

(* discover_unowned_devices, discover_owned_devices *)
Discover ==
  /\ EventLoop /\ ~discovering
  /\ Guarded => \A c \in Active : ctx[c].kind \notin OnCached
  /\ discovering' = TRUE
  /\ UNCHANGED <<toolVars, unheard, stack, starts, peers, asking, deviceVars>>

(* free_discovery_cb, and the client callback of the multicast is gone *)
DiscoveryEnds ==
  /\ EventLoop /\ discovering
  /\ discovering' = FALSE
  /\ UNCHANGED <<toolVars, unheard, stack, starts, peers, asking, deviceVars>>

(* cache_new_device: the record h of that identity in the list l, or a new one;
   nothing is done when there is no memory for it                           *)
CacheNewDevice(l, u, h) ==
  /\ IF \E g \in Handle : list[g] = l /\ uuid[g] = u
     THEN list[h] = l /\ uuid[h] = u
     ELSE /\ \E g \in Handle : list[g] = "free"
          /\ h = CHOOSE g \in Handle : list[g] = "free"
  /\ (list[h] = l /\ uuid[h] = u) \/ list[h] = "free"
  /\ list' = [list EXCEPT ![h] = l]
  /\ uuid' = [uuid EXCEPT ![h] = u]

(* obt_check_owned: a device says it has no owner; every answer makes a request. *)
CheckOwned(d, h) ==
  /\ EventLoop /\ discovering /\ ~owned[d]
  /\ CacheNewDevice("cache", deviceuuid[d], h)
  /\ asking[h] < MaxAsked
  /\ asking' = [asking EXCEPT ![h] = @ + 1]
  /\ UNCHANGED <<unheard, ctx, creds, stack, starts, peers, discovering, deviceVars>>

(* get_endpoints: answer to a multicast from a device of ours ... *)
OwnedAnswers(d, h) ==
  /\ EventLoop /\ discovering /\ deviceuuid[d] \in creds
  /\ CacheNewDevice("devices", deviceuuid[d], h)
  /\ UNCHANGED <<unheard, ctx, creds, stack, starts, peers, discoveryVars, deviceVars>>

(* ... and to the request made by obt_check_owned, or its end without one *)
GetEndpoints(h) ==
  /\ EventLoop /\ asking[h] > 0
  /\ asking' = [asking EXCEPT ![h] = @ - 1]
  /\ UNCHANGED <<toolVars, unheard, stack, starts, peers, discovering, deviceVars>>

-----------------------------------------------------------------------------
(* The tool is started; its credentials are of devices it took over before. *)
Init == /\ ctx = [c \in Ctx |-> NoCtx] /\ stack = <<>>
        /\ list = [h \in Handle |-> "free"] /\ uuid = [h \in Handle |-> Nil]
        /\ starts = 0 /\ peers = {} /\ discovering = FALSE
        /\ asking = [h \in Handle |-> 0] /\ unheard = {}
        /\ deviceuuid = CHOOSE f \in [Device -> Uuid] :
                          \A d, e \in Device : f[d] = f[e] => d = e
        /\ owned \in [Device -> BOOLEAN] /\ \A d \in Earlier : owned[d]
        /\ creds = {deviceuuid[d] : d \in {e \in Device : owned[e]}}
        /\ dos = [d \in Device |-> IF owned[d] THEN "RFNOP" ELSE "RFOTM"]
        /\ configured = [d \in Device |-> IF owned[d] THEN Setup ELSE {}]

Call == Close \/ Notify \/ PostReopened \/ End \/ Called

Next ==
  \/ Call
  \/ \E c \in Ctx : \/ Reply(c) \/ Refuse(c) \/ GiveUp(c) \/ Silence(c)
                    \/ \E k \in Kinds, h \in Handle :
                         \/ StartCached(c, k, h)
                         \/ \E h2 \in Handle \cup {Nil} : StartOwned(c, k, h, h2)
  \/ \E d \in Device : Connect(d) \/ PeerGone(d)
  \/ Discover \/ DiscoveryEnds
  \/ \E d \in Device, h \in Handle : CheckOwned(d, h) \/ OwnedAnswers(d, h)
  \/ \E h \in Handle : GetEndpoints(h)

(* Calls return, and a request does not wait for good: coap_send_transaction
   gives it up, or oc_ri_remove_client_cb ends it after OC_EXCHANGE_LIFETIME. *)
Fairness == WF_vars(Call) /\ \A c \in Ctx : SF_vars(GiveUp(c) \/ Silence(c))

Spec == Init /\ [][Next]_vars /\ Fairness

-----------------------------------------------------------------------------
TypeOK ==
  /\ ctx \in [Ctx -> [kind : Kinds \cup {Nil}, pos : 0 .. 15, h1 : Handle \cup {Nil},
                      h2 : Handle \cup {Nil}, d1 : Device \cup {Nil},
                      d2 : Device \cup {Nil}, out : BOOLEAN]]
  /\ \A c \in Active : ctx[c].pos \in 1 .. Len(Script[ctx[c].kind])
  /\ list \in [Handle -> {"free", "cache", "devices"}]
  /\ uuid \in [Handle -> Uuid \cup {Nil}]
  /\ starts \in 0 .. MaxStarts /\ creds \subseteq Uuid /\ peers \subseteq Device
  /\ discovering \in BOOLEAN
  /\ asking \in [Handle -> 0 .. MaxAsked] /\ unheard \subseteq Active
  /\ dos \in [Device -> {"RFOTM", "RFPRO", "RFNOP"}] /\ owned \in [Device -> BOOLEAN]
  /\ deviceuuid \in [Device -> Uuid] /\ configured \in [Device -> SUBSET Setup]
  /\ \A i \in 1 .. Len(stack) : stack[i][1] \in {"close", "notify", "post", "end", "called"}

(* In the event loop every record of oc_devices is of a device whose owner
   credential the tool holds: what oc_obt_is_owned_device asks for.         *)
OwnedHaveCreds ==
  EventLoop => \A h \in Handle : list[h] = "devices" => uuid[h] \in creds

(* The order of the requests of an ownership transfer is one the device
   accepts: none is refused by the state of oc_doxm.c, oc_cred.c or
   oc_pstat.c that the requests before it led to.                           *)
TransferFits ==
  \A c \in Waiting : ctx[c].kind \in Transfer => Accepts(Target(c), StepOf(c))

(* A transfer that is reported as done was done: the device is operational,
   and both sides hold the credential under the identity it was given.      *)
TransferTrue ==
  In("called") /\ ctx[Top[2]].kind \in Transfer /\ Top[3] = 0 =>
    LET d == ctx[Top[2]].d1
    IN  /\ dos[d] = "RFNOP" /\ ProvisionedDevice(d)
        /\ deviceuuid[d] = uuid[ctx[Top[2]].h1] /\ deviceuuid[d] \in creds

(* No procedure is forgotten, nor do procedures keep each other going for ever
   through the sessions they close: each one ends and its application is told,
   unless a device acknowledged a request of it and never answered.  Then
   oc_obt.c, which has no timeout of its own, keeps it for good.            *)
EndsUnlessUnheard == \A c \in Ctx : ctx[c] # NoCtx ~> ctx[c] = NoCtx \/ c \in unheard
=============================================================================
