---- MODULE MCObservers ----
(* Two clients, one of them secured, and two resources; access by role and *)
(* by kind of connection and wildcard.                                     *)
EXTENDS Observers

CONSTANTS a, b, door, lamp

Entry(type, id, href, wildcard, permission) ==
  [subject |-> [type |-> type, id |-> id], permission |-> permission,
   resources |-> {[href |-> href, wildcard |-> wildcard]}]

(* A public resource for everybody, another for a role *)
MCAcls ==
  {{Entry("role", "user", {door}, {}, {"RETRIEVE"}),
    Entry("conn", "anon-clear", {}, {"public"}, {"RETRIEVE", "UPDATE"})}}

(* The clients happen to choose the same tokens *)
TokenFor(r) == IF r = door THEN 1 ELSE 2

Of(method, e, r, observe) ==
  [method |-> method, e |-> e, r |-> r, t |-> TokenFor(r), observe |-> observe]

MCRequests ==
  {Of("GET", a, door, 0), Of("GET", a, door, 1), Of("GET", a, lamp, 2),
   Of("GET", a, lamp, 0), Of("GET", b, lamp, 0), Of("POST", a, lamp, 2)}

(* Two observers of the periodic resource, one of which cancels *)
MCPeriodicRequests ==
  {Of("GET", a, door, 0), Of("GET", a, door, 1), Of("GET", b, door, 0)}
====
