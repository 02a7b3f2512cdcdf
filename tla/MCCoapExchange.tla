--------------------------- MODULE MCCoapExchange ---------------------------
(* CoapExchange with two requests to one server and one to another. *)
EXTENDS CoapExchange, TLC

CONSTANTS r1, r2, r3, s1, s2
Requests == {r1, r2, r3}
Destination == r1 :> s1 @@ r2 :> s2 @@ r3 :> s1
=============================================================================
