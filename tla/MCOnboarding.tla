---------------------------- MODULE MCOnboarding ----------------------------
(* Two procedures at a time, on two devices. *)
EXTENDS Onboarding

CONSTANTS c1, c2, d1, d2, h1, h2, u1, u2, u3, u4
=============================================================================
