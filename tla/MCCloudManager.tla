-------------------------- MODULE MCCloudManager --------------------------
(* The cloud client for TLC: the tokens the cloud hands out *)
EXTENDS CloudManager

(* A token that expires and can be refreshed; one that does not expire,    *)
(* with the address of another server; one that expires and cannot be      *)
(* refreshed                                                               *)
MCAnswers == {[refresh |-> TRUE, expires |-> TRUE, redirect |-> FALSE],
              [refresh |-> FALSE, expires |-> FALSE, redirect |-> TRUE],
              [refresh |-> FALSE, expires |-> TRUE, redirect |-> FALSE]}
=============================================================================
