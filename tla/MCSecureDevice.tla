--------------------------- MODULE MCSecureDevice ---------------------------
(* SecureDevice with interchangeable identities. *)
EXTENDS SecureDevice, TLC

Identities == Permutations(Uuid)
=============================================================================
