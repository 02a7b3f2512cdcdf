---------------------------- MODULE MCBlockwise -----------------------------
(* Blockwise with uploads of one and of two blocks, and a resource whose *)
(* versions have three and two blocks.  One behaviour makes two uploads, *)
(* or a download and an upload of one block.                             *)
EXTENDS Blockwise

CONSTANTS u1, u2, small, d1
UploadSize == u1 :> 2 @@ u2 :> 2 @@ small :> 1
Sizes == <<3, 2>>
Pairs == {{u1, u2}, {u1, small}, {u2, small}, {small, d1}}
Alike == Permutations({u1, u2})
=============================================================================
