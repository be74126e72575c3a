-------------------------- MODULE MCUploadDialogue --------------------------
(* A small instance of UploadDialogue: three contents, two of them of one    *)
(* date.  The .cfg gives the other constants.                                *)
EXTENDS UploadDialogue, TLC

CONSTANTS x, y, z

MCDateOf == (x :> 1) @@ (y :> 1) @@ (z :> 2)

Interchangeable == Permutations(Dept) \cup Permutations({x, y})
=============================================================================
