------------------------ MODULE MCCommentEnrichment ------------------------
(* A small instance of CommentEnrichment: two deployments side by side, the  *)
(* old one without a key for the LLM.  The .cfg gives the other constants.   *)
EXTENDS CommentEnrichment, TLC

CONSTANTS old, new, v1, v2

MCCommented == 1 :> {1, 2}
MCSettings == (old :> v1) @@ (new :> v2)
MCSupported == (old :> {v1}) @@ (new :> {v1, v2})
MCKeyed == {<<new, v1>>, <<new, v2>>}
=============================================================================
