------------------------- MODULE MCInteractionLink -------------------------
(* Model-checking instances of InteractionLink. *)
EXTENDS InteractionLink
=============================================================================
