------------------------ MODULE MCInteractionDialog ------------------------
(* Model-checking instances of InteractionDialog: answers are interchangeable. *)
EXTENDS InteractionDialog, TLC

Symmetry == Permutations(Calls)
=============================================================================
