----------------------------- MODULE MCVisIndex -----------------------------
(***************************************************************************)
(* Model-checking instances of VisIndex and VisWalk: uids are              *)
(* interchangeable.  A behaviour begins with one walk, over any graph, and *)
(* the operations of the index go on after a walk that had nothing to do.  *)
(***************************************************************************)
EXTENDS VisIndex, VisWalk, TLC

Symmetry == Permutations(Uids)

MCInit == Init /\ WalkInit

NoWalk == ~DetectCalled /\ edges = NoLinks

MCNext ==
    \/ WalkNext /\ UNCHANGED vars
    \/ NoWalk /\ Next /\ UNCHANGED walkVars

MCSpec == MCInit /\ [][MCNext]_<<vars, walkVars>>
=============================================================================
