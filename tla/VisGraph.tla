------------------------------ MODULE VisGraph ------------------------------
(***************************************************************************)
(* What the dependency graph of the incremental index is made of           *)
(* (DependencyGraph in web/src/utils/vis/incremental-index.ts): maps from  *)
(* uids to sets of uids, and what can be reached along them.               *)
(***************************************************************************)

CONSTANT Uids  \* uids of components

Sets == [Uids -> SUBSET Uids]

(* With(f, u, v) and Without(f, u, v) are f with v in the set of u and without it. *)
With(f, u, v) == [f EXCEPT ![u] = @ \cup {v}]
Without(f, u, v) == [f EXCEPT ![u] = @ \ {v}]

Closed(e, S) == \A x \in S : e[x] \subseteq S

(* The nodes that can be reached from u by at least one edge. *)
Reach(e, u) == {v \in Uids : \A S \in SUBSET Uids : e[u] \subseteq S /\ Closed(e, S) => v \in S}

(* Bug: only cycles of one or two edges are looked for. *)
DetectShortCycle(e, u) == u \in e[u] \/ \E x \in e[u] : u \in e[x]

(* detectCycle(u): a cycle can be reached from u. *)
DetectCycle(e, u) == \E x \in {u} \cup Reach(e, u) : x \in Reach(e, x)
=============================================================================
