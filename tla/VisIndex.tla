------------------------------ MODULE VisIndex ------------------------------
(***************************************************************************)
(* The incremental index of visual components                              *)
(* (web/src/utils/vis/incremental-index.ts): the entries by uid, the graph *)
(* of who depends on whom, and the listeners told of changes.              *)
(*                                                                         *)
(* A dependency is kept four times: in the two maps of DependencyGraph and *)
(* in the two sets of the entries it joins.  An entry also names a parent, *)
(* which may be absent, may be refused as a dependency, and may go away.   *)
(***************************************************************************)
EXTENDS Naturals, VisGraph

CONSTANT None  \* no parent

ASSUME NoneAssumption == None \notin Uids

VARIABLES
    index,    \* the uids that have an entry
    parent,   \* entry.parentUid
    graph,    \* edges and reverseEdges; dependencies and dependents of the entries
    bulk,     \* bulkMode
    pending,  \* pendingChanges
    told,     \* what a listener takes to be in the index
    lost      \* history: uids whose pending change a second beginBulk discarded

vars == <<index, parent, graph, bulk, pending, told, lost>>

TypeOK ==
    /\ index \subseteq Uids
    /\ parent \in [Uids -> Uids \cup {None}]
    /\ graph \in [edges: Sets, reverse: Sets, dependencies: Sets, dependents: Sets]
    /\ bulk \in BOOLEAN
    /\ pending \subseteq Uids /\ told \subseteq Uids /\ lost \subseteq Uids

NoLinks == [u \in Uids |-> {}]

EmptyGraph == [edges |-> NoLinks, reverse |-> NoLinks,
               dependencies |-> NoLinks, dependents |-> NoLinks]

Init ==
    /\ index = {} /\ parent = [u \in Uids |-> None]
    /\ graph = EmptyGraph
    /\ bulk = FALSE /\ pending = {} /\ told = {} /\ lost = {}
-----------------------------------------------------------------------------
(* The dependency graph *)

(* Bug: the parent need not be in the index. *)
AddDependencyAnyway(ix, g, u, v) ==
    IF DetectCycle(With(g.edges, u, v), u)
    THEN g
    ELSE [edges |-> With(g.edges, u, v), reverse |-> With(g.reverse, v, u),
          dependencies |-> With(g.dependencies, u, v),
          dependents |-> With(g.dependents, v, u)]

(* addDependency: the edge is added, looked at, and taken back if it closes a
   cycle; the entries are told only of an edge that stays. *)
AddDependency(ix, g, u, v) ==
    CASE u \notin ix \/ v \notin ix -> g
      [] u \in ix /\ v \in ix /\ DetectCycle(With(g.edges, u, v), u) ->
            [g EXCEPT !.edges = Without(With(@, u, v), u, v),
                      !.reverse = Without(With(@, v, u), v, u)]
      [] OTHER ->
            [edges |-> With(g.edges, u, v), reverse |-> With(g.reverse, v, u),
             dependencies |-> With(g.dependencies, u, v),
             dependents |-> With(g.dependents, v, u)]

RemoveDependency(g, u, v) ==
    [edges |-> Without(g.edges, u, v), reverse |-> Without(g.reverse, v, u),
     dependencies |-> Without(g.dependencies, u, v),
     dependents |-> Without(g.dependents, v, u)]

(* removeNode of the graph, and the loops of remove over the entry's sets. *)
RemoveNode(g, u) ==
    [edges |-> [x \in Uids |-> IF x = u THEN {}
                ELSE IF x \in g.reverse[u] THEN g.edges[x] \ {u} ELSE g.edges[x]],
     reverse |-> [x \in Uids |-> IF x = u THEN {}
                ELSE IF x \in g.edges[u] THEN g.reverse[x] \ {u} ELSE g.reverse[x]],
     dependencies |-> [x \in Uids |-> IF x = u THEN {}
                ELSE IF x \in g.dependents[u] THEN g.dependencies[x] \ {u} ELSE g.dependencies[x]],
     dependents |-> [x \in Uids |-> IF x = u THEN {}
                ELSE IF x \in g.dependencies[u] THEN g.dependents[x] \ {u} ELSE g.dependents[x]]]

(* In bulk mode a change is noted; otherwise the listeners hear of it. *)
Change(u, present) ==
    IF bulk
    THEN pending' = pending \cup {u} /\ UNCHANGED <<told, lost>>
    ELSE /\ told' = IF present THEN told \cup {u} ELSE told \ {u}
         /\ lost' = lost \ {u}
         /\ UNCHANGED pending
-----------------------------------------------------------------------------
(* add of a uid that is not in the index; an entry deeper than MAX_DEPTH is
   dropped, which changes nothing. *)
AddNew(u, p) ==
    /\ u \notin index
    /\ index' = index \cup {u}
    /\ parent' = [parent EXCEPT ![u] = p]
    /\ graph' = IF p = None THEN graph ELSE AddDependency(index', graph, u, p)
    /\ Change(u, TRUE)
    /\ UNCHANGED bulk

(* add of a uid that is: the dependency on the parent follows the parent. *)
AddExisting(u, p) ==
    /\ u \in index
    /\ LET g == IF parent[u] = None THEN graph ELSE RemoveDependency(graph, u, parent[u])
       IN  graph' = IF parent[u] = p THEN graph
                    ELSE IF p = None THEN g
                    ELSE AddDependency(index, g, u, p)
    /\ parent' = [parent EXCEPT ![u] = p]
    /\ Change(u, TRUE)
    /\ UNCHANGED <<index, bulk>>

Remove(u) ==
    /\ u \in index
    /\ index' = index \ {u}
    /\ parent' = [parent EXCEPT ![u] = None]
    /\ graph' = RemoveNode(graph, u)
    /\ Change(u, FALSE)
    /\ UNCHANGED bulk

(* update: fields are assigned, the graph is not looked at. *)
Update(u, p) ==
    /\ u \in index
    /\ parent' = [parent EXCEPT ![u] = p]
    /\ Change(u, TRUE)
    /\ UNCHANGED <<index, graph, bulk>>

Link(u, v) ==
    /\ graph' = AddDependency(index, graph, u, v)
    /\ UNCHANGED <<index, parent, bulk, pending, told, lost>>

Unlink(u, v) ==
    /\ graph' = RemoveDependency(graph, u, v)
    /\ UNCHANGED <<index, parent, bulk, pending, told, lost>>

(* beginBulk clears what an enclosing bulk operation has noted. *)
BeginBulk ==
    /\ bulk' = TRUE /\ pending' = {}
    /\ lost' = lost \cup pending
    /\ UNCHANGED <<index, parent, graph, told>>

(* Bug: the listeners are not told. *)
EndBulkSilent ==
    /\ bulk' = FALSE /\ pending' = {}
    /\ UNCHANGED <<index, parent, graph, told, lost>>

(* endBulk tells of the entries that are left, not of those removed. *)
EndBulk ==
    /\ bulk' = FALSE /\ pending' = {}
    /\ told' = told \cup (pending \cap index)
    /\ lost' = lost \ pending
    /\ UNCHANGED <<index, parent, graph>>

(* clear tells nobody. *)
Clear ==
    /\ index' = {} /\ parent' = [u \in Uids |-> None]
    /\ graph' = EmptyGraph
    /\ pending' = {}
    /\ UNCHANGED <<bulk, told, lost>>

Next ==
    \/ \E u \in Uids, p \in Uids \cup {None} :
          AddNew(u, p) \/ AddExisting(u, p) \/ Update(u, p)
    \/ \E u, v \in Uids : Link(u, v) \/ Unlink(u, v)
    \/ \E u \in Uids : Remove(u)
    \/ BeginBulk \/ EndBulk \/ Clear

Spec == Init /\ [][Next]_vars
-----------------------------------------------------------------------------
(* The four records of a dependency agree, and join entries of the index:
   however entries come, go and change parents, nothing is invalidated through
   a stale link and no entry depends on one that is gone. *)
Mirrored ==
    /\ graph.dependencies = graph.edges
    /\ graph.dependents = graph.reverse
    /\ \A u, v \in Uids :
          /\ v \in graph.edges[u] <=> u \in graph.reverse[v]
          /\ v \in graph.edges[u] => u \in index /\ v \in index

(* Looking for a cycle from the entry that gains a dependency is enough: the
   graph never has one, so every walk over dependents ends. *)
Acyclic == \A u \in Uids : u \notin Reach(graph.edges, u)

(* Outside bulk mode a listener knows of every entry, except where a bulk
   operation was begun inside another one. *)
ListenersKnow == index \subseteq told \cup pending \cup lost

(* A walk over an entry's dependents (getAffectedUids) never leads back to it,
   and meets no entry that has gone. *)
AffectedAreLive ==
    \A u \in Uids : Reach(graph.reverse, u) \subseteq index \ {u}
=============================================================================
