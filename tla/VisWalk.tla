------------------------------- MODULE VisWalk -------------------------------
(***************************************************************************)
(* The two walks over a DependencyGraph (incremental-index.ts), step by    *)
(* step: the depth-first search of detectCycle, its calls of dfs as a      *)
(* stack, and the breadth-first search of getAllDependents.  A set is      *)
(* iterated in any order, and any graph is walked: the class is exported   *)
(* and addEdge refuses nothing.                                            *)
(***************************************************************************)
EXTENDS VisGraph, Naturals, Sequences, Functions

VARIABLES
    edges,    \* edges for detectCycle, reverseEdges for getAllDependents
    root,     \* the uid the walk was called with
    path,     \* path: the calls of dfs that have not returned
    todo,     \* the dependencies the loop of such a call has yet to look at
    visited,  \* visited
    cycle,    \* the cycle that was returned, or <<>>
    queue,    \* queue
    result    \* result

graphVars == <<edges, root>>
dfsVars   == <<path, todo, visited, cycle>>
bfsVars   == <<queue, result>>
walkVars  == <<graphVars, dfsVars, bfsVars>>

(* One walk of either kind has been called. *)
WalkInit ==
    /\ edges \in Sets /\ root \in Uids
    /\ cycle = <<>> /\ result = {}
    /\ \/ /\ path = <<root>> /\ visited = {root}
          /\ todo = [u \in Uids |-> IF u = root THEN edges[u] ELSE {}]
          /\ queue = {}
       \/ /\ path = <<>> /\ visited = {} /\ todo = [u \in Uids |-> {}]
          /\ queue = edges[root]
-----------------------------------------------------------------------------
(* detectCycle *)

(* The call of dfs that is running. *)
Top == path[Len(path)]

(* path.indexOf. *)
IndexOf(dep) == CHOOSE i \in DOMAIN path : path[i] = dep /\ \A j \in 1..(i - 1) : path[j] # dep

(* The path from where it meets dep, and dep again. *)
CycleTo(dep) == Append(SubSeq(path, IndexOf(dep), Len(path)), dep)

(* Bug: a node is given up as visited before the path is looked at. *)
DfsVisitedFirst(dep) ==
    \/ /\ dep \in visited
       /\ todo' = [todo EXCEPT ![Top] = @ \ {dep}]
       /\ UNCHANGED <<path, visited, cycle>>
    \/ /\ dep \notin visited
       /\ path' = Append(path, dep) /\ visited' = visited \cup {dep}
       /\ todo' = [todo EXCEPT ![Top] = @ \ {dep}, ![dep] = edges[dep]]
       /\ UNCHANGED cycle

(* dfs(dep): on the path, visited before, or entered. *)
Dfs(dep) ==
    \/ /\ dep \in Range(path)
       /\ cycle' = CycleTo(dep)
       /\ UNCHANGED <<path, todo, visited>>
    \/ /\ dep \in visited \ Range(path)
       /\ todo' = [todo EXCEPT ![Top] = @ \ {dep}]
       /\ UNCHANGED <<path, visited, cycle>>
    \/ /\ dep \notin visited \cup Range(path)
       /\ path' = Append(path, dep) /\ visited' = visited \cup {dep}
       /\ todo' = [todo EXCEPT ![Top] = @ \ {dep}, ![dep] = edges[dep]]
       /\ UNCHANGED cycle

(* The loop of the innermost call goes on, or ends and the call returns null. *)
Look ==
    /\ path # <<>> /\ cycle = <<>>
    /\ \E dep \in todo[Top] : Dfs(dep)
    /\ UNCHANGED <<graphVars, bfsVars>>

Leave ==
    /\ path # <<>> /\ cycle = <<>>
    /\ todo[Top] = {}
    /\ path' = SubSeq(path, 1, Len(path) - 1)
    /\ UNCHANGED <<graphVars, todo, visited, cycle, bfsVars>>
-----------------------------------------------------------------------------
(* getAllDependents *)

(* Bug: the dependents of dependents are not looked for. *)
TakeDirect(current) ==
    /\ result' = result \cup {current}
    /\ queue' = queue \ {current}

Take(current) ==
    \/ /\ current \in result
       /\ queue' = queue \ {current}
       /\ UNCHANGED result
    \/ /\ current \notin result
       /\ result' = result \cup {current}
       /\ queue' = (queue \ {current}) \cup edges[current]

Shift ==
    /\ \E current \in queue : Take(current)
    /\ UNCHANGED <<graphVars, dfsVars>>

WalkNext == Look \/ Leave \/ Shift

WalkSpec == WalkInit /\ [][WalkNext]_walkVars
-----------------------------------------------------------------------------
DetectCalled == visited # {}

(* The walk has returned. *)
Returned == IF DetectCalled THEN path = <<>> \/ cycle # <<>> ELSE queue = {}

(* A cycle that is returned is one of the graph, written from a node back to it. *)
CycleIsReal ==
    cycle # <<>> =>
        /\ Len(cycle) > 1 /\ cycle[1] = cycle[Len(cycle)]
        /\ \A i \in 1..(Len(cycle) - 1) : cycle[i + 1] \in edges[cycle[i]]

(* detectCycle finds a cycle exactly when one can be reached, and a real one: the
   visited nodes the branches of the search share hide none. *)
FindsCycles ==
    /\ DetectCalled /\ Returned => (cycle # <<>> <=> DetectCycle(edges, root))
    /\ CycleIsReal

(* getAllDependents finds every direct and indirect dependent, and nothing else,
   also in a graph that has a cycle. *)
FindsDependents == ~DetectCalled /\ Returned => result = Reach(edges, root)

Grows(S, T) == S \subseteq T /\ S # T

(* Every step of a walk brings it nearer to its end, whatever the graph: a cycle is
   found; a node is visited for the first time; with no more nodes visited, a
   dependency is dealt with; with none dealt with, a call returns; and likewise for
   the queue.  None of these can go on for ever over finitely many uids. *)
WalksAdvance ==
    [][\/ cycle = <<>> /\ cycle' # <<>>
       \/ Grows(visited, visited')
       \/ UNCHANGED visited /\ todo' # todo /\ \A u \in Uids : todo'[u] \subseteq todo[u]
       \/ UNCHANGED <<visited, todo>> /\ Len(path') < Len(path)
       \/ Grows(result, result')
       \/ UNCHANGED result /\ Grows(queue', queue)]_walkVars
-----------------------------------------------------------------------------
(* The invariant of the two loops. *)

WalkTypeOK ==
    /\ edges \in Sets /\ root \in Uids
    /\ path \in Seq(Uids) /\ todo \in Sets /\ visited \subseteq Uids /\ cycle \in Seq(Uids)
    /\ queue \subseteq Uids /\ result \subseteq Uids

(* The calls that have returned, each with null. *)
Left == visited \ Range(path)

(* The path leads from the root along edges, each node to all that follow it. *)
PathLeads ==
    /\ path # <<>> => path[1] = root
    /\ \A i \in DOMAIN path :
          /\ path[i] \in visited
          /\ i < Len(path) => path[i + 1] \in edges[path[i]]
          /\ \A j \in DOMAIN path : i < j => /\ path[i] # path[j]
                                          /\ path[j] \in Reach(edges, path[i])

(* A call has looked at each dependency it is not yet to look at: it has left that
   node, or is waiting for it. *)
LoopsLook ==
    \A i \in DOMAIN path :
        /\ todo[path[i]] \subseteq edges[path[i]]
        /\ \A x \in edges[path[i]] \ todo[path[i]] :
              x \in Left \/ (i < Len(path) /\ x = path[i + 1])

(* What was left leads only to what was left, and is on no cycle. *)
LeftIsClean == \A x \in Left : edges[x] \subseteq Left /\ x \notin Reach(edges, x)

DfsInv ==
    /\ PathLeads /\ LoopsLook /\ LeftIsClean
    /\ DetectCalled => root \in visited
    /\ cycle # <<>> => DetectCycle(edges, root)

(* What was looked at and what waits are dependents, and hold the dependents of what
   was looked at. *)
BfsInv ==
    ~DetectCalled =>
        /\ queue \cup result \subseteq Reach(edges, root)
        /\ edges[root] \subseteq queue \cup result
        /\ \A x \in result : edges[x] \subseteq queue \cup result

WalkInv == WalkTypeOK /\ DfsInv /\ CycleIsReal /\ BfsInv
=============================================================================
