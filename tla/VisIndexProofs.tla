--------------------------- MODULE VisIndexProofs ---------------------------
(***************************************************************************)
(* Theorems about the incremental index, for every set of uids.  What can  *)
(* be reached is the least set closed under the edges, so a cycle is       *)
(* excluded by exhibiting a closed set that leaves a node out.  The second *)
(* part proves the two walks of the code right, over any graph.            *)
(***************************************************************************)
EXTENDS VisIndex, VisWalk, SequenceTheorems, TLAPS

NoCycle(e) == \A u \in Uids : u \notin Reach(e, u)

(* The maps of the graph and the sets of the entries agree, over ix. *)
Agrees(ix, g) ==
    /\ g.dependencies = g.edges
    /\ g.dependents = g.reverse
    /\ \A u, v \in Uids :
          /\ v \in g.edges[u] <=> u \in g.reverse[v]
          /\ v \in g.edges[u] => u \in ix /\ v \in ix

Graphs == [edges: Sets, reverse: Sets, dependencies: Sets, dependents: Sets]

GoodGraph(ix, g) == g \in Graphs /\ Agrees(ix, g) /\ NoCycle(g.edges)

IInv == TypeOK /\ Mirrored /\ Acyclic /\ ListenersKnow
-----------------------------------------------------------------------------
(* The nodes that can be reached are closed under the edges. *)
LEMMA ReachClosed ==
    ASSUME NEW e \in Sets, NEW u \in Uids
    PROVE  /\ Reach(e, u) \subseteq Uids
           /\ e[u] \subseteq Reach(e, u)
           /\ Closed(e, Reach(e, u))
<1>1. Reach(e, u) \subseteq Uids /\ e[u] \subseteq Reach(e, u)
  BY DEF Reach, Sets
<1>2. ASSUME NEW x \in Reach(e, u), NEW y \in e[x] PROVE y \in Reach(e, u)
  <2>1. x \in Uids /\ y \in Uids
    BY <1>2 DEF Reach, Sets
  <2>2. ASSUME NEW S \in SUBSET Uids, e[u] \subseteq S, Closed(e, S) PROVE y \in S
    <3>1. x \in S
      BY <1>2, <2>2 DEF Reach
    <3> QED
      BY <1>2, <2>2, <3>1 DEF Closed
  <2> QED
    BY <2>1, <2>2 DEF Reach
<1> QED
  BY <1>1, <1>2 DEF Closed

(* ... and are the least such set that holds the direct successors. *)
LEMMA ReachLeast ==
    ASSUME NEW e \in Sets, NEW u \in Uids, NEW S \in SUBSET Uids,
           e[u] \subseteq S, Closed(e, S)
    PROVE  Reach(e, u) \subseteq S
  BY DEF Reach

(* Taking edges away makes no cycle. *)
LEMMA FewerEdges ==
    ASSUME NEW e \in Sets, NEW f \in Sets, \A u \in Uids : f[u] \subseteq e[u], NoCycle(e)
    PROVE  NoCycle(f)
<1> SUFFICES ASSUME NEW u \in Uids PROVE u \notin Reach(f, u)
  BY DEF NoCycle
<1>1. /\ Reach(e, u) \subseteq Uids
      /\ e[u] \subseteq Reach(e, u)
      /\ Closed(e, Reach(e, u))
  BY ReachClosed
<1>2. f[u] \subseteq Reach(e, u) /\ Closed(f, Reach(e, u))
  BY <1>1 DEF Closed
<1>3. Reach(f, u) \subseteq Reach(e, u)
  BY <1>1, <1>2, ReachLeast
<1> QED
  BY <1>3 DEF NoCycle

(* An edge from which no cycle can be reached makes none: a node on a new
   cycle would be reached from the source of the edge. *)
LEMMA OneMoreEdge ==
    ASSUME NEW e \in Sets, NEW u \in Uids, NEW v \in Uids, NoCycle(e),
           ~DetectCycle(With(e, u, v), u)
    PROVE  NoCycle(With(e, u, v))
<1> DEFINE f == With(e, u, v)
<1>1. f \in Sets /\ f[u] = e[u] \cup {v} /\ \A x \in Uids : x # u => f[x] = e[x]
  BY DEF With, Sets
<1> SUFFICES ASSUME NEW x \in Uids, x \in Reach(f, x) PROVE FALSE
  BY DEF NoCycle
<1> DEFINE S == Reach(e, x) \cup Reach(f, u)
<1> HIDE DEF f
<1>2. /\ Reach(e, x) \subseteq Uids
      /\ e[x] \subseteq Reach(e, x)
      /\ Closed(e, Reach(e, x))
  BY ReachClosed
<1>3. /\ Reach(f, u) \subseteq Uids
      /\ f[u] \subseteq Reach(f, u)
      /\ Closed(f, Reach(f, u))
  BY <1>1, ReachClosed
<1>4. Closed(f, S)
  <2> SUFFICES ASSUME NEW y \in S PROVE f[y] \subseteq S
    BY DEF Closed
  <2>1. CASE y \in Reach(f, u)
    BY <1>3, <2>1 DEF Closed
  <2>2. CASE y \in Reach(e, x) /\ y # u
    BY <1>1, <1>2, <2>2 DEF Closed
  <2>3. CASE y = u
    BY <1>3, <2>3
  <2> QED
    BY <2>1, <2>2, <2>3
<1>5. f[x] \subseteq S
  BY <1>1, <1>2, <1>3
<1>6. Reach(f, x) \subseteq S
  BY <1>1, <1>2, <1>3, <1>4, <1>5, ReachLeast
<1>7. x \in Reach(f, u)
  BY <1>6 DEF NoCycle
<1> QED
  BY <1>7 DEF DetectCycle, f

(* A graph has a cycle if its reverse has one. *)
LEMMA ReverseNoCycle ==
    ASSUME NEW e \in Sets, NEW r \in Sets, NoCycle(e),
           \A u, v \in Uids : v \in e[u] <=> u \in r[v]
    PROVE  NoCycle(r)
<1> SUFFICES ASSUME NEW u \in Uids PROVE u \notin Reach(r, u)
  BY DEF NoCycle
<1> DEFINE S == {y \in Uids : u \in Reach(e, y)}
<1>1. r[u] \subseteq S
  <2> SUFFICES ASSUME NEW y \in r[u] PROVE y \in S
    OBVIOUS
  <2>1. y \in Uids /\ u \in e[y]
    BY DEF Sets
  <2> QED
    BY <2>1, ReachClosed
<1>2. Closed(r, S)
  <2> SUFFICES ASSUME NEW y \in S, NEW z \in r[y] PROVE z \in S
    BY DEF Closed
  <2>1. z \in Uids /\ y \in e[z]
    BY DEF Sets
  <2>2. Reach(e, z) \in SUBSET Uids /\ e[z] \subseteq Reach(e, z) /\ Closed(e, Reach(e, z))
    BY <2>1, ReachClosed
  <2>3. e[y] \subseteq Reach(e, z)
    BY <2>1, <2>2 DEF Closed
  <2>4. Reach(e, y) \subseteq Reach(e, z)
    BY <2>2, <2>3, ReachLeast
  <2> QED
    BY <2>1, <2>4
<1>3. Reach(r, u) \subseteq S
  BY <1>1, <1>2, ReachLeast
<1> QED
  BY <1>3 DEF NoCycle
-----------------------------------------------------------------------------
(* A dependency that is added leaves the graph good. *)
LEMMA AddKeepsGood ==
    ASSUME NEW ix \in SUBSET Uids, NEW g, GoodGraph(ix, g), NEW u \in Uids, NEW v \in Uids
    PROVE  GoodGraph(ix, AddDependency(ix, g, u, v))
<1> DEFINE f == With(g.edges, u, v)
<1>0. g \in Graphs /\ g.edges \in Sets /\ g.reverse \in Sets
  BY DEF GoodGraph, Graphs
<1>1. CASE u \notin ix \/ v \notin ix
  BY <1>1 DEF AddDependency
<1>2. CASE u \in ix /\ v \in ix /\ DetectCycle(f, u)
  <2> DEFINE h == AddDependency(ix, g, u, v)
  <2>1. h = [g EXCEPT !.edges = Without(With(@, u, v), u, v),
                      !.reverse = Without(With(@, v, u), v, u)]
    BY <1>2 DEF AddDependency
  <2>2. v \notin g.edges[u]
    <3> SUFFICES ASSUME v \in g.edges[u] PROVE FALSE
      OBVIOUS
    <3>1. f = g.edges
      BY <1>0 DEF With, Sets
    <3>2. PICK x \in {u} \cup Reach(g.edges, u) : x \in Reach(g.edges, x)
      BY <1>2, <3>1 DEF DetectCycle
    <3>3. x \in Uids
      BY <1>0, ReachClosed
    <3> QED
      BY <3>2, <3>3 DEF GoodGraph, NoCycle
  <2>3. u \notin g.reverse[v]
    BY <2>2 DEF GoodGraph, Agrees
  <2>4. Without(f, u, v) = g.edges
    BY <1>0, <2>2 DEF With, Without, Sets
  <2>5. Without(With(g.reverse, v, u), v, u) = g.reverse
    BY <1>0, <2>3 DEF With, Without, Sets
  <2>6. h = g
    BY <1>0, <2>1, <2>4, <2>5 DEF Graphs
  <2> QED
    BY <2>6
<1>3. CASE u \in ix /\ v \in ix /\ ~DetectCycle(f, u)
  <2> DEFINE r == With(g.reverse, v, u)
             h == [edges |-> f, reverse |-> r, dependencies |-> f, dependents |-> r]
  <2>1. AddDependency(ix, g, u, v) = h
    BY <1>3 DEF AddDependency, GoodGraph, Agrees
  <2>2. f \in Sets /\ r \in Sets
    BY <1>0 DEF With, Sets
  <2>3. NoCycle(f)
    BY <1>0, <1>3, OneMoreEdge DEF GoodGraph
  <2>4. ASSUME NEW x \in Uids, NEW y \in Uids
        PROVE  /\ y \in f[x] <=> x \in r[y]
               /\ y \in f[x] => x \in ix /\ y \in ix
    <3>1. y \in f[x] <=> y \in g.edges[x] \/ (x = u /\ y = v)
      BY <1>0 DEF With, Sets
    <3>2. x \in r[y] <=> x \in g.reverse[y] \/ (x = u /\ y = v)
      BY <1>0 DEF With, Sets
    <3> QED
      BY <1>3, <3>1, <3>2 DEF GoodGraph, Agrees
  <2>5. h.edges = f /\ h.reverse = r /\ h.dependencies = f /\ h.dependents = r /\ h \in Graphs
    BY <2>2 DEF Graphs
  <2> QED
    BY <2>1, <2>3, <2>4, <2>5 DEF GoodGraph, Agrees
<1> QED
  BY <1>1, <1>2, <1>3

(* ... and one that is removed. *)
LEMMA RemoveKeepsGood ==
    ASSUME NEW ix \in SUBSET Uids, NEW g, GoodGraph(ix, g), NEW u \in Uids, NEW v \in Uids
    PROVE  GoodGraph(ix, RemoveDependency(g, u, v))
<1> DEFINE f == Without(g.edges, u, v)
           r == Without(g.reverse, v, u)
           h == [edges |-> f, reverse |-> r, dependencies |-> f, dependents |-> r]
<1>0. g \in Graphs /\ g.edges \in Sets /\ g.reverse \in Sets
  BY DEF GoodGraph, Graphs
<1>1. RemoveDependency(g, u, v) = h
  BY DEF RemoveDependency, GoodGraph, Agrees
<1>2. f \in Sets /\ r \in Sets
  BY <1>0 DEF Without, Sets
<1>3. ASSUME NEW x \in Uids, NEW y \in Uids
      PROVE  /\ y \in f[x] <=> y \in g.edges[x] /\ ~(x = u /\ y = v)
             /\ x \in r[y] <=> x \in g.reverse[y] /\ ~(x = u /\ y = v)
  BY <1>0 DEF Without, Sets
<1>4. NoCycle(f)
  <2>1. \A x \in Uids : f[x] \subseteq g.edges[x]
    BY <1>0, <1>2, <1>3 DEF Sets
  <2> QED
    BY <1>0, <1>2, <2>1, FewerEdges DEF GoodGraph
<1>5. h.edges = f /\ h.reverse = r /\ h.dependencies = f /\ h.dependents = r /\ h \in Graphs
  BY <1>2 DEF Graphs
<1>6. Agrees(ix, h)
  BY <1>3, <1>5 DEF Agrees, GoodGraph
<1> QED
  BY <1>1, <1>4, <1>5, <1>6 DEF GoodGraph

(* ... and an entry that goes, with everything that pointed at it. *)
LEMMA NodeKeepsGood ==
    ASSUME NEW ix \in SUBSET Uids, NEW g, GoodGraph(ix, g), NEW u \in Uids
    PROVE  GoodGraph(ix \ {u}, RemoveNode(g, u))
<1> DEFINE h == RemoveNode(g, u)
           f == [x \in Uids |-> IF x = u THEN {}
                   ELSE IF x \in g.reverse[u] THEN g.edges[x] \ {u} ELSE g.edges[x]]
           r == [x \in Uids |-> IF x = u THEN {}
                   ELSE IF x \in g.edges[u] THEN g.reverse[x] \ {u} ELSE g.reverse[x]]
<1>0. g \in Graphs /\ g.edges \in Sets /\ g.reverse \in Sets
  BY DEF GoodGraph, Graphs
<1>1. h = [edges |-> f, reverse |-> r, dependencies |-> f, dependents |-> r]
  BY DEF RemoveNode, GoodGraph, Agrees
<1>2. f \in Sets /\ r \in Sets
  BY <1>0 DEF Sets
<1>3. ASSUME NEW x \in Uids, NEW y \in Uids
      PROVE  /\ y \in f[x] <=> y \in g.edges[x] /\ x # u /\ y # u
             /\ x \in r[y] <=> x \in g.reverse[y] /\ x # u /\ y # u
  <2>1. \A p, q \in Uids : q \in g.edges[p] <=> p \in g.reverse[q]
    BY DEF GoodGraph, Agrees
  <2> QED
    BY <2>1
<1>4. NoCycle(f)
  <2>1. \A x \in Uids : f[x] \subseteq g.edges[x]
    BY <1>0, <1>2, <1>3 DEF Sets
  <2> QED
    BY <1>0, <1>2, <2>1, FewerEdges DEF GoodGraph
<1>5. h.edges = f /\ h.reverse = r /\ h.dependencies = f /\ h.dependents = r /\ h \in Graphs
  BY <1>1, <1>2 DEF Graphs
<1>6. Agrees(ix \ {u}, h)
  BY <1>3, <1>5 DEF Agrees, GoodGraph
<1> QED
  BY <1>4, <1>5, <1>6 DEF GoodGraph

(* A larger index does no harm, and the empty graph is good. *)
LEMMA MoreEntries ==
    ASSUME NEW ix, NEW iy, ix \subseteq iy, NEW g, GoodGraph(ix, g)
    PROVE  GoodGraph(iy, g)
  BY DEF GoodGraph, Agrees

LEMMA EmptyGood == ASSUME NEW ix PROVE GoodGraph(ix, EmptyGraph)
<1>1. NoLinks \in Sets /\ \A u \in Uids : NoLinks[u] = {}
  BY DEF NoLinks, Sets
<1>2. NoCycle(NoLinks)
  <2> SUFFICES ASSUME NEW u \in Uids PROVE u \notin Reach(NoLinks, u)
    BY DEF NoCycle
  <2>1. Reach(NoLinks, u) \subseteq {}
    BY <1>1, ReachLeast DEF Closed
  <2> QED
    BY <2>1
<1>3. EmptyGraph \in Graphs
  BY <1>1 DEF EmptyGraph, Graphs
<1>4. Agrees(ix, EmptyGraph)
  BY <1>1 DEF Agrees, EmptyGraph
<1> QED
  BY <1>2, <1>3, <1>4 DEF GoodGraph, EmptyGraph
-----------------------------------------------------------------------------
(* The invariant is about the graph, or about the listeners. *)
LEMMA InvIsGood == TypeOK => (Mirrored /\ Acyclic <=> GoodGraph(index, graph))
  BY DEF TypeOK, Mirrored, Acyclic, GoodGraph, Agrees, NoCycle, Graphs

LEMMA IInvInit == Init => IInv
<1> SUFFICES ASSUME Init PROVE IInv
  OBVIOUS
<1>1. GoodGraph(index, graph)
  BY EmptyGood DEF Init
<1>2. TypeOK
  BY <1>1 DEF Init, TypeOK, GoodGraph, Graphs
<1>3. ListenersKnow
  BY DEF Init, ListenersKnow
<1> QED
  BY <1>1, <1>2, <1>3, InvIsGood DEF IInv

(* What changes in the graph leaves it good: one case per action. *)
LEMMA GraphStep == TypeOK /\ GoodGraph(index, graph) /\ [Next]_vars => GoodGraph(index', graph')
<1> SUFFICES ASSUME TypeOK, GoodGraph(index, graph), [Next]_vars
             PROVE  GoodGraph(index', graph')
  OBVIOUS
<1>0. index \in SUBSET Uids /\ \A u \in Uids : parent[u] \in Uids \cup {None}
  BY DEF TypeOK
<1>1. ASSUME NEW u \in Uids, NEW p \in Uids \cup {None}, AddNew(u, p)
      PROVE  GoodGraph(index', graph')
  <2>1. index' \in SUBSET Uids /\ index \subseteq index'
    BY <1>0, <1>1 DEF AddNew
  <2>2. GoodGraph(index', graph)
    BY <2>1, MoreEntries
  <2>3. CASE p = None
    BY <1>1, <2>2, <2>3 DEF AddNew
  <2>4. CASE p # None
    <3>1. p \in Uids /\ graph' = AddDependency(index', graph, u, p)
      BY <1>1, <2>4 DEF AddNew
    <3> QED
      BY <2>1, <2>2, <3>1, AddKeepsGood
  <2> QED
    BY <2>3, <2>4
<1>2. ASSUME NEW u \in Uids, NEW p \in Uids \cup {None}, AddExisting(u, p)
      PROVE  GoodGraph(index', graph')
  <2> DEFINE g == IF parent[u] = None THEN graph ELSE RemoveDependency(graph, u, parent[u])
  <2>1. GoodGraph(index, g)
    <3>1. CASE parent[u] = None
      BY <3>1
    <3>2. CASE parent[u] # None
      BY <1>0, <3>2, RemoveKeepsGood
    <3> QED
      BY <3>1, <3>2
  <2>2. /\ index' = index
        /\ graph' = IF parent[u] = p THEN graph
                    ELSE IF p = None THEN g ELSE AddDependency(index, g, u, p)
    BY <1>2 DEF AddExisting
  <2> HIDE DEF g
  <2>3. p # None => GoodGraph(index, AddDependency(index, g, u, p))
    <3> SUFFICES ASSUME p # None PROVE GoodGraph(index, AddDependency(index, g, u, p))
      OBVIOUS
    <3>1. p \in Uids
      OBVIOUS
    <3> QED
      BY <1>0, <2>1, <3>1, AddKeepsGood
  <2> QED
    BY <2>1, <2>2, <2>3
<1>3. ASSUME NEW u \in Uids, NEW p \in Uids \cup {None}, Update(u, p)
      PROVE  GoodGraph(index', graph')
  BY <1>3 DEF Update
<1>4. ASSUME NEW u \in Uids, NEW v \in Uids, Link(u, v) PROVE GoodGraph(index', graph')
  BY <1>0, <1>4, AddKeepsGood DEF Link
<1>5. ASSUME NEW u \in Uids, NEW v \in Uids, Unlink(u, v) PROVE GoodGraph(index', graph')
  BY <1>0, <1>5, RemoveKeepsGood DEF Unlink
<1>6. ASSUME NEW u \in Uids, Remove(u) PROVE GoodGraph(index', graph')
  BY <1>0, <1>6, NodeKeepsGood DEF Remove
<1>7. CASE BeginBulk
  BY <1>7 DEF BeginBulk
<1>8. CASE EndBulk
  BY <1>8 DEF EndBulk
<1>9. CASE Clear
  BY <1>9, EmptyGood DEF Clear
<1>10. CASE UNCHANGED vars
  BY <1>10 DEF vars
<1> QED
  BY <1>1, <1>2, <1>3, <1>4, <1>5, <1>6, <1>7, <1>8, <1>9, <1>10 DEF Next

(* The other variables keep their types, and the listeners their entries. *)
LEMMA RestStep ==
    TypeOK /\ graph' \in Graphs /\ ListenersKnow /\ [Next]_vars => TypeOK' /\ ListenersKnow'
<1> SUFFICES ASSUME TypeOK, graph' \in Graphs, ListenersKnow, [Next]_vars
             PROVE  TypeOK' /\ ListenersKnow'
  OBVIOUS
<1> USE DEF TypeOK, ListenersKnow, Graphs
<1>1. ASSUME NEW u \in Uids, NEW p \in Uids \cup {None}, AddNew(u, p)
      PROVE  TypeOK' /\ ListenersKnow'
  BY <1>1 DEF AddNew, Change
<1>2. ASSUME NEW u \in Uids, NEW p \in Uids \cup {None}, AddExisting(u, p)
      PROVE  TypeOK' /\ ListenersKnow'
  BY <1>2 DEF AddExisting, Change
<1>3. ASSUME NEW u \in Uids, NEW p \in Uids \cup {None}, Update(u, p)
      PROVE  TypeOK' /\ ListenersKnow'
  BY <1>3 DEF Update, Change
<1>4. ASSUME NEW u \in Uids, NEW v \in Uids, Link(u, v) PROVE TypeOK' /\ ListenersKnow'
  BY <1>4 DEF Link
<1>5. ASSUME NEW u \in Uids, NEW v \in Uids, Unlink(u, v) PROVE TypeOK' /\ ListenersKnow'
  BY <1>5 DEF Unlink
<1>6. ASSUME NEW u \in Uids, Remove(u) PROVE TypeOK' /\ ListenersKnow'
  BY <1>6 DEF Remove, Change
<1>7. CASE BeginBulk
  BY <1>7 DEF BeginBulk
<1>8. CASE EndBulk
  BY <1>8 DEF EndBulk
<1>9. CASE Clear
  BY <1>9 DEF Clear
<1>10. CASE UNCHANGED vars
  BY <1>10 DEF vars
<1> QED
  BY <1>1, <1>2, <1>3, <1>4, <1>5, <1>6, <1>7, <1>8, <1>9, <1>10 DEF Next

LEMMA IInvStep == IInv /\ [Next]_vars => IInv'
<1> SUFFICES ASSUME IInv, [Next]_vars PROVE IInv'
  OBVIOUS
<1>1. GoodGraph(index, graph)
  BY InvIsGood DEF IInv
<1>2. GoodGraph(index', graph')
  BY <1>1, GraphStep DEF IInv
<1>3. TypeOK' /\ ListenersKnow'
  BY <1>2, RestStep DEF IInv, GoodGraph
<1>4. Mirrored' /\ Acyclic'
  BY <1>2 DEF Mirrored, Acyclic, GoodGraph, Agrees, NoCycle
<1> QED
  BY <1>3, <1>4 DEF IInv

(* The inductive invariant of the index. *)
THEOREM IndexInvariant == Spec => []IInv
  BY IInvInit, IInvStep, PTL DEF Spec

(* Every variable keeps its type. *)
THEOREM IndexTypes == Spec => []TypeOK
<1>1. IInv => TypeOK
  BY DEF IInv
<1> QED
  BY <1>1, IndexInvariant, PTL

(* The four records of a dependency agree, and join entries that exist. *)
THEOREM LinksMirrored == Spec => []Mirrored
<1>1. IInv => Mirrored
  BY DEF IInv
<1> QED
  BY <1>1, IndexInvariant, PTL

(* Looking for a cycle from one end of each new edge keeps the graph free of
   cycles, for graphs of any size. *)
THEOREM GraphAcyclic == Spec => []Acyclic
<1>1. IInv => Acyclic
  BY DEF IInv
<1> QED
  BY <1>1, IndexInvariant, PTL

(* Outside bulk mode no listener misses an entry. *)
THEOREM ListenersTold == Spec => []ListenersKnow
<1>1. IInv => ListenersKnow
  BY DEF IInv
<1> QED
  BY <1>1, IndexInvariant, PTL

(* What is affected by a change exists, and is not the changed entry itself. *)
THEOREM AffectedLive == Spec => []AffectedAreLive
<1>1. IInv => AffectedAreLive
  <2> SUFFICES ASSUME IInv, NEW u \in Uids
               PROVE  Reach(graph.reverse, u) \subseteq index \ {u}
    BY DEF AffectedAreLive
  <2>1. graph.edges \in Sets /\ graph.reverse \in Sets /\ index \in SUBSET Uids
    BY DEF IInv, TypeOK
  <2>2. \A x, y \in Uids : y \in graph.edges[x] <=> x \in graph.reverse[y]
    BY DEF IInv, Mirrored
  <2>3. NoCycle(graph.edges)
    BY DEF IInv, Acyclic, NoCycle
  <2>4. NoCycle(graph.reverse)
    BY <2>1, <2>2, <2>3, ReverseNoCycle
  <2>5. \A x \in Uids : graph.reverse[x] \subseteq index
    BY <2>1, <2>2 DEF IInv, Mirrored, Sets
  <2>6. Reach(graph.reverse, u) \subseteq index
    BY <2>1, <2>5, ReachLeast DEF Closed
  <2> QED
    BY <2>4, <2>6 DEF NoCycle
<1> QED
  BY <1>1, IndexInvariant, PTL

-----------------------------------------------------------------------------
(* The walks of the code find what Reach and DetectCycle say *)

(* The walks go through the types they should, and the invariant of the two loops
   holds when one is called. *)
LEMMA WalkStarts == WalkInit => WalkInv
<1> SUFFICES ASSUME WalkInit PROVE WalkInv
  OBVIOUS
<1> USE DEF WalkInit
<1>1. WalkTypeOK
  <2>1. path \in Seq(Uids) /\ cycle \in Seq(Uids)
    <3>1. <<root>> \in Seq(Uids) /\ <<>> \in Seq(Uids)
      OBVIOUS
    <3> QED
      BY <3>1
  <2>2. todo \in Sets
    BY DEF Sets
  <2> QED
    BY <2>1, <2>2 DEF WalkTypeOK, Sets
<1>2. /\ edges \in Sets /\ root \in Uids
      /\ \A i \in DOMAIN path : i = 1 /\ path[i] = root /\ Len(path) = 1 /\ todo[root] = edges[root]
      /\ root \in visited <=> DetectCalled
      /\ visited \subseteq Range(path) /\ cycle = <<>>
  BY DEF DetectCalled, Range, Sets
<1>3. PathLeads
  <2>1. path # <<>> => path[1] = root
    OBVIOUS
  <2>2. \A i \in DOMAIN path : path[i] \in visited
    OBVIOUS
  <2> QED
    BY <1>2, <2>1, <2>2 DEF PathLeads
<1>4. LoopsLook /\ LeftIsClean
  BY <1>2 DEF LoopsLook, LeftIsClean, Left
<1>5. DfsInv /\ CycleIsReal
  BY <1>2, <1>3, <1>4 DEF DfsInv, CycleIsReal, DetectCalled
<1>6. BfsInv
  BY <1>2, ReachClosed DEF BfsInv, DetectCalled
<1> QED
  BY <1>1, <1>5, <1>6 DEF WalkInv

(* What the node on top of the path looks at next can be reached from it. *)
LEMMA NextOnPath ==
    ASSUME WalkInv, path # <<>>, NEW dep \in todo[Top]
    PROVE  /\ Len(path) \in DOMAIN path /\ Top \in Uids /\ dep \in Uids /\ dep \in edges[Top]
           /\ \A i \in DOMAIN path : dep \in Reach(edges, path[i])
<1>1. /\ path \in Seq(Uids) /\ edges \in Sets /\ todo \in Sets
      /\ Len(path) \in DOMAIN path /\ Top \in Uids
  BY DEF WalkInv, WalkTypeOK, Top
<1>2. dep \in Uids /\ dep \in edges[Top]
  BY <1>1 DEF WalkInv, DfsInv, LoopsLook, Top, Sets
<1>3. ASSUME NEW i \in DOMAIN path PROVE dep \in Reach(edges, path[i])
  <2>1. path[i] \in Uids
    BY <1>1, <1>3
  <2>2. CASE i = Len(path)
    BY <1>1, <1>2, <2>1, <2>2, ReachClosed DEF Top
  <2>3. CASE i # Len(path)
    <3>1. Top \in Reach(edges, path[i])
      BY <1>1, <1>3, <2>3 DEF WalkInv, DfsInv, PathLeads, Top
    <3> QED
      BY <1>1, <1>2, <2>1, <3>1, ReachClosed DEF Closed
  <2> QED
    BY <2>2, <2>3
<1> QED
  BY <1>1, <1>2, <1>3

(* What is on the path has one place on it. *)
LEMMA IndexOfPath ==
    ASSUME WalkInv, NEW dep \in Range(path)
    PROVE  /\ IndexOf(dep) \in DOMAIN path /\ path[IndexOf(dep)] = dep
           /\ IndexOf(dep) \in 1..Len(path) /\ Len(path) \in Nat
<1>1. path \in Seq(Uids)
  BY DEF WalkInv, WalkTypeOK
<1>2. PICK i \in DOMAIN path : path[i] = dep
  BY DEF Range
<1>3. \A j \in 1..(i - 1) : path[j] # dep
  BY <1>1, <1>2 DEF WalkInv, DfsInv, PathLeads
<1> QED
  BY <1>1, <1>2, <1>3 DEF IndexOf

(* A dependency on the path closes a cycle. *)
LEMMA ClosesCycle ==
    ASSUME WalkInv, path # <<>>, NEW dep \in todo[Top], dep \in Range(path),
           cycle' = CycleTo(dep), UNCHANGED <<graphVars, bfsVars, path, todo, visited>>
    PROVE  WalkInv'
<1>1. /\ path \in Seq(Uids) /\ edges \in Sets /\ root \in Uids
      /\ Len(path) \in DOMAIN path /\ dep \in Uids /\ dep \in edges[Top]
      /\ \A i \in DOMAIN path : dep \in Reach(edges, path[i])
  BY NextOnPath DEF WalkInv, WalkTypeOK
<1> DEFINE k == IndexOf(dep)
<1>2. k \in DOMAIN path /\ path[k] = dep /\ k \in 1..Len(path) /\ Len(path) \in Nat
  BY IndexOfPath
<1> DEFINE s == SubSeq(path, k, Len(path))
<1> HIDE DEF k
<1>3. /\ s \in Seq(Uids) /\ Len(s) = Len(path) - k + 1
      /\ \A i \in 1..Len(s) : s[i] = path[k + i - 1]
  BY <1>1, <1>2, SubSeqProperties
<1> HIDE DEF s
<1>3a. Len(path) \in Nat /\ k \in 1..Len(path) /\ Len(s) = Len(path) - k + 1
  BY <1>2, <1>3
<1>4. /\ cycle' = Append(s, dep) /\ cycle' \in Seq(Uids) /\ Len(cycle') = Len(s) + 1
      /\ \A i \in 1..Len(s) : cycle'[i] = s[i]
      /\ cycle'[Len(s) + 1] = dep
  BY <1>1, <1>3, AppendProperties DEF CycleTo, s, k
<1>5. WalkTypeOK' /\ BfsInv'
  BY <1>4 DEF WalkInv, WalkTypeOK, BfsInv, graphVars, bfsVars, DetectCalled
<1>6. CycleIsReal'
  <2>1. Len(cycle') > 1 /\ cycle'[1] = cycle'[Len(cycle')]
    <3>1. 1 \in 1..Len(s) /\ Len(s) + 1 > 1 /\ k + 1 - 1 = k
      BY <1>3a
    <3> QED
      BY <1>2, <1>3, <1>4, <3>1
  <2>2. ASSUME NEW i \in 1..(Len(cycle') - 1) PROVE cycle'[i + 1] \in edges[cycle'[i]]
    <3>1. i \in 1..Len(s) /\ cycle'[i] = path[k + i - 1] /\ k + i - 1 \in DOMAIN path
      BY <1>1, <1>2, <1>3, <1>4
    <3>2. CASE i = Len(s)
      <4>1. k + i - 1 = Len(path)
        BY <1>3a, <3>2
      <4>2. cycle'[i + 1] = dep
        BY <1>4, <3>2
      <4> QED
        BY <1>1, <3>1, <4>1, <4>2 DEF Top
    <3>3. CASE i # Len(s)
      <4>1. cycle'[i + 1] = path[k + i] /\ k + i - 1 < Len(path)
        <5>0. i \in 1..Len(s)
          BY <3>1
        <5>1. i + 1 \in 1..Len(s) /\ k + i - 1 < Len(path) /\ k + (i + 1) - 1 = k + i
          BY <1>3a, <3>3, <5>0
        <5> QED
          BY <1>3, <1>4, <5>1
      <4>2. path[(k + i - 1) + 1] \in edges[path[k + i - 1]]
        BY <3>1, <4>1 DEF WalkInv, DfsInv, PathLeads
      <4> QED
        BY <1>2, <3>1, <4>1, <4>2
    <3> QED
      BY <3>2, <3>3
  <2> QED
    BY <2>1, <2>2 DEF CycleIsReal, graphVars
<1>7. DetectCycle(edges, root)
  <2>1. dep \in Reach(edges, dep)
    BY <1>1, <1>2
  <2>2. dep \in {root} \cup Reach(edges, root)
    BY <1>1 DEF WalkInv, DfsInv, PathLeads
  <2> QED
    BY <2>1, <2>2 DEF DetectCycle
<1>8. DfsInv'
  BY <1>7 DEF WalkInv, DfsInv, PathLeads, LoopsLook, LeftIsClean, Left, DetectCalled, graphVars
<1> QED
  BY <1>5, <1>6, <1>8 DEF WalkInv

(* A dependency that was left is passed over. *)
LEMMA PassesOver ==
    ASSUME WalkInv, path # <<>>, NEW dep \in todo[Top], dep \in Left,
           todo' = [todo EXCEPT ![Top] = @ \ {dep}],
           UNCHANGED <<graphVars, bfsVars, path, visited, cycle>>
    PROVE  WalkInv'
<1>1. /\ path \in Seq(Uids) /\ edges \in Sets /\ todo \in Sets /\ Top \in Uids
      /\ \A i \in DOMAIN path : path[i] \in Uids
  BY NextOnPath DEF WalkInv, WalkTypeOK
<1>2. WalkTypeOK' /\ BfsInv' /\ CycleIsReal'
  BY <1>1 DEF WalkInv, WalkTypeOK, BfsInv, CycleIsReal, graphVars, bfsVars, DetectCalled, Sets
<1>3. LoopsLook'
  <2> SUFFICES ASSUME NEW i \in DOMAIN path
               PROVE  /\ todo'[path[i]] \subseteq edges[path[i]]
                      /\ \A x \in edges[path[i]] \ todo'[path[i]] :
                            x \in Left \/ (i < Len(path) /\ x = path[i + 1])
    BY DEF LoopsLook, Left, graphVars
  <2>1. todo'[path[i]] \subseteq todo[path[i]] /\ todo[path[i]] \ todo'[path[i]] \subseteq {dep}
    BY <1>1 DEF Sets
  <2> QED
    BY <2>1 DEF WalkInv, DfsInv, LoopsLook
<1>4. DfsInv'
  BY <1>3 DEF WalkInv, DfsInv, PathLeads, LeftIsClean, Left, DetectCalled, graphVars
<1> QED
  BY <1>2, <1>4 DEF WalkInv

(* A dependency not seen before is entered. *)
LEMMA Enters ==
    ASSUME WalkInv, path # <<>>, cycle = <<>>, NEW dep \in todo[Top], dep \notin visited \cup Range(path),
           path' = Append(path, dep), visited' = visited \cup {dep},
           todo' = [todo EXCEPT ![Top] = @ \ {dep}, ![dep] = edges[dep]],
           UNCHANGED <<graphVars, bfsVars, cycle>>
    PROVE  WalkInv'
<1>1. /\ path \in Seq(Uids) /\ edges \in Sets /\ todo \in Sets /\ visited \subseteq Uids
      /\ Len(path) \in DOMAIN path /\ dep \in Uids /\ dep \in edges[Top] /\ Top \in Uids
      /\ \A i \in DOMAIN path : path[i] \in Uids /\ dep \in Reach(edges, path[i])
  BY NextOnPath DEF WalkInv, WalkTypeOK
<1> DEFINE n == Len(path)
<1>2. /\ path' \in Seq(Uids) /\ Len(path') = n + 1 /\ n \in Nat
      /\ \A i \in DOMAIN path : path'[i] = path[i]
      /\ path'[n + 1] = dep /\ DOMAIN path = 1..n /\ DOMAIN path' = 1..(n + 1)
  BY <1>1, AppendProperties
<1>3. \A i \in DOMAIN path : path[i] # dep /\ path[i] \in visited
  BY DEF Range, WalkInv, DfsInv, PathLeads
<1>4. WalkTypeOK' /\ BfsInv' /\ CycleIsReal'
  <2>1. todo' \in Sets
    BY <1>1 DEF Sets
  <2>2. DetectCalled
    BY <1>1, <1>3 DEF DetectCalled
  <2> QED
    BY <1>1, <1>2, <2>1, <2>2
       DEF WalkInv, WalkTypeOK, BfsInv, CycleIsReal, graphVars, bfsVars, DetectCalled
<1>5. Left' = Left
  <2>1. Range(path)' = Range(path) \cup {dep}
    <3>1. Range(path)' = {path'[i] : i \in 1..(n + 1)} /\ Range(path) = {path[i] : i \in 1..n}
      BY <1>2 DEF Range
    <3> QED
      BY <1>2, <3>1
  <2> QED
    BY <2>1 DEF Left
<1>6. PathLeads'
  <2>1. path'[1] = root /\ path' # <<>>
    BY <1>1, <1>2 DEF WalkInv, DfsInv, PathLeads
  <2>2. ASSUME NEW i \in DOMAIN path'
        PROVE  /\ path'[i] \in visited'
               /\ i < n + 1 => path'[i + 1] \in edges[path'[i]]
               /\ \A j \in DOMAIN path' : i < j => /\ path'[i] # path'[j]
                                                   /\ path'[j] \in Reach(edges, path'[i])
    <3>1. CASE i = n + 1
      BY <1>2, <3>1
    <3>2. CASE i \in DOMAIN path
      <4>1. path'[i] \in visited'
        BY <1>2, <1>3, <3>2
      <4>2. i < n + 1 => path'[i + 1] \in edges[path'[i]]
        <5>1. CASE i = n
          BY <1>1, <1>2, <5>1 DEF Top
        <5>2. CASE i # n
          BY <1>2, <3>2, <5>2 DEF WalkInv, DfsInv, PathLeads
        <5> QED
          BY <5>1, <5>2
      <4>3. ASSUME NEW j \in DOMAIN path', i < j
            PROVE  path'[i] # path'[j] /\ path'[j] \in Reach(edges, path'[i])
        <5>1. CASE j = n + 1
          BY <1>1, <1>2, <1>3, <3>2, <5>1
        <5>2. CASE j # n + 1
          BY <1>2, <3>2, <4>3, <5>2 DEF WalkInv, DfsInv, PathLeads
        <5> QED
          BY <5>1, <5>2
      <4> QED
        BY <4>1, <4>2, <4>3
    <3> QED
      BY <1>2, <3>1, <3>2
  <2> QED
    BY <1>2, <2>1, <2>2 DEF PathLeads, graphVars
<1>7. LoopsLook'
  <2>1. ASSUME NEW i \in DOMAIN path'
        PROVE  /\ todo'[path'[i]] \subseteq edges[path'[i]]
               /\ \A x \in edges[path'[i]] \ todo'[path'[i]] :
                     x \in Left \/ (i < n + 1 /\ x = path'[i + 1])
    <3>1. CASE i = n + 1
      BY <1>1, <1>2, <3>1 DEF Sets
    <3>2. CASE i = n
      <4>1. path'[i] = Top /\ Top # dep /\ path'[i + 1] = dep
        BY <1>1, <1>2, <1>3, <3>2 DEF Top
      <4>2. todo'[Top] = todo[Top] \ {dep}
        BY <1>1, <4>1 DEF Sets
      <4>3. /\ todo[Top] \subseteq edges[Top]
            /\ \A x \in edges[Top] \ todo[Top] : x \in Left
        BY <1>1, <1>2 DEF WalkInv, DfsInv, LoopsLook, Top
      <4>4. n < n + 1
        BY <1>2
      <4> QED
        BY <1>1, <3>2, <4>1, <4>2, <4>3, <4>4
    <3>3. CASE i \in DOMAIN path /\ i # n
      <4>1. path'[i] = path[i] /\ path[i] # dep /\ path[i] # Top
        BY <1>1, <1>2, <1>3, <3>3 DEF WalkInv, DfsInv, PathLeads, Top
      <4>2. todo'[path[i]] = todo[path[i]] /\ path'[i + 1] = path[i + 1]
        <5>1. todo'[path[i]] = todo[path[i]]
          BY <1>1, <3>3, <4>1 DEF Sets
        <5>2. i + 1 \in DOMAIN path
          BY <1>2, <3>3
        <5> QED
          BY <1>2, <5>1, <5>2
      <4>3. /\ todo[path[i]] \subseteq edges[path[i]]
            /\ \A x \in edges[path[i]] \ todo[path[i]] :
                  x \in Left \/ (i < n /\ x = path[i + 1])
        BY <3>3 DEF WalkInv, DfsInv, LoopsLook
      <4>4. i < n => i < n + 1
        <5>1. n \in Nat /\ i \in Nat
          BY <1>2, <3>3
        <5> QED
          BY <5>1
      <4> QED
        BY <4>1, <4>2, <4>3, <4>4
    <3>4. i = n + 1 \/ i \in DOMAIN path
      BY <1>2, <2>1
    <3> QED
      BY <3>1, <3>2, <3>3, <3>4
  <2> QED
    BY <1>2, <1>5, <2>1 DEF LoopsLook, graphVars
<1>8. LeftIsClean'
  BY <1>5 DEF WalkInv, DfsInv, LeftIsClean, graphVars
<1>9. DfsInv'
  <2>1. root \in visited
    BY <1>1, <1>3 DEF WalkInv, DfsInv, DetectCalled
  <2> QED
    BY <1>6, <1>7, <1>8, <2>1 DEF DfsInv, graphVars
<1> QED
  BY <1>4, <1>9 DEF WalkInv

(* A call that has looked at everything returns null: nothing that can be reached from
   its node is on a cycle. *)
LEMMA Leaves ==
    ASSUME WalkInv, Leave
    PROVE  WalkInv'
<1> DEFINE n == Len(path)
<1>1. /\ path \in Seq(Uids) /\ edges \in Sets /\ root \in Uids /\ n \in DOMAIN path /\ Top \in Uids
      /\ n \in Nat /\ DOMAIN path = 1..n /\ visited \subseteq Uids
  BY DEF Leave, WalkInv, WalkTypeOK, Top
<1>2. /\ path' \in Seq(Uids) /\ Len(path') = n - 1 /\ DOMAIN path' = 1..(n - 1)
      /\ \A i \in 1..(n - 1) : path'[i] = path[i]
  BY <1>1 DEF Leave
<1>3. /\ todo[Top] = {} /\ cycle = <<>> /\ UNCHANGED <<edges, root, todo, visited, cycle, queue, result>>
  BY DEF Leave, graphVars, bfsVars
<1>4. Left' = Left \cup {Top} /\ Top \notin Left
  <2>1. Range(path) = {path[i] : i \in 1..n} /\ Range(path)' = {path[i] : i \in 1..(n - 1)}
    BY <1>1, <1>2 DEF Range
  <2>2. Range(path) = Range(path)' \cup {Top}
    BY <1>1, <2>1 DEF Top
  <2>3. Top \notin Range(path)'
    BY <1>1, <2>1 DEF WalkInv, DfsInv, PathLeads, Top
  <2>4. Top \in visited
    BY <1>1 DEF WalkInv, DfsInv, PathLeads, Top
  <2> QED
    BY <1>3, <2>2, <2>3, <2>4 DEF Left
<1>5. LeftIsClean'
  <2>1. edges[Top] \subseteq Left
    BY <1>1, <1>3 DEF WalkInv, DfsInv, LoopsLook, Top
  <2>2. Closed(edges, Left) /\ Left \in SUBSET Uids
    BY <1>1 DEF WalkInv, DfsInv, LeftIsClean, Closed, Left
  <2>3. Top \notin Reach(edges, Top)
    BY <1>1, <1>4, <2>1, <2>2, ReachLeast
  <2> QED
    BY <1>3, <1>4, <2>1, <2>3 DEF WalkInv, DfsInv, LeftIsClean
<1>6. PathLeads'
  <2>1. path' # <<>> => path'[1] = root
    BY <1>1, <1>2 DEF WalkInv, DfsInv, PathLeads
  <2> QED
    BY <1>1, <1>2, <1>3, <2>1 DEF WalkInv, DfsInv, PathLeads
<1>7. LoopsLook'
  <2>1. ASSUME NEW i \in 1..(n - 1)
        PROVE  /\ todo[path[i]] \subseteq edges[path[i]]
               /\ \A x \in edges[path[i]] \ todo[path[i]] :
                     x \in Left' \/ (i < n - 1 /\ x = path'[i + 1])
    <3>1. i = n - 1 => path[i + 1] = Top
      BY <1>1 DEF Top
    <3>2. i < n - 1 => path'[i + 1] = path[i + 1]
      BY <1>1, <1>2
    <3>3. /\ i \in DOMAIN path /\ i < n
          /\ todo[path[i]] \subseteq edges[path[i]]
          /\ \A x \in edges[path[i]] \ todo[path[i]] : x \in Left \/ x = path[i + 1]
      BY <1>1 DEF WalkInv, DfsInv, LoopsLook
    <3>4. i = n - 1 \/ i < n - 1
      <4>1. n \in Nat
        BY <1>1
      <4> QED
        BY <4>1
    <3> QED
      BY <1>4, <3>1, <3>2, <3>3, <3>4
  <2> QED
    BY <1>2, <1>3, <2>1 DEF LoopsLook
<1>8. DfsInv'
  BY <1>3, <1>5, <1>6, <1>7 DEF WalkInv, DfsInv, DetectCalled
<1>9. WalkTypeOK' /\ BfsInv' /\ CycleIsReal'
  BY <1>2, <1>3 DEF WalkInv, WalkTypeOK, BfsInv, CycleIsReal, DetectCalled
<1> QED
  BY <1>8, <1>9 DEF WalkInv

(* The queue of the breadth-first walk. *)
LEMMA Shifts ==
    ASSUME WalkInv, Shift
    PROVE  WalkInv'
<1>1. UNCHANGED <<edges, root, path, todo, visited, cycle>>
  BY DEF Shift, graphVars, dfsVars
<1>2. PICK current \in queue : Take(current)
  BY DEF Shift
<1>3. /\ edges \in Sets /\ root \in Uids /\ current \in Uids
      /\ queue \subseteq Uids /\ result \subseteq Uids
  BY <1>2 DEF WalkInv, WalkTypeOK
<1>4. WalkTypeOK'
  BY <1>1, <1>2, <1>3 DEF WalkInv, WalkTypeOK, Take, Sets
<1>5. BfsInv'
  <2> SUFFICES ASSUME ~DetectCalled PROVE BfsInv'
    BY <1>1 DEF BfsInv, DetectCalled
  <2>1. /\ queue \cup result \subseteq Reach(edges, root)
        /\ edges[root] \subseteq queue \cup result
        /\ \A x \in result : edges[x] \subseteq queue \cup result
    BY DEF WalkInv, BfsInv
  <2>2. edges[current] \subseteq Reach(edges, root)
    BY <1>2, <1>3, <2>1, ReachClosed DEF Closed
  <2>3. queue \cup result \subseteq queue' \cup result'
        /\ queue' \cup result' \subseteq queue \cup result \cup edges[current]
    BY <1>2 DEF Take
  <2>4. \A x \in result' : edges[x] \subseteq queue' \cup result'
    BY <1>2, <2>1, <2>3 DEF Take
  <2> QED
    BY <1>1, <2>1, <2>2, <2>3, <2>4 DEF BfsInv
<1>6. DfsInv' /\ CycleIsReal'
  BY <1>1 DEF WalkInv, DfsInv, CycleIsReal, PathLeads, LoopsLook, LeftIsClean, Left, DetectCalled
<1> QED
  BY <1>4, <1>5, <1>6 DEF WalkInv

(* Every step of a walk keeps the invariant. *)
LEMMA WalkStep == WalkInv /\ [WalkNext]_walkVars => WalkInv'
<1> SUFFICES ASSUME WalkInv, [WalkNext]_walkVars PROVE WalkInv'
  OBVIOUS
<1>1. CASE Look
  <2>1. PICK dep \in todo[Top] : Dfs(dep)
    BY <1>1 DEF Look
  <2> QED
    BY <1>1, <2>1, ClosesCycle, PassesOver, Enters DEF Look, Dfs, Left
<1>2. CASE Leave
  BY <1>2, Leaves
<1>3. CASE Shift
  BY <1>3, Shifts
<1>4. CASE UNCHANGED walkVars
  BY <1>4 DEF walkVars, graphVars, dfsVars, bfsVars, WalkInv, WalkTypeOK, DfsInv, CycleIsReal,
     BfsInv, PathLeads, LoopsLook, LeftIsClean, Left, DetectCalled
<1> QED
  BY <1>1, <1>2, <1>3, <1>4 DEF WalkNext

(* The invariant of the two walks, over any graph. *)
THEOREM WalkInvariant == WalkSpec => []WalkInv
  BY WalkStarts, WalkStep, PTL DEF WalkSpec

(* detectCycle finds a cycle exactly when one can be reached, and returns one of the
   graph: when it returns null it has left everything that can be reached, and nothing
   it left is on a cycle. *)
THEOREM SearchFindsCycles == WalkSpec => []FindsCycles
<1>1. WalkInv => FindsCycles
  <2> SUFFICES ASSUME WalkInv, DetectCalled, Returned, cycle = <<>>
               PROVE  ~DetectCycle(edges, root)
    BY DEF WalkInv, DfsInv, FindsCycles
  <2>1. path = <<>>
    BY DEF Returned
  <2>2. Left = visited /\ visited \in SUBSET Uids /\ root \in visited /\ edges \in Sets
    BY <2>1 DEF Left, Range, WalkInv, WalkTypeOK, DfsInv
  <2>3. \A x \in visited : edges[x] \subseteq visited /\ x \notin Reach(edges, x)
    BY <2>2 DEF WalkInv, DfsInv, LeftIsClean
  <2>4. Reach(edges, root) \subseteq visited
    BY <2>2, <2>3, ReachLeast DEF Closed
  <2> QED
    BY <2>2, <2>3, <2>4 DEF DetectCycle
<1> QED
  BY <1>1, WalkInvariant, PTL

(* getAllDependents returns exactly what Reach says. *)
THEOREM SearchFindsDependents == WalkSpec => []FindsDependents
<1>1. WalkInv => FindsDependents
  <2> SUFFICES ASSUME WalkInv, ~DetectCalled, Returned PROVE result = Reach(edges, root)
    BY DEF FindsDependents
  <2>1. queue = {} /\ result \in SUBSET Uids /\ edges \in Sets /\ root \in Uids
    BY DEF Returned, WalkInv, WalkTypeOK
  <2> QED
    BY <2>1, ReachLeast DEF WalkInv, BfsInv, Closed
<1> QED
  BY <1>1, WalkInvariant, PTL

(* Every step of a walk brings it nearer to its end. *)
THEOREM StepsAdvance == WalkSpec => WalksAdvance
<1> DEFINE Nearer == \/ cycle = <<>> /\ cycle' # <<>>
                     \/ Grows(visited, visited')
                     \/ UNCHANGED visited /\ todo' # todo
                        /\ \A u \in Uids : todo'[u] \subseteq todo[u]
                     \/ UNCHANGED <<visited, todo>> /\ Len(path') < Len(path)
                     \/ Grows(result, result')
                     \/ UNCHANGED result /\ Grows(queue', queue)
<1>1. ASSUME WalkInv, Look PROVE Nearer
  <2>1. PICK dep \in todo[Top] : Dfs(dep)
    BY <1>1 DEF Look
  <2>2. /\ path \in Seq(Uids) /\ todo \in Sets /\ Top \in Uids /\ cycle = <<>>
        /\ \A u \in Uids : todo[u] \subseteq Uids
    BY <1>1 DEF Look, WalkInv, WalkTypeOK, Top, Sets
  <2>3. CASE dep \in Range(path)
    <3>1. cycle' = Append(SubSeq(path, IndexOf(dep), Len(path)), dep)
      BY <2>1, <2>3 DEF Dfs, CycleTo
    <3>2. SubSeq(path, IndexOf(dep), Len(path)) \in Seq(Uids) /\ dep \in Uids
      <4>1. IndexOf(dep) \in 1..Len(path) /\ Len(path) \in Nat
        BY <1>1, <2>3, IndexOfPath
      <4> QED
        BY <2>1, <2>2, <4>1, SubSeqProperties
    <3>3. cycle' # <<>>
      BY <3>1, <3>2, AppendProperties
    <3> QED
      BY <2>2, <3>3
  <2>4. CASE dep \in visited \ Range(path)
    <3>1. todo' = [todo EXCEPT ![Top] = @ \ {dep}] /\ visited' = visited
      BY <2>1, <2>4 DEF Dfs
    <3>2. todo'[Top] # todo[Top] /\ \A u \in Uids : todo'[u] \subseteq todo[u]
      BY <2>1, <2>2, <3>1 DEF Sets
    <3> QED
      BY <3>1, <3>2
  <2>5. CASE dep \notin visited \cup Range(path)
    BY <2>1, <2>5 DEF Dfs, Grows
  <2> QED
    BY <2>1, <2>3, <2>4, <2>5 DEF Dfs
<1>2. ASSUME WalkInv, Leave PROVE Nearer
  <2>1. path \in Seq(Uids) /\ path # <<>> /\ path' = SubSeq(path, 1, Len(path) - 1)
        /\ UNCHANGED <<visited, todo>>
    BY <1>2 DEF Leave, WalkInv, WalkTypeOK
  <2>2. Len(path') < Len(path)
    BY <2>1
  <2> QED
    BY <2>1, <2>2
<1>3. ASSUME Shift PROVE Nearer
  BY <1>3 DEF Shift, Take, Grows
<1>4. WalkInv /\ [WalkNext]_walkVars => [Nearer]_walkVars
  BY <1>1, <1>2, <1>3 DEF WalkNext
<1> HIDE DEF Nearer
<1>5. WalkSpec => [][Nearer]_walkVars
  BY <1>4, WalkInvariant, PTL DEF WalkSpec
<1> QED
  BY <1>5, PTL DEF WalksAdvance, Nearer
=============================================================================
