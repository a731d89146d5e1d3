----------------------------- MODULE RoutingProofs -----------------------------
(***************************************************************************)
(* Proof, for every graph and every request, that the search for routes    *)
(* ends with the cost of the cheapest walk of each node and no other node, *)
(* and that walking back gives paths of these costs.                       *)
(***************************************************************************)
EXTENDS Routing, AlgorithmsProofs, FiniteSetTheorems

\* What a loaded graph is like: finitely many nodes and edges, numbers or nothing in the
\* column of the costs.
Loaded(g, field) ==
    /\ IsFiniteSet(g.nodes) /\ g.nodes \subseteq Node /\ g.located \subseteq g.nodes
    /\ DOMAIN g.edges \in SUBSET Nat /\ IsFiniteSet(DOMAIN g.edges)
    /\ \A e \in DOMAIN g.edges : g.edges[e][field] \in Int \cup {None}

\* Distances are numbers, and only the same point is at distance 0.
Metric ==
    /\ None \notin Int
    /\ \A a, b \in Node : Straight[a][b] \in Nat /\ (Straight[a][b] = 0 <=> a = b)

----------------------------------------------------------------------------
(* The arcs of a node *)

\* An arc leads from a node to a node over an edge, and has a cost or none.
LEMMA ArcFacts ==
    ASSUME Metric, Loaded(graph, request.field), NEW arc \in Arcs(graph)
    PROVE  /\ arc.from \in graph.nodes /\ arc.to \in graph.nodes
           /\ arc.edge \in DOMAIN graph.edges /\ arc.edge \in Nat
           /\ arc = [from |-> arc.from, to |-> arc.to, edge |-> arc.edge]
           /\ ArcCost(arc) \in Int \cup {None}
<1>1. /\ arc.from \in graph.nodes /\ arc.to \in graph.nodes
      /\ arc.edge \in DOMAIN graph.edges
      /\ arc = [from |-> arc.from, to |-> arc.to, edge |-> arc.edge]
  BY DEF Arcs
<1>2. graph.edges[arc.edge][request.field] \in Int \cup {None}
  BY <1>1 DEF Loaded
<1>3. {arc.from, arc.to} \subseteq graph.located => Straight[arc.from][arc.to] \in Int
  <2>1. graph.located \subseteq Node
    BY DEF Loaded
  <2> QED BY <2>1 DEF Metric
<1>4. ArcCost(arc) \in Int \cup {None}
  BY <1>2, <1>3 DEF ArcCost
<1> QED BY <1>1, <1>4 DEF Loaded

\* The arcs that leave a node, and how many of them come before one.
Leaving(node) == {a \in Arcs(graph) : a.from = node}

Before(node, arc) == {a \in Leaving(node) : a.edge < arc.edge}

\* They are finitely many, and no two of them have an edge in common.
LEMMA LeavingFacts ==
    ASSUME Metric, Loaded(graph, request.field), NEW node
    PROVE  /\ IsFiniteSet(Leaving(node)) /\ Cardinality(Leaving(node)) \in Nat
           /\ \A a, b \in Leaving(node) : a.edge = b.edge => a = b
<1>1. ASSUME NEW a \in Leaving(node), NEW b \in Leaving(node), a.edge = b.edge PROVE a = b
  BY <1>1 DEF Leaving, Arcs
<1> DEFINE f == [a \in Leaving(node) |-> a.edge]
<1>2. \A a \in Leaving(node) : a.edge \in DOMAIN graph.edges
  BY ArcFacts DEF Leaving
<1>3. f \in Injection(Leaving(node), DOMAIN graph.edges)
  BY <1>1, <1>2 DEF Injection, IsInjective
<1>4. IsFiniteSet(Leaving(node))
  <2> HIDE DEF f
  <2> QED BY <1>3, FS_Injection DEF Loaded
<1> QED BY <1>1, <1>4, FS_CardinalityType

\* The list of a node has each of its arcs, and nothing else.
LEMMA ListFacts ==
    ASSUME Metric, Loaded(graph, request.field), NEW node
    PROVE  /\ ArcList(node) \in Seq(Leaving(node))
           /\ \A a \in Leaving(node) : \E i \in 1..Len(ArcList(node)) : ArcList(node)[i] = a
<1> DEFINE S == Leaving(node)
           n == Cardinality(S)
           Rank(a) == Cardinality(Before(node, a))
           rank == [a \in S |-> Rank(a)]
<1>1. IsFiniteSet(S) /\ n \in Nat /\ \A a, b \in S : a.edge = b.edge => a = b
  BY LeavingFacts
<1>2. \A a \in S : a.edge \in Nat
  BY ArcFacts DEF Leaving
<1>3. ASSUME NEW a \in S PROVE Before(node, a) \in SUBSET S /\ a \notin Before(node, a)
  BY <1>2, <1>3 DEF Before
<1>4. ASSUME NEW a \in S PROVE Rank(a) \in 0..(n - 1)
  <2>1. IsFiniteSet(Before(node, a)) /\ Rank(a) <= n /\ Rank(a) \in Nat
    BY <1>1, <1>3, FS_Subset, FS_CardinalityType
  <2>2. Rank(a) # n
    BY <1>1, <1>3, FS_Subset
  <2> HIDE DEF n, Rank
  <2> QED BY <1>1, <2>1, <2>2
<1>5. ASSUME NEW a \in S, NEW b \in S, a.edge < b.edge PROVE Rank(a) # Rank(b)
  <2>1. Before(node, a) \in SUBSET Before(node, b) /\ a \in Before(node, b)
    BY <1>2, <1>5 DEF Before
  <2>2. IsFiniteSet(Before(node, b))
    BY <1>1, <1>3, FS_Subset
  <2> QED BY <1>3, <2>1, <2>2, FS_Subset
<1>6. ASSUME NEW a \in S, NEW b \in S, Rank(a) = Rank(b) PROVE a = b
  <2>1. a.edge \in Nat /\ b.edge \in Nat
    BY <1>2
  <2>2. ~(a.edge < b.edge) /\ ~(b.edge < a.edge)
    <3> HIDE DEF Rank, S
    <3> QED BY <1>5, <1>6
  <2> QED BY <1>1, <2>1, <2>2
<1>7. rank \in Injection(S, 0..(n - 1))
  <2> HIDE DEF S, Rank, n
  <2> QED BY <1>4, <1>6 DEF Injection, IsInjective
<1>8. IsFiniteSet(0..(n - 1)) /\ Cardinality(0..(n - 1)) = n
  <2> HIDE DEF n
  <2>1. 0 \in Int /\ n - 1 \in Int
    BY <1>1
  <2> QED BY <1>1, <2>1, FS_Interval
<1>9. rank \in Surjection(S, 0..(n - 1))
  <2> HIDE DEF S, rank
  <2> QED BY <1>7, <1>8, FS_Injection
<1>10. \A k \in 0..(n - 1) : \E a \in S : Rank(a) = k
  <2> HIDE DEF S, Rank, n
  <2> QED BY <1>9 DEF Surjection
<1>11. ArcList(node) = [k \in 1..n |-> CHOOSE a \in S : Rank(a) = k - 1]
  BY DEF ArcList, Sorted, Leaving, Before
<1> HIDE DEF S, Rank, n
<1>12. ASSUME NEW k \in 1..n PROVE ArcList(node)[k] \in S /\ Rank(ArcList(node)[k]) = k - 1
  <2>1. k - 1 \in 0..(n - 1)
    BY <1>1
  <2>2. \E a \in S : Rank(a) = k - 1
    BY <1>10, <2>1
  <2> QED BY <1>11, <2>2
<1>13. ArcList(node) \in Seq(S) /\ Len(ArcList(node)) = n
  <2>1. ArcList(node) \in [1..n -> S]
    BY <1>11, <1>12
  <2> QED BY <1>1, <2>1
<1>14. ASSUME NEW a \in S PROVE \E i \in 1..n : ArcList(node)[i] = a
  <2> DEFINE i == Rank(a) + 1
  <2>1. i \in 1..n /\ i - 1 = Rank(a)
    BY <1>1, <1>4
  <2> QED BY <1>6, <1>12, <2>1
<1> QED BY <1>13, <1>14 DEF S

----------------------------------------------------------------------------
(* The loop over the arcs of the node in turn *)

RelaxStep(S, q, out) == [p \in S \X (1..Len(out)) |-> Relax(p[1], q, out[p[2]])]

\* The loop over the arcs of a node is a fold.
LEMMA RelaxFold ==
    ASSUME NEW T, NEW out \in Seq(T), NEW q, NEW S, NEW start \in S,
           \A st \in S, arc \in T : Relax(st, q, arc) \in S
    PROVE  \E iter : /\ IsFold(iter, S, start, Len(out), RelaxStep(S, q, out))
                     /\ RelaxAll(start, q, out) = iter[1..Len(out)]
<1> DEFINE n == Len(out)
           F == RelaxStep(S, q, out)
           Iterates(g) == g = [s \in SUBSET DOMAIN out |->
                        IF s = {} THEN start ELSE Relax(g[s \ {Max(s)}], q, out[Max(s)])]
           iter == CHOOSE g : Iterates(g)
<1>1. n \in Nat /\ DOMAIN out = 1..n /\ \A k \in 1..n : out[k] \in T
  OBVIOUS
<1>2. F \in [S \X (1..n) -> S]
  BY <1>1 DEF RelaxStep
<1>3. PICK g : IsFold(g, S, start, n, F)
  <2> HIDE DEF n, F
  <2> QED BY <1>1, <1>2, FoldExists
<1>4. ASSUME NEW s \in SUBSET (1..n), s # {}, NEW v \in S
      PROVE  /\ F[<<v, Max(s)>>] = Relax(v, q, out[Max(s)])
             /\ Relax(v, q, out[Max(s)]) \in S
  <2>1. Max(s) \in 1..n
    <3> HIDE DEF n
    <3> QED BY <1>1, <1>4, MaxIn
  <2> QED BY <1>1, <2>1 DEF RelaxStep
<1>5. Iterates(g)
  <2> HIDE DEF F
  <2> QED BY <1>1, <1>3, <1>4 DEF IsFold
<1>6. Iterates(iter)
  <2> HIDE DEF Iterates
  <2> QED BY <1>5
<1>7. IsFold(iter, S, start, n, F)
  <2> HIDE DEF iter, F, n
  <2>1. iter[{}] = start
    BY <1>1, <1>6
  <2>2. \A s \in SUBSET (1..n) : s # {} => iter[s] = Relax(iter[s \ {Max(s)}], q, out[Max(s)])
    BY <1>1, <1>6
  <2> HIDE DEF Iterates
  <2>3. \A s \in SUBSET (1..n) : s # {} /\ iter[s \ {Max(s)}] \in S => iter[s] \in S
    BY <1>4, <2>2
  <2>4. \A s \in SUBSET (1..n) : iter[s] \in S
    <3>1. iter[{}] \in S
      BY <1>1, <2>1
    <3>2. n \in Nat
      BY <1>1
    <3> QED BY ONLY <2>3, <3>1, <3>2, FoldStays
  <2>5. iter \in [SUBSET (1..n) -> S]
    BY <1>1, <1>6, <2>4 DEF Iterates
  <2>6. ASSUME NEW s \in SUBSET (1..n), s # {} PROVE iter[s] = F[<<iter[s \ {Max(s)}], Max(s)>>]
    <3>1. iter[s \ {Max(s)}] \in S
      BY <2>4
    <3> QED BY <1>4, <2>2, <2>6, <3>1
  <2> QED BY <2>1, <2>5, <2>6 DEF IsFold
<1>8. RelaxAll(start, q, out) = iter[1..n]
  BY <1>1 DEF RelaxAll, FoldLeft, MapThenFoldSet
<1> HIDE DEF iter
<1> QED BY <1>7, <1>8


\* Functions on some of the members of N.
Partial(N, V) == UNION {[D -> V] : D \in SUBSET N}

\* Such a function, and one with a value put in.
LEMMA PartialFacts ==
    ASSUME NEW N, NEW V, NEW f \in Partial(N, V)
    PROVE  /\ DOMAIN f \subseteq N /\ f \in [DOMAIN f -> V]
           /\ \A x \in N, y \in V : Put(f, x, y) \in Partial(N, V)
<1>1. PICK D \in SUBSET N : f \in [D -> V]
  BY DEF Partial
<1>2. ASSUME NEW x \in N, NEW y \in V PROVE Put(f, x, y) \in Partial(N, V)
  <2>1. Put(f, x, y) \in [D \cup {x} -> V]
    BY <1>1 DEF Put
  <2>2. D \cup {x} \in SUBSET N
    OBVIOUS
  <2> QED BY <2>1, <2>2 DEF Partial
<1> QED BY <1>1, <1>2

\* The states of the loop.
Entry == [node : graph.nodes, cost : Nat]

Link == [from : graph.nodes, edge : Nat]

LoopState == [distances : Partial(graph.nodes, Nat), predecessors : Partial(graph.nodes, Link),
              queue : SUBSET Entry]

Given == Metric /\ Loaded(graph, request.field) /\ request.limit \in Nat

\* A cheaper way to the end of an arc.
Cheaper(st, q, arc) ==
    [distances |-> Put(st.distances, arc.to, q.cost + ArcCost(arc)),
     predecessors |-> Put(st.predecessors, arc.to, [from |-> q.node, edge |-> arc.edge]),
     queue |-> st.queue \cup {[node |-> arc.to, cost |-> q.cost + ArcCost(arc)]}]

\* The loop passes an arc by or puts in a cheaper way, and remains in its states.
LEMMA RelaxFacts ==
    ASSUME Given, NEW q \in Entry, NEW arc \in Arcs(graph), ArcCost(arc) \in Nat, NEW st \in LoopState
    PROVE  /\ Cheaper(st, q, arc) \in LoopState
           /\ \/ /\ Relax(st, q, arc) = st
                 /\ Within(q.cost + ArcCost(arc))
                    => arc.to \in DOMAIN st.distances /\ st.distances[arc.to] <= q.cost + ArcCost(arc)
              \/ /\ Relax(st, q, arc) = Cheaper(st, q, arc)
                 /\ Within(q.cost + ArcCost(arc))
                 /\ arc.to \in DOMAIN st.distances => q.cost + ArcCost(arc) < st.distances[arc.to]
<1> DEFINE cost == q.cost + ArcCost(arc)
<1>1. cost \in Nat /\ q.node \in graph.nodes /\ arc.to \in graph.nodes /\ arc.edge \in Nat
  <2>1. q.cost \in Nat /\ q.node \in graph.nodes
    BY DEF Entry
  <2> QED BY <2>1, ArcFacts DEF Given
<1>2. /\ st.distances \in Partial(graph.nodes, Nat)
      /\ st.predecessors \in Partial(graph.nodes, Link) /\ st.queue \in SUBSET Entry
  BY DEF LoopState
<1>3. st.distances \in [DOMAIN st.distances -> Nat]
  BY <1>2, PartialFacts
<1>4. Cheaper(st, q, arc) \in LoopState
  <2>1. [from |-> q.node, edge |-> arc.edge] \in Link /\ [node |-> arc.to, cost |-> cost] \in Entry
    BY <1>1 DEF Link, Entry
  <2>2. /\ Put(st.distances, arc.to, cost) \in Partial(graph.nodes, Nat)
        /\ Put(st.predecessors, arc.to, [from |-> q.node, edge |-> arc.edge]) \in Partial(graph.nodes, Link)
    <3> HIDE DEF cost
    <3> QED BY <1>1, <1>2, <2>1, PartialFacts
  <2>3. st.queue \cup {[node |-> arc.to, cost |-> cost]} \in SUBSET Entry
    BY <1>2, <2>1
  <2> QED BY <2>2, <2>3 DEF Cheaper, LoopState
<1>5. request.limit > 0 /\ cost > request.limit <=> ~Within(cost)
  <2> HIDE DEF cost
  <2> QED BY <1>1 DEF Within, Given
<1>6. Relax(st, q, arc) = IF ~Within(cost) \/ ~Improves(arc.to, cost, st.distances)
                          THEN st ELSE Cheaper(st, q, arc)
  BY <1>5 DEF Relax, Cheaper
<1> HIDE DEF cost
<1>7. CASE ~Within(cost)
  BY <1>4, <1>6, <1>7 DEF cost
<1>8. CASE Within(cost) /\ ~Improves(arc.to, cost, st.distances)
  <2>1. arc.to \in DOMAIN st.distances /\ ~(cost < st.distances[arc.to])
    BY <1>8 DEF Improves
  <2>2. st.distances[arc.to] <= cost
    BY <1>1, <1>3, <2>1
  <2> QED BY <1>4, <1>6, <1>8, <2>1, <2>2 DEF cost
<1>9. CASE Within(cost) /\ Improves(arc.to, cost, st.distances)
  BY <1>4, <1>6, <1>9 DEF Improves, cost
<1> QED BY <1>7, <1>8, <1>9

\* What is known of a node during the loop: nothing about it has changed, or it was
\* reached over an arc of the list at a lower cost than before.
Kept(st, n) ==
    /\ n \in DOMAIN distances /\ st.distances[n] = distances[n]
    /\ n # request.from => st.predecessors[n] = predecessors[n]

Reached(st, n, q, arc) ==
    /\ n # request.from /\ arc.to = n /\ Within(q.cost + ArcCost(arc))
    /\ st.distances[n] = q.cost + ArcCost(arc)
    /\ st.predecessors[n] = [from |-> q.node, edge |-> arc.edge]
    /\ n \in DOMAIN distances => st.distances[n] < distances[n]
    /\ [node |-> n, cost |-> st.distances[n]] \in st.queue

\* An arc offers nothing any more.
Passed(d, cost, arc) ==
    Within(cost + ArcCost(arc)) => arc.to \in DOMAIN d /\ d[arc.to] <= cost + ArcCost(arc)

\* An entry was in the queue before, or is of a cheaper way that the loop has found.
Queued(st, q, e) ==
    \/ e \in queue \ {q}
    \/ /\ e.node \in DOMAIN st.distances /\ st.distances[e.node] <= e.cost /\ q.cost <= e.cost
       /\ e.node \in DOMAIN distances => e.cost < distances[e.node]

\* The loop after k arcs.
Relaxed(st, k, q, out) ==
    /\ DOMAIN distances \subseteq DOMAIN st.distances
    /\ DOMAIN st.predecessors = DOMAIN st.distances \ {request.from}
    /\ \A n \in DOMAIN st.distances : Kept(st, n) \/ \E i \in 1..k : Reached(st, n, q, out[i])
    /\ \A i \in 1..k : Passed(st.distances, q.cost, out[i])
    /\ queue \ {q} \subseteq st.queue
    /\ \A e \in st.queue : Queued(st, q, e)

\* Costs are numbers, the origin costs nothing, and only the origin has no predecessor.
OriginFree ==
    /\ distances \in Partial(graph.nodes, Nat) /\ predecessors \in Partial(graph.nodes, Link)
    /\ queue \in SUBSET Entry
    /\ request.from \in DOMAIN distances /\ distances[request.from] = 0
    /\ DOMAIN predecessors = DOMAIN distances \ {request.from}

\* A cheaper way changes nothing else.
LEMMA CheaperKeeps ==
    ASSUME Given, OriginFree, NEW out \in Seq(Arcs(graph)), \A i \in 1..Len(out) : ArcCost(out[i]) \in Nat,
           NEW q \in Entry, NEW st \in LoopState, NEW k \in 0..(Len(out) - 1), Relaxed(st, k, q, out),
           Within(q.cost + ArcCost(out[k + 1])),
           out[k + 1].to \in DOMAIN st.distances
           => q.cost + ArcCost(out[k + 1]) < st.distances[out[k + 1].to]
    PROVE  Relaxed(Cheaper(st, q, out[k + 1]), k + 1, q, out)
<1> DEFINE arc == out[k + 1]
           to == arc.to
           cost == q.cost + ArcCost(arc)
           new == Cheaper(st, q, arc)
<1>1. /\ k + 1 \in 1..Len(out) /\ \A i \in 1..(k + 1) : i \in 1..k \/ i = k + 1
      /\ \A i \in 1..k : i \in 1..(k + 1) /\ i \in 1..Len(out)
      /\ k + 1 \in 1..(k + 1)
  OBVIOUS
<1>2. arc \in Arcs(graph) /\ ArcCost(arc) \in Nat /\ q.cost \in Nat /\ cost \in Nat /\ q.cost <= cost
  <2>1. q.cost \in Nat
    BY DEF Entry
  <2>2. arc \in Arcs(graph) /\ ArcCost(arc) \in Nat
    BY <1>1
  <2> HIDE DEF arc
  <2> QED BY <2>1, <2>2
<1>3. /\ st.distances \in [DOMAIN st.distances -> Nat]
      /\ distances \in [DOMAIN distances -> Nat]
  BY PartialFacts DEF LoopState, OriginFree
<1>4. /\ new.distances = Put(st.distances, to, cost)
      /\ new.predecessors = Put(st.predecessors, to, [from |-> q.node, edge |-> arc.edge])
      /\ new.queue = st.queue \cup {[node |-> to, cost |-> cost]}
  BY DEF Cheaper
<1>5. /\ DOMAIN distances \subseteq DOMAIN st.distances
      /\ DOMAIN st.predecessors = DOMAIN st.distances \ {request.from}
      /\ \A n \in DOMAIN st.distances : Kept(st, n) \/ \E i \in 1..k : Reached(st, n, q, out[i])
      /\ \A i \in 1..k : Passed(st.distances, q.cost, out[i])
      /\ queue \ {q} \subseteq st.queue
      /\ \A e \in st.queue : Queued(st, q, e)
  BY DEF Relaxed
<1>6. Within(cost) /\ (to \in DOMAIN st.distances => cost < st.distances[to])
  OBVIOUS
<1> HIDE DEF arc, to, cost, new
<1>7. ASSUME NEW n \in DOMAIN distances
      PROVE  st.distances[n] <= distances[n] /\ st.distances[n] \in Nat /\ distances[n] \in Nat
  <2>1. st.distances[n] \in Nat /\ distances[n] \in Nat /\ n \in DOMAIN st.distances
    BY <1>3, <1>5
  <2>2. CASE Kept(st, n)
    BY <2>1, <2>2 DEF Kept
  <2>3. CASE \E i \in 1..k : Reached(st, n, q, out[i])
    <3>1. st.distances[n] < distances[n]
      BY <2>3 DEF Reached
    <3> QED BY <2>1, <3>1
  <2> QED BY <1>5, <2>1, <2>2, <2>3
<1>8. to # request.from
  <2>1. st.distances[request.from] = 0
    BY <1>5 DEF OriginFree, Kept, Reached
  <2> QED BY <1>2, <1>5, <1>6, <2>1 DEF OriginFree
<1>9. /\ DOMAIN new.distances = DOMAIN st.distances \cup {to} /\ new.distances[to] = cost
      /\ \A z \in DOMAIN st.distances : z # to => new.distances[z] = st.distances[z]
      /\ DOMAIN new.predecessors = DOMAIN st.predecessors \cup {to}
      /\ new.predecessors[to] = [from |-> q.node, edge |-> arc.edge]
      /\ \A z \in DOMAIN st.predecessors : z # to => new.predecessors[z] = st.predecessors[z]
  <2> DEFINE link == [from |-> q.node, edge |-> arc.edge]
  <2>1. new.predecessors = Put(st.predecessors, to, link)
    BY <1>4
  <2> HIDE DEF link
  <2>2. /\ DOMAIN new.predecessors = DOMAIN st.predecessors \cup {to}
        /\ new.predecessors[to] = link
        /\ \A z \in DOMAIN st.predecessors : z # to => new.predecessors[z] = st.predecessors[z]
    BY <2>1 DEF Put
  <2>3. new.distances = Put(st.distances, to, cost)
    BY <1>4
  <2>4. /\ DOMAIN new.distances = DOMAIN st.distances \cup {to} /\ new.distances[to] = cost
        /\ \A z \in DOMAIN st.distances : z # to => new.distances[z] = st.distances[z]
    BY <2>3 DEF Put
  <2> QED BY <2>2, <2>4 DEF link
<1>10. to \in DOMAIN distances => cost < distances[to]
  BY <1>2, <1>5, <1>6, <1>7
<1>11. ASSUME NEW n \in DOMAIN new.distances
       PROVE  Kept(new, n) \/ \E i \in 1..(k + 1) : Reached(new, n, q, out[i])
  <2>1. CASE n = to
    <3>1. Reached(new, n, q, arc)
      BY <1>4, <1>6, <1>8, <1>9, <1>10, <2>1 DEF Reached, to, cost
    <3> QED BY <1>1, <3>1 DEF arc
  <2>2. CASE n # to
    <3>1. n \in DOMAIN st.distances /\ new.distances[n] = st.distances[n]
      BY <1>9, <2>2
    <3>2. n # request.from => new.predecessors[n] = st.predecessors[n]
      BY <1>5, <1>9, <2>2, <3>1
    <3>3. CASE Kept(st, n)
      BY <3>1, <3>2, <3>3 DEF Kept
    <3>4. ASSUME NEW i \in 1..k, Reached(st, n, q, out[i]) PROVE Reached(new, n, q, out[i])
      BY <1>4, <3>1, <3>2, <3>4 DEF Reached
    <3> QED BY <1>1, <1>5, <3>1, <3>3, <3>4
  <2> QED BY <2>1, <2>2
<1>12. ASSUME NEW i \in 1..(k + 1) PROVE Passed(new.distances, q.cost, out[i])
  <2>1. CASE i = k + 1
    BY <1>2, <1>9, <2>1 DEF Passed, cost, to, arc
  <2>2. CASE i \in 1..k
    <3>1. Passed(st.distances, q.cost, out[i]) /\ q.cost + ArcCost(out[i]) \in Nat
      <4>1. ArcCost(out[i]) \in Nat
        BY <1>1, <2>2
      <4>2. q.cost + ArcCost(out[i]) \in Nat
        BY <1>2, <4>1
      <4>3. Passed(st.distances, q.cost, out[i])
        BY <1>5, <2>2
      <4> QED BY <4>2, <4>3
    <3>2. CASE out[i].to = to
      BY <1>2, <1>3, <1>6, <1>9, <3>1, <3>2 DEF Passed
    <3>3. CASE out[i].to # to
      BY <1>9, <3>1, <3>3 DEF Passed
    <3> QED BY <3>2, <3>3
  <2> QED BY <1>1, <2>1, <2>2
<1>13. ASSUME NEW e \in new.queue PROVE Queued(new, q, e)
  <2>1. CASE e = [node |-> to, cost |-> cost]
    BY <1>2, <1>9, <1>10, <2>1 DEF Queued
  <2>2. CASE e \in st.queue /\ e \notin queue \ {q}
    <3>1. /\ e.node \in DOMAIN st.distances /\ st.distances[e.node] <= e.cost /\ q.cost <= e.cost
          /\ e.node \in DOMAIN distances => e.cost < distances[e.node]
      BY <1>5, <2>2 DEF Queued
    <3>2. e.cost \in Nat
      BY <2>2 DEF LoopState, Entry
    <3>3. e.node \in DOMAIN new.distances /\ new.distances[e.node] <= e.cost
      <4>1. CASE e.node = to
        <5>1. st.distances[to] \in Nat /\ cost < st.distances[to] /\ st.distances[to] <= e.cost
          BY <1>3, <1>6, <3>1, <4>1
        <5> QED BY <1>2, <1>9, <3>2, <4>1, <5>1
      <4>2. CASE e.node # to
        BY <1>9, <3>1, <4>2
      <4> QED BY <4>1, <4>2
    <3> QED BY <3>1, <3>3 DEF Queued
  <2>3. CASE e \in queue \ {q}
    BY <2>3 DEF Queued
  <2> QED BY <1>4, <2>1, <2>2, <2>3
<1>14. queue \ {q} \subseteq new.queue
  BY <1>4, <1>5
<1>15. /\ DOMAIN distances \subseteq DOMAIN new.distances
       /\ DOMAIN new.predecessors = DOMAIN new.distances \ {request.from}
  BY <1>5, <1>8, <1>9
<1>16. Relaxed(new, k + 1, q, out)
  BY <1>11, <1>12, <1>13, <1>14, <1>15 DEF Relaxed
<1> QED BY <1>16 DEF new, arc

\* The state in which the loop begins.
Popped(q) == [distances |-> distances, predecessors |-> predecessors, queue |-> queue \ {q}]

\* The whole loop: nothing is left to gain from any arc of the list.
LEMMA ArcsRelaxed ==
    ASSUME Given, OriginFree, NEW out \in Seq(Arcs(graph)), NEW q \in queue,
           \A i \in 1..Len(out) : ArcCost(out[i]) \in Nat
    PROVE  /\ RelaxAll(Popped(q), q, out) \in LoopState
           /\ Relaxed(RelaxAll(Popped(q), q, out), Len(out), q, out)
<1> DEFINE n == Len(out)
           T == {a \in Arcs(graph) : ArcCost(a) \in Nat}
           S == LoopState
           F == RelaxStep(S, q, out)
           P == {w \in (0..n) \X S : Relaxed(w[2], w[1], q, out)}
<1>1. n \in Nat /\ q \in Entry /\ out \in Seq(T)
  <2>1. \A i \in 1..n : out[i] \in T
    OBVIOUS
  <2>2. DOMAIN out = 1..n /\ n \in Nat
    OBVIOUS
  <2>3. out \in [1..n -> T]
    <3> HIDE DEF n, T
    <3>1. out = [i \in 1..n |-> out[i]]
      BY <2>2 DEF n
    <3> QED BY <2>1, <3>1
  <2>4. q \in Entry
    BY DEF OriginFree
  <2> HIDE DEF T, n
  <2> QED BY <2>2, <2>3, <2>4
<1>2. Popped(q) \in S
  BY DEF Popped, LoopState, OriginFree
<1>3. Relaxed(Popped(q), 0, q, out)
  BY DEF Popped, Relaxed, Kept, Queued, OriginFree
<1>4. ASSUME NEW st \in S, NEW arc \in T PROVE Relax(st, q, arc) \in S
  BY <1>1, RelaxFacts
<1>5. PICK iter : IsFold(iter, S, Popped(q), n, F) /\ RelaxAll(Popped(q), q, out) = iter[1..n]
  <2> HIDE DEF S, T
  <2> QED BY <1>1, <1>2, <1>4, RelaxFold
<1>6. F \in [S \X (1..n) -> S]
  <2>1. \A i \in 1..n : out[i] \in T
    OBVIOUS
  <2> HIDE DEF S, T
  <2> QED BY <1>4, <2>1 DEF RelaxStep
<1>7. ASSUME NEW k \in 0..(n - 1), NEW st \in S, Relaxed(st, k, q, out)
      PROVE  Relax(st, q, out[k + 1]) \in S /\ Relaxed(Relax(st, q, out[k + 1]), k + 1, q, out)
  <2> DEFINE arc == out[k + 1]
  <2>1. k + 1 \in 1..n /\ arc \in Arcs(graph) /\ ArcCost(arc) \in Nat
    BY <1>1
  <2>2. CASE Relax(st, q, arc) = st /\ Passed(st.distances, q.cost, arc)
    <3>1. \A i \in 1..(k + 1) : i \in 1..k \/ i = k + 1
      OBVIOUS
    <3>2. \A i \in 1..k : i \in 1..(k + 1)
      OBVIOUS
    <3>3. Relaxed(st, k + 1, q, out)
      <4> HIDE DEF n
      <4> QED BY <1>7, <2>2, <3>1, <3>2 DEF Relaxed
    <3> QED BY <2>2, <3>3
  <2>3. CASE /\ Relax(st, q, arc) = Cheaper(st, q, arc)
             /\ Within(q.cost + ArcCost(arc))
             /\ arc.to \in DOMAIN st.distances => q.cost + ArcCost(arc) < st.distances[arc.to]
    <3>1. Relaxed(Cheaper(st, q, arc), k + 1, q, out)
      BY <1>1, <1>7, <2>3, CheaperKeeps
    <3>2. Cheaper(st, q, arc) \in S
      <4> HIDE DEF arc
      <4> QED BY <1>1, <2>1, RelaxFacts
    <3> QED BY <2>3, <3>1, <3>2
  <2> HIDE DEF arc
  <2> QED BY <1>1, <2>1, <2>2, <2>3, RelaxFacts DEF arc, Passed
<1>8. Keeps(F, n, S, P)
  <2> SUFFICES ASSUME NEW k \in 0..(n - 1), NEW v \in S, <<k, v>> \in P
               PROVE <<k + 1, F[<<v, k + 1>>]>> \in P
    <3> HIDE DEF S, F, n, P
    <3> QED BY DEF Keeps
  <2>1. k + 1 \in 1..n /\ k + 1 \in 0..n
    BY <1>1
  <2>2. F[<<v, k + 1>>] = Relax(v, q, out[k + 1])
    <3> HIDE DEF S
    <3> QED BY <2>1 DEF RelaxStep
  <2>3. Relax(v, q, out[k + 1]) \in S /\ Relaxed(Relax(v, q, out[k + 1]), k + 1, q, out)
    <3> HIDE DEF S, n
    <3> QED BY <1>7
  <2> HIDE DEF S, F, n
  <2> QED BY <2>1, <2>2, <2>3
<1>9. <<0, Popped(q)>> \in P
  <2>1. 0 \in 0..n
    BY <1>1
  <2> HIDE DEF S, n
  <2> QED BY <1>2, <1>3, <2>1
<1>10. iter[1..n] \in S /\ <<n, iter[1..n]>> \in P
  <2> HIDE DEF S, n, F, P
  <2> QED BY <1>1, <1>2, <1>5, <1>6, <1>8, <1>9, FoldKeeps
<1> HIDE DEF S, n
<1> QED BY <1>5, <1>10 DEF S, n

----------------------------------------------------------------------------
(* The invariant of the search *)

\* The nodes that are done with: no entry of their cost is left.
Settled == {n \in DOMAIN distances : [node |-> n, cost |-> distances[n]] \notin queue}

\* Costs are within the limit, and an entry is at its node's cost or outdated.
InLimit ==
    /\ \A n \in DOMAIN distances : Within(distances[n])
    /\ \A e \in queue : e.node \in DOMAIN distances /\ distances[e.node] <= e.cost

\* An arc from a node that is done with leads to n at its cost.
LedOver(n, arc) ==
    /\ arc.to = n /\ predecessors[n] = [from |-> arc.from, edge |-> arc.edge]
    /\ arc.from \in Settled /\ ArcCost(arc) \in Nat
    /\ distances[n] = distances[arc.from] + ArcCost(arc)

Led == \A n \in DOMAIN distances \ {request.from} : \E arc \in Arcs(graph) : LedOver(n, arc)

\* The arcs of the nodes that are done with offer nothing any more.
Spread ==
    \A n \in Settled : \A arc \in Leaving(n) : ArcCost(arc) \in Nat /\ Passed(distances, distances[n], arc)

\* Nothing in the queue is cheaper than a node that is done with.
Nearest == \A n \in Settled, e \in queue : distances[n] <= e.cost

\* The nodes that are done with are in an order in which predecessors come first.
Orders(r) ==
    /\ r \in [Settled -> Nat]
    /\ \A n \in Settled : /\ r[n] < Cardinality(Settled)
                          /\ n # request.from => r[predecessors[n].from] < r[n]

Ranked == IsFiniteSet(Settled) /\ \E r : Orders(r)

SearchInv == Given /\ OriginFree /\ InLimit /\ Led /\ Spread /\ Nearest /\ Ranked

\* The node in turn is done with, with the others, at costs that do not change any more.
LEMMA SettledGrows ==
    ASSUME Given, OriginFree, InLimit, Nearest, NEW q \in queue, q \in Cheapest,
           q.cost = distances[q.node], NEW out \in Seq(Leaving(q.node)),
           \A i \in 1..Len(out) : ArcCost(out[i]) \in Nat,
           NEW st \in LoopState, Relaxed(st, Len(out), q, out),
           distances' = st.distances, predecessors' = st.predecessors, queue' = st.queue
    PROVE  /\ Settled' = Settled \cup {q.node} /\ q.node \notin Settled
           /\ \A n \in Settled' : Kept(st, n) /\ n \in DOMAIN distances /\ distances[n] <= q.cost
<1>1. q.cost \in Nat /\ q = [node |-> q.node, cost |-> q.cost] /\ q.node \in DOMAIN distances
  BY DEF OriginFree, Entry, InLimit
<1>2. /\ distances \in [DOMAIN distances -> Nat] /\ st.distances \in [DOMAIN st.distances -> Nat]
  BY PartialFacts DEF OriginFree, LoopState
<1>3. /\ DOMAIN distances \subseteq DOMAIN st.distances
      /\ \A n \in DOMAIN st.distances : Kept(st, n) \/ \E i \in 1..Len(out) : Reached(st, n, q, out[i])
      /\ queue \ {q} \subseteq st.queue
      /\ \A e \in st.queue : Queued(st, q, e)
  BY DEF Relaxed
<1>4. ASSUME NEW n \in DOMAIN distances, distances[n] <= q.cost PROVE Kept(st, n)
  <2>1. ASSUME NEW i \in 1..Len(out), Reached(st, n, q, out[i]) PROVE FALSE
    <3>1. ArcCost(out[i]) \in Nat /\ distances[n] \in Nat
      BY <1>2
    <3>2. q.cost + ArcCost(out[i]) < distances[n]
      BY <2>1 DEF Reached
    <3> QED BY <1>1, <1>4, <3>1, <3>2
  <2> QED BY <1>3, <2>1
<1>5. ASSUME NEW n \in DOMAIN distances, distances[n] <= q.cost,
             [node |-> n, cost |-> distances[n]] \in st.queue
      PROVE  [node |-> n, cost |-> distances[n]] \in queue \ {q}
  <2> DEFINE e == [node |-> n, cost |-> distances[n]]
  <2>1. distances[n] \in Nat
    BY <1>2
  <2>2. Queued(st, q, e)
    BY <1>3, <1>5
  <2>3. e.node = n /\ e.cost = distances[n]
    OBVIOUS
  <2>4. ~(distances[n] < distances[n])
    BY <2>1
  <2> HIDE DEF e
  <2> QED BY <1>5, <2>2, <2>3, <2>4 DEF Queued, e
<1>6. ASSUME NEW n \in Settled
      PROVE  n \in Settled' /\ n \in DOMAIN distances /\ distances[n] <= q.cost /\ n # q.node
  <2>1. n \in DOMAIN distances /\ distances[n] <= q.cost
    BY DEF Settled, Nearest
  <2>2. Kept(st, n)
    BY <1>4, <2>1
  <2>3. [node |-> n, cost |-> distances[n]] \notin st.queue
    BY <1>5, <2>1 DEF Settled
  <2>4. n # q.node
    BY <1>1 DEF Settled
  <2> QED BY <1>3, <2>1, <2>2, <2>3, <2>4 DEF Settled, Kept
<1>7. q.node \in Settled'
  <2>1. distances[q.node] <= q.cost /\ Kept(st, q.node)
    BY <1>1, <1>4
  <2>2. [node |-> q.node, cost |-> distances[q.node]] \notin st.queue
    BY <1>1, <1>5, <2>1
  <2> QED BY <1>1, <1>3, <2>1, <2>2 DEF Settled, Kept
<1>8. ASSUME NEW n \in Settled', n \notin Settled PROVE n = q.node
  <2>1. n \in DOMAIN st.distances /\ [node |-> n, cost |-> st.distances[n]] \notin st.queue
    BY DEF Settled
  <2>2. ~ \E i \in 1..Len(out) : Reached(st, n, q, out[i])
    BY <2>1 DEF Reached
  <2>3. Kept(st, n)
    BY <1>3, <2>1, <2>2
  <2>4. [node |-> n, cost |-> distances[n]] \in queue
    BY <1>8, <2>3 DEF Kept, Settled
  <2>5. [node |-> n, cost |-> distances[n]] = q
    BY <1>3, <2>1, <2>3, <2>4 DEF Kept
  <2> QED BY <2>5
<1>9. Settled' = Settled \cup {q.node} /\ q.node \notin Settled
  BY <1>6, <1>7, <1>8
<1>10. \A n \in Settled' : n \in DOMAIN distances /\ distances[n] <= q.cost
  BY <1>1, <1>6, <1>9
<1> QED BY <1>4, <1>9, <1>10

\* A node is taken from the queue and its arcs are followed.
LEMMA ExpandKeeps ==
    ASSUME SearchInv, NEW q \in queue, q \in Cheapest, ~Outdated(q), UNCHANGED <<graph, request>>,
           NEW out, out = ArcList(q.node), \A i \in 1..Len(out) : ArcCost(out[i]) \in Nat,
           NEW st, st = RelaxAll(Popped(q), q, out),
           distances' = st.distances, predecessors' = st.predecessors, queue' = st.queue
    PROVE  SearchInv'
<1>1. /\ Given /\ OriginFree /\ InLimit /\ Led /\ Spread /\ Nearest /\ Ranked
  BY DEF SearchInv
<1>2. Given'
  BY <1>1 DEF Given, Loaded, Metric
<1>3. /\ \A cost : Within(cost)' <=> Within(cost)
      /\ \A arc : ArcCost(arc)' = ArcCost(arc)
      /\ \A n : Leaving(n)' = Leaving(n)
      /\ Arcs(graph)' = Arcs(graph) /\ Entry' = Entry /\ Link' = Link
  BY DEF Within, ArcCost, Leaving, Entry, Link
<1>4. /\ out \in Seq(Leaving(q.node))
      /\ \A a \in Leaving(q.node) : \E i \in 1..Len(out) : out[i] = a
  BY <1>1, ListFacts DEF Given
<1>5. out \in Seq(Arcs(graph))
  BY <1>4 DEF Leaving
<1>6. st \in LoopState /\ Relaxed(st, Len(out), q, out)
  BY <1>1, <1>5, ArcsRelaxed
<1>7. /\ q.cost = distances[q.node] /\ q.cost \in Nat /\ q.node \in DOMAIN distances
      /\ q = [node |-> q.node, cost |-> q.cost]
  BY <1>1 DEF Outdated, OriginFree, Entry, InLimit
<1>8. /\ Settled' = Settled \cup {q.node} /\ q.node \notin Settled
      /\ \A n \in Settled' : Kept(st, n) /\ n \in DOMAIN distances /\ distances[n] <= q.cost
  BY <1>1, <1>4, <1>6, <1>7, SettledGrows
<1>9. /\ DOMAIN distances \subseteq DOMAIN st.distances
      /\ DOMAIN st.predecessors = DOMAIN st.distances \ {request.from}
      /\ \A n \in DOMAIN st.distances : Kept(st, n) \/ \E i \in 1..Len(out) : Reached(st, n, q, out[i])
      /\ \A i \in 1..Len(out) : Passed(st.distances, q.cost, out[i])
      /\ \A e \in st.queue : Queued(st, q, e)
  BY <1>6 DEF Relaxed
<1>10. /\ distances \in [DOMAIN distances -> Nat] /\ st.distances \in [DOMAIN st.distances -> Nat]
  BY <1>1, <1>6, PartialFacts DEF OriginFree, LoopState
<1>11. \A n \in Settled' : /\ distances'[n] = distances[n] /\ n \in DOMAIN distances'
                           /\ n # request.from => predecessors'[n] = predecessors[n]
  BY <1>8, <1>9 DEF Kept
<1>12. \A n \in DOMAIN distances : distances'[n] <= distances[n]
  <2> SUFFICES ASSUME NEW n \in DOMAIN distances PROVE st.distances[n] <= distances[n]
    OBVIOUS
  <2>1. st.distances[n] \in Nat /\ distances[n] \in Nat
    BY <1>9, <1>10
  <2>2. CASE Kept(st, n)
    BY <2>1, <2>2 DEF Kept
  <2>3. ASSUME NEW i \in 1..Len(out), Reached(st, n, q, out[i]) PROVE st.distances[n] <= distances[n]
    <3>1. st.distances[n] < distances[n]
      BY <2>3 DEF Reached
    <3> QED BY <2>1, <3>1
  <2> QED BY <1>9, <2>2, <2>3
<1>13. OriginFree'
  <2>1. distances'[request.from] = 0
    BY <1>1, <1>9 DEF OriginFree, Kept, Reached
  <2>2. /\ distances' \in Partial(graph.nodes, Nat) /\ predecessors' \in Partial(graph.nodes, Link)
        /\ queue' \in SUBSET Entry
    BY <1>6 DEF LoopState
  <2>3. request.from \in DOMAIN distances'
    BY <1>1, <1>9 DEF OriginFree
  <2> QED BY <1>3, <1>9, <2>1, <2>2, <2>3 DEF OriginFree
<1>14. InLimit'
  <2>1. ASSUME NEW n \in DOMAIN st.distances PROVE Within(st.distances[n])
    <3>1. CASE Kept(st, n)
      BY <1>1, <3>1 DEF InLimit, Kept
    <3>2. ASSUME NEW i \in 1..Len(out), Reached(st, n, q, out[i]) PROVE Within(st.distances[n])
      BY <3>2 DEF Reached
    <3> QED BY <1>9, <3>1, <3>2
  <2>2. ASSUME NEW e \in st.queue PROVE e.node \in DOMAIN st.distances /\ st.distances[e.node] <= e.cost
    <3>1. CASE e \in queue
      <4>1. e.node \in DOMAIN distances /\ distances[e.node] <= e.cost /\ e.cost \in Nat
        BY <1>1, <3>1 DEF InLimit, OriginFree, Entry
      <4>2. st.distances[e.node] <= distances[e.node] /\ e.node \in DOMAIN st.distances
        BY <1>9, <1>12, <4>1
      <4>3. st.distances[e.node] \in Nat /\ distances[e.node] \in Nat
        BY <1>10, <4>1, <4>2
      <4> QED BY <4>1, <4>2, <4>3
    <3>2. CASE e \notin queue
      BY <1>9, <3>2 DEF Queued
    <3> QED BY <3>1, <3>2
  <2> QED BY <1>3, <2>1, <2>2 DEF InLimit
<1>15. Led'
  <2> SUFFICES ASSUME NEW n \in DOMAIN st.distances, n # request.from
               PROVE  \E arc \in Arcs(graph) : LedOver(n, arc)'
    BY <1>3 DEF Led
  <2>1. CASE Kept(st, n)
    <3>1. PICK arc \in Arcs(graph) : LedOver(n, arc)
      BY <1>1, <2>1 DEF Led, Kept
    <3>2. LedOver(n, arc)'
      <4>1. distances'[arc.from] = distances[arc.from] /\ arc.from \in Settled'
        BY <1>8, <1>11, <3>1 DEF LedOver
      <4> QED BY <1>3, <2>1, <3>1, <4>1 DEF LedOver, Kept
    <3> QED BY <3>2
  <2>2. ASSUME NEW i \in 1..Len(out), Reached(st, n, q, out[i])
        PROVE  \E arc \in Arcs(graph) : LedOver(n, arc)'
    <3>1. out[i] \in Arcs(graph) /\ out[i].from = q.node /\ ArcCost(out[i]) \in Nat
      BY <1>4 DEF Leaving
    <3>2. distances'[q.node] = q.cost /\ q.node \in Settled'
      BY <1>7, <1>8, <1>11
    <3>3. LedOver(n, out[i])'
      BY <1>3, <2>2, <3>1, <3>2 DEF LedOver, Reached
    <3> QED BY <3>1, <3>3
  <2> QED BY <1>9, <2>1, <2>2
<1>16. Spread'
  <2> SUFFICES ASSUME NEW n \in Settled', NEW arc \in Leaving(n)
               PROVE  ArcCost(arc) \in Nat /\ Passed(st.distances, distances[n], arc)
    BY <1>3, <1>11 DEF Spread, Passed
  <2>1. CASE n = q.node
    BY <1>4, <1>7, <1>9, <2>1
  <2>2. CASE n \in Settled
    <3>1. ArcCost(arc) \in Nat /\ Passed(distances, distances[n], arc)
      BY <1>1, <2>2 DEF Spread
    <3>2. distances[n] + ArcCost(arc) \in Nat
      BY <1>8, <1>10, <3>1
    <3>3. ASSUME Within(distances[n] + ArcCost(arc))
          PROVE  arc.to \in DOMAIN st.distances /\ st.distances[arc.to] <= distances[n] + ArcCost(arc)
      <4>1. arc.to \in DOMAIN distances /\ distances[arc.to] <= distances[n] + ArcCost(arc)
        BY <3>1, <3>3 DEF Passed
      <4>2. arc.to \in DOMAIN st.distances /\ st.distances[arc.to] <= distances[arc.to]
        BY <1>9, <1>12, <4>1
      <4>3. st.distances[arc.to] \in Nat /\ distances[arc.to] \in Nat
        BY <1>10, <4>1, <4>2
      <4> QED BY <3>2, <4>1, <4>2, <4>3
    <3> QED BY <3>1, <3>3 DEF Passed
  <2> QED BY <1>8, <2>1, <2>2
<1>17. Nearest'
  <2> SUFFICES ASSUME NEW n \in Settled', NEW e \in st.queue PROVE distances[n] <= e.cost
    BY <1>11 DEF Nearest
  <2>1. q.cost <= e.cost
    BY <1>9 DEF Queued, Cheapest
  <2>2. e.cost \in Nat /\ distances[n] \in Nat
    BY <1>6, <1>8, <1>10 DEF LoopState, Entry
  <2> QED BY <1>7, <1>8, <2>1, <2>2
<1>18. Ranked'
  <2>1. PICK r : Orders(r)
    BY <1>1 DEF Ranked
  <2> DEFINE m == Cardinality(Settled)
  <2>2. IsFiniteSet(Settled) /\ m \in Nat
    BY <1>1, FS_CardinalityType DEF Ranked
  <2>3. IsFiniteSet(Settled') /\ Cardinality(Settled') = m + 1
    BY <1>8, <2>2, FS_AddElement
  <2>4. /\ r \in [Settled -> Nat]
        /\ \A n \in Settled : r[n] < m /\ (n # request.from => r[predecessors[n].from] < r[n])
    BY <2>1 DEF Orders
  <2>5. ASSUME NEW n \in Settled', n # request.from PROVE predecessors[n].from \in Settled
    <3>1. PICK arc \in Arcs(graph) : LedOver(n, arc)
      BY <1>1, <1>8, <2>5 DEF Led
    <3>2. predecessors[n].from = arc.from
      BY <3>1 DEF LedOver
    <3> QED BY <3>1, <3>2 DEF LedOver
  <2> HIDE DEF m
  <2>6. PICK s : s = [n \in Settled \cup {q.node} |-> IF n = q.node THEN m ELSE r[n]]
    OBVIOUS
  <2>7. s \in [Settled' -> Nat]
    BY <1>8, <2>2, <2>4, <2>6
  <2>8. ASSUME NEW n \in Settled'
        PROVE  s[n] < m + 1 /\ (n # request.from => s[predecessors[n].from] < s[n])
    <3>1. CASE n = q.node
      <4>1. s[n] = m
        BY <1>8, <2>6, <3>1
      <4>2. ASSUME n # request.from PROVE s[predecessors[n].from] < m
        <5>1. predecessors[n].from \in Settled
          BY <2>5, <4>2
        <5>2. s[predecessors[n].from] = r[predecessors[n].from]
          BY <1>8, <2>6, <5>1
        <5> QED BY <2>4, <5>1, <5>2
      <4> QED BY <2>2, <4>1, <4>2
    <3>2. CASE n # q.node
      <4>1. n \in Settled /\ s[n] = r[n]
        BY <1>8, <2>6, <3>2
      <4>2. ASSUME n # request.from PROVE s[predecessors[n].from] < s[n]
        <5>1. predecessors[n].from \in Settled
          BY <2>5, <4>2
        <5>2. s[predecessors[n].from] = r[predecessors[n].from]
          BY <1>8, <2>6, <5>1
        <5> QED BY <2>4, <4>1, <4>2, <5>2
      <4>3. r[n] \in Nat /\ r[n] < m
        BY <2>4, <4>1
      <4> QED BY <2>2, <4>1, <4>2, <4>3
    <3> QED BY <3>1, <3>2
  <2>9. Orders(s)'
    BY <1>11, <2>3, <2>7, <2>8 DEF Orders
  <2> QED BY <2>3, <2>9 DEF Ranked
<1> QED BY <1>2, <1>13, <1>14, <1>15, <1>16, <1>17, <1>18 DEF SearchInv

\* A step of the search.
LEMMA PopKeeps ==
    ASSUME SearchInv, NEW q \in queue, Pop(q)
    PROVE  SearchInv'
<1> DEFINE out == ArcList(q.node)
           bad == ~Outdated(q) /\ \E i \in DOMAIN out : ArcCost(out[i]) = None \/ ArcCost(out[i]) < 0
           after == IF Outdated(q) THEN Popped(q) ELSE RelaxAll(Popped(q), q, out)
<1>1. /\ Given /\ OriginFree /\ InLimit /\ Led /\ Spread /\ Nearest /\ Ranked
  BY DEF SearchInv
<1>2. /\ q \in Cheapest /\ UNCHANGED <<graph, request>>
      /\ IF bad THEN refused' = TRUE /\ UNCHANGED <<distances, predecessors, queue>>
         ELSE /\ distances' = after.distances /\ predecessors' = after.predecessors
              /\ queue' = after.queue
  BY DEF Pop, Popped
<1>3. CASE bad
  <2>1. UNCHANGED <<graph, request, distances, predecessors, queue>>
    BY <1>2, <1>3
  <2>2. Settled' = Settled
    BY <2>1 DEF Settled
  <2>3. Given' /\ OriginFree' /\ InLimit'
    BY <1>1, <2>1 DEF Given, Loaded, Metric, OriginFree, Entry, Link, InLimit, Within
  <2>4. Led' /\ Spread'
    BY <1>1, <2>1, <2>2 DEF Led, LedOver, ArcCost, Spread, Leaving, Passed, Within
  <2>5. Nearest' /\ Ranked'
    BY <1>1, <2>1, <2>2 DEF Nearest, Ranked, Orders
  <2> QED BY <2>3, <2>4, <2>5 DEF SearchInv
<1>4. CASE ~bad /\ Outdated(q)
  <2>1. /\ UNCHANGED <<graph, request, distances, predecessors>> /\ queue' = queue \ {q}
    BY <1>2, <1>4 DEF Popped
  <2>2. q.cost # distances[q.node]
    <3>1. q.cost \in Nat /\ q.node \in DOMAIN distances
      BY <1>1 DEF OriginFree, Entry, InLimit
    <3>2. CASE q.cost = distances[q.node]
      <4>1. Within(q.cost)
        BY <1>1, <3>1, <3>2 DEF InLimit
      <4> QED BY <1>1, <1>4, <3>1, <3>2, <4>1 DEF Outdated, Within, Given
    <3> QED BY <3>2
  <2>3. Settled' = Settled
    BY <2>1, <2>2 DEF Settled
  <2> HIDE DEF bad, after
  <2>4. Given' /\ OriginFree' /\ InLimit'
    BY <1>1, <2>1 DEF Given, Loaded, Metric, OriginFree, Entry, Link, InLimit, Within
  <2>5. Led' /\ Spread'
    BY <1>1, <2>1, <2>3 DEF Led, LedOver, ArcCost, Spread, Leaving, Passed, Within
  <2>6. Nearest' /\ Ranked'
    BY <1>1, <2>1, <2>3 DEF Nearest, Ranked, Orders
  <2> QED BY <2>4, <2>5, <2>6 DEF SearchInv
<1>5. CASE ~bad /\ ~Outdated(q)
  <2>1. out \in Seq(Leaving(q.node))
    BY <1>1, ListFacts DEF Given
  <2>2. ASSUME NEW i \in 1..Len(out) PROVE ArcCost(out[i]) \in Nat
    <3>1. out[i] \in Arcs(graph) /\ i \in DOMAIN out
      BY <2>1 DEF Leaving
    <3>2. ArcCost(out[i]) \in Int \cup {None}
      BY <1>1, <3>1, ArcFacts DEF Given
    <3>3. ArcCost(out[i]) # None /\ ~(ArcCost(out[i]) < 0)
      BY <1>5, <3>1
    <3> QED BY <3>2, <3>3
  <2>3. /\ distances' = RelaxAll(Popped(q), q, out).distances
        /\ predecessors' = RelaxAll(Popped(q), q, out).predecessors
        /\ queue' = RelaxAll(Popped(q), q, out).queue
    BY <1>2, <1>5
  <2> HIDE DEF bad, after
  <2> QED BY <1>2, <1>5, <2>2, <2>3, ExpandKeeps
<1> QED BY <1>3, <1>4, <1>5

\* The requests for which the search is made.
RoutingInit ==
    \E g, from, at, field, limit :
        Loaded(g, field) /\ limit \in Nat /\ Start(g, from, at, field, limit)

RoutingSpec == RoutingInit /\ [][Next]_vars

\* At first only the origin is known, and nothing is done with.
LEMMA StartHas == Metric /\ RoutingInit => SearchInv
<1> SUFFICES ASSUME Metric, NEW g, NEW from, NEW at, NEW field, NEW limit, Loaded(g, field), limit \in Nat,
                    Start(g, from, at, field, limit)
             PROVE  SearchInv
  BY DEF RoutingInit
<1>1. /\ graph = g /\ request = [from |-> from, field |-> field, limit |-> limit]
      /\ distances = [n \in {from} |-> 0] /\ predecessors = [n \in {} |-> None]
      /\ queue = {[node |-> from, cost |-> 0]} /\ Resolves(from, at)
  BY DEF Start
<1>2. Given
  BY <1>1 DEF Given
<1>3. from \in graph.nodes
  BY <1>1 DEF Resolves, Loaded
<1>4. OriginFree
  <2>1. distances \in [{from} -> Nat] /\ predecessors \in [{} -> Link]
    BY <1>1
  <2>2. {from} \in SUBSET graph.nodes /\ {} \in SUBSET graph.nodes
    BY <1>3
  <2>3. distances \in Partial(graph.nodes, Nat) /\ predecessors \in Partial(graph.nodes, Link)
    BY <2>1, <2>2 DEF Partial
  <2> QED BY <1>1, <1>3, <2>3 DEF OriginFree, Entry
<1>5. InLimit
  BY <1>1, <1>2 DEF InLimit, Within, Given
<1>6. Settled = {}
  BY <1>1 DEF Settled
<1>7. Led /\ Spread /\ Nearest
  BY <1>1, <1>6 DEF Led, Spread, Nearest
<1>8. Ranked
  <2>1. [n \in {} |-> 0] \in [Settled -> Nat]
    BY <1>6
  <2>2. Orders([n \in {} |-> 0])
    BY <1>6, <2>1 DEF Orders
  <2> QED BY <1>6, <2>2, FS_EmptySet DEF Ranked
<1> QED BY <1>2, <1>4, <1>5, <1>7, <1>8 DEF SearchInv

\* Every step keeps the invariant.
LEMMA SearchKeeps == SearchInv /\ [Next]_vars => SearchInv'
<1> SUFFICES ASSUME SearchInv, [Next]_vars PROVE SearchInv'
  OBVIOUS
<1>1. CASE Next
  BY <1>1, PopKeeps DEF Next
<1>2. CASE UNCHANGED vars
  <2>1. Settled' = Settled
    BY <1>2 DEF Settled, vars
  <2> QED BY <1>2, <2>1 DEF vars, SearchInv, Given, Loaded, Metric, OriginFree, Entry, Link, InLimit, Within,
             Led, LedOver, ArcCost, Spread, Leaving, Passed, Nearest, Ranked, Orders
<1> QED BY <1>1, <1>2

----------------------------------------------------------------------------
(* The rounds that the costs are compared with *)

RoundStep(S, n) == [p \in S \X (1..n) |-> Round(p[1])]

\* The rounds are a fold.
LEMMA RoundFold ==
    ASSUME NEW n \in Nat, n = Cardinality(graph.nodes), NEW S, NEW start \in S, start = [m \in {request.from} |-> 0],
           \A d \in S : Round(d) \in S
    PROVE  \E iter : /\ IsFold(iter, S, start, n, RoundStep(S, n))
                     /\ Cheapness = iter[1..n]
<1> DEFINE out == [k \in 1..n |-> k]
           F == RoundStep(S, n)
           Iterates(g) == g = [s \in SUBSET (1..n) |->
                        IF s = {} THEN start ELSE Round(g[s \ {Max(s)}])]
           iter == CHOOSE g : Iterates(g)
<1>1. n \in Nat /\ DOMAIN out = 1..n
  OBVIOUS
<1>2. F \in [S \X (1..n) -> S]
  BY <1>1 DEF RoundStep
<1>3. PICK g : IsFold(g, S, start, n, F)
  <2> HIDE DEF F
  <2> QED BY <1>1, <1>2, FoldExists
<1>4. ASSUME NEW s \in SUBSET (1..n), s # {}, NEW v \in S
      PROVE  /\ F[<<v, Max(s)>>] = Round(v)
             /\ Round(v) \in S
  <2>1. Max(s) \in 1..n
    <3> HIDE DEF out
    <3> QED BY <1>1, <1>4, MaxIn
  <2> QED BY <1>1, <2>1 DEF RoundStep
<1>5. Iterates(g)
  <2> HIDE DEF F
  <2>1. g \in [SUBSET (1..n) -> S] /\ g[{}] = start
    BY <1>3 DEF IsFold
  <2>2. ASSUME NEW s \in SUBSET (1..n), s # {} PROVE g[s] = Round(g[s \ {Max(s)}])
    <3>1. s \ {Max(s)} \in SUBSET (1..n)
      OBVIOUS
    <3>2. g[s] = F[<<g[s \ {Max(s)}], Max(s)>>]
      BY <1>3, <2>2 DEF IsFold
    <3>3. g[s \ {Max(s)}] \in S
      BY <2>1, <3>1
    <3> QED BY <1>4, <2>2, <3>2, <3>3
  <2> QED BY <2>1, <2>2
<1>6. Iterates(iter)
  <2> HIDE DEF Iterates
  <2> QED BY <1>5
<1>7. IsFold(iter, S, start, n, F)
  <2> HIDE DEF iter, F
  <2>1. iter[{}] = start
    BY <1>1, <1>6
  <2>2. \A s \in SUBSET (1..n) : s # {} => iter[s] = Round(iter[s \ {Max(s)}])
    BY <1>1, <1>6
  <2> HIDE DEF Iterates
  <2>3. \A s \in SUBSET (1..n) : s # {} /\ iter[s \ {Max(s)}] \in S => iter[s] \in S
    BY <1>4, <2>2
  <2>4. \A s \in SUBSET (1..n) : iter[s] \in S
    <3>1. iter[{}] \in S
      BY <1>1, <2>1
    <3>2. n \in Nat
      BY <1>1
    <3> QED BY ONLY <2>3, <3>1, <3>2, FoldStays
  <2>5. iter \in [SUBSET (1..n) -> S]
    BY <1>1, <1>6, <2>4 DEF Iterates
  <2>6. ASSUME NEW s \in SUBSET (1..n), s # {} PROVE iter[s] = F[<<iter[s \ {Max(s)}], Max(s)>>]
    <3>1. iter[s \ {Max(s)}] \in S
      BY <2>4
    <3> QED BY <1>4, <2>2, <2>6, <3>1
  <2> QED BY <2>1, <2>5, <2>6 DEF IsFold
<1>8. Cheapness = iter[1..n]
  BY <1>1 DEF Cheapness, FoldLeft, MapThenFoldSet
<1> HIDE DEF iter
<1> QED BY <1>7, <1>8

\* What one arc more costs.
LEMMA ViaFacts ==
    ASSUME NEW d, NEW n
    PROVE  \A c : c \in Via(d, n) <=> /\ Within(c)
                                      /\ \E arc \in Arcs(graph) : /\ arc.to = n /\ arc.from \in DOMAIN d
                                                                  /\ c = d[arc.from] + ArcCost(arc)
<1> DEFINE Into == {b \in Arcs(graph) : b.to = n /\ b.from \in DOMAIN d}
<1>1. Via(d, n) = {c \in {d[a.from] + ArcCost(a) : a \in Into} : Within(c)}
  BY DEF Via
<1>2. \A c : c \in {d[a.from] + ArcCost(a) : a \in Into} <=> \E a \in Into : c = d[a.from] + ArcCost(a)
  <2> HIDE DEF Into
  <2> QED OBVIOUS
<1> QED BY <1>1, <1>2

\* The end of a search: nothing is left to do.
Done == SearchInv /\ queue = {}

\* All nodes that were reached are done with.
LEMMA DoneFacts ==
    ASSUME Done
    PROVE  /\ Settled = DOMAIN distances /\ distances \in [DOMAIN distances -> Nat]
           /\ DOMAIN distances \in SUBSET graph.nodes
           /\ IsFiniteSet(graph.nodes) /\ Cardinality(graph.nodes) \in Nat
           /\ request.from \in DOMAIN distances /\ distances[request.from] = 0
           /\ \E r : Orders(r) /\ \A n \in DOMAIN distances : r[n] \in 0..(Cardinality(graph.nodes) - 1)
<1>1. SearchInv /\ queue = {}
  BY DEF Done
<1>2. Settled = DOMAIN distances
  BY <1>1 DEF Settled
<1>3. distances \in [DOMAIN distances -> Nat] /\ DOMAIN distances \in SUBSET graph.nodes
  BY <1>1, PartialFacts DEF SearchInv, OriginFree
<1>4. IsFiniteSet(graph.nodes) /\ Cardinality(graph.nodes) \in Nat
  BY <1>1, FS_CardinalityType DEF SearchInv, Given, Loaded
<1>5. PICK r : Orders(r)
  BY <1>1 DEF SearchInv, Ranked
<1>6. Cardinality(DOMAIN distances) \in Nat /\ Cardinality(DOMAIN distances) <= Cardinality(graph.nodes)
  BY <1>3, <1>4, FS_Subset, FS_CardinalityType
<1>7. ASSUME NEW n \in DOMAIN distances PROVE r[n] \in 0..(Cardinality(graph.nodes) - 1)
  <2>1. r[n] \in Nat /\ r[n] < Cardinality(DOMAIN distances)
    BY <1>2, <1>5 DEF Orders
  <2> QED BY <1>4, <1>6, <2>1
<1> QED BY <1>1, <1>2, <1>3, <1>4, <1>5, <1>7 DEF SearchInv, OriginFree

\* Costs that are not below the ones found.
Dearer ==
    {d \in Partial(graph.nodes, Nat) :
        DOMAIN d \subseteq DOMAIN distances /\ \A n \in DOMAIN d : distances[n] <= d[n]}

\* The costs of the first nodes in the order, which are the ones found.
Exact(d, k, r) ==
    \A n \in DOMAIN distances : n = request.from \/ r[n] <= k => n \in DOMAIN d /\ d[n] = distances[n]

\* A round over costs that are not below the ones found.
LEMMA RoundFacts ==
    ASSUME Done, NEW d \in Dearer
    PROVE  /\ Round(d) \in Dearer
           /\ \A n \in DOMAIN d : n \in DOMAIN Round(d) /\ Round(d)[n] <= d[n]
           /\ \A n \in graph.nodes : \A c \in Via(d, n) : n \in DOMAIN Round(d) /\ Round(d)[n] <= c
<1>1. d \in [DOMAIN d -> Nat] /\ DOMAIN d \subseteq DOMAIN distances /\ DOMAIN d \subseteq graph.nodes
      /\ \A n \in DOMAIN d : distances[n] <= d[n]
  BY PartialFacts DEF Dearer
<1>2. ASSUME NEW n, NEW c \in Via(d, n)
      PROVE  c \in Nat /\ n \in DOMAIN distances /\ distances[n] <= c
  <2>1. PICK arc \in Arcs(graph) : arc.to = n /\ arc.from \in DOMAIN d /\ c = d[arc.from] + ArcCost(arc)
    BY ViaFacts
  <2>2. Within(c)
    BY ViaFacts
  <2>3. arc.from \in Settled /\ arc \in Leaving(arc.from)
    BY <1>1, <2>1, DoneFacts DEF Leaving
  <2>4. ArcCost(arc) \in Nat /\ Passed(distances, distances[arc.from], arc)
    BY <2>3 DEF Done, SearchInv, Spread
  <2>5. /\ distances[arc.from] \in Nat /\ d[arc.from] \in Nat /\ distances[arc.from] <= d[arc.from]
    BY <1>1, <2>1, DoneFacts
  <2>6. c \in Nat /\ distances[arc.from] + ArcCost(arc) \in Nat /\ distances[arc.from] + ArcCost(arc) <= c
    BY <2>1, <2>4, <2>5
  <2>7. Within(distances[arc.from] + ArcCost(arc))
    <3>1. request.limit \in Nat
      BY DEF Done, SearchInv, Given
    <3> QED BY <2>2, <2>6, <3>1 DEF Within
  <2>8. n \in DOMAIN distances /\ distances[n] <= distances[arc.from] + ArcCost(arc)
    BY <2>1, <2>4, <2>7 DEF Passed
  <2>9. distances[n] \in Nat
    BY <2>8, DoneFacts
  <2> QED BY <2>6, <2>8, <2>9
<1> DEFINE Costs(n) == (IF n \in DOMAIN d THEN {d[n]} ELSE {}) \cup Via(d, n)
           D == {m \in graph.nodes : m \in DOMAIN d \/ Via(d, m) # {}}
<1>3. Round(d) = [n \in D |-> Min(Costs(n))]
  BY DEF Round
<1>4. ASSUME NEW n, NEW c \in Costs(n) PROVE c \in Nat /\ n \in DOMAIN distances /\ distances[n] <= c
  BY <1>1, <1>2
<1>5. ASSUME NEW n \in D PROVE Min(Costs(n)) \in Costs(n) /\ \A c \in Costs(n) : Min(Costs(n)) <= c
  <2>1. Costs(n) \in SUBSET Nat /\ Costs(n) # {}
    BY <1>4
  <2> HIDE DEF Costs
  <2>2. PICK c \in Costs(n) : \A e \in Costs(n) : c <= e
    BY <2>1, Least
  <2> QED BY <2>2 DEF Min
<1>6. ASSUME NEW n \in graph.nodes, NEW c \in Costs(n) PROVE n \in D
  OBVIOUS
<1>7. \A n \in DOMAIN d : d[n] \in Costs(n)
  OBVIOUS
<1>8. \A n : \A c \in Via(d, n) : c \in Costs(n)
  OBVIOUS
<1>9. D \in SUBSET graph.nodes
  OBVIOUS
<1> HIDE DEF Costs, D
<1>10. Round(d) \in [D -> Nat] /\ D \subseteq DOMAIN distances /\ \A n \in D : distances[n] <= Round(d)[n]
  BY <1>3, <1>4, <1>5
<1>11. Round(d) \in Dearer
  BY <1>9, <1>10 DEF Dearer, Partial
<1>12. ASSUME NEW n \in graph.nodes, NEW c \in Costs(n) PROVE n \in DOMAIN Round(d) /\ Round(d)[n] <= c
  BY <1>3, <1>5, <1>6
<1> QED BY <1>1, <1>7, <1>8, <1>11, <1>12

\* A node other than the origin was reached from one that comes before it.
LEMMA CameFrom ==
    ASSUME Done, NEW r, Orders(r), NEW n \in DOMAIN distances, n # request.from
    PROVE  \E arc \in Arcs(graph) :
               /\ arc.to = n /\ predecessors[n] = [from |-> arc.from, edge |-> arc.edge]
               /\ arc.from \in DOMAIN distances /\ ArcCost(arc) \in Nat
               /\ distances[n] = distances[arc.from] + ArcCost(arc)
               /\ r[arc.from] \in Nat /\ r[n] \in Nat /\ r[arc.from] < r[n]
<1>1. Settled = DOMAIN distances /\ Led
  BY DoneFacts DEF Done, SearchInv
<1>2. PICK arc \in Arcs(graph) : LedOver(n, arc)
  BY <1>1 DEF Led
<1>3. predecessors[n].from = arc.from /\ arc.from \in Settled /\ n \in Settled
  BY <1>1, <1>2 DEF LedOver
<1>4. r[arc.from] \in Nat /\ r[n] \in Nat /\ r[arc.from] < r[n]
  BY <1>3 DEF Orders
<1> QED BY <1>1, <1>2, <1>4 DEF LedOver

\* A round makes the costs of the next nodes in the order the ones found.
LEMMA ExactGrows ==
    ASSUME Done, NEW d \in Dearer, NEW k \in Nat, NEW r, Orders(r), Exact(d, k, r)
    PROVE  Exact(Round(d), k + 1, r)
<1>1. /\ Settled = DOMAIN distances /\ distances \in [DOMAIN distances -> Nat]
      /\ DOMAIN distances \in SUBSET graph.nodes
  BY DoneFacts
<1>2. /\ Round(d) \in Dearer
      /\ \A n \in DOMAIN d : n \in DOMAIN Round(d) /\ Round(d)[n] <= d[n]
      /\ \A n \in graph.nodes : \A c \in Via(d, n) : n \in DOMAIN Round(d) /\ Round(d)[n] <= c
  BY RoundFacts
<1>3. /\ Round(d) \in [DOMAIN Round(d) -> Nat]
      /\ \A n \in DOMAIN Round(d) : distances[n] <= Round(d)[n]
  BY <1>2, PartialFacts DEF Dearer
<1> SUFFICES ASSUME NEW n \in DOMAIN distances, n = request.from \/ r[n] <= k + 1
             PROVE  n \in DOMAIN Round(d) /\ Round(d)[n] = distances[n]
  BY DEF Exact
<1>4. distances[n] \in Nat /\ n \in graph.nodes
  BY <1>1
<1>5. ASSUME n \in DOMAIN Round(d), Round(d)[n] <= distances[n] PROVE Round(d)[n] = distances[n]
  BY <1>3, <1>4, <1>5
<1>6. CASE n = request.from
  <2>1. n \in DOMAIN d /\ d[n] = distances[n]
    BY <1>6 DEF Exact
  <2> QED BY <1>2, <1>5, <2>1
<1>7. CASE n # request.from
  <2>1. PICK arc \in Arcs(graph) :
               /\ arc.to = n /\ arc.from \in DOMAIN distances /\ ArcCost(arc) \in Nat
               /\ distances[n] = distances[arc.from] + ArcCost(arc)
               /\ r[arc.from] \in Nat /\ r[n] \in Nat /\ r[arc.from] < r[n]
    BY <1>7, CameFrom
  <2>2. r[arc.from] <= k
    BY <1>7, <2>1
  <2>3. arc.from \in DOMAIN d /\ d[arc.from] = distances[arc.from]
    BY <2>1, <2>2 DEF Exact
  <2>4. Within(distances[n])
    BY DEF Done, SearchInv, InLimit
  <2>5. distances[n] \in Via(d, n)
    BY <2>1, <2>3, <2>4, ViaFacts
  <2> QED BY <1>2, <1>4, <1>5, <2>5
<1> QED BY <1>6, <1>7

\* The costs that the search ends with are those of the cheapest walks.
LEMMA CheapestFound ==
    ASSUME Done
    PROVE  distances = Cheapness
<1> DEFINE n == Cardinality(graph.nodes)
           start == [m \in {request.from} |-> 0]
           S == Dearer
           F == RoundStep(S, n)
<1>1. /\ Settled = DOMAIN distances /\ distances \in [DOMAIN distances -> Nat]
      /\ DOMAIN distances \in SUBSET graph.nodes /\ n \in Nat
      /\ request.from \in DOMAIN distances /\ distances[request.from] = 0
  BY DoneFacts
<1>2. PICK r : Orders(r) /\ \A m \in DOMAIN distances : r[m] \in 0..(n - 1)
  BY DoneFacts
<1> DEFINE P == {w \in (0..n) \X S : Exact(w[2], w[1], r)}
<1>3. start \in S
  <2>1. start \in [{request.from} -> Nat] /\ {request.from} \in SUBSET graph.nodes
    BY <1>1
  <2>2. start \in Partial(graph.nodes, Nat)
    BY <2>1 DEF Partial
  <2> QED BY <1>1, <2>2 DEF Dearer
<1>4. Exact(start, 0, r)
  <2> SUFFICES ASSUME NEW m \in DOMAIN distances, m = request.from \/ r[m] <= 0
               PROVE  m = request.from
    BY <1>1 DEF Exact
  <2>1. ASSUME m # request.from PROVE FALSE
    <3>1. PICK a \in Arcs(graph) : r[a.from] \in Nat /\ r[m] \in Nat /\ r[a.from] < r[m]
      BY <1>2, <2>1, CameFrom
    <3> QED BY <2>1, <3>1
  <2> QED BY <2>1
<1>5. \A d \in S : Round(d) \in S
  BY RoundFacts
<1>6. PICK iter : IsFold(iter, S, start, n, F) /\ Cheapness = iter[1..n]
  <2> HIDE DEF S
  <2> QED BY <1>1, <1>3, <1>5, RoundFold
<1>7. F \in [S \X (1..n) -> S]
  <2> HIDE DEF S, n
  <2> QED BY <1>5 DEF RoundStep
<1>8. Keeps(F, n, S, P)
  <2> SUFFICES ASSUME NEW k \in 0..(n - 1), NEW v \in S, <<k, v>> \in P
               PROVE <<k + 1, F[<<v, k + 1>>]>> \in P
    <3> HIDE DEF S, F, n, P
    <3> QED BY DEF Keeps
  <2> HIDE DEF n
  <2>1. k + 1 \in 1..n /\ k + 1 \in 0..n /\ k \in Nat
    BY <1>1
  <2>2. F[<<v, k + 1>>] = Round(v)
    <3> HIDE DEF S
    <3> QED BY <2>1 DEF RoundStep
  <2>3. Exact(Round(v), k + 1, r)
    BY <1>2, <2>1, ExactGrows
  <2>4. Round(v) \in S
    BY <1>5
  <2> HIDE DEF S, F
  <2> QED BY <2>1, <2>2, <2>3, <2>4
<1>9. <<0, start>> \in P
  <2>1. 0 \in 0..n
    BY <1>1
  <2> HIDE DEF S, n, start
  <2> QED BY <1>3, <1>4, <2>1
<1>10. iter[1..n] \in S /\ <<n, iter[1..n]>> \in P
  <2> HIDE DEF S, n, F, P, start
  <2> QED BY <1>1, <1>3, <1>6, <1>7, <1>8, <1>9, FoldKeeps
<1>11. Cheapness \in S /\ Exact(Cheapness, n, r)
  <2> HIDE DEF S, n
  <2> QED BY <1>6, <1>10
<1>12. ASSUME NEW m \in DOMAIN distances PROVE m \in DOMAIN Cheapness /\ Cheapness[m] = distances[m]
  <2>1. r[m] <= n
    <3> HIDE DEF n
    <3> QED BY <1>1, <1>2
  <2> QED BY <1>11, <2>1 DEF Exact
<1>13. Cheapness \in [DOMAIN Cheapness -> Nat] /\ DOMAIN Cheapness \subseteq DOMAIN distances
  BY <1>11, PartialFacts DEF Dearer
<1>14. DOMAIN Cheapness = DOMAIN distances
  BY <1>12, <1>13
<1> QED BY <1>1, <1>12, <1>13, <1>14

----------------------------------------------------------------------------
(* The way back *)

BackStep(S, n, to) == [p \in S \X (1..n) |-> Back(p[1], to)]

\* Walking back is a fold.
LEMMA BackFold ==
    ASSUME NEW to, NEW n \in Nat, n = Cardinality(graph.nodes), NEW S, NEW start \in S, start = <<>>,
           \A arcs \in S : Back(arcs, to) \in S
    PROVE  \E iter : /\ IsFold(iter, S, start, n, BackStep(S, n, to))
                     /\ ReconstructPath(to) = iter[1..n]
<1> DEFINE out == [k \in 1..n |-> k]
           F == BackStep(S, n, to)
           Iterates(g) == g = [s \in SUBSET (1..n) |->
                        IF s = {} THEN start ELSE Back(g[s \ {Max(s)}], to)]
           iter == CHOOSE g : Iterates(g)
<1>1. n \in Nat /\ DOMAIN out = 1..n
  OBVIOUS
<1>2. F \in [S \X (1..n) -> S]
  BY <1>1 DEF BackStep
<1>3. PICK g : IsFold(g, S, start, n, F)
  <2> HIDE DEF F
  <2> QED BY <1>1, <1>2, FoldExists
<1>4. ASSUME NEW s \in SUBSET (1..n), s # {}, NEW v \in S
      PROVE  /\ F[<<v, Max(s)>>] = Back(v, to)
             /\ Back(v, to) \in S
  <2>1. Max(s) \in 1..n
    <3> HIDE DEF out
    <3> QED BY <1>1, <1>4, MaxIn
  <2> QED BY <1>1, <2>1 DEF BackStep
<1>5. Iterates(g)
  <2> HIDE DEF F
  <2> QED BY <1>1, <1>3, <1>4 DEF IsFold
<1>6. Iterates(iter)
  <2> HIDE DEF Iterates
  <2> QED BY <1>5
<1>7. IsFold(iter, S, start, n, F)
  <2> HIDE DEF iter, F
  <2>1. iter[{}] = start
    BY <1>1, <1>6
  <2>2. \A s \in SUBSET (1..n) : s # {} => iter[s] = Back(iter[s \ {Max(s)}], to)
    BY <1>1, <1>6
  <2> HIDE DEF Iterates
  <2>3. \A s \in SUBSET (1..n) : s # {} /\ iter[s \ {Max(s)}] \in S => iter[s] \in S
    BY <1>4, <2>2
  <2>4. \A s \in SUBSET (1..n) : iter[s] \in S
    <3>1. iter[{}] \in S
      BY <2>1
    <3> HIDE DEF out
    <3> QED BY ONLY n \in Nat, <2>3, <3>1, FoldStays
  <2>5. iter \in [SUBSET (1..n) -> S]
    BY <1>1, <1>6, <2>4 DEF Iterates
  <2>6. ASSUME NEW s \in SUBSET (1..n), s # {} PROVE iter[s] = F[<<iter[s \ {Max(s)}], Max(s)>>]
    <3>1. iter[s \ {Max(s)}] \in S
      BY <2>4
    <3> QED BY <1>4, <2>2, <2>6, <3>1
  <2> QED BY <2>1, <2>5, <2>6 DEF IsFold
<1>8. ReconstructPath(to) = iter[1..n]
  BY <1>1 DEF ReconstructPath, FoldLeft, MapThenFoldSet
<1> HIDE DEF iter
<1> QED BY <1>7, <1>8

\* Where the path begins so far.
At(arcs, to) == IF arcs = <<>> THEN to ELSE arcs[1].from

\* The paths to a node over arcs by which the nodes on it were reached.
Chain(arcs, to) ==
    /\ \A i \in 1..Len(arcs) : LedOver(arcs[i].to, arcs[i]) /\ arcs[i].to \in DOMAIN distances
    /\ \A i \in 1..Len(arcs) : i > 1 => arcs[i].from = arcs[i - 1].to
    /\ arcs # <<>> => arcs[Len(arcs)].to = to

Chains(to) == {arcs \in Seq(Arcs(graph)) : Chain(arcs, to)}

\* Walking back a step leads to a node that comes before.
LEMMA BackFacts ==
    ASSUME Done, NEW r, Orders(r), NEW to \in DOMAIN distances, NEW arcs \in Chains(to)
    PROVE  /\ Back(arcs, to) \in Chains(to)
           /\ At(arcs, to) \in DOMAIN distances
           /\ IF At(arcs, to) = request.from THEN Back(arcs, to) = arcs
              ELSE /\ r[At(Back(arcs, to), to)] \in Nat /\ r[At(arcs, to)] \in Nat
                   /\ r[At(Back(arcs, to), to)] < r[At(arcs, to)]
<1> DEFINE at == At(arcs, to)
<1>1. arcs \in Seq(Arcs(graph)) /\ Chain(arcs, to)
  BY DEF Chains
<1>2. at \in DOMAIN distances
  <2>1. CASE arcs = <<>>
    BY <2>1 DEF At
  <2>2. CASE arcs # <<>>
    <3>1. 1 \in 1..Len(arcs)
      BY <1>1, <2>2
    <3>2. arcs[1].from \in Settled
      BY <1>1, <3>1 DEF Chain, LedOver
    <3> QED BY <2>2, <3>2, DoneFacts DEF At
  <2> QED BY <2>1, <2>2
<1> HIDE DEF at
<1>3. CASE at = request.from
  BY <1>2, <1>3 DEF Back, At, at
<1>4. CASE at # request.from
  <2>1. PICK arc \in Arcs(graph) :
               /\ arc.to = at /\ predecessors[at] = [from |-> arc.from, edge |-> arc.edge]
               /\ arc.from \in DOMAIN distances /\ ArcCost(arc) \in Nat
               /\ distances[at] = distances[arc.from] + ArcCost(arc)
               /\ r[arc.from] \in Nat /\ r[at] \in Nat /\ r[arc.from] < r[at]
    BY <1>2, <1>4, CameFrom
  <2>2. arc = [from |-> arc.from, to |-> arc.to, edge |-> arc.edge]
    BY ArcFacts DEF Done, SearchInv, Given
  <2>3. Back(arcs, to) = <<arc>> \o arcs
    <3>1. predecessors[at].from = arc.from /\ predecessors[at].edge = arc.edge
      BY <2>1
    <3>2. Back(arcs, to) = <<[from |-> predecessors[at].from, to |-> at, edge |-> predecessors[at].edge]>> \o arcs
      BY <1>4 DEF Back, At, at
    <3>3. [from |-> predecessors[at].from, to |-> at, edge |-> predecessors[at].edge] = arc
      BY <2>1, <2>2, <3>1
    <3> QED BY <3>2, <3>3
  <2> DEFINE new == <<arc>> \o arcs
  <2>4. /\ new \in Seq(Arcs(graph)) /\ Len(new) = Len(arcs) + 1 /\ new[1] = arc /\ new # <<>>
        /\ \A i \in 1..Len(new) : i # 1 => new[i] = arcs[i - 1] /\ i - 1 \in 1..Len(arcs)
    BY <1>1, <2>1
  <2>5. arcs # <<>> => at = arcs[1].from /\ Len(arcs) \in Nat /\ Len(arcs) # 0
    BY <1>1 DEF At, at
  <2>6. arcs = <<>> => at = to /\ Len(arcs) = 0
    BY DEF At, at
  <2> HIDE DEF new
  <2>7. LedOver(arc.to, arc) /\ arc.to \in DOMAIN distances
    <3>1. Settled = DOMAIN distances
      BY DoneFacts
    <3> QED BY <1>2, <2>1, <3>1 DEF LedOver
  <2>8. ASSUME NEW i \in 1..Len(new) PROVE LedOver(new[i].to, new[i]) /\ new[i].to \in DOMAIN distances
    BY <1>1, <2>4, <2>7 DEF Chain
  <2>9. ASSUME NEW i \in 1..Len(new), i > 1 PROVE new[i].from = new[i - 1].to
    <3>1. new[i] = arcs[i - 1] /\ i - 1 \in 1..Len(arcs) /\ i - 1 \in 1..Len(new) /\ Len(arcs) \in Nat
      BY <1>1, <2>4, <2>9
    <3>2. CASE i = 2
      <4>1. arcs # <<>> /\ new[2] = arcs[1]
        BY <1>1, <3>1, <3>2
      <4> QED BY <2>1, <2>4, <2>5, <3>2, <4>1
    <3>3. CASE i # 2
      <4>1. i - 1 > 1 /\ i - 1 # 1
        BY <2>9, <3>3
      <4>2. new[i - 1] = arcs[(i - 1) - 1]
        BY <2>4, <3>1, <4>1
      <4>3. arcs[i - 1].from = arcs[(i - 1) - 1].to
        BY <1>1, <3>1, <4>1 DEF Chain
      <4> QED BY <3>1, <4>2, <4>3
    <3> QED BY <3>2, <3>3
  <2>10. new[Len(new)].to = to
    <3>1. CASE arcs = <<>>
      BY <2>1, <2>4, <2>6, <3>1
    <3>2. CASE arcs # <<>>
      <4>1. Len(new) \in 1..Len(new) /\ Len(new) # 1 /\ Len(new) - 1 = Len(arcs)
        BY <1>1, <2>4, <2>5, <3>2
      <4>2. new[Len(new)] = arcs[Len(arcs)]
        BY <2>4, <4>1
      <4> QED BY <1>1, <3>2, <4>2 DEF Chain
    <3> QED BY <3>1, <3>2
  <2>11. Chain(new, to)
    BY <2>8, <2>9, <2>10 DEF Chain
  <2>12. At(new, to) = arc.from
    BY <2>4 DEF At
  <2> QED BY <1>2, <1>4, <2>1, <2>3, <2>4, <2>11, <2>12 DEF Chains, new, at
<1> QED BY <1>2, <1>3, <1>4 DEF at, Chains

\* Walking back ends at the origin.
LEMMA PathFound ==
    ASSUME Done, NEW to \in DOMAIN distances
    PROVE  ReconstructPath(to) \in Chains(to) /\ At(ReconstructPath(to), to) = request.from
<1> DEFINE n == Cardinality(graph.nodes)
           S == Chains(to)
           F == BackStep(S, n, to)
<1>1. n \in Nat
  BY DoneFacts
<1>2. PICK r : Orders(r) /\ \A m \in DOMAIN distances : r[m] \in 0..(n - 1)
  BY DoneFacts
<1> DEFINE Good(k, arcs) == At(arcs, to) = request.from \/ r[At(arcs, to)] + k <= r[to]
           P == {w \in (0..n) \X S : Good(w[1], w[2])}
<1>3. <<>> \in S
  BY DEF Chains, Chain
<1>4. r[to] \in 0..(n - 1)
  BY <1>2
<1> HIDE DEF n
<1>5. Good(0, <<>>)
  BY <1>1, <1>4 DEF At
<1>6. \A arcs \in S : Back(arcs, to) \in S
  BY <1>2, BackFacts
<1>7. PICK iter : IsFold(iter, S, <<>>, n, F) /\ ReconstructPath(to) = iter[1..n]
  <2> HIDE DEF S
  <2> QED BY <1>1, <1>3, <1>6, BackFold DEF n
<1>8. F \in [S \X (1..n) -> S]
  <2> HIDE DEF S
  <2> QED BY <1>6 DEF BackStep
<1>9. ASSUME NEW k \in 0..(n - 1), NEW v \in S, Good(k, v) PROVE Good(k + 1, Back(v, to))
  <2>1. CASE At(v, to) = request.from
    <3>1. Back(v, to) = v
      BY <1>2, <2>1, BackFacts
    <3> QED BY <2>1, <3>1
  <2>2. CASE At(v, to) # request.from
    <3>1. /\ r[At(Back(v, to), to)] \in Nat /\ r[At(v, to)] \in Nat
          /\ r[At(Back(v, to), to)] < r[At(v, to)]
      BY <1>2, <2>2, BackFacts
    <3>2. r[At(v, to)] + k <= r[to]
      BY <1>9, <2>2
    <3>3. r[At(Back(v, to), to)] + (k + 1) <= r[to]
      <4> DEFINE x == r[At(Back(v, to), to)]
                 y == r[At(v, to)]
                 z == r[to]
      <4>1. x \in Nat /\ y \in Nat /\ z \in Nat /\ k \in Nat /\ x < y /\ y + k <= z
        BY <1>1, <1>4, <3>1, <3>2
      <4> HIDE DEF x, y, z
      <4>2. x + (k + 1) <= z
        BY <4>1
      <4> QED BY <4>2 DEF x, z
    <3> QED BY <3>3
  <2> QED BY <2>1, <2>2
<1>10. Keeps(F, n, S, P)
  <2> SUFFICES ASSUME NEW k \in 0..(n - 1), NEW v \in S, <<k, v>> \in P
               PROVE <<k + 1, F[<<v, k + 1>>]>> \in P
    <3> HIDE DEF S, F, n, P
    <3> QED BY DEF Keeps
  <2> HIDE DEF S
  <2>1. k + 1 \in 1..n /\ k + 1 \in 0..n
    BY <1>1
  <2>2. F[<<v, k + 1>>] = Back(v, to)
    BY <2>1 DEF BackStep
  <2> HIDE DEF Good
  <2>3. Good(k + 1, Back(v, to)) /\ Back(v, to) \in S
    BY <1>6, <1>9
  <2> HIDE DEF F
  <2> QED BY <2>1, <2>2, <2>3
<1>11. <<0, <<>>>> \in P
  <2>1. 0 \in 0..n
    BY <1>1
  <2> HIDE DEF S, Good
  <2> QED BY <1>3, <1>5, <2>1
<1>12. iter[1..n] \in S /\ <<n, iter[1..n]>> \in P
  <2> HIDE DEF S, F, P
  <2> QED BY <1>1, <1>3, <1>7, <1>8, <1>10, <1>11, FoldKeeps
<1>13. ReconstructPath(to) \in S /\ Good(n, ReconstructPath(to))
  <2> HIDE DEF S, Good
  <2> QED BY <1>7, <1>12
<1>14. At(ReconstructPath(to), to) \in DOMAIN distances
  BY <1>2, <1>13, BackFacts
<1>15. r[At(ReconstructPath(to), to)] \in Nat
  BY <1>2, <1>14
<1> HIDE DEF S
<1>16. ~(r[At(ReconstructPath(to), to)] + n <= r[to])
  BY <1>1, <1>4, <1>15
<1> QED BY <1>13, <1>16 DEF S

----------------------------------------------------------------------------
(* The cost of a path *)

CostStep(S, path) == [p \in S \X (1..Len(path)) |-> (p[1] + ArcCost(path[p[2]]))]

\* The sum of the costs is a fold.
LEMMA CostFold ==
    ASSUME NEW T, NEW path \in Seq(T), NEW S, NEW start \in S, start = 0,
           \A st \in S, arc \in T : (st + ArcCost(arc)) \in S
    PROVE  \E iter : /\ IsFold(iter, S, start, Len(path), CostStep(S, path))
                     /\ PathCost(path) = iter[1..Len(path)]
<1> DEFINE n == Len(path)
           F == CostStep(S, path)
           Iterates(g) == g = [s \in SUBSET DOMAIN path |->
                        IF s = {} THEN start ELSE (g[s \ {Max(s)}] + ArcCost(path[Max(s)]))]
           iter == CHOOSE g : Iterates(g)
<1>1. n \in Nat /\ DOMAIN path = 1..n /\ \A k \in 1..n : path[k] \in T
  OBVIOUS
<1>2. F \in [S \X (1..n) -> S]
  BY <1>1 DEF CostStep
<1>3. PICK g : IsFold(g, S, start, n, F)
  <2> HIDE DEF n, F
  <2> QED BY <1>1, <1>2, FoldExists
<1>4. ASSUME NEW s \in SUBSET (1..n), s # {}, NEW v \in S
      PROVE  /\ F[<<v, Max(s)>>] = (v + ArcCost(path[Max(s)]))
             /\ (v + ArcCost(path[Max(s)])) \in S
  <2>1. Max(s) \in 1..n
    <3> HIDE DEF n
    <3> QED BY <1>1, <1>4, MaxIn
  <2> QED BY <1>1, <2>1 DEF CostStep
<1>5. Iterates(g)
  <2> HIDE DEF F
  <2> QED BY <1>1, <1>3, <1>4 DEF IsFold
<1>6. Iterates(iter)
  <2> HIDE DEF Iterates
  <2> QED BY <1>5
<1>7. IsFold(iter, S, start, n, F)
  <2> HIDE DEF iter, F, n
  <2>1. iter[{}] = start
    BY <1>1, <1>6
  <2>2. \A s \in SUBSET (1..n) : s # {} => iter[s] = (iter[s \ {Max(s)}] + ArcCost(path[Max(s)]))
    BY <1>1, <1>6
  <2> HIDE DEF Iterates
  <2>3. \A s \in SUBSET (1..n) : s # {} /\ iter[s \ {Max(s)}] \in S => iter[s] \in S
    BY <1>4, <2>2
  <2>4. \A s \in SUBSET (1..n) : iter[s] \in S
    <3>1. iter[{}] \in S
      BY <2>1
    <3>2. n \in Nat
      BY <1>1
    <3> QED BY ONLY <2>3, <3>1, <3>2, FoldStays
  <2>5. iter \in [SUBSET (1..n) -> S]
    BY <1>1, <1>6, <2>4 DEF Iterates
  <2>6. ASSUME NEW s \in SUBSET (1..n), s # {} PROVE iter[s] = F[<<iter[s \ {Max(s)}], Max(s)>>]
    <3>1. iter[s \ {Max(s)}] \in S
      BY <2>4
    <3> QED BY <1>4, <2>2, <2>6, <3>1
  <2> QED BY <2>1, <2>5, <2>6 DEF IsFold
<1>8. PathCost(path) = iter[1..n]
  BY <1>1 DEF PathCost, FoldLeft, MapThenFoldSet
<1> HIDE DEF iter
<1> QED BY <1>7, <1>8

\* A path costs what its last node does.
LEMMA PathCosts ==
    ASSUME Done, NEW to \in DOMAIN distances, NEW path \in Chains(to), At(path, to) = request.from
    PROVE  PathCost(path) = distances[to]
<1> DEFINE n == Len(path)
           T == {a \in Arcs(graph) : ArcCost(a) \in Nat}
           S == Nat
           F == CostStep(S, path)
           Good(k, c) == c = IF k = 0 THEN 0 ELSE distances[path[k].to]
           P == {w \in (0..n) \X S : Good(w[1], w[2])}
<1>1. n \in Nat /\ path \in Seq(Arcs(graph)) /\ Chain(path, to) /\ DOMAIN path = 1..n
  BY DEF Chains
<1>2. ASSUME NEW i \in 1..n
      PROVE  /\ path[i] \in Arcs(graph) /\ ArcCost(path[i]) \in Nat
             /\ path[i].to \in DOMAIN distances /\ path[i].from \in DOMAIN distances
             /\ distances[path[i].to] = distances[path[i].from] + ArcCost(path[i])
  <2>1. LedOver(path[i].to, path[i]) /\ path[i].to \in DOMAIN distances
    BY <1>1 DEF Chain
  <2>2. path[i] \in Arcs(graph)
    BY <1>1
  <2> QED BY <2>1, <2>2, DoneFacts DEF LedOver
<1>3. path \in Seq(T)
  <2>1. \A i \in 1..n : path[i] \in T
    BY <1>2
  <2>2. path = [i \in 1..n |-> path[i]]
    BY <1>1
  <2> HIDE DEF T, n
  <2>3. path \in [1..n -> T]
    BY <2>1, <2>2
  <2> QED BY <1>1, <2>3
<1> HIDE DEF n, T
<1>4. \A c \in S, arc \in T : (c + ArcCost(arc)) \in S
  BY DEF T
<1>5. PICK iter : IsFold(iter, S, 0, n, F) /\ PathCost(path) = iter[1..n]
  <2> HIDE DEF S
  <2>1. 0 \in S
    BY DEF S
  <2> QED BY <1>3, <1>4, <2>1, CostFold DEF n
<1>6. F \in [S \X (1..n) -> S]
  <2>1. \A i \in 1..n : path[i] \in T
    BY <1>3 DEF n
  <2> HIDE DEF S
  <2> QED BY <1>4, <2>1 DEF CostStep, n
<1>7. ASSUME NEW k \in 0..(n - 1), NEW v \in S, Good(k, v)
      PROVE  v + ArcCost(path[k + 1]) \in S /\ Good(k + 1, v + ArcCost(path[k + 1]))
  <2> DEFINE arc == path[k + 1]
  <2>1. k + 1 \in 1..n /\ k + 1 # 0
    BY <1>1
  <2>2. /\ ArcCost(arc) \in Nat /\ arc.to \in DOMAIN distances
        /\ distances[arc.to] = distances[arc.from] + ArcCost(arc)
    BY <1>2, <2>1
  <2>3. v = distances[arc.from]
    <3>1. CASE k = 0
      <4>1. arc.from = request.from
        <5>1. path # <<>> /\ arc = path[1]
          BY <1>1, <2>1, <3>1 DEF n
        <5> QED BY <5>1 DEF At
      <4>2. v = 0
        BY <1>7, <3>1
      <4> HIDE DEF arc
      <4> QED BY <4>1, <4>2, DoneFacts
    <3>2. CASE k # 0
      <4>1. k + 1 > 1 /\ (k + 1) - 1 = k
        BY <3>2
      <4>2. arc.from = path[k].to
        BY <1>1, <2>1, <4>1 DEF Chain, n
      <4> QED BY <1>7, <3>2, <4>2
    <3> QED BY <3>1, <3>2
  <2> HIDE DEF arc
  <2>4. v + ArcCost(arc) \in Nat
    BY <2>2
  <2> QED BY <2>1, <2>2, <2>3, <2>4 DEF arc
<1>8. Keeps(F, n, S, P)
  <2> SUFFICES ASSUME NEW k \in 0..(n - 1), NEW v \in S, <<k, v>> \in P
               PROVE <<k + 1, F[<<v, k + 1>>]>> \in P
    <3> HIDE DEF S, F, P
    <3> QED BY DEF Keeps
  <2> HIDE DEF S
  <2>1. k + 1 \in 1..n /\ k + 1 \in 0..n
    BY <1>1
  <2>2. F[<<v, k + 1>>] = v + ArcCost(path[k + 1])
    BY <2>1 DEF CostStep, n
  <2> HIDE DEF Good
  <2>3. Good(k + 1, v + ArcCost(path[k + 1])) /\ v + ArcCost(path[k + 1]) \in S
    BY <1>7
  <2> HIDE DEF F
  <2> QED BY <2>1, <2>2, <2>3
<1>9. <<0, 0>> \in P
  <2>1. 0 \in 0..n
    BY <1>1
  <2> QED BY <2>1
<1>10. iter[1..n] \in S /\ <<n, iter[1..n]>> \in P
  <2>1. 0 \in S
    OBVIOUS
  <2> HIDE DEF S, F, P
  <2> QED BY <1>1, <1>5, <1>6, <1>8, <1>9, <2>1, FoldKeeps
<1>11. Good(n, PathCost(path))
  <2> HIDE DEF S, Good
  <2> QED BY <1>5, <1>10
<1>12. CASE n = 0
  <2>1. path = <<>>
    BY <1>1, <1>12 DEF n
  <2> QED BY <1>11, <1>12, <2>1, DoneFacts DEF At
<1>13. CASE n # 0
  <2>1. path # <<>>
    BY <1>1, <1>13 DEF n
  <2>2. path[n].to = to
    BY <1>1, <2>1 DEF Chain, n
  <2> QED BY <1>11, <1>13, <2>2
<1> QED BY <1>12, <1>13

----------------------------------------------------------------------------
(* The line of a path *)

LineStep(S, path) == [p \in S \X (1..Len(path)) |-> Joined(p[1], ArcCoordinates(path[p[2]]))]

\* Joining the lines is a fold.
LEMMA LineFold ==
    ASSUME NEW T, NEW path \in Seq(T), NEW S, NEW start \in S, start = <<>>,
           \A st \in S, arc \in T : Joined(st, ArcCoordinates(arc)) \in S
    PROVE  \E iter : /\ IsFold(iter, S, start, Len(path), LineStep(S, path))
                     /\ RouteLine(path) = iter[1..Len(path)]
<1> DEFINE n == Len(path)
           F == LineStep(S, path)
           Iterates(g) == g = [s \in SUBSET DOMAIN path |->
                        IF s = {} THEN start ELSE Joined(g[s \ {Max(s)}], ArcCoordinates(path[Max(s)]))]
           iter == CHOOSE g : Iterates(g)
<1>1. n \in Nat /\ DOMAIN path = 1..n /\ \A k \in 1..n : path[k] \in T
  OBVIOUS
<1>2. F \in [S \X (1..n) -> S]
  BY <1>1 DEF LineStep
<1>3. PICK g : IsFold(g, S, start, n, F)
  <2> HIDE DEF n, F
  <2> QED BY <1>1, <1>2, FoldExists
<1>4. ASSUME NEW s \in SUBSET (1..n), s # {}, NEW v \in S
      PROVE  /\ F[<<v, Max(s)>>] = Joined(v, ArcCoordinates(path[Max(s)]))
             /\ Joined(v, ArcCoordinates(path[Max(s)])) \in S
  <2>1. Max(s) \in 1..n
    <3> HIDE DEF n
    <3> QED BY <1>1, <1>4, MaxIn
  <2> QED BY <1>1, <2>1 DEF LineStep
<1>5. Iterates(g)
  <2> HIDE DEF F
  <2> QED BY <1>1, <1>3, <1>4 DEF IsFold
<1>6. Iterates(iter)
  <2> HIDE DEF Iterates
  <2> QED BY <1>5
<1>7. IsFold(iter, S, start, n, F)
  <2> HIDE DEF iter, F, n
  <2>1. iter[{}] = start
    BY <1>1, <1>6
  <2>2. \A s \in SUBSET (1..n) : s # {} => iter[s] = Joined(iter[s \ {Max(s)}], ArcCoordinates(path[Max(s)]))
    BY <1>1, <1>6
  <2> HIDE DEF Iterates
  <2>3. \A s \in SUBSET (1..n) : s # {} /\ iter[s \ {Max(s)}] \in S => iter[s] \in S
    BY <1>4, <2>2
  <2>4. \A s \in SUBSET (1..n) : iter[s] \in S
    <3>1. iter[{}] \in S
      BY <2>1
    <3>2. n \in Nat
      BY <1>1
    <3> QED BY ONLY <2>3, <3>1, <3>2, FoldStays
  <2>5. iter \in [SUBSET (1..n) -> S]
    BY <1>1, <1>6, <2>4 DEF Iterates
  <2>6. ASSUME NEW s \in SUBSET (1..n), s # {} PROVE iter[s] = F[<<iter[s \ {Max(s)}], Max(s)>>]
    <3>1. iter[s \ {Max(s)}] \in S
      BY <2>4
    <3> QED BY <1>4, <2>2, <2>6, <3>1
  <2> QED BY <2>1, <2>5, <2>6 DEF IsFold
<1>8. RouteLine(path) = iter[1..n]
  BY <1>1 DEF RouteLine, FoldLeft, MapThenFoldSet
<1> HIDE DEF iter
<1> QED BY <1>7, <1>8

\* The line of an edge between located nodes begins at one of them and ends at the other.
Drawn(g) ==
    \E Point :
        /\ Node \subseteq Point
        /\ \A e \in DOMAIN g.edges :
             LET edge == g.edges[e]
                 runs(n, m) == edge.line[1] = n /\ edge.line[Len(edge.line)] = m
             IN  /\ edge.line \in Seq(Point)
                 /\ {edge.from, edge.to} \subseteq g.located /\ Len(edge.line) >= 2
                    => runs(edge.from, edge.to) \/ runs(edge.to, edge.from)

\* A line that is not empty, from one point to another.
Runs(line, n, m) == line # <<>> /\ line[1] = n /\ line[Len(line)] = m

\* The line of an arc is turned to where the arc leads.
LEMMA ArcRuns ==
    ASSUME Given, graph.located = graph.nodes, NEW Point, Node \subseteq Point, NEW arc \in Arcs(graph),
           NEW line, line = graph.edges[arc.edge].line, line \in Seq(Point),
           Len(line) >= 2 => Runs(line, arc.from, arc.to) \/ Runs(line, arc.to, arc.from)
    PROVE  /\ ArcCoordinates(arc) \in Seq(Point)
           /\ Runs(ArcCoordinates(arc), arc.from, arc.to)
<1> DEFINE away(n, m) == Straight[line[1]][n] + Straight[line[Len(line)]][m]
           turned == away(arc.to, arc.from) < away(arc.from, arc.to)
<1>1. /\ arc.from \in Node /\ arc.to \in Node /\ arc.from \in Point /\ arc.to \in Point
      /\ {arc.from, arc.to} \subseteq graph.located
  <2>1. arc.from \in graph.nodes /\ arc.to \in graph.nodes /\ graph.nodes \subseteq Node
    BY ArcFacts DEF Given, Loaded
  <2> QED BY <2>1
<1>2. Len(line) \in Nat
  OBVIOUS
<1>3. ArcCoordinates(arc) = IF Len(line) < 2 THEN <<arc.from, arc.to>>
                            ELSE IF turned THEN Reverse(line) ELSE line
  <2>1. ArcCoordinates(arc) = IF Len(line) < 2
                              THEN (IF {arc.from, arc.to} \subseteq graph.located THEN <<arc.from, arc.to>> ELSE <<>>)
                              ELSE IF {arc.from, arc.to} \subseteq graph.located /\ turned THEN Reverse(line) ELSE line
    BY DEF ArcCoordinates
  <2> HIDE DEF turned
  <2> QED BY <1>1, <2>1
<1>4. CASE Len(line) < 2
  <2>1. ArcCoordinates(arc) = <<arc.from, arc.to>>
    BY <1>3, <1>4
  <2> QED BY <1>1, <2>1 DEF Runs
<1>5. CASE Len(line) >= 2 /\ turned
  <2>1. ArcCoordinates(arc) = Reverse(line)
    BY <1>2, <1>3, <1>5
  <2>2. Runs(line, arc.to, arc.from)
    <3>1. CASE Runs(line, arc.from, arc.to)
      <4>1. /\ Straight[arc.from][arc.to] \in Nat /\ Straight[arc.to][arc.from] \in Nat
            /\ Straight[arc.from][arc.from] = 0 /\ Straight[arc.to][arc.to] = 0
        BY <1>1 DEF Given, Metric
      <4>2. /\ away(arc.to, arc.from) = Straight[arc.from][arc.to] + Straight[arc.to][arc.from]
            /\ away(arc.from, arc.to) = Straight[arc.from][arc.from] + Straight[arc.to][arc.to]
        BY <3>1 DEF Runs
      <4> HIDE DEF away
      <4> QED BY <1>5, <4>1, <4>2
    <3> HIDE DEF turned
    <3> QED BY <1>5, <3>1
  <2>3. /\ Reverse(line) = [i \in 1..Len(line) |-> line[(Len(line) - i) + 1]]
        /\ \A i \in 1..Len(line) : (Len(line) - i) + 1 \in 1..Len(line)
    BY <1>2 DEF Reverse
  <2> HIDE DEF turned
  <2>4. Reverse(line) \in Seq(Point) /\ Len(Reverse(line)) = Len(line)
    BY <1>2, <2>3
  <2>5. 1 \in 1..Len(line) /\ Len(line) \in 1..Len(line)
    BY <1>2, <1>5
  <2>6. Reverse(line)[1] = line[Len(line)] /\ Reverse(line)[Len(line)] = line[1]
    BY <1>2, <2>3, <2>5
  <2>7. Reverse(line) # <<>>
    BY <2>4, <1>5
  <2> QED BY <2>1, <2>2, <2>4, <2>6, <2>7 DEF Runs
<1>6. CASE Len(line) >= 2 /\ ~turned
  <2>1. ArcCoordinates(arc) = line
    BY <1>2, <1>3, <1>6
  <2>2. Runs(line, arc.from, arc.to)
    <3>1. CASE Runs(line, arc.to, arc.from)
      <4>1. /\ Straight[arc.from][arc.to] \in Nat /\ Straight[arc.to][arc.from] \in Nat
            /\ Straight[arc.from][arc.from] = 0 /\ Straight[arc.to][arc.to] = 0
            /\ Straight[arc.from][arc.to] = 0 => arc.from = arc.to
        BY <1>1 DEF Given, Metric
      <4>2. /\ away(arc.to, arc.from) = Straight[arc.to][arc.to] + Straight[arc.from][arc.from]
            /\ away(arc.from, arc.to) = Straight[arc.to][arc.from] + Straight[arc.from][arc.to]
        BY <3>1 DEF Runs
      <4> HIDE DEF away
      <4>3. Straight[arc.from][arc.to] = 0
        BY <1>6, <4>1, <4>2
      <4>4. arc.from = arc.to
        BY <4>1, <4>3
      <4> QED BY <3>1, <4>4 DEF Runs
    <3> HIDE DEF turned
    <3> QED BY <1>6, <3>1
  <2> QED BY <2>1, <2>2
<1> HIDE DEF turned
<1> QED BY <1>2, <1>4, <1>5, <1>6

\* A segment that begins where a line ends prolongs it.
LEMMA JoinedRuns ==
    ASSUME NEW Point, NEW line \in Seq(Point), NEW segment \in Seq(Point), NEW n, NEW m, NEW o,
           Runs(segment, m, o), (line = <<>> /\ n = m) \/ Runs(line, n, m)
    PROVE  Joined(line, segment) \in Seq(Point) /\ Runs(Joined(line, segment), n, o)
<1>1. /\ segment # <<>> /\ segment[1] = m /\ segment[Len(segment)] = o
      /\ Len(segment) \in Nat /\ Len(segment) >= 1
  <2>1. segment # <<>> /\ segment[1] = m /\ segment[Len(segment)] = o
    BY DEF Runs
  <2> QED BY <2>1
<1>2. CASE line = <<>>
  <2>1. Joined(line, segment) = segment
    BY <1>2 DEF Joined
  <2>2. n = m
    BY <1>2 DEF Runs
  <2> QED BY <2>1, <2>2
<1>3. CASE line # <<>>
  <2>1. line[1] = n /\ line[Len(line)] = m /\ Len(line) \in Nat /\ Len(line) >= 1
    <3>1. line[1] = n /\ line[Len(line)] = m
      BY <1>3 DEF Runs
    <3> QED BY <1>3, <3>1
  <2>2. Joined(line, segment) = line \o Tail(segment)
    BY <1>1, <1>3, <2>1 DEF Joined
  <2> DEFINE rest == Tail(segment)
             new == line \o rest
  <2>3. /\ rest \in Seq(Point) /\ Len(rest) = Len(segment) - 1
        /\ \A i \in 1..Len(rest) : rest[i] = segment[i + 1]
    BY <1>1
  <2> HIDE DEF rest
  <2>4. /\ new \in Seq(Point) /\ Len(new) = Len(line) + Len(rest)
        /\ \A i \in 1..Len(line) : new[i] = line[i]
        /\ \A i \in 1..Len(rest) : new[Len(line) + i] = rest[i]
    <3>1. new \in Seq(Point) /\ Len(new) = Len(line) + Len(rest)
      <4>1. rest \in Seq(Point)
        BY <2>3
      <4>2. line \o rest \in Seq(Point)
        BY <4>1
      <4>3. Len(line \o rest) = Len(line) + Len(rest)
        BY <4>1
      <4> QED BY <4>2, <4>3
    <3>2. ASSUME NEW i \in 1..Len(line) PROVE new[i] = line[i]
      BY <2>3
    <3>3. ASSUME NEW i \in 1..Len(rest) PROVE new[Len(line) + i] = rest[i]
      BY <2>1, <2>3
    <3> HIDE DEF new
    <3> QED BY <3>1, <3>2, <3>3
  <2> HIDE DEF new
  <2>5. new # <<>> /\ new[1] = n
    <3>1. 1 \in 1..Len(line)
      BY <2>1
    <3>2. Len(new) # 0
      BY <1>1, <2>1, <2>3, <2>4
    <3> QED BY <2>1, <2>4, <3>1, <3>2
  <2>6. new[Len(new)] = o
    <3>1. CASE Len(segment) = 1
      <4>1. Len(new) = Len(line) /\ Len(line) \in 1..Len(line)
        BY <2>1, <2>3, <2>4, <3>1
      <4>2. new[Len(new)] = line[Len(line)]
        BY <2>4, <4>1
      <4>3. o = m
        BY <1>1, <3>1
      <4> QED BY <2>1, <4>2, <4>3
    <3>2. CASE Len(segment) # 1
      <4>1. Len(rest) \in 1..Len(rest) /\ Len(rest) + 1 = Len(segment)
        BY <1>1, <2>3, <3>2
      <4>2. new[Len(new)] = rest[Len(rest)]
        BY <2>4, <4>1
      <4>3. rest[Len(rest)] = segment[Len(segment)]
        BY <2>3, <4>1
      <4> QED BY <1>1, <4>2, <4>3
    <3> QED BY <3>1, <3>2
  <2> QED BY <2>2, <2>4, <2>5, <2>6 DEF Runs, new, rest
<1> QED BY <1>2, <1>3

\* A path whose arcs' lines run from node to node has a line from the origin to its end.
LEMMA LineLeads ==
    ASSUME Done, Drawn(graph), graph.located = graph.nodes, NEW to \in DOMAIN distances,
           NEW path \in Chains(to), At(path, to) = request.from, path # <<>>
    PROVE  Runs(RouteLine(path), request.from, to)
<1>1. PICK Point :
        /\ Node \subseteq Point
        /\ \A e \in DOMAIN graph.edges :
             LET edge == graph.edges[e]
                 runs(n, m) == edge.line[1] = n /\ edge.line[Len(edge.line)] = m
             IN  /\ edge.line \in Seq(Point)
                 /\ {edge.from, edge.to} \subseteq graph.located /\ Len(edge.line) >= 2
                    => runs(edge.from, edge.to) \/ runs(edge.to, edge.from)
  BY DEF Drawn
<1>2. Given
  BY DEF Done, SearchInv
<1>3. ASSUME NEW arc \in Arcs(graph)
      PROVE  ArcCoordinates(arc) \in Seq(Point) /\ Runs(ArcCoordinates(arc), arc.from, arc.to)
  <2> DEFINE line == graph.edges[arc.edge].line
             edge == graph.edges[arc.edge]
  <2>1. /\ arc.edge \in DOMAIN graph.edges
        /\ arc.from \in graph.nodes /\ arc.to \in graph.nodes
    BY <1>2, ArcFacts DEF Given
  <2>2. (arc.from = edge.from /\ arc.to = edge.to) \/ (arc.from = edge.to /\ arc.to = edge.from)
    BY DEF Arcs
  <2>3. {edge.from, edge.to} \subseteq graph.located
    BY <2>1, <2>2
  <2>4. /\ line \in Seq(Point)
        /\ Len(line) >= 2 => \/ line[1] = edge.from /\ line[Len(line)] = edge.to
                             \/ line[1] = edge.to /\ line[Len(line)] = edge.from
    BY <1>1, <2>1, <2>3
  <2>5. Len(line) >= 2 => line # <<>>
    BY <2>4
  <2>6. Len(line) >= 2 => Runs(line, arc.from, arc.to) \/ Runs(line, arc.to, arc.from)
    <3> HIDE DEF line, edge
    <3> QED BY <2>2, <2>4, <2>5 DEF Runs
  <2> QED BY <1>1, <1>2, <2>4, <2>6, ArcRuns
<1> DEFINE n == Len(path)
           T == Arcs(graph)
           S == Seq(Point)
           F == LineStep(S, path)
           Good(k, line) == IF k = 0 THEN line = <<>> ELSE Runs(line, request.from, path[k].to)
           P == {w \in (0..n) \X S : Good(w[1], w[2])}
<1>4. n \in Nat /\ n # 0 /\ path \in Seq(T) /\ Chain(path, to) /\ \A i \in 1..n : path[i] \in T
  BY DEF Chains
<1> HIDE DEF n, T
<1>5. ASSUME NEW line \in S, NEW arc \in T PROVE Joined(line, ArcCoordinates(arc)) \in S
  <2>1. ArcCoordinates(arc) \in S /\ ArcCoordinates(arc) # <<>>
    BY <1>3 DEF T, Runs
  <2> DEFINE segment == ArcCoordinates(arc)
  <2> HIDE DEF segment
  <2>2. segment \in Seq(Point) /\ segment # <<>>
    BY <2>1 DEF segment
  <2>3. Tail(segment) \in Seq(Point)
    BY <2>2
  <2>4. line \o segment \in Seq(Point)
    BY <2>2
  <2>5. line \o Tail(segment) \in Seq(Point)
    BY <2>3
  <2>6. Joined(line, segment) = line \o Tail(segment) \/ Joined(line, segment) = line \o segment
    BY DEF Joined
  <2>7. Joined(line, segment) \in Seq(Point)
    BY <2>4, <2>5, <2>6
  <2> QED BY <2>7 DEF segment
<1>6. PICK iter : IsFold(iter, S, <<>>, n, F) /\ RouteLine(path) = iter[1..n]
  <2>1. <<>> \in S
    OBVIOUS
  <2> HIDE DEF S
  <2> QED BY <1>4, <1>5, <2>1, LineFold DEF n
<1>7. F \in [S \X (1..n) -> S]
  <2> HIDE DEF S
  <2> QED BY <1>4, <1>5 DEF LineStep, n
<1>8. ASSUME NEW k \in 0..(n - 1), NEW v \in S, Good(k, v)
      PROVE  Good(k + 1, Joined(v, ArcCoordinates(path[k + 1])))
  <2> DEFINE arc == path[k + 1]
             segment == ArcCoordinates(arc)
  <2>1. k + 1 \in 1..n /\ k + 1 # 0
    BY <1>4
  <2>2. segment \in Seq(Point) /\ Runs(segment, arc.from, arc.to)
    BY <1>3, <1>4, <2>1 DEF T
  <2>3. (v = <<>> /\ request.from = arc.from) \/ Runs(v, request.from, arc.from)
    <3>1. CASE k = 0
      BY <1>8, <3>1 DEF At
    <3>2. CASE k # 0
      <4>1. k + 1 > 1 /\ (k + 1) - 1 = k
        BY <3>2
      <4>2. arc.from = path[k].to
        BY <1>4, <2>1, <4>1 DEF Chain, n
      <4> QED BY <1>8, <3>2, <4>2
    <3> QED BY <3>1, <3>2
  <2> HIDE DEF segment
  <2>4. Runs(Joined(v, segment), request.from, arc.to)
    BY <2>2, <2>3, JoinedRuns
  <2> QED BY <2>1, <2>4 DEF segment
<1>9. Keeps(F, n, S, P)
  <2> SUFFICES ASSUME NEW k \in 0..(n - 1), NEW v \in S, <<k, v>> \in P
               PROVE <<k + 1, F[<<v, k + 1>>]>> \in P
    <3> HIDE DEF S, F, P
    <3> QED BY DEF Keeps
  <2> HIDE DEF S
  <2>1. k + 1 \in 1..n /\ k + 1 \in 0..n /\ path[k + 1] \in T
    BY <1>4
  <2>2. F[<<v, k + 1>>] = Joined(v, ArcCoordinates(path[k + 1]))
    BY <2>1 DEF LineStep, n
  <2> HIDE DEF Good
  <2>3. Good(k + 1, Joined(v, ArcCoordinates(path[k + 1])))
    BY <1>8
  <2>4. Joined(v, ArcCoordinates(path[k + 1])) \in S
    BY <1>5, <2>1
  <2> HIDE DEF F
  <2> QED BY <2>1, <2>2, <2>3, <2>4
<1>10. <<>> \in S
  OBVIOUS
<1>11. <<0, <<>>>> \in P
  <2>1. 0 \in 0..n
    BY <1>4
  <2> HIDE DEF S
  <2> QED BY <1>10, <2>1
<1>12. iter[1..n] \in S /\ <<n, iter[1..n]>> \in P
  <2> HIDE DEF S, F, P
  <2> QED BY <1>4, <1>6, <1>7, <1>9, <1>10, <1>11, FoldKeeps
<1>13. Good(n, RouteLine(path))
  <2> HIDE DEF S, Good
  <2> QED BY <1>6, <1>12
<1>14. path[n].to = to
  BY <1>4 DEF Chain, n
<1> QED BY <1>4, <1>13, <1>14

\* A path that was walked back is right.
LEMMA PathIsRight ==
    ASSUME Done, Drawn(graph), NEW to \in DOMAIN distances
    PROVE  PathRight(ReconstructPath(to), to)
<1>1. PICK path : path = ReconstructPath(to)
  OBVIOUS
<1>2. path \in Chains(to) /\ At(path, to) = request.from
  BY <1>1, PathFound
<1>3. path \in Seq(Arcs(graph)) /\ Chain(path, to) /\ DOMAIN path = 1..Len(path)
  BY <1>2 DEF Chains
<1>4. path = <<>> => to = request.from
  BY <1>2 DEF At
<1>5. PathCost(path) = distances[to]
  BY <1>2, PathCosts
<1>6. ASSUME NEW i \in DOMAIN path
      PROVE  /\ path[i] \in Arcs(graph)
             /\ path[i].from = IF i = 1 THEN request.from ELSE path[i - 1].to
             /\ i = Len(path) => path[i].to = to
  <2>1. path[i] \in Arcs(graph) /\ i \in 1..Len(path) /\ path # <<>>
    BY <1>3
  <2>2. CASE i = 1
    BY <1>2, <1>3, <2>1, <2>2 DEF At, Chain
  <2>3. CASE i # 1
    <3>1. i > 1
      BY <2>1, <2>3
    <3> QED BY <1>3, <2>1, <2>3, <3>1 DEF Chain
  <2> QED BY <2>1, <2>2, <2>3
<1>7. path # <<>> /\ graph.located = graph.nodes
      => RouteLine(path)[1] = request.from /\ RouteLine(path)[Len(RouteLine(path))] = to
  BY <1>2, LineLeads DEF Runs
<1> QED BY <1>1, <1>4, <1>5, <1>6, <1>7 DEF PathRight

----------------------------------------------------------------------------
(* Every answer *)

\* For every graph whose lines are drawn from node to node and every request, an answer
\* has the cost of the cheapest walk of each node within the limit and no other node, and
\* paths and lines that lead there at this cost (shortestPaths, reconstructRoutingPath,
\* routeGeoJSON).
THEOREM RoutesFound ==
    ASSUME Metric
    PROVE  RoutingSpec /\ Drawn(graph) => []RoutesRight
<1>1. RoutingInit => SearchInv
  BY StartHas
<1>2. SearchInv /\ [Next]_vars => SearchInv'
  BY SearchKeeps
<1>3. Drawn(graph) /\ [Next]_vars => Drawn(graph)'
  BY DEF Next, Pop, vars, Drawn
<1>4. SearchInv /\ Drawn(graph) => RoutesRight
  <2> SUFFICES ASSUME SearchInv, Drawn(graph), Answered PROVE RoutesRight
    BY DEF RoutesRight
  <2>1. Done
    BY DEF Done, Answered
  <2>2. distances = Cheapness
    BY <2>1, CheapestFound
  <2>3. \A to \in DOMAIN distances : PathRight(ReconstructPath(to), to)
    BY <2>1, PathIsRight
  <2> QED BY <2>2, <2>3 DEF RoutesRight
<1> QED BY <1>1, <1>2, <1>3, <1>4, PTL DEF RoutingSpec
=============================================================================
