-------------------------------- MODULE Routing --------------------------------
(***************************************************************************)
(* Routes and reachable areas in a graph of imported nodes and edges.      *)
(*                                                                         *)
(* One request loads the graph, runs Dijkstra's search with a heap that    *)
(* keeps outdated entries, and walks back from the destination.            *)
(*                                                                         *)
(* Definitions whose name says what they leave out are mutations of the    *)
(* definition that follows them; the model does not use them.              *)
(***************************************************************************)
EXTENDS Integers, SequencesExt, FiniteSetsExt

CONSTANTS
    Node,      \* node identifiers, which are also the points of located nodes
    Straight,  \* Straight[a][b]: the distance of two points
    None       \* no value in a column

VARIABLES
    graph,        \* [nodes, located, edges, directed]
    request,      \* [from, field, limit]; no limit is 0
    distances,    \* the best known costs, a function on the nodes reached
    predecessors, \* predecessors[n]: [from, edge] of a node reached over an edge
    queue,        \* the heap: entries [node, cost]
    refused       \* the request was refused

vars == <<graph, request, distances, predecessors, queue, refused>>

\* The members of S by below, a strict linear order.
Sorted(S, below(_, _)) ==
    [k \in 1..Cardinality(S) |-> CHOOSE x \in S : Cardinality({y \in S : below(y, x)}) = k - 1]

\* Edges whose ends are not both imported are left out; without directions every edge
\* leads both ways.
Arcs(g) ==
    LET known == {e \in DOMAIN g.edges : g.edges[e].from \in g.nodes /\ g.edges[e].to \in g.nodes}
        ahead == {[from |-> g.edges[e].from, to |-> g.edges[e].to, edge |-> e] : e \in known}
        back == {[from |-> g.edges[e].to, to |-> g.edges[e].from, edge |-> e] : e \in known}
    IN  IF g.directed THEN ahead ELSE ahead \cup back

\* arcCost: the column asked for, None if the edge has none.  For its cost or distance the
\* distance of the ends stands in; for a property nothing does.
ArcCost(arc) ==
    LET column == graph.edges[arc.edge][request.field]
    IN  IF column # None THEN column
        ELSE IF request.field \in {"cost", "distance"} /\ {arc.from, arc.to} \subseteq graph.located
        THEN Straight[arc.from][arc.to]
        ELSE None

\* resolveRoutingNode: the node of that name, or the closest located one.
Resolves(node, at) ==
    IF at = None THEN node \in graph.nodes
    ELSE node \in graph.located /\ \A n \in graph.located : Straight[at][node] <= Straight[at][n]

\* handleRoutingAPI and loadRoutingGraph.
Start(g, from, at, field, limit) ==
    /\ graph = g
    /\ request = [from |-> from, field |-> field, limit |-> limit]
    /\ Resolves(from, at)
    /\ distances = [n \in {from} |-> 0] /\ predecessors = [n \in {} |-> None]
    /\ queue = {[node |-> from, cost |-> 0]}
    /\ refused = (Arcs(g) = {})

Cheapest == {q \in queue : \A p \in queue : q.cost <= p.cost}

Outdated(q) == q.cost # distances[q.node] \/ (request.limit > 0 /\ q.cost > request.limit)

ImprovesWhenFirst(to, cost, known) == to \notin DOMAIN known

Improves(to, cost, known) == to \notin DOMAIN known \/ cost < known[to]

Put(f, x, y) == [z \in DOMAIN f \cup {x} |-> IF z = x THEN y ELSE f[z]]

\* One arc; st is what the loop has done so far.
Relax(st, q, arc) ==
    LET cost == q.cost + ArcCost(arc)
    IN  IF (request.limit > 0 /\ cost > request.limit) \/ ~Improves(arc.to, cost, st.distances)
        THEN st
        ELSE [distances |-> Put(st.distances, arc.to, cost),
              predecessors |-> Put(st.predecessors, arc.to, [from |-> q.node, edge |-> arc.edge]),
              queue |-> st.queue \cup {[node |-> arc.to, cost |-> cost]}]

\* The arcs of a node in the order of its list.
RelaxAll(st, q, out) == FoldLeft(LAMBDA s, arc : Relax(s, q, arc), st, out)

ArcList(node) == Sorted({a \in Arcs(graph) : a.from = node}, LAMBDA a, b : a.edge < b.edge)

Pop(q) ==
    /\ ~refused /\ q \in Cheapest
    /\ LET out == ArcList(q.node)
           st == [distances |-> distances, predecessors |-> predecessors, queue |-> queue \ {q}]
           after == IF Outdated(q) THEN st ELSE RelaxAll(st, q, out)
           bad == ~Outdated(q) /\ \E i \in DOMAIN out : ArcCost(out[i]) = None \/ ArcCost(out[i]) < 0
       IN  IF bad
           THEN refused' = TRUE /\ UNCHANGED <<distances, predecessors, queue>>
           ELSE /\ distances' = after.distances
                /\ predecessors' = after.predecessors
                /\ queue' = after.queue
                /\ UNCHANGED refused
    /\ UNCHANGED <<graph, request>>

Next == \E q \in queue : Pop(q)

----------------------------------------------------------------------------
(* The answer *)

Answered == ~refused /\ queue = {}

\* The arc that leads to where the path begins so far.
Back(arcs, to) ==
    LET at == IF arcs = <<>> THEN to ELSE arcs[1].from
    IN  IF at = request.from THEN arcs
        ELSE <<[from |-> predecessors[at].from, to |-> at, edge |-> predecessors[at].edge]>> \o arcs

\* reconstructRoutingPath: from the destination backwards, here at most as many steps as
\* there are nodes.
ReconstructPath(to) ==
    FoldLeft(LAMBDA arcs, k : Back(arcs, to), <<>>, [k \in 1..Cardinality(graph.nodes) |-> k])

\* arcCoordinates: the edge's line, turned to where the arc leads if its ends are located.
ArcCoordinates(arc) ==
    LET line == graph.edges[arc.edge].line
        located == {arc.from, arc.to} \subseteq graph.located
        away(n, m) == Straight[line[1]][n] + Straight[line[Len(line)]][m]
    IN  IF Len(line) < 2 THEN (IF located THEN <<arc.from, arc.to>> ELSE <<>>)
        ELSE IF located /\ away(arc.to, arc.from) < away(arc.from, arc.to) THEN Reverse(line)
        ELSE line

\* A point that ends one segment and begins the next is there once.
Joined(line, segment) ==
    IF line # <<>> /\ segment # <<>> /\ line[Len(line)] = segment[1]
    THEN line \o Tail(segment) ELSE line \o segment

RouteLine(arcs) == FoldLeft(LAMBDA line, arc : Joined(line, ArcCoordinates(arc)), <<>>, arcs)

Cross(o, a, b) == (a[1] - o[1]) * (b[2] - o[2]) - (a[2] - o[2]) * (b[1] - o[1])

\* routingConvexHull, Andrew's two chains.
ConvexHull(points) ==
    LET sorted == Sorted(points, LAMBDA p, q : p[1] < q[1] \/ (p[1] = q[1] /\ p[2] < q[2]))
        keeps(chain, p, k) == Cross(chain[k - 1], chain[k], p) > 0
        \* dropping from the end while the last turn is not to the left
        extend(chain, p) ==
            LET fits == {k \in 2..Len(chain) : keeps(chain, p, k)}
            IN  SubSeq(chain, 1, IF Len(chain) < 2 THEN Len(chain)
                                 ELSE IF fits = {} THEN 1 ELSE Max(fits)) \o <<p>>
        lower == FoldLeft(extend, <<>>, sorted)
        upper == FoldLeft(extend, <<>>, Reverse(sorted))
    IN  IF Cardinality(points) < 3 THEN <<>> ELSE Front(lower) \o Front(upper)

----------------------------------------------------------------------------
(* What makes it correct *)

\* The cheapest walks of at most k arcs from the origin that stay within the limit, by
\* rounds.
Within(cost) == request.limit = 0 \/ cost <= request.limit

\* The costs at n of one arc more.
Via(d, n) ==
    {c \in {d[a.from] + ArcCost(a) : a \in {b \in Arcs(graph) : b.to = n /\ b.from \in DOMAIN d}} : Within(c)}

Round(d) ==
    [n \in {m \in graph.nodes : m \in DOMAIN d \/ Via(d, m) # {}} |->
        Min((IF n \in DOMAIN d THEN {d[n]} ELSE {}) \cup Via(d, n))]

Cheapness == FoldLeft(LAMBDA d, k : Round(d), [n \in {request.from} |-> 0], [k \in 1..Cardinality(graph.nodes) |-> k])

PathCost(path) == FoldLeft(LAMBDA c, arc : c + ArcCost(arc), 0, path)

\* The path leads from the origin to the node over arcs of the graph, at the cost found,
\* and so does its line where all of it is located.
PathRight(path, to) ==
    LET line == RouteLine(path)
    IN  /\ path = <<>> => to = request.from
        /\ PathCost(path) = distances[to]
        /\ \A i \in DOMAIN path :
             /\ path[i] \in Arcs(graph)
             /\ path[i].from = IF i = 1 THEN request.from ELSE path[i - 1].to
             /\ i = Len(path) => path[i].to = to
        /\ (path # <<>> /\ graph.located = graph.nodes)
           => line[1] = request.from /\ line[Len(line)] = to

\* An answer has the cost of the cheapest walk for every node within the limit and no
\* other node, and walking back from a node gives a path of that cost whose line, where
\* all of it is located, leads from the origin to it (shortestPaths,
\* reconstructRoutingPath, routeGeoJSON).
RoutesRight ==
    Answered =>
        /\ distances = Cheapness
        /\ \A to \in DOMAIN distances : PathRight(ReconstructPath(to), to)

\* The area is bounded by the points that lie between no others, counterclockwise, and
\* every point is inside.
HullRight(points) ==
    LET hull == ConvexHull(points)
        next(i) == hull[1 + (i % Len(hull))]
        \* p is in the triangle or on the segment of other points
        inner(p) == \E a, b, c \in points \ {p} :
            LET s == {Cross(a, b, p), Cross(b, c, p), Cross(c, a, p)}
                between(x, y) == /\ Cross(x, y, p) = 0
                                 /\ (p[1] - x[1]) * (y[1] - p[1]) >= 0
                                 /\ (p[2] - x[2]) * (y[2] - p[2]) >= 0
            IN  between(a, b) \/ (\A t \in s : t > 0) \/ (\A t \in s : t < 0)
    IN  hull # <<>> =>
          /\ ToSet(hull) = {p \in points : ~inner(p)}
          /\ Len(hull) > 2 => \A i \in DOMAIN hull, p \in points : Cross(hull[i], next(i), p) >= 0
=============================================================================
