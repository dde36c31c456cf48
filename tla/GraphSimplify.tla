--------------------------- MODULE GraphSimplify ---------------------------
(***************************************************************************)
(* The directed edges of a street network and their simplification:        *)
(* graph_export.generate_directed_edges, graph_simplify.detect_endpoints,  *)
(* the chain walk of _simplify_walk.walk_chains and the collapse of each   *)
(* chain into one edge.                                                    *)
(*                                                                         *)
(* The streets are those of NetworkRead.  Lengths follow the chains as      *)
(* geometry does and are left out.                                         *)
(***************************************************************************)
EXTENDS NetworkRead

VARIABLES
    edges,          \* the directed rows
    is_endpoint,    \* the nodes that are kept
    visited,        \* rows that belong to a chain
    chains,         \* the chains so far, sequences of rows; the last one grows
    prev, cur,      \* the last two nodes of the growing chain
    exported        \* the edges that go on to the exporter, with nodes

frames == <<nodes, exported>>
walked == <<visited, chains, prev, cur>>
simplify_vars == <<given, pc, edges, is_endpoint, walked, frames>>

-----------------------------------------------------------------------------
Flip(q) == [i \in DOMAIN q |-> [q[i] EXCEPT !.u = q[i].v, !.v = q[i].u]]

generate_directed_edges(rows) ==
    LET Way(direction) == Only(rows, {s \in Range(rows) : s.oneway = direction})
    IN  Way("along") \o Flip(Way("against")) \o Way("both") \o Flip(Way("both"))

Rows == DOMAIN edges
Out(n) == {r \in Rows : edges[r].u = n}
In(n) == {r \in Rows : edges[r].v = n}
GraphNodes == {edges[r].u : r \in Rows} \cup {edges[r].v : r \in Rows}
Neighbours(n) == {edges[r].v : r \in Out(n)} \cup {edges[r].u : r \in In(n)}

SelfLoop(n) == n \in Neighbours(n)
DeadEnd(n) == Out(n) = {} \/ In(n) = {}
\* Mutant of PassThrough: the number of edges is not looked at.
PassThroughAnyDegree(n) == Cardinality(Neighbours(n)) = 2
PassThrough(n) ==
    /\ Cardinality(Neighbours(n)) = 2
    /\ Cardinality(In(n)) + Cardinality(Out(n)) \in {2, 4}
\* Mutant of Disagree: only the out-edges are compared.
DisagreeOut(n) == \E r, s \in Out(n) : edges[r].class # edges[s].class
Disagree(n) == \E r, s \in In(n) \cup Out(n) : edges[r].class # edges[s].class

detect_endpoints ==
    {n \in GraphNodes :
        \/ SelfLoop(n) \/ DeadEnd(n) \/ ~PassThrough(n)
        \/ n \in network.include
        \/ network.differ /\ Disagree(n)}

\* Nodes are numbered as they first appear in u and are walked in that order,
\* each node's rows in the order of the frame.
First(S) == CHOOSE r \in S : \A s \in S : r <= s
Before(r, s) ==
    LET seen == [t \in {r, s} |-> First(Out(edges[t].u))]
    IN  seen[r] < seen[s] \/ (seen[r] = seen[s] /\ r < s)
IsNext(r, S) == r \in S /\ \A s \in S \ {r} : Before(r, s)

-----------------------------------------------------------------------------
SimplifyInit ==
    /\ ReadInit
    /\ edges = <<>> /\ is_endpoint = {}
    /\ visited = {} /\ chains = <<>>
    /\ cur = (CHOOSE n \in Nodes : TRUE) /\ prev = cur   \* read only once set
    /\ exported = <<>>

Read == ReadNext /\ UNCHANGED <<edges, is_endpoint, walked, exported>>

DirectEdges ==
    /\ pc = "directed" /\ pc' = "detect"
    /\ edges' = generate_directed_edges(streets)
    /\ UNCHANGED <<given, is_endpoint, walked, frames>>

\* simplify=False: the exporter gets the directed rows, with the geometry of the
\* street whichever way they go.
SkipSimplify ==
    /\ pc = "detect" /\ pc' = "connect"
    /\ exported' = [r \in Rows |-> [u |-> edges[r].u, v |-> edges[r].v, line |-> edges[r].line,
                                    class |-> {edges[r].class}]]
    /\ UNCHANGED <<given, edges, is_endpoint, walked, nodes>>

DetectEndpoints ==
    /\ pc = "detect" /\ pc' = "walk"
    /\ is_endpoint' = detect_endpoints
    /\ UNCHANGED <<given, edges, walked, frames>>

\* Mutants of Onward and Growing: a row may be walked again; the walk may turn
\* back; it does not stop where no row leads on.
OnwardAgain == {r \in Out(cur) : edges[r].v # prev}
OnwardOrBack == Out(cur) \ visited
GrowingToEndpoint == chains # <<>> /\ cur \notin is_endpoint

\* The row on which the growing chain goes on: not back to where it came from.
Onward == {r \in Out(cur) \ visited : edges[r].v # prev}
Growing == chains # <<>> /\ cur \notin is_endpoint /\ Onward # {}

Start(r) ==
    /\ visited' = visited \cup {r} /\ chains' = Append(chains, <<r>>)
    /\ prev' = edges[r].u /\ cur' = edges[r].v
    /\ UNCHANGED <<given, pc, edges, is_endpoint, frames>>

Extend ==
    /\ pc \in {"walk", "rings"} /\ Growing
    /\ \E r \in Onward :
        /\ \A s \in Onward : r <= s
        /\ visited' = visited \cup {r}
        /\ chains' = [chains EXCEPT ![Len(chains)] = Append(@, r)]
        /\ prev' = cur /\ cur' = edges[r].v
    /\ UNCHANGED <<given, pc, edges, is_endpoint, frames>>

FromEndpoints == {r \in Rows \ visited : edges[r].u \in is_endpoint}

StartAtEndpoint(r) ==
    /\ pc = "walk" /\ ~Growing /\ IsNext(r, FromEndpoints)
    /\ Start(r)

WalkEnds ==
    /\ pc = "walk" /\ ~Growing /\ FromEndpoints = {}
    /\ pc' = IF network.remove_rings THEN "collapse" ELSE "rings"
    /\ UNCHANGED <<given, edges, is_endpoint, walked, frames>>

StartRing(r) ==
    /\ pc = "rings" /\ ~Growing /\ IsNext(r, Rows \ visited)
    /\ Start(r)

RingsEnd ==
    /\ pc = "rings" /\ ~Growing /\ visited = Rows
    /\ pc' = "collapse"
    /\ UNCHANGED <<given, edges, is_endpoint, walked, frames>>

-----------------------------------------------------------------------------
\* How far a point of the geometry is from a node: 0 if it is the node's own.
Distance(point, n) == IF point = n THEN 0 ELSE 1
\* Mutant of geom_reversed: the rows of both directions are drawn alike.
NeverReversed(r) == FALSE
\* The geometry runs from v to u: so it is with the second row of a street.
geom_reversed(r) ==
    LET e == edges[r]
        forward == Distance(Head(e.line), e.u) + Distance(Last(e.line), e.v)
        reverse == Distance(Head(e.line), e.v) + Distance(Last(e.line), e.u)
    IN  {e.u, e.v} \subseteq nodes /\ reverse < forward

\* The points of a chain: each row but the first leaves out the one it shares with
\* the row before.  The code gathers the points of all chains in one flat run.
RowPoints(r) == IF geom_reversed(r) THEN Reverse(edges[r].line) ELSE edges[r].line
stitch_geometries(c) ==
    FlattenSeq([a \in DOMAIN c |-> IF a = 1 THEN RowPoints(c[a]) ELSE Tail(RowPoints(c[a]))])

\* One edge per chain; a column keeps all the values it has along the chain.
Merged(c) ==
    [u |-> edges[c[1]].u, v |-> edges[c[Len(c)]].v, line |-> stitch_geometries(c),
     class |-> {edges[r].class : r \in Range(c)}]

Collapse ==
    /\ pc = "collapse" /\ pc' = "connect"
    /\ exported' = [k \in DOMAIN chains |-> Merged(chains[k])]
    /\ nodes' = nodes \cap Ends(exported')
    /\ UNCHANGED <<given, edges, is_endpoint, walked>>

SimplifyNext ==
    \/ Read
    \/ DirectEdges \/ SkipSimplify \/ DetectEndpoints
    \/ Extend
    \/ \E r \in Rows : StartAtEndpoint(r) \/ StartRing(r)
    \/ WalkEnds \/ RingsEnd \/ Collapse
=============================================================================
