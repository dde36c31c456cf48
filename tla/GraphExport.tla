---------------------------- MODULE GraphExport ----------------------------
(***************************************************************************)
(* A network on its way to networkx, igraph or pandarm (graphs.py): its    *)
(* directed edges, simplified or not, restricted to the largest strongly   *)
(* connected component unless retain_all is set.  The search is            *)
(* graph_connectivity._strongly_connected_components, one step per turn of *)
(* its inner loop.                                                         *)
(*                                                                         *)
(* The order of the nodes table decides where the search starts; it is any *)
(* order here.  Of a graph library's object, the nodes and edges are kept. *)
(***************************************************************************)
EXTENDS GraphSimplify

VARIABLES
    queue,                  \* the path from the source to the node in hand
    preorder, lowlink,      \* functions on the nodes they were computed for
    scc_found, scc_queue,
    scc,                    \* the largest component so far
    graph                   \* what the exporter has made

search == <<queue, preorder, lowlink, scc_found, scc_queue, scc>>
vars == <<simplify_vars, search, graph>>

ExportInit ==
    /\ SimplifyInit
    /\ queue = <<>> /\ preorder = <<>> /\ lowlink = <<>>
    /\ scc_found = {} /\ scc_queue = <<>> /\ scc = {}
    /\ graph = [nodes |-> {}, edges |-> {}]

Simplify == SimplifyNext /\ UNCHANGED <<search, graph>>

-----------------------------------------------------------------------------
node_successors(v) == {exported[i].v : i \in {j \in DOMAIN exported : exported[j].u = v}}

RetainAll ==
    /\ pc = "connect" /\ preorder = <<>> /\ queue = <<>>
    /\ pc' = "export"
    /\ UNCHANGED <<given, edges, is_endpoint, walked, frames, search, graph>>

Source(n) ==
    /\ pc = "connect" /\ queue = <<>> /\ n \in nodes \ scc_found
    /\ queue' = <<n>>
    /\ UNCHANGED <<simplify_vars, preorder, lowlink, scc_found, scc_queue, scc, graph>>

v == Last(queue)
\* preorder with the node in hand numbered.
Numbered ==
    [w \in DOMAIN preorder \cup {v} |->
        IF w \in DOMAIN preorder THEN preorder[w] ELSE Cardinality(DOMAIN preorder) + 1]
Unseen == {i \in DOMAIN exported : exported[i].u = v /\ exported[i].v \notin DOMAIN Numbered}

Descend ==
    /\ pc = "connect" /\ queue # <<>> /\ Unseen # {}
    /\ queue' = Append(queue, exported[First(Unseen)].v)
    /\ preorder' = Numbered
    /\ UNCHANGED <<simplify_vars, lowlink, scc_found, scc_queue, scc, graph>>

\* Mutant of Low: components that were found before are not left out.
LowOfAll ==
    LET Reached(w) == IF Numbered[w] > Numbered[v] THEN lowlink[w] ELSE Numbered[w]
    IN  Min({Numbered[v]} \cup {Reached(w) : w \in node_successors(v)})
Low ==
    LET Reached(w) == IF Numbered[w] > Numbered[v] THEN lowlink[w] ELSE Numbered[w]
    IN  Min({Numbered[v]} \cup {Reached(w) : w \in node_successors(v) \ scc_found})

Ascend ==
    /\ pc = "connect" /\ queue # <<>> /\ Unseen = {}
    /\ queue' = Front(queue) /\ preorder' = Numbered
    /\ lowlink' = [w \in DOMAIN lowlink \cup {v} |-> IF w = v THEN Low ELSE lowlink[w]]
    /\ UNCHANGED <<simplify_vars, graph>>

Postpone ==
    /\ Ascend
    /\ Low # Numbered[v]
    /\ scc_queue' = Append(scc_queue, v)
    /\ UNCHANGED <<scc_found, scc>>

\* The part of scc_queue that is left: up to the last node numbered before v.
Remaining == LET older == {i \in DOMAIN scc_queue : Numbered[scc_queue[i]] <= Numbered[v]}
             IN  SubSeq(scc_queue, 1, Max(older \cup {0}))
Component == {v} \cup {scc_queue[i] : i \in DOMAIN scc_queue \ DOMAIN Remaining}

\* max(..., key=len) keeps the first of the largest components.
CloseComponent ==
    /\ Ascend
    /\ Low = Numbered[v]
    /\ scc_queue' = Remaining
    /\ scc_found' = scc_found \cup Component
    /\ scc' = IF Cardinality(Component) > Cardinality(scc) THEN Component ELSE scc

SearchEnds == pc = "connect" /\ queue = <<>> /\ nodes \subseteq scc_found

KeepLargest ==
    /\ SearchEnds /\ nodes # {}
    /\ pc' = "export"
    /\ nodes' = nodes \cap scc
    /\ exported' = Only(exported, {e \in Range(exported) : {e.u, e.v} \subseteq scc})
    /\ UNCHANGED <<given, edges, is_endpoint, walked, search, graph>>

\* max() of no component at all is a ValueError.
ConnectFails ==
    /\ SearchEnds /\ nodes = {}
    /\ pc' = "failed"
    /\ UNCHANGED <<given, edges, is_endpoint, walked, frames, search, graph>>

-----------------------------------------------------------------------------
\* A row is passed over when the nodes table lacks one of its ends.
Known == {i \in DOMAIN exported : {exported[i].u, exported[i].v} \subseteq nodes}

create_igraph ==
    /\ pc = "export" /\ pc' = "done"
    /\ graph' = [nodes |-> nodes, edges |-> {<<exported[i].u, exported[i].v, i>> : i \in Known}]
    /\ UNCHANGED <<given, edges, is_endpoint, walked, frames, search>>

\* Every edge has the key 0.
create_nxgraph ==
    /\ pc = "export" /\ pc' = "done"
    /\ graph' = [nodes |-> nodes, edges |-> {<<exported[i].u, exported[i].v, 0>> : i \in Known}]
    /\ UNCHANGED <<given, edges, is_endpoint, walked, frames, search>>

ExportNext ==
    \/ Simplify
    \/ RetainAll
    \/ \E n \in Nodes : Source(n)
    \/ Descend \/ Postpone \/ CloseComponent
    \/ KeepLargest \/ ConnectFails
    \/ create_igraph \/ create_nxgraph

\* One process calls these functions one after the other and waits for nothing.
ExportSpec == ExportInit /\ [][ExportNext]_vars /\ WF_vars(ExportNext)

-----------------------------------------------------------------------------
\* The frames are simplified and the search has not begun.
Simplified ==
    /\ pc = "connect" /\ queue = <<>> /\ preorder = <<>>
    /\ chains # <<>> \/ nodes = {}

\* A directed row belongs to one chain at most, at one place of it, and the
\* rows marked as visited are those in chains: no street is counted twice in
\* a merged length, however the walks cross.
EachRowOnce ==
    /\ \A j, k \in DOMAIN chains : \A a \in DOMAIN chains[j], b \in DOMAIN chains[k] :
        chains[j][a] = chains[k][b] => (j = k /\ a = b)
    /\ \A r \in Rows :
        r \in visited <=> \E k \in DOMAIN chains : \E a \in DOMAIN chains[k] : chains[k][a] = r
    /\ (pc = "collapse" /\ ~network.remove_rings) => visited = Rows

\* A chain is a path of the street network that only passes through nodes
\* that are dropped, and never turns back at one of them.
ChainsPassThrough ==
    \A k \in DOMAIN chains : \A a \in 1..Len(chains[k]) - 1 :
        LET r == edges[chains[k][a]]
            s == edges[chains[k][a + 1]]
        IN  r.v = s.u /\ r.v \notin is_endpoint /\ s.v # r.u

-----------------------------------------------------------------------------
\* Which nodes reach which, by Warshall's algorithm.
Reaches(e) ==
    LET Direct == {<<e[i].u, e[i].v>> : i \in DOMAIN e}
        step[S \in SUBSET Nodes] ==
            IF S = {} THEN Direct \cup {<<n, n>> : n \in Nodes}
            ELSE LET n == CHOOSE x \in S : TRUE
                     R == step[S \ {n}]
                 IN  R \cup {p \in Nodes \X Nodes : <<p[1], n>> \in R /\ <<n, p[2]>> \in R}
    IN  step[Nodes]

\* No two streets lie between the same two nodes in one direction.
Apart == \A r, s \in Rows : edges[r].u = edges[s].u /\ edges[r].v = edges[s].v => r = s

\* Simplifying neither cuts nor opens a way between two nodes it keeps.
SameReach ==
    (Simplified /\ Apart) =>
        LET before == Reaches(edges)
            after == Reaches(exported)
        IN  \A m, n \in nodes : <<m, n>> \in before <=> <<m, n>> \in after

\* A merged edge is drawn from its first node to its last through those it was
\* merged across, each once and in the order of the walk, although the rows of both
\* directions share the geometry of one street; with edge_attrs_differ no change of
\* the attribute is merged across (graph_simplify.py:172-180, 198, 82-91).
MergedAsWalked ==
    Simplified => \A k \in DOMAIN chains :
        /\ exported[k].line = <<edges[chains[k][1]].u>> \o [a \in DOMAIN chains[k] |-> edges[chains[k][a]].v]
        /\ network.differ => Cardinality(exported[k].class) = 1

\* What is exported is strongly connected, has all edges between its nodes,
\* and no component of the frames has more nodes.
LargestComponent ==
    SearchEnds =>
        LET R == Reaches(exported)
            Mutual(n) == {m \in nodes : <<m, n>> \in R /\ <<n, m>> \in R}
        IN  /\ nodes # {} => scc \in {Mutual(n) : n \in nodes}
            /\ \A n \in nodes : Cardinality(Mutual(n)) <= Cardinality(scc)

\* No exporter passes over a row: whatever the box cut, the simplification dropped
\* and the component left out, the nodes table has the ends of every edge, and the
\* graph connects what the frame connects (graph_export.pyx:72-74, frames.pyx:242).
NoRowPassedOver ==
    pc = "done" =>
        /\ Ends(exported) \subseteq graph.nodes
        /\ {<<e[1], e[2]>> : e \in graph.edges} = {<<exported[i].u, exported[i].v>> : i \in DOMAIN exported}

\* Every read and export comes to an end: no walk or search goes round in circles.
\* It ends well, except for ways of which none has two located nodes (frames.pyx:84)
\* and, without parallel streets, a network of nothing but rings, all of which are
\* removed (graph_simplify.py:362, graph_connectivity.py:80).
ExportEnds ==
    <>(\/ pc \in {"done", "nothing"}
       \/ pc = "failed" /\ edges = <<>> /\ \A w \in Range(network.ways) : StreetsOf(w) = <<>>
       \/ pc = "failed" /\ edges # <<>> /\ (Apart => network.remove_rings /\ is_endpoint = {}))
=============================================================================
