---------------------------- MODULE NetworkRead ----------------------------
(***************************************************************************)
(* get_network(nodes=True): the ways of a network, as a reader selected    *)
(* them, are cut at their nodes into streets, one row for each, and the    *)
(* table of the nodes goes with them                                       *)
(* (geometry._create_network_geometries_vectorized,                        *)
(* frames.prepare_way_gdf and prepare_geodataframe).  Both readers end     *)
(* here.                                                                   *)
(*                                                                         *)
(* A point is the node it was made from.  A way has an attribute, class,   *)
(* and its effective direction, the suffix column and roundabouts          *)
(* included; force_bidirectional makes every way "both".                   *)
(***************************************************************************)
EXTENDS Integers, Sequences, FiniteSets, Functions, SequencesExt

CONSTANTS
    Nodes,
    Classes,    \* values of an attribute, e.g. highway
    Families    \* sets of the street networks that are read and exported

Ways == [nodes : Seq(Nodes), oneway : {"along", "against", "both"}, class : Classes]

\* located: the nodes that have valid coordinates in the file; inside: those in
\* the box; crossing: the pairs of nodes whose street meets the box in between.
\* differ: the class is named in edge_attrs_differ; include: the nodes that
\* carry an attribute named in node_attrs_include.
ASSUME NetworkAssumption ==
    /\ IsFiniteSet(Nodes)
    /\ \A family \in Families : \A net \in family :
         /\ net.ways \in Seq(Ways) /\ net.ways # <<>>
         /\ net.located \in SUBSET Nodes
         /\ net.box \in BOOLEAN
         /\ net.inside \in SUBSET Nodes /\ net.crossing \in SUBSET SUBSET Nodes
         /\ net.include \in SUBSET Nodes
         /\ net.differ \in BOOLEAN /\ net.remove_rings \in BOOLEAN

VARIABLES
    network,
    pc,             \* "geometry", "slice", "box", and then GraphSimplify's
    way_gdf,        \* one row per way: its segments and, apart, their ends
    streets,        \* the edges frame: one row per segment
    nodes           \* the nodes frame, without duplicates

given == <<network, way_gdf, streets>>

-----------------------------------------------------------------------------
\* np.cumsum with a zero in front, and the run of np.repeat that has place p.
cumsum(counts) ==
    LET sum[k \in 0..Len(counts)] == IF k = 0 THEN 0 ELSE sum[k - 1] + counts[k]
    IN  sum
RunOf(sum, p) == CHOOSE k \in DOMAIN sum \ {0} : sum[k - 1] < p /\ p <= sum[k]
Lengths(seqs) == [k \in DOMAIN seqs |-> Len(seqs[k])]

\* Mutant of concatenated_ranges: the runs follow each other without gaps.
RangesFromFirst(starts, counts) ==
    [p \in 1..cumsum(counts)[Len(counts)] |-> starts[1] + p]
\* The places after each start, one run after the other.
concatenated_ranges(starts, counts) ==
    LET off == cumsum(counts)
    IN  [p \in 1..off[Len(counts)] |->
            LET k == RunOf(off, p) IN starts[k] + (p - off[k - 1])]

\* The elements of s that are in S, in the order of s.
Only(s, S) ==
    LET only[k \in 0..Len(s)] ==
            IF k = 0 THEN <<>>
            ELSE IF s[k] \in S THEN Append(only[k - 1], s[k]) ELSE only[k - 1]
    IN  only[Len(s)]

Segments(q) == [i \in DOMAIN Front(q) |-> <<q[i], q[i + 1]>>]

\* The builder for one way: what is not located is left out of the way.
create_linestring_geometry(way_nodes) ==
    LET kept == Only(way_nodes, network.located)
    IN  IF Len(kept) > 1
        THEN [geometry |-> Segments(kept), from |-> Front(kept), to |-> Tail(kept), data |-> kept]
        ELSE [geometry |-> <<>>, from |-> <<>>, to |-> <<>>, data |-> <<>>]

\* The builder for all ways at once: the segments of the ways without gaps are
\* made from one flat array of nodes, and dealt out to their ways again.
nonempty == Only(network.ways, {way \in Range(network.ways) : way.nodes # <<>>})
Vectorizable(ids) == ToSet(ids) \subseteq network.located /\ Len(ids) >= 2
batch(way_nodes) ==
    Only([w \in DOMAIN way_nodes |-> w], {w \in DOMAIN way_nodes : Vectorizable(way_nodes[w])})
seg_counts(way_nodes, vec) == [i \in DOMAIN vec |-> Len(way_nodes[vec[i]]) - 1]
seg_start_pos(way_nodes, vec) ==
    LET offsets == cumsum(Lengths(way_nodes))
    IN  concatenated_ranges([i \in DOMAIN vec |-> offsets[vec[i] - 1]], seg_counts(way_nodes, vec))
SegmentsAt(flat_nodes, places) ==
    [p \in DOMAIN places |-> <<flat_nodes[places[p]], flat_nodes[places[p] + 1]>>]
seg_geoms_all(way_nodes, vec) ==
    SegmentsAt(FlattenSeq(way_nodes), seg_start_pos(way_nodes, vec))
geometries(way_nodes, vec, segs) ==
    LET seg_cum == cumsum(seg_counts(way_nodes, vec))
        Batched(w) ==
            LET vci == CHOOSE i \in DOMAIN vec : vec[i] = w
            IN  [geometry |-> SubSeq(segs, seg_cum[vci - 1] + 1, seg_cum[vci]),
                 from |-> Front(way_nodes[w]), to |-> Tail(way_nodes[w]), data |-> way_nodes[w]]
    IN  [w \in DOMAIN way_nodes |->
            IF Vectorizable(way_nodes[w]) THEN Batched(w)
            ELSE create_linestring_geometry(way_nodes[w])]

-----------------------------------------------------------------------------
ReadInit ==
    /\ \E family \in Families : network \in family
    /\ pc = "geometry" /\ way_gdf = <<>> /\ streets = <<>> /\ nodes = {}

CreateWayGeometries ==
    /\ pc = "geometry" /\ pc' = "slice"
    /\ \E ways \in {nonempty} :
       \E way_nodes \in {[w \in DOMAIN ways |-> ways[w].nodes]} :
       \E vec \in {batch(way_nodes)} :
       \E segs \in {seg_geoms_all(way_nodes, vec)} :
       \E built \in {geometries(way_nodes, vec, segs)} :
        /\ way_gdf' = [w \in DOMAIN ways |-> [way |-> ways[w], built |-> built[w]]]
        /\ nodes' = UNION {ToSet(built[w].data) : w \in DOMAIN ways}
    /\ UNCHANGED <<network, streets>>

\* Ways without geometry are dropped.  The ends of the segments are lists of
\* their own, which are put beside the exploded rows.
Located == Only(way_gdf, {row \in Range(way_gdf) : row.built.geometry # <<>>})
Sliced(located) ==
    LET u == FlattenSeq([i \in DOMAIN located |-> located[i].built.from])
        v == FlattenSeq([i \in DOMAIN located |-> located[i].built.to])
        Exploded(row) == [k \in DOMAIN row.built.geometry |->
                             [line |-> row.built.geometry[k],
                              oneway |-> row.way.oneway, class |-> row.way.class]]
        rows == FlattenSeq([i \in DOMAIN located |-> Exploded(located[i])])
    IN  [i \in DOMAIN rows |->
            [u |-> u[i], v |-> v[i], line |-> rows[i].line,
             oneway |-> rows[i].oneway, class |-> rows[i].class]]

SliceToSegments ==
    /\ pc = "slice" /\ pc' = "box"
    /\ \E located \in {Located} : located # <<>> /\ streets' = Sliced(located)
    /\ UNCHANGED <<network, way_gdf, nodes>>

\* np.concatenate of nothing is a ValueError.
SliceFails ==
    /\ pc = "slice" /\ Located = <<>>
    /\ pc' = "failed"
    /\ UNCHANGED <<network, way_gdf, streets, nodes>>

Ends(rows) == {rows[i].u : i \in DOMAIN rows} \cup {rows[i].v : i \in DOMAIN rows}
Meets(line) == Range(line) \cap network.inside # {} \/ Range(line) \in network.crossing

\* Mutant of Referenced: the nodes are clipped to the box as the streets are.
ReferencedInside(rows) == nodes \cap Ends(rows) \cap network.inside
\* The nodes that go with the streets that are kept, also those outside the box.
Referenced(rows) == nodes \cap Ends(rows)

FilterByBox ==
    /\ pc = "box" /\ network.box
    /\ streets' = Only(streets, {row \in Range(streets) : Meets(row.line)})
    /\ nodes' = Referenced(streets')
    /\ pc' = IF streets' = <<>> THEN "nothing" ELSE "directed"
    /\ UNCHANGED <<network, way_gdf>>

WholeFile ==
    /\ pc = "box" /\ ~network.box
    /\ pc' = "directed"
    /\ UNCHANGED <<network, way_gdf, streets, nodes>>

ReadNext == CreateWayGeometries \/ SliceToSegments \/ SliceFails \/ FilterByBox \/ WholeFile

-----------------------------------------------------------------------------
\* The streets of a way, by its nodes one after the other.
StreetsOf(way) ==
    LET pairs == Only(Segments(Only(way.nodes, network.located)),
                      {p \in Nodes \X Nodes : network.box => Meets(p)})
    IN  [i \in DOMAIN pairs |-> [u |-> pairs[i][1], v |-> pairs[i][2], line |-> pairs[i],
                                 oneway |-> way.oneway, class |-> way.class]]

\* A read gives each pair of consecutive located nodes of a way as one street,
\* with its own ends and geometry and its way's attributes, the streets that meet
\* the box whole, and exactly their ends as nodes: whichever ways took the batched
\* path, had gaps or were left out (geometry.pyx:390-394; frames.pyx:242-245).
ReadsTheStreets ==
    pc \in {"directed", "nothing"} =>
        /\ streets = FlattenSeq([w \in DOMAIN network.ways |-> StreetsOf(network.ways[w])])
        /\ nodes = Ends(streets)
=============================================================================
