------------------------------ MODULE History -------------------------------
(***************************************************************************)
(* What the in-memory reader takes from a file with several versions of an *)
(* element (pbfreader.pyx, data_filter.get_latest_version), and what the   *)
(* documentation of a timestamp promises.  MemoryReader models the passes  *)
(* over a file with one version of each; here a pass is one operator and   *)
(* what matters is in which order versions are dropped.                    *)
(***************************************************************************)
EXTENDS Integers, Sequences, FiniteSets, SequencesExt

CONSTANTS
    Id,      \* OSM ids: unique within a kind
    Key,     \* tag keys
    Value,   \* tag values
    Place,   \* positions of nodes
    InBox    \* the positions inside the bounding box

ASSUME HistoryAssumption == InBox \subseteq Place

NoTime == 0       \* timestamps are positive: seconds since 1970
Missing == "-"    \* the element has no such tag

Tags == [Key -> Value \cup {Missing}]
NoTags == [none |-> TRUE]   \* None: what an untagged node of a dense group has

NodeVersion == [id : Id, time : Nat, visible : BOOLEAN, place : Place, tags : Tags \cup {NoTags}]
WayVersion == [id : Id, time : Nat, visible : BOOLEAN, nodes : SUBSET Id, tags : Tags]
RelationVersion == [id : Id, time : Nat, visible : BOOLEAN, ways : SUBSET Id, tags : Tags]

\* A file, in the order of its groups: the versions of an element are in the order
\* they were made; and the options of the object that reads it.
HistoryFile ==
    [nodes : Seq(NodeVersion), ways : Seq(WayVersion), relations : Seq(RelationVersion),
     box : BOOLEAN, complete_relations : BOOLEAN]

\* A pass keeps places in the list of the versions of its kind.
Ids(versions, places) == {versions[i].id : i \in places}
WithIds(versions, places, ids) == {i \in places : versions[i].id \in ids}
Of(versions, places, id) == WithIds(versions, places, {id})

-----------------------------------------------------------------------------
(***************************************************************************)
(* The versions that a pass keeps.                                         *)
(***************************************************************************)
\* Mutant of UpTo: a version made at the timestamp itself is left out.
Earlier(versions, t) == {i \in DOMAIN versions : t = NoTime \/ versions[i].time < t}

UpTo(versions, t) == {i \in DOMAIN versions : t = NoTime \/ versions[i].time <= t}

parse_nodes(file, t) ==
    {i \in UpTo(file.nodes, t) : file.box => file.nodes[i].place \in InBox}
\* The versions of the nodes looked up are all that parse_nodes kept, deletions too.
parse_ways(file, t) ==
    LET node_lookup == Ids(file.nodes, parse_nodes(file, t))
    IN  {i \in UpTo(file.ways, t) : file.box => file.ways[i].nodes \cap node_lookup # {}}
parse_relations(file, t) == UpTo(file.relations, t)

-----------------------------------------------------------------------------
(***************************************************************************)
(* One record for each element, from the places of its versions.           *)
(* groupby("id").last() takes the last value of each column that is not    *)
(* null; the tags of ways are columns, those of nodes and relations are    *)
(* one.                                                                    *)
(***************************************************************************)
LastKnown(column, null) ==
    LET known == {i \in DOMAIN column : column[i] # null}
    IN  IF known = {} THEN null ELSE column[Max(known)]

latest_node(versions, places) ==
    [versions[Max(places)] EXCEPT !.tags = LastKnown([i \in places |-> versions[i].tags], NoTags)]
\* Mutant of latest_way: the whole of the first version is taken.
FirstVersion(versions, places) == versions[Min(places)]
latest_way(versions, places) ==
    [versions[Max(places)] EXCEPT !.tags = [k \in Key |->
        LastKnown([i \in places |-> versions[i].tags[k]], Missing)]]
latest_relation(versions, places) == versions[Max(places)]

\* Deleted versions go first.
Visible(versions, places) == {i \in places : versions[i].visible}
get_latest_version(versions, places, Latest(_, _), t) ==
    LET kept == Visible(versions, places)
    IN  IF t = NoTime THEN {versions[i] : i \in places}
        ELSE {Latest(versions, Of(versions, kept, id)) : id \in Ids(versions, kept)}

nodes_df(file, t) == get_latest_version(file.nodes, parse_nodes(file, t), latest_node, t)
all_ways(file, t) == get_latest_version(file.ways, parse_ways(file, t), latest_way, t)
relations_df(file, t) ==
    get_latest_version(file.relations, parse_relations(file, t), latest_relation, t)

IdsIn(records) == {r.id : r \in records}

\* The member ways of relations that have one in the box.
missing_way_ids(file, t) ==
    LET present == IdsIn(all_ways(file, t))
    IN  UNION {r.ways : r \in {s \in relations_df(file, t) : s.ways \cap present # {}}} \ present
completed_ways(file, t) ==
    IF file.complete_relations /\ file.box
    THEN get_latest_version(file.ways, WithIds(file.ways, UpTo(file.ways, t), missing_way_ids(file, t)),
                            latest_way, t)
    ELSE {}

Located(records) == {[id |-> r.id, place |-> r.place] : r \in records}

\* Mutant of boundary_nodes: the vertices fetched later are not filtered by time.
BoundaryOfAnyTime(file, t, ids) ==
    get_latest_version(file.nodes, WithIds(file.nodes, DOMAIN file.nodes, ids), latest_node, t)

\* The vertices that lie outside the box.
boundary_nodes(file, t, ids) ==
    get_latest_version(file.nodes, WithIds(file.nodes, UpTo(file.nodes, t), ids), latest_node, t)
node_coordinates(file, t) ==
    LET nodes == nodes_df(file, t)
        needed == UNION {w.nodes : w \in all_ways(file, t) \cup completed_ways(file, t)}
    IN  Located(nodes) \cup
        IF file.box /\ all_ways(file, t) # {}
        THEN Located(boundary_nodes(file, t, needed \ IdsIn(nodes)))
        ELSE {}

Collections(nodes, ways, relations, coordinates, member_ways) ==
    [nodes |-> nodes, ways |-> ways, relations |-> relations, coordinates |-> coordinates,
     member_ways |-> member_ways]
Empty == Collections({}, {}, {}, {}, {})

\* A history read looks for the column "visible" of ways and of relations, which a
\* frame without rows does not have.
ParseRaises(file, t) ==
    /\ t # NoTime /\ parse_nodes(file, t) # {}
    /\ parse_ways(file, t) = {} \/ parse_relations(file, t) = {}

parse_osm_data(file, t) ==
    IF parse_nodes(file, t) = {} THEN Empty
    ELSE Collections(nodes_df(file, t), all_ways(file, t), relations_df(file, t),
                     node_coordinates(file, t), completed_ways(file, t))

-----------------------------------------------------------------------------
(***************************************************************************)
(* The map at a time: each element is its latest version, and is there if  *)
(* that is not a deletion.                                                 *)
(***************************************************************************)
AsOf(versions, t) ==
    LET past == {i \in DOMAIN versions : t # NoTime => versions[i].time <= t}
        latest == {Max(Of(versions, past, id)) : id \in Ids(versions, past)}
    IN  {versions[i] : i \in {j \in latest : versions[j].visible}}
NodesAsOf(file, t) == {v \in AsOf(file.nodes, t) : file.box => v.place \in InBox}
WaysAsOf(file, t) ==
    {w \in AsOf(file.ways, t) : file.box => w.nodes \cap IdsIn(NodesAsOf(file, t)) # {}}

\* No version takes away what the one before had, or crosses the edge of the box.
OnlyGrown(file) ==
    LET follows(versions, i, j) ==
            /\ versions[i].id = versions[j].id /\ i < j
        visible(versions) == \A i \in DOMAIN versions : versions[i].visible
        keep_tags(a, b) == \A k \in Key : a[k] # Missing => b[k] # Missing
    IN  /\ visible(file.nodes) /\ visible(file.ways) /\ visible(file.relations)
        /\ \A i, j \in DOMAIN file.nodes : follows(file.nodes, i, j) =>
             /\ file.nodes[i].place \in InBox <=> file.nodes[j].place \in InBox
             /\ file.nodes[j].tags = NoTags => file.nodes[i].tags = NoTags
        /\ \A i, j \in DOMAIN file.ways : follows(file.ways, i, j) =>
             /\ file.ways[i].nodes \subseteq file.ways[j].nodes
             /\ keep_tags(file.ways[i].tags, file.ways[j].tags)
=============================================================================
