----------------------------- MODULE PbfWriter -----------------------------
(***************************************************************************)
(* OSM.write_pbf: the elements an OSM object holds, edited and extended by *)
(* the rows of frames, written to a file (pbf_writer.py and                *)
(* write_pbf_from_records of pbf_export.pyx).                              *)
(*                                                                         *)
(* A job is one call: what is held (nodes, ways and relations, as          *)
(* functions of their ids) and the rows of the frames, one after the       *)
(* other; the id 0 stands for none.  A place is one number; the file keeps *)
(* it to a grid of Precision.  A value of a cell is a pair of a type and   *)
(* what it holds; a float holds tenths.                                    *)
(***************************************************************************)
EXTENDS BlockCodec

CONSTANTS Jobs,         \* the calls
          Precision,    \* fine units per unit of the grid (1e-7 degrees)
          Limit,        \* the largest valid place
          MaxGroup,     \* elements per block (_MAX_GROUP)
          NonTagCols,   \* _NON_TAG_COLS
          MaxWriteFaults

JobsAssumption ==
    \A j \in Jobs :
        /\ Len(j.rows) \in Nat /\ DOMAIN j.rows = 1..Len(j.rows)
        /\ 0 \notin DOMAIN j.nodes \cup DOMAIN j.ways \cup DOMAIN j.relations
ASSUME JobsAssumption

VARIABLES job, stage, row, edits, new_rows, keep, pending, builder, output, faults
writer_vars == <<job, stage, row, edits, new_rows, keep, pending, builder, output, faults>>

Kinds == {"node", "way", "relation"}
None == "None"
Assign(dict, key, value) == [k \in {key} \cup DOMAIN dict |-> IF k = key THEN value ELSE dict[k]]
Held(kind) == CASE kind = "node" -> job.nodes [] kind = "way" -> job.ways [] kind = "relation" -> job.relations

-----------------------------------------------------------------------------
(***************************************************************************)
(* Tags from cells.                                                        *)
(***************************************************************************)
_is_missing(value) == value[1] = "missing"
_tag_str(value) ==
    CASE value[1] = "bool" -> IF value[2] THEN "yes" ELSE "no"
      [] value[1] = "float" /\ value[2] % 10 = 0 -> ToString(value[2] \div 10)
      [] value[1] = "float" /\ value[2] % 10 # 0 -> ToString(value[2] \div 10) \o "." \o ToString(value[2] % 10)
      [] value[1] = "int" -> ToString(value[2])
      [] value[1] = "str" -> value[2]
TagKeysOf(cells) == {k \in DOMAIN cells : k \notin NonTagCols \cup {Blank} /\ ~_is_missing(cells[k])}

\* A column wins over the same key of the JSON column "tags".
_row_tags(r) ==
    [k \in TagKeysOf(r.cells) \cup TagKeysOf(r.extra) |->
        _tag_str(IF k \in TagKeysOf(r.cells) THEN r.cells[k] ELSE r.extra[k])]
_record_tags(tags) == [k \in DOMAIN tags \ NonTagCols |-> tags[k]]

-----------------------------------------------------------------------------
(***************************************************************************)
(* Edits and new rows, a row at a time.                                    *)
(***************************************************************************)
_infer_osm_type(geometry) ==
    CASE geometry.type = "Point" -> "node"
      [] geometry.type \in {"LineString", "Polygon"} -> "way"
      [] OTHER -> None
TypeOf(r) == IF r.osm_type = None THEN _infer_osm_type(r.geometry) ELSE r.osm_type
IsEdit(r) == r.id # 0 /\ TypeOf(r) \in Kinds /\ r.id \in DOMAIN Held(TypeOf(r))

NoRecords == [nodes |-> <<>>, ways |-> <<>>, rels |-> <<>>, node_at |-> <<>>, node_counter |-> -1, way_counter |-> -1]

Init ==
    /\ job \in Jobs
    /\ stage = "collect" /\ row = 1
    /\ edits = [k \in Kinds |-> <<>>]
    /\ new_rows = <<>>
    /\ keep = [k \in Kinds |-> {}] /\ pending = {}
    /\ builder = NoRecords
    /\ output = [written |-> FALSE, blocks |-> <<>>]
    /\ faults = 0

\* data is neither a frame nor a list of frames.
_as_frames ==
    /\ stage = "collect" /\ ~job.is_frames
    /\ stage' = "raised"
    /\ UNCHANGED <<job, row, edits, new_rows, keep, pending, builder, output, faults>>

_collect_edits ==
    /\ stage = "collect" /\ job.is_frames /\ row <= Len(job.rows)
    /\ LET r == job.rows[row]
       IN  IF IsEdit(r)
           THEN /\ edits' = [edits EXCEPT ![TypeOf(r)] = Assign(@, r.id, _row_tags(r))]
                /\ UNCHANGED new_rows
           ELSE /\ new_rows' = Append(new_rows, [geometry |-> r.geometry, tags |-> _row_tags(r)])
                /\ UNCHANGED edits
    /\ row' = row + 1
    /\ UNCHANGED <<job, stage, keep, pending, builder, output, faults>>

-----------------------------------------------------------------------------
(***************************************************************************)
(* What a subset needs.  _subset_keep_sets takes relations from a list     *)
(* that it filled from a set: in any order.                                *)
(***************************************************************************)
BeginClosure ==
    /\ stage = "collect" /\ job.is_frames /\ row > Len(job.rows)
    /\ stage' = "closure"
    /\ keep' = [k \in Kinds |-> IF job.subset_only THEN DOMAIN edits[k] ELSE DOMAIN Held(k)]
    /\ pending' = IF job.subset_only THEN keep'["relation"] ELSE {}
    /\ UNCHANGED <<job, row, edits, new_rows, builder, output, faults>>

MemberIds(rid, kind) == {m[2] : m \in {x \in ToSet(job.relations[rid].members) : x[1] = kind}}
\* Mutant of NewRelations: a relation that is kept is taken again.
EveryRelation(rid) == MemberIds(rid, "relation") \cap DOMAIN job.relations
NewRelations(rid) == (MemberIds(rid, "relation") \cap DOMAIN job.relations) \ keep["relation"]

TakeRelation ==
    /\ stage = "closure"
    /\ \E rid \in pending :
        /\ keep' = [keep EXCEPT !["way"] = @ \cup MemberIds(rid, "way"),
                                !["node"] = @ \cup MemberIds(rid, "node"),
                                !["relation"] = @ \cup NewRelations(rid)]
        /\ pending' = (pending \ {rid}) \cup NewRelations(rid)
    /\ UNCHANGED <<job, stage, row, edits, new_rows, builder, output, faults>>

\* Mutant of WaysToComplete: only the ways that rows match.
MatchedWays == DOMAIN edits["way"]
WaysToComplete == keep["way"] \cap DOMAIN job.ways
NodeRefs == UNION {ToSet(job.ways[w].nodes) : w \in WaysToComplete}
_subset_keep_sets == IF job.subset_only THEN [keep EXCEPT !["node"] = @ \cup NodeRefs] ELSE keep

-----------------------------------------------------------------------------
(***************************************************************************)
(* Records of the elements that are kept.                                  *)
(***************************************************************************)
Raw(place) == (2 * place + Precision) \div (2 * Precision)
OrOne(version) == IF version = 0 THEN 1 ELSE version
Edited(kind, id, tags) == IF id \in DOMAIN edits[kind] THEN edits[kind][id] ELSE tags

NodeRecord(id) ==
    [id |-> id, place |-> job.nodes[id].place, version |-> OrOne(job.nodes[id].version),
     tags |-> Edited("node", id, job.nodes[id].tags)]
WayRecord(id) ==
    [id |-> id, refs |-> job.ways[id].nodes, version |-> OrOne(job.ways[id].version),
     tags |-> Edited("way", id, _record_tags(job.ways[id].tags))]
RelationRecord(id) ==
    [id |-> id, members |-> job.relations[id].members, version |-> OrOne(job.relations[id].version),
     tags |-> Edited("relation", id, job.relations[id].tags)]

Records(record(_), ids) == LET order == SetToSeq(ids) IN [i \in DOMAIN order |-> record(order[i])]
IdsOf(records) == {records[i].id : i \in DOMAIN records}
\* Mutant of Below: the counters start anew in each call.
StartsAnew(records) == -1
Below(records) == Min(IdsOf(records) \cup {0}) - 1
begin_synthesis(b) == [b EXCEPT !.node_counter = Below(b.nodes), !.way_counter = Below(b.ways)]

\* Mutant of OutputWhileBuilding: the file is opened first.
OpenedFirst == [written |-> TRUE, blocks |-> <<>>]
OutputWhileBuilding == output

BuildRecords ==
    /\ stage = "closure" /\ pending = {}
    /\ LET kept(kind) == _subset_keep_sets[kind] \cap DOMAIN Held(kind)
       IN  builder' = begin_synthesis(
              [builder EXCEPT !.nodes = Records(NodeRecord, kept("node")),
                              !.ways = Records(WayRecord, kept("way")),
                              !.rels = Records(RelationRecord, kept("relation"))])
    /\ keep' = _subset_keep_sets
    /\ row' = 1 /\ stage' = "synthesize"
    /\ output' = OutputWhileBuilding
    /\ UNCHANGED <<job, edits, new_rows, pending, faults>>

-----------------------------------------------------------------------------
(***************************************************************************)
(* New elements.  The vertices of new rows that are at one place of the    *)
(* grid share a node; the tags of a point replace those of its node.       *)
(***************************************************************************)
Synthesizable(g) ==
    /\ g.type \in {"Point", "LineString", "Polygon"} /\ ~g.holes
    /\ \A i \in DOMAIN g.coords : g.coords[i] \in -Limit..Limit

AddNode(b, place) ==
    IF Raw(place) \in DOMAIN b.node_at THEN b
    ELSE [b EXCEPT !.nodes = Append(@, [id |-> b.node_counter, place |-> place, version |-> 1, tags |-> <<>>]),
                   !.node_at = Assign(@, Raw(place), Len(b.nodes) + 1),
                   !.node_counter = @ - 1]
_node_for(b, place) == b.nodes[b.node_at[Raw(place)]].id

AddPoint(b, place, tags) == LET with == AddNode(b, place) IN [with EXCEPT !.nodes[with.node_at[Raw(place)]].tags = tags]
_add_way(b, coords, tags) ==
    LET with == FoldLeft(AddNode, b, coords)
        way == [id |-> b.way_counter, version |-> 1, tags |-> tags,
                refs |-> [i \in DOMAIN coords |-> _node_for(with, coords[i])]]
    IN  [with EXCEPT !.ways = Append(@, way), !.way_counter = @ - 1]
add_geometry(b, new) ==
    IF new.geometry.type = "Point" THEN AddPoint(b, new.geometry.coords[1], new.tags)
    ELSE _add_way(b, new.geometry.coords, new.tags)

Synthesize ==
    /\ stage = "synthesize" /\ row <= Len(new_rows)
    /\ IF Synthesizable(new_rows[row].geometry)
       THEN builder' = add_geometry(builder, new_rows[row]) /\ row' = row + 1 /\ UNCHANGED stage
       ELSE stage' = "raised" /\ UNCHANGED <<builder, row>>
    /\ UNCHANGED <<job, edits, new_rows, keep, pending, output, faults>>

-----------------------------------------------------------------------------
(***************************************************************************)
(* Writing: blocks of nodes in the order of their ids, of ways, of         *)
(* relations.                                                              *)
(***************************************************************************)
Batches(records) ==
    [i \in 1..((Len(records) + MaxGroup - 1) \div MaxGroup) |->
        SubSeq(records, (i - 1) * MaxGroup + 1, Min({i * MaxGroup, Len(records)}))]
InFile(n) == [id |-> n.id, lat |-> Raw(n.place), version |-> n.version, tags |-> n.tags]
SortedNodes == LET s == SortSeq(builder.nodes, LAMBDA a, b : a.id < b.id) IN [i \in DOMAIN s |-> InFile(s[i])]
BlocksOf(kind, records) == LET batches == Batches(records) IN [i \in DOMAIN batches |-> [kind |-> kind, records |-> batches[i]]]
write_pbf_from_records ==
    BlocksOf("node", SortedNodes) \o BlocksOf("way", builder.ways) \o BlocksOf("relation", builder.rels)
Open ==
    /\ stage = "synthesize" /\ row > Len(new_rows)
    /\ stage' = "write"
    /\ output' = [written |-> TRUE, blocks |-> <<>>]
    /\ UNCHANGED <<job, row, edits, new_rows, keep, pending, builder, faults>>

\* A block of the file is kept as what it is filled from.
WriteBlock ==
    /\ stage = "write"
    /\ LET n == Len(output.blocks)
       IN  IF n < Len(write_pbf_from_records)
           THEN output' = [output EXCEPT !.blocks = Append(@, write_pbf_from_records[n + 1])] /\ UNCHANGED stage
           ELSE stage' = "done" /\ UNCHANGED output
    /\ UNCHANGED <<job, row, edits, new_rows, keep, pending, builder, faults>>

\* open() or write() raises.
WriteFails ==
    /\ faults < MaxWriteFaults
    /\ stage = "write" \/ (stage = "synthesize" /\ row > Len(new_rows))
    /\ stage' = "raised" /\ faults' = faults + 1
    /\ UNCHANGED <<job, row, edits, new_rows, keep, pending, builder, output>>

Progress == \/ _as_frames \/ _collect_edits \/ BeginClosure \/ TakeRelation \/ BuildRecords
            \/ Synthesize \/ Open \/ WriteBlock
Next == Progress \/ WriteFails
Spec == Init /\ [][Next]_writer_vars /\ WF_writer_vars(Progress)
-----------------------------------------------------------------------------
(***************************************************************************)
(* Properties.                                                             *)
(***************************************************************************)
RecordsOf(kind) == {output.blocks[i].records : i \in {b \in DOMAIN output.blocks : output.blocks[b].kind = kind}}
ReadBack ==
    [nodes     |-> UNION {DecodedNodes(emit_node_block(records)) : records \in RecordsOf("node")},
     ways      |-> UNION {DecodedWays(emit_way_block(records)) : records \in RecordsOf("way")},
     relations |-> UNION {DecodedRelations(emit_relation_block(records)) : records \in RecordsOf("relation")}]

\* The tags an element should have: those of the last row about it, else its own.
RowsAbout(kind, id) == {i \in DOMAIN job.rows : job.rows[i].id = id /\ TypeOf(job.rows[i]) = kind}
OwnTags(kind, id) ==
    [k \in DOMAIN Held(kind)[id].tags \ (IF kind = "way" THEN NonTagCols ELSE {}) |-> Held(kind)[id].tags[k]]
TagsOf(kind, id) ==
    IF RowsAbout(kind, id) = {} THEN OwnTags(kind, id) ELSE _row_tags(job.rows[Max(RowsAbout(kind, id))])

\* A file that was written is read back as what is held, each element with
\* its id, version, place, nodes or members, and the tags of the last row
\* about it or else its own; with subset_only, only what the subset needs.
Rereads ==
    stage = "done" => \A file \in {ReadBack} :
      LET kept(kind) == keep[kind] \cap DOMAIN Held(kind)
          version(e) == Max({e.version, 1})
          nodes == {[id |-> n, lat |-> Raw(job.nodes[n].place), version |-> version(job.nodes[n]),
                     tags |-> TagsOf("node", n)] : n \in kept("node")}
          ways == {[id |-> w, refs |-> job.ways[w].nodes, version |-> version(job.ways[w]),
                    tags |-> TagsOf("way", w)] : w \in kept("way")}
      IN  /\ nodes = {n \in file.nodes : n.id \in kept("node")}
          /\ ways = {w \in file.ways : w.id \in kept("way")}
          /\ {[id |-> r, members |-> job.relations[r].members, version |-> version(job.relations[r]),
               tags |-> TagsOf("relation", r)] : r \in kept("relation")} = file.relations

\* A file that was written has each row without an element once: a line as a
\* way through its places, a point as a node with the tags of the last row
\* that puts a point there.  New ids are negative and nobody else's, and new
\* elements share a node where they meet.
NewRowsAreThere ==
    stage = "done" => \A file \in {ReadBack} :
      LET new == {i \in DOMAIN job.rows : ~IsEdit(job.rows[i])}
          lines == {i \in new : job.rows[i].geometry.type # "Point"}
          grid(i) == [j \in DOMAIN job.rows[i].geometry.coords |-> Raw(job.rows[i].geometry.coords[j])]
          NewNodes == {n \in file.nodes : n.id \notin keep["node"] \cap DOMAIN job.nodes}
          NewWays == {w \in file.ways : w.id \notin keep["way"] \cap DOMAIN job.ways}
          points(lat) == {i \in new \ lines : grid(i)[1] = lat}
          lat(id) == (CHOOSE n \in NewNodes : n.id = id).lat
          line(w) == [lat |-> [j \in DOMAIN w.refs |-> lat(w.refs[j])], tags |-> w.tags]
      IN  /\ \A n \in NewNodes \cup NewWays : n.id < 0
          /\ Cardinality({n.id : n \in file.nodes}) = Cardinality(file.nodes)
          /\ {n.lat : n \in NewNodes} = UNION {ToSet(grid(i)) : i \in new}
          /\ Cardinality(NewNodes) = Cardinality({n.lat : n \in NewNodes})
          /\ \A n \in NewNodes :
                n.tags = IF points(n.lat) = {} THEN <<>> ELSE _row_tags(job.rows[Max(points(n.lat))])
          /\ Cardinality(NewWays) = Cardinality(lines)
          /\ \A i \in lines : \E w \in NewWays :
                /\ ToSet(w.refs) \subseteq {n.id : n \in NewNodes}
                /\ line(w) = [lat |-> grid(i), tags |-> _row_tags(job.rows[i])]

\* What is held, what an element refers to, and sets that have what they refer to.
Elements == UNION {{<<k, id>> : id \in DOMAIN Held(k)} : k \in Kinds}
RefersTo(e) ==
    CASE e[1] = "node" -> {}
      [] e[1] = "way" -> {<<"node", n>> : n \in ToSet(job.ways[e[2]].nodes)}
      [] e[1] = "relation" -> {<<m[1], m[2]>> : m \in ToSet(job.relations[e[2]].members)}
Closed(S) ==
    /\ {e \in Elements : RowsAbout(e[1], e[2]) # {}} \subseteq S
    /\ \A e \in S : RefersTo(e) \cap Elements \subseteq S
Kept == {e \in Elements : e[2] \in keep[e[1]]}

\* A subset is the smallest set of elements that has those the rows are about
\* and, with a way, its nodes and, with a relation, its members that are held.
Smallest ==
    stage \in {"synthesize", "write", "done"} /\ job.subset_only =>
      Closed(Kept) /\ \A S \in SUBSET Kept : Closed(S) => S = Kept

\* A call that a row or an argument ends leaves the file that was there.
RejectedLeavesOutput == stage = "raised" /\ faults = 0 => ~output.written

\* Every call ends, also when relations are members of each other.
WriteEnds == <>(stage \in {"done", "raised"})
=============================================================================
