---------------------------- MODULE LayerCollect ----------------------------
(***************************************************************************)
(* The out-of-core reader: decode._decode_one_block spills what each block *)
(* holds of the layer, collect._collect_layer selects from the shards, and *)
(* the rows are assembled at once (assemble._assemble_layer) or a chunk at *)
(* a time (geoparquet._stream_layer_to_parquet).                           *)
(*                                                                         *)
(* How the blocks come to be decoded, and by how many processes, is the    *)
(* subject of DecodePool; here they are decoded in any order.              *)
(***************************************************************************)
EXTENDS LayerRead, FiniteSets

CONSTANT ChunkSize   \* geoparquet._OUTPUT_CHUNK_SIZE

ASSUME ChunkAssumption == ChunkSize \in Nat \ {0}

VARIABLES
    pc,         \* "decode", "relations", "restrict", "members", "ways",
                \* "points", "locate", "output", "stream", "end"
    spilled,    \* the groups whose block has been decoded into a shard
    relations, member_ids, relation_ways, kept, node_features,  \* as in the code
    located,    \* nodes whose coordinates were gathered
    unwritten,  \* ways still to be streamed
    written     \* rows written to the part files

selected == <<relations, member_ids, relation_ways, kept, node_features, located>>
vars == <<job, frame, pc, spilled, selected, unwritten, written>>

CollectInit ==
    /\ Init
    /\ pc = "decode" /\ spilled = {}
    /\ relations = {} /\ member_ids = {} /\ relation_ways = {}
    /\ kept = {} /\ node_features = {} /\ located = {}
    /\ unwritten = {} /\ written = {}

Spilled(kind) == UNION {job.file[i].ids : i \in {j \in spilled : job.file[j].kind = kind}}
in_box == Spilled("node") \cap job.inside
ReachesBox(w) == job.refs[w] \cap in_box # {}

Decode(i) ==
    /\ pc = "decode" /\ i \notin spilled
    /\ spilled' = spilled \cup {i}
    /\ UNCHANGED <<job, frame, pc, selected, unwritten, written>>

DecodeEnds ==
    /\ pc = "decode" /\ spilled = DOMAIN job.file
    /\ pc' = IF job.relations THEN "relations" ELSE "ways"
    /\ UNCHANGED <<job, frame, spilled, selected, unwritten, written>>

-----------------------------------------------------------------------------
\* _collect_relations; only members of type way are looked up.
CollectRelations ==
    /\ pc = "relations"
    /\ relations' = {r \in Spilled("relation") : Matches("relation", r)}
    /\ member_ids' = UNION {MemberWays(r) : r \in relations'}
    /\ pc' = IF job.box THEN "restrict" ELSE "members"
    /\ UNCHANGED <<job, frame, spilled, relation_ways, kept, node_features, located,
                   unwritten, written>>

\* _collect_relation_ways; box: only the ways that reach into it.
MembersFound(box) ==
    {w \in Spilled("way") \cap member_ids : box => ReachesBox(w)}

\* _restrict_relations_to_box
RestrictRelations ==
    /\ pc = "restrict"
    /\ relations' = {r \in relations : MemberWays(r) \cap MembersFound(TRUE) # {}}
    /\ member_ids' = UNION {MemberWays(r) : r \in relations'}
    /\ pc' = "members"
    /\ UNCHANGED <<job, frame, spilled, relation_ways, kept, node_features, located,
                   unwritten, written>>

\* Mutant of CollectMembers: complete_relations is not looked at.
CollectMembersInBox ==
    /\ pc = "members"
    /\ relation_ways' = MembersFound(job.box)
    /\ relations' = IF relation_ways' = {} THEN {} ELSE relations
    /\ pc' = "ways"
    /\ UNCHANGED <<job, frame, spilled, member_ids, kept, node_features, located,
                   unwritten, written>>

CollectMembers ==
    /\ pc = "members"
    /\ relation_ways' = MembersFound(job.box /\ ~job.complete)
    /\ relations' = IF relation_ways' = {} THEN {} ELSE relations
    /\ pc' = "ways"
    /\ UNCHANGED <<job, frame, spilled, member_ids, kept, node_features, located,
                   unwritten, written>>

\* _filter_way_columns
CollectWays ==
    /\ pc = "ways"
    /\ kept' = {w \in Spilled("way") \ member_ids :
                  job.ways /\ Matches("way", w) /\ (job.box => ReachesBox(w))}
    /\ pc' = "points"
    /\ UNCHANGED <<job, frame, spilled, relations, member_ids, relation_ways,
                   node_features, located, unwritten, written>>

\* The workers spill the point features inside the box only.
CollectNodes ==
    /\ pc = "points"
    /\ node_features' = {n \in Spilled("node") :
                           job.nodes /\ Matches("node", n) /\ (job.box => n \in job.inside)}
    /\ pc' = "locate"
    /\ UNCHANGED <<job, frame, spilled, relations, member_ids, relation_ways, kept,
                   located, unwritten, written>>

NothingFound == kept = {} /\ relations = {} /\ node_features = {}

FindNothing ==
    /\ pc = "locate" /\ NothingFound
    /\ frame' = Rows({}) /\ pc' = "end"
    /\ UNCHANGED <<job, spilled, selected, unwritten, written>>

\* _needed_node_ids
Needed == UNION {job.refs[w] : w \in kept \cup relation_ways}

\* Mutant of LocateNodes: every node of the file is loaded.
LocateEveryNode ==
    /\ pc = "locate" /\ ~NothingFound
    /\ located' = Spilled("node")
    /\ pc' = "output"
    /\ UNCHANGED <<job, frame, spilled, relations, member_ids, relation_ways, kept,
                   node_features, unwritten, written>>

\* _node_lookup
LocateNodes ==
    /\ pc = "locate" /\ ~NothingFound
    /\ located' = Needed \cap Spilled("node")
    /\ pc' = "output"
    /\ UNCHANGED <<job, frame, spilled, relations, member_ids, relation_ways, kept,
                   node_features, unwritten, written>>

-----------------------------------------------------------------------------
\* _assemble_layer, without pyarrow.
Assemble ==
    /\ pc = "output"
    /\ frame' = Rows(prepare_geodataframe(node_features, kept, relations,
                                          relation_ways, located))
    /\ pc' = "end"
    /\ UNCHANGED <<job, spilled, selected, unwritten, written>>

\* _stream_layer_to_parquet: points, chunks of ways, relations, each its own part.
StreamNodes ==
    /\ pc = "output"
    /\ written' = prepare_geodataframe(node_features, {}, {}, {}, located)
    /\ unwritten' = kept
    /\ pc' = "stream"
    /\ UNCHANGED <<job, frame, spilled, selected>>

IsChunk(ways) ==
    \/ ways = unwritten /\ Cardinality(ways) <= ChunkSize
    \/ ways \subseteq unwritten /\ Cardinality(ways) = ChunkSize

StreamWays ==
    /\ pc = "stream" /\ unwritten # {}
    /\ \E ways \in SUBSET unwritten :
         /\ IsChunk(ways)
         /\ written' = written \cup prepare_geodataframe({}, ways, {}, {}, located)
         /\ unwritten' = unwritten \ ways
    /\ UNCHANGED <<job, frame, pc, spilled, selected>>

StreamRelations ==
    /\ pc = "stream" /\ unwritten = {}
    /\ frame' = Rows(written \cup
                     prepare_geodataframe({}, {}, relations, relation_ways, located))
    /\ pc' = "end"
    /\ UNCHANGED <<job, spilled, selected, unwritten, written>>

CollectNext ==
    \/ \E i \in DOMAIN job.file : Decode(i)
    \/ DecodeEnds \/ CollectRelations \/ RestrictRelations \/ CollectMembers
    \/ CollectWays \/ CollectNodes \/ FindNothing \/ LocateNodes
    \/ Assemble \/ StreamNodes \/ StreamWays \/ StreamRelations

CollectSpec == CollectInit /\ [][CollectNext]_vars

-----------------------------------------------------------------------------
CollectTypeOK ==
    /\ job \in Job
    /\ FrameOK(frame)
    /\ pc \in {"decode", "relations", "restrict", "members", "ways", "points",
               "locate", "output", "stream", "end"}
    /\ spilled \subseteq DOMAIN job.file
    /\ relations \subseteq Id /\ member_ids \subseteq Id /\ relation_ways \subseteq Id
    /\ kept \subseteq Id /\ node_features \subseteq Id /\ located \subseteq Needed
    /\ unwritten \subseteq kept /\ written \subseteq Row

\* The out-of-core reader returns the layer that LayerRead promises, whether it
\* is assembled at once or streamed in chunks (collect.py:583-649), on the files
\* whose member ids of other kinds are not way ids.
CollectsTheLayer == Init /\ [][MembersApart => Read]_<<job, frame>>
=============================================================================
