---------------------------- MODULE MemoryReader ----------------------------
(***************************************************************************)
(* The in-memory reader: pbfreader._parse_osm_data streams the file once,  *)
(* again for the member ways of relations that straddle the box, and again *)
(* for the vertices outside it; data_manager.get_osm_data then separates   *)
(* the ways of the layer's relations from the standalone ones.             *)
(***************************************************************************)
EXTENDS LayerRead

VARIABLES
    pc,         \* "scan", "complete", "fetch", "locate", "assemble", "end"
    pos,        \* the primitive group the current pass is at
    all_nodes, all_ways, all_relations,   \* ids parsed by the first pass
    missing,    \* ids the current pass looks for
    completed,  \* completed_relation_ways
    located     \* nodes with known coordinates

parsed == <<all_nodes, all_ways, all_relations>>
vars == <<job, frame, pc, pos, parsed, missing, completed, located>>

MemoryInit ==
    /\ Init
    /\ pc = "scan" /\ pos = 1
    /\ all_nodes = {} /\ all_ways = {} /\ all_relations = {}
    /\ missing = {} /\ completed = {} /\ located = {}

PassEnds == pos > Len(job.file)
At(kind) == ~PassEnds /\ job.file[pos].kind = kind
Ids == job.file[pos].ids
Skip == pos' = pos + 1
Begin(phase) == pc' = phase /\ pos' = 1

-----------------------------------------------------------------------------
\* First pass.
ScanNodes ==
    /\ pc = "scan" /\ At("node")
    /\ all_nodes' = all_nodes \cup {n \in Ids : job.box => n \in job.inside}
    /\ Skip
    /\ UNCHANGED <<job, frame, pc, all_ways, all_relations, missing, completed, located>>

\* Mutant of ScanWays: the nodes of the ways are not looked up.
ScanWaysAnywhere ==
    /\ pc = "scan" /\ At("way")
    /\ job.box => \E i \in 1..pos - 1 : job.file[i].kind = "node"
    /\ all_ways' = all_ways \cup Ids
    /\ Skip
    /\ UNCHANGED <<job, frame, pc, all_nodes, all_relations, missing, completed, located>>

\* With a box a way is kept when one of the nodes parsed so far is one of its
\* own.  The lookup of those nodes cannot be built before the first node group.
ScanWays ==
    /\ pc = "scan" /\ At("way")
    /\ job.box => \E i \in 1..pos - 1 : job.file[i].kind = "node"
    /\ all_ways' = all_ways \cup {w \in Ids : job.box => job.refs[w] \cap all_nodes # {}}
    /\ Skip
    /\ UNCHANGED <<job, frame, pc, all_nodes, all_relations, missing, completed, located>>

ScanWaysFails ==
    /\ pc = "scan" /\ At("way")
    /\ job.box /\ \A i \in 1..pos - 1 : job.file[i].kind # "node"
    /\ frame' = Failed /\ pc' = "end"
    /\ UNCHANGED <<job, pos, parsed, missing, completed, located>>

ScanRelations ==
    /\ pc = "scan" /\ At("relation")
    /\ all_relations' = all_relations \cup Ids
    /\ Skip
    /\ UNCHANGED <<job, frame, pc, all_nodes, all_ways, missing, completed, located>>

\* A read without any node ends with empty collections.
ScanEnds ==
    /\ pc = "scan" /\ PassEnds
    /\ \/ /\ all_nodes = {}
          /\ all_ways' = {} /\ all_relations' = {}
          /\ pc' = "assemble" /\ pos' = 1
       \/ /\ all_nodes # {}
          /\ UNCHANGED <<all_ways, all_relations>>
          /\ Begin("complete")
    /\ UNCHANGED <<job, frame, all_nodes, missing, completed, located>>

-----------------------------------------------------------------------------
\* The ways to complete: members that are missing of relations, of whatever
\* layer, that have a member way in the box.
MissingMembers ==
    UNION {MemberWays(r) \ all_ways :
             r \in {s \in all_relations : MemberWays(s) \cap all_ways # {}}}

FindMissingMembers ==
    /\ pc = "complete"
    /\ missing' = IF job.complete /\ job.box THEN MissingMembers ELSE {}
    /\ Begin("fetch")
    /\ UNCHANGED <<job, frame, parsed, completed, located>>

FetchMembers ==
    /\ pc = "fetch" /\ missing # {} /\ ~PassEnds
    /\ completed' = IF job.file[pos].kind = "way" THEN completed \cup (Ids \cap missing)
                                                  ELSE completed
    /\ Skip
    /\ UNCHANGED <<job, frame, pc, parsed, missing, located>>

-----------------------------------------------------------------------------
\* Mutant of BoundaryNodes: the vertices of completed ways are not looked for.
BoundaryNodesOfKept == (UNION {job.refs[w] : w \in all_ways}) \ all_nodes

\* The vertices outside the box of the ways that are kept or completed.
BoundaryNodes == (UNION {job.refs[w] : w \in all_ways \cup completed}) \ all_nodes

FindBoundaryNodes ==
    /\ pc = "fetch"
    /\ missing = {} \/ PassEnds
    /\ located' = all_nodes
    /\ missing' = IF job.box /\ all_ways # {} THEN BoundaryNodes ELSE {}
    /\ Begin("locate")
    /\ UNCHANGED <<job, frame, parsed, completed>>

LocateNodes ==
    /\ pc = "locate" /\ missing # {} /\ ~PassEnds
    /\ located' = IF job.file[pos].kind = "node" THEN located \cup (Ids \cap missing)
                                                 ELSE located
    /\ Skip
    /\ UNCHANGED <<job, frame, pc, parsed, missing, completed>>

LocateEnds ==
    /\ pc = "locate"
    /\ missing = {} \/ PassEnds
    /\ Begin("assemble")
    /\ UNCHANGED <<job, frame, parsed, missing, completed, located>>

-----------------------------------------------------------------------------
(***************************************************************************)
(* user_defined.get_user_defined_data, data_manager.get_osm_data.          *)
(***************************************************************************)
filtered_relations == {r \in all_relations : job.relations /\ Matches("relation", r)}

\* The ids of the members of the layer's relations, whatever their type.
relation_way_ids == UNION {MemberIds(r) : r \in filtered_relations}

relation_ways == (all_ways \cup completed) \cap relation_way_ids
normal_ways == {w \in all_ways \ relation_way_ids : job.ways /\ Matches("way", w)}
points == {n \in all_nodes : job.nodes /\ Matches("node", n)}

Assemble ==
    /\ pc = "assemble"
    /\ frame' = Rows(prepare_geodataframe(points, normal_ways, filtered_relations,
                                          relation_ways, located))
    /\ pc' = "end"
    /\ UNCHANGED <<job, pos, parsed, missing, completed, located>>

MemoryNext ==
    \/ ScanNodes \/ ScanWays \/ ScanWaysFails \/ ScanRelations \/ ScanEnds
    \/ FindMissingMembers \/ FetchMembers
    \/ FindBoundaryNodes \/ LocateNodes \/ LocateEnds \/ Assemble

MemorySpec == MemoryInit /\ [][MemoryNext]_vars

\* The files and reads that the two readers agree on.
MemoryLegible == NodesFirst /\ MembersApart /\ CompletedAlone

-----------------------------------------------------------------------------
MemoryTypeOK ==
    /\ job \in Job
    /\ FrameOK(frame)
    /\ pc \in {"scan", "complete", "fetch", "locate", "assemble", "end"}
    /\ pos \in 1..Len(job.file) + 1
    /\ all_nodes \subseteq Id /\ all_ways \subseteq Id /\ all_relations \subseteq Id
    /\ missing \subseteq Id /\ located \subseteq Id
    /\ completed \subseteq Id \ all_ways

\* On such a file the in-memory reader returns the layer that LayerRead promises,
\* and implements its Spec: no row too many or too few, relation members in the
\* relation only, and no geometry cut at the edge of the box
\* (pbfreader.pyx:601-609, data_manager.pyx:86-123).
ReadsTheLayer == Init /\ [][MemoryLegible => Read]_<<job, frame>>

\* A file that is not sorted costs rows and member ways, it never adds any: each
\* row is, perhaps in part, one that the layer has.  The reader takes the order of
\* the groups for granted (pbfreader.pyx:493-501).
UnsortedOnlyLoses ==
    MembersApart /\ CompletedAlone /\ frame # NotRead /\ frame # Failed =>
        \A row \in frame.rows :
            \E whole \in Layer : /\ row.kind = whole.kind /\ row.id = whole.id
                                 /\ row.parts \subseteq whole.parts
=============================================================================
