------------------------- MODULE LayerCollectProofs -------------------------
(***************************************************************************)
(* What the layers consist of: the out-of-core reader implements           *)
(* LayerRead, for every extract, read and chunk size; and both readers     *)
(* select what the filters mean (TagFilter), for every file, filter object *)
(* and calls that it is passed to.                                         *)
(***************************************************************************)
EXTENDS LayerCollect, TagFilter, TLAPS

-----------------------------------------------------------------------------
(***************************************************************************)
(* What rows and parts depend on (LayerRead).                              *)
(***************************************************************************)
\* What is in a file has an id.
LEMMA IdsAreIds ==
    ASSUME job \in Job, NEW kind
    PROVE  IdsOf(kind) \subseteq Id
<1>1. \A i \in DOMAIN job.file : job.file[i].ids \subseteq Id
  <2>1. job.file \in Seq(Group)
    BY DEF Job
  <2>2. \A i \in DOMAIN job.file : job.file[i] \in Group
    BY <2>1
  <2>. QED BY <2>2 DEF Group
<1>. QED BY <1>1 DEF IdsOf

\* A frame is made row by row.
LEMMA RowOfFrame ==
    ASSUME NEW nodes, NEW ways, NEW rs, NEW relationWays, NEW at, NEW row
    PROVE  row \in prepare_geodataframe(nodes, ways, rs, relationWays, at) <=>
             /\ \/ row \in NodeRows(nodes)
                \/ row \in WayRows(ways, at)
                \/ row \in RelationRows(rs, relationWays, at)
             /\ row.parts # {} /\ InBox(row)
BY DEF prepare_geodataframe

\* Coordinates of nodes that no way refers to make no difference to its geometry.
LEMMA PartsNeedOwnNodes ==
    ASSUME NEW ways, NEW nodes, NEW at, at \subseteq nodes,
           \A w \in ways : job.refs[w] \cap nodes \subseteq at
    PROVE  Parts(ways, at) = Parts(ways, nodes)
<1>1. \A w \in ways : job.refs[w] \cap at = job.refs[w] \cap nodes
  OBVIOUS
<1>. QED BY <1>1 DEF Parts

\* A row has a kind, an id and parts made of known ways and nodes.
LEMMA RowsTyped ==
    ASSUME NEW nodes \in SUBSET Id, NEW ways \in SUBSET Id, NEW rs \in SUBSET Id,
           NEW relationWays \in SUBSET Id, NEW at \in SUBSET Id
    PROVE  prepare_geodataframe(nodes, ways, rs, relationWays, at) \subseteq Row
<1>1. \A ws \in SUBSET Id : Parts(ws, at) \in SUBSET (Id \X SUBSET Id)
  BY DEF Parts
<1>2. NodeRows(nodes) \subseteq Row
  BY DEF NodeRows, Row, Kind
<1>3. WayRows(ways, at) \subseteq Row
  <2>1. \A w \in ways : Parts({w}, at) \in SUBSET (Id \X SUBSET Id)
    BY <1>1
  <2>2. \A w \in ways : [kind |-> "way", id |-> w, parts |-> Parts({w}, at)] \in Row
    BY <2>1 DEF Row, Kind
  <2>. QED BY <2>2 DEF WayRows
<1>4. RelationRows(rs, relationWays, at) \subseteq Row
  <2>1. \A r : get_ways_for_relation(r, relationWays) \in SUBSET Id
    BY DEF get_ways_for_relation
  <2>. QED BY <1>1, <2>1 DEF RelationRows, Row, Kind
<1>. QED BY <1>2, <1>3, <1>4 DEF prepare_geodataframe

\* Typed rows make a typed frame.
LEMMA ReadIsOK == ASSUME NEW rows \in SUBSET Row PROVE FrameOK(Rows(rows))
<1>1. Rows(rows).rows = rows
  BY DEF Rows
<1>. QED BY <1>1 DEF FrameOK


\* The relations that the reader keeps, before it is known whether a member way
\* of theirs is in the file.
MatchingRelations == {r \in IdsOf("relation") : Matches("relation", r)}
Chosen == IF ~job.relations THEN {} ELSE IF job.box THEN LayerRelations ELSE MatchingRelations
WaysOf(rs) == UNION {MemberWays(r) : r \in rs}
MembersOfLayer == UNION {LayerMembers(r) : r \in LayerRelations}

\* Between two steps of the collect phase, what has been selected so far is
\* what LayerRead says it should be.
Decoded ==
    /\ pc = "decode" => spilled \subseteq DOMAIN job.file
    /\ pc # "decode" => spilled = DOMAIN job.file
RelationsSelected ==
    /\ pc \in {"relations", "restrict", "members"} => job.relations
    /\ pc \in {"decode", "relations"} => relations = {} /\ member_ids = {}
    /\ pc \in {"decode", "relations", "restrict", "members"} => relation_ways = {}
    /\ pc = "restrict" =>
         job.box /\ relations = MatchingRelations /\ member_ids = WaysOf(MatchingRelations)
    /\ pc = "members" => relations = Chosen /\ member_ids = WaysOf(Chosen)
    /\ pc \in {"ways", "points", "locate", "output", "stream"} =>
         /\ member_ids = WaysOf(Chosen)
         /\ relation_ways = MembersOfLayer
         /\ relations = IF MembersOfLayer = {} THEN {} ELSE Chosen
WaysSelected ==
    /\ pc \in {"points", "locate", "output", "stream"} => kept = StandaloneWays
    /\ pc \in {"locate", "output", "stream"} => node_features = PointNodes
    /\ pc \in {"output", "stream"} => located = Needed \cap IdsOf("node")
RowsWritten ==
    pc = "stream" =>
        /\ unwritten \subseteq kept
        /\ written = prepare_geodataframe(node_features, kept \ unwritten, {}, {}, located)
CollectInv ==
    /\ job \in Job /\ MembersApart
    /\ pc # "end" => frame = NotRead
    /\ Decoded /\ RelationsSelected /\ WaysSelected /\ RowsWritten

-----------------------------------------------------------------------------
(***************************************************************************)
(* Lemmas on the selection.                                                *)
(***************************************************************************)
\* Once all groups are decoded, the shards hold what the file holds.
LEMMA AllSpilled ==
    ASSUME spilled = DOMAIN job.file, NEW kind
    PROVE  Spilled(kind) = IdsOf(kind)
BY DEF Spilled, IdsOf

\* With a box, reaching into it is what LayerRead calls touching it.
LEMMA ReachesIsTouched ==
    ASSUME spilled = DOMAIN job.file, NEW w
    PROVE  /\ job.box => (ReachesBox(w) <=> Touched(w))
           /\ ~job.box => Touched(w)
BY AllSpilled, Zenon DEF ReachesBox, in_box, Touched

\* The box restricts the matching relations to those of the layer.
LEMMA RestrictedToLayer ==
    ASSUME spilled = DOMAIN job.file, job.relations, job.box,
           member_ids = WaysOf(MatchingRelations)
    PROVE  {r \in MatchingRelations : MemberWays(r) \cap MembersFound(TRUE) # {}} = LayerRelations
<1>1. Spilled("way") = IdsOf("way")
  BY AllSpilled
<1>2. ASSUME NEW r \in MatchingRelations
      PROVE  MemberWays(r) \cap MembersFound(TRUE) # {}
               <=> \E w \in PresentMembers(r) : Touched(w)
  <2>1. ASSUME NEW w \in MemberWays(r) \cap MembersFound(TRUE)
        PROVE  w \in PresentMembers(r) /\ Touched(w)
    BY <1>1, <2>1, ReachesIsTouched DEF MembersFound, PresentMembers
  <2>2. ASSUME NEW w \in PresentMembers(r), Touched(w)
        PROVE  w \in MemberWays(r) \cap MembersFound(TRUE)
    BY <1>1, <1>2, <2>2, ReachesIsTouched DEF MembersFound, PresentMembers, WaysOf
  <2>. QED BY <2>1, <2>2
<1>. QED BY <1>2 DEF MatchingRelations, LayerRelations

\* The member ways looked up are those the layer's relations are made from.
LEMMA MembersLookedUp ==
    ASSUME spilled = DOMAIN job.file, job.relations, member_ids = WaysOf(Chosen)
    PROVE  MembersFound(job.box /\ ~job.complete) = MembersOfLayer
<1>1. Spilled("way") = IdsOf("way")
  BY AllSpilled
<1>2. ASSUME NEW w \in MembersFound(job.box /\ ~job.complete)
      PROVE  w \in MembersOfLayer
  <2>1. PICK r \in Chosen : w \in MemberWays(r)
    BY <1>2 DEF MembersFound, WaysOf
  <2>2. w \in PresentMembers(r) /\ (Touched(w) \/ job.complete)
    BY <1>1, <1>2, <2>1, ReachesIsTouched DEF MembersFound, PresentMembers
  <2>3. r \in LayerRelations
    BY <2>1, <2>2, ReachesIsTouched DEF Chosen, MatchingRelations, LayerRelations
  <2>. QED BY <2>2, <2>3 DEF MembersOfLayer, LayerMembers
<1>3. ASSUME NEW w \in MembersOfLayer
      PROVE  w \in MembersFound(job.box /\ ~job.complete)
  <2>1. PICK r \in LayerRelations : w \in LayerMembers(r)
    BY <1>3 DEF MembersOfLayer
  <2>2. r \in Chosen
    BY <2>1 DEF Chosen, MatchingRelations, LayerRelations
  <2>3. w \in member_ids /\ w \in IdsOf("way") /\ (Touched(w) \/ job.complete)
    BY <2>1, <2>2 DEF LayerMembers, PresentMembers, WaysOf
  <2>. QED BY <1>1, <2>3, ReachesIsTouched DEF MembersFound
<1>. QED BY <1>2, <1>3

\* Leaving out the members of all relations the reader keeps, or of those of the
\* layer only, is the same.
LEMMA StandaloneSelected ==
    ASSUME spilled = DOMAIN job.file, member_ids = WaysOf(Chosen)
    PROVE  {w \in Spilled("way") \ member_ids :
              job.ways /\ Matches("way", w) /\ (job.box => ReachesBox(w))} = StandaloneWays
<1>1. Spilled("way") = IdsOf("way")
  BY AllSpilled
<1>2. ASSUME NEW w \in IdsOf("way"), Touched(w)
      PROVE  w \notin member_ids <=> \A r \in LayerRelations : w \notin MemberWays(r)
  <2>1. ASSUME NEW r \in LayerRelations, w \in MemberWays(r)
        PROVE  w \in member_ids
    BY <2>1 DEF WaysOf, Chosen, MatchingRelations, LayerRelations
  <2>2. ASSUME NEW r \in Chosen, w \in MemberWays(r)
        PROVE  r \in LayerRelations
    BY <1>2, <2>2 DEF Chosen, MatchingRelations, LayerRelations, PresentMembers
  <2>. QED BY <2>1, <2>2 DEF WaysOf
<1>3. \A w : job.box => (ReachesBox(w) <=> Touched(w))
  BY ReachesIsTouched
<1>4. \A w : ~job.box => Touched(w)
  BY ReachesIsTouched
<1>. QED BY <1>1, <1>2, <1>3, <1>4 DEF StandaloneWays

-----------------------------------------------------------------------------
(***************************************************************************)
(* Lemmas on the rows.                                                     *)
(***************************************************************************)
\* The parts written for points, for ways and for relations are the whole frame.
LEMMA FrameOfParts ==
    ASSUME NEW nodes, NEW ways, NEW rs, NEW relationWays, NEW at
    PROVE  prepare_geodataframe(nodes, ways, rs, relationWays, at) =
             prepare_geodataframe(nodes, ways, {}, {}, at)
               \cup prepare_geodataframe({}, {}, rs, relationWays, at)
<1>1. \A l : NodeRows({}) = {} /\ WayRows({}, l) = {}
  BY DEF NodeRows, WayRows
<1>2. \A l, rw : RelationRows({}, rw, l) = {}
  BY DEF RelationRows
<1>. QED BY <1>1, <1>2, RowOfFrame

\* So are the chunks of the ways.
LEMMA FrameOfChunks ==
    ASSUME NEW nodes, NEW done, NEW chunk, NEW at
    PROVE  prepare_geodataframe(nodes, done \cup chunk, {}, {}, at) =
             prepare_geodataframe(nodes, done, {}, {}, at)
               \cup prepare_geodataframe({}, chunk, {}, {}, at)
<1>1. NodeRows({}) = {} /\ RelationRows({}, {}, at) = {}
  BY DEF NodeRows, RelationRows
<1>2. \A row : row \in WayRows(done \cup chunk, at)
                 <=> row \in WayRows(done, at) \/ row \in WayRows(chunk, at)
  BY DEF WayRows
<1>. QED BY <1>1, <1>2, RowOfFrame

\* The needed nodes give every geometry of the selection all of its vertices.
LEMMA FrameFromNeeded ==
    ASSUME located = Needed \cap IdsOf("node")
    PROVE  prepare_geodataframe(node_features, kept, relations, relation_ways, located) =
             prepare_geodataframe(node_features, kept, relations, relation_ways, IdsOf("node"))
<1>1. \A w \in kept \cup relation_ways : job.refs[w] \cap IdsOf("node") \subseteq located
  BY DEF Needed
<1>2. \A ways \in SUBSET (kept \cup relation_ways) :
        Parts(ways, located) = Parts(ways, IdsOf("node"))
  BY <1>1, PartsNeedOwnNodes
<1>3. WayRows(kept, located) = WayRows(kept, IdsOf("node"))
  <2>1. \A w \in kept : {w} \in SUBSET (kept \cup relation_ways)
    OBVIOUS
  <2>. QED BY <1>2, <2>1 DEF WayRows
<1>4. RelationRows(relations, relation_ways, located)
        = RelationRows(relations, relation_ways, IdsOf("node"))
  <2>1. \A r : get_ways_for_relation(r, relation_ways) \in SUBSET (kept \cup relation_ways)
    BY DEF get_ways_for_relation
  <2>. QED BY <1>2, <2>1 DEF RelationRows
<1>. QED BY <1>3, <1>4 DEF prepare_geodataframe

\* A relation without a member way in the layer has no geometry and no row.
LEMMA NoRowWithoutMembers ==
    ASSUME job \in Job, MembersApart, NEW r \in Chosen, NEW at,
           r \notin LayerRelations \/ MembersOfLayer = {}
    PROVE  Parts(get_ways_for_relation(r, MembersOfLayer), at) = {}
<1>1. get_ways_for_relation(r, MembersOfLayer) = {}
  <2>1. CASE MembersOfLayer = {}
    BY <2>1 DEF get_ways_for_relation
  <2>2. CASE r \notin LayerRelations
    <3>1. ~job.box /\ job.relations /\ r \in MatchingRelations
      BY <2>2 DEF Chosen
    <3>2. PresentMembers(r) = {}
      BY <2>2, <3>1 DEF MatchingRelations, LayerRelations, Touched
    <3>3. MembersOfLayer \subseteq IdsOf("way")
      BY DEF MembersOfLayer, LayerMembers, PresentMembers
    <3>4. MemberIds(r) \cap IdsOf("way") \subseteq MemberWays(r)
      <4>1. r \in Id
        BY <3>1, IdsAreIds DEF MatchingRelations
      <4>. QED BY <4>1 DEF MembersApart
    <3>. QED BY <3>2, <3>3, <3>4 DEF get_ways_for_relation, PresentMembers
  <2>. QED BY <2>1, <2>2
<1>. QED BY <1>1 DEF Parts

\* What the reader selects is assembled into what LayerRead promises.
LEMMA FrameIsLayer ==
    ASSUME job \in Job, MembersApart,
           node_features = PointNodes, kept = StandaloneWays,
           relation_ways = MembersOfLayer,
           relations = IF MembersOfLayer = {} THEN {} ELSE Chosen
    PROVE  prepare_geodataframe(node_features, kept, relations, relation_ways, IdsOf("node"))
             = Layer
<1> DEFINE rowOf(r) == [kind |-> "relation", id |-> r,
                        parts |-> Parts(get_ways_for_relation(r, MembersOfLayer), IdsOf("node"))]
<1>1. \A r \in Chosen : (r \notin LayerRelations \/ MembersOfLayer = {}) => rowOf(r).parts = {}
  BY NoRowWithoutMembers
<1>2. LayerRelations \subseteq Chosen
  BY DEF Chosen, LayerRelations, MatchingRelations
<1>3. \A row : row.parts # {} =>
        (row \in RelationRows(relations, MembersOfLayer, IdsOf("node"))
           <=> row \in RelationRows(LayerRelations, MembersOfLayer, IdsOf("node")))
  <2>1. \A rs : RelationRows(rs, MembersOfLayer, IdsOf("node")) = {rowOf(r) : r \in rs}
    BY DEF RelationRows
  <2>. QED BY <1>1, <1>2, <2>1
<1>4. \A row :
        row \in prepare_geodataframe(PointNodes, StandaloneWays, relations, MembersOfLayer, IdsOf("node"))
          <=> row \in prepare_geodataframe(PointNodes, StandaloneWays, LayerRelations, MembersOfLayer,
                                          IdsOf("node"))
  BY <1>3 DEF prepare_geodataframe
<1>5. prepare_geodataframe(PointNodes, StandaloneWays, relations, MembersOfLayer, IdsOf("node"))
        = prepare_geodataframe(PointNodes, StandaloneWays, LayerRelations, MembersOfLayer, IdsOf("node"))
  BY <1>4 DEF prepare_geodataframe
<1>. QED BY <1>5 DEF Layer, MembersOfLayer

-----------------------------------------------------------------------------
(***************************************************************************)
(* The invariant.                                                          *)
(***************************************************************************)
\* A read does not change its extract.
LEMMA SameJob ==
    ASSUME job' = job
    PROVE  /\ (job \in Job)' = (job \in Job) /\ MembersApart' = MembersApart
           /\ MatchingRelations' = MatchingRelations /\ Chosen' = Chosen
           /\ WaysOf(MatchingRelations)' = WaysOf(MatchingRelations)
           /\ WaysOf(Chosen)' = WaysOf(Chosen)
           /\ MembersOfLayer' = MembersOfLayer /\ StandaloneWays' = StandaloneWays
           /\ PointNodes' = PointNodes /\ IdsOf("node")' = IdsOf("node")
BY DEF MembersApart, MatchingRelations, Chosen, WaysOf, MembersOfLayer, StandaloneWays,
       PointNodes, IdsOf, LayerRelations, LayerMembers, PresentMembers, Touched, Matches,
       MemberWays, MemberIds

LEMMA SameRows ==
    ASSUME job' = job
    PROVE  prepare_geodataframe(node_features, kept \ unwritten, {}, {}, located)'
             = prepare_geodataframe(node_features', kept' \ unwritten', {}, {}, located')
BY DEF prepare_geodataframe, NodeRows, WayRows, RelationRows, Parts, InBox, get_ways_for_relation,
       MemberIds

LEMMA InvInit == CollectInit /\ MembersApart => CollectInv
BY ExtractAssumption DEF CollectInit, Init, CollectInv, Decoded, RelationsSelected, WaysSelected,
   RowsWritten

LEMMA InvNext == CollectInv /\ [CollectNext]_vars => CollectInv'
<1>. SUFFICES ASSUME CollectInv, [CollectNext]_vars PROVE CollectInv'
  OBVIOUS
<1>1. job' = job
  BY DEF CollectNext, vars, selected, Decode, DecodeEnds, CollectRelations, RestrictRelations,
     CollectMembers, CollectWays, CollectNodes, FindNothing, LocateNodes, Assemble, StreamNodes,
     StreamWays, StreamRelations
<1>2. (job \in Job /\ MembersApart)'
  BY <1>1, SameJob DEF CollectInv
<1>3. ASSUME UNCHANGED vars PROVE CollectInv'
  <2>1. RowsWritten'
    BY <1>1, <1>3, SameRows DEF CollectInv, RowsWritten, vars, selected
  <2>2. WaysSelected'
    BY <1>1, <1>3, SameJob DEF CollectInv, WaysSelected, vars, selected, Needed
  <2>. QED BY <1>1, <1>2, <1>3, <2>1, <2>2, SameJob DEF CollectInv, Decoded, RelationsSelected, vars,
              selected
<1>4. ASSUME NEW i \in DOMAIN job.file, Decode(i) PROVE CollectInv'
  BY <1>1, <1>2, <1>4, SameJob
     DEF Decode, CollectInv, Decoded, RelationsSelected, WaysSelected, RowsWritten, selected
<1>5. ASSUME DecodeEnds PROVE CollectInv'
  <2>1. CASE job.relations
    BY <1>1, <1>2, <1>5, <2>1, SameJob
       DEF DecodeEnds, CollectInv, Decoded, RelationsSelected, WaysSelected, RowsWritten, selected
  <2>2. CASE ~job.relations
    <3>1. Chosen = {} /\ WaysOf(Chosen) = {} /\ MembersOfLayer = {}
      BY <2>2 DEF Chosen, WaysOf, MembersOfLayer, LayerRelations
    <3>. QED BY <1>1, <1>2, <1>5, <2>2, <3>1, SameJob
       DEF DecodeEnds, CollectInv, Decoded, RelationsSelected, WaysSelected, RowsWritten, selected
  <2>. QED BY <2>1, <2>2
<1>6. ASSUME CollectRelations PROVE CollectInv'
  <2>1. relations' = MatchingRelations /\ member_ids' = WaysOf(MatchingRelations)
    BY <1>6, AllSpilled DEF CollectRelations, CollectInv, Decoded, MatchingRelations, WaysOf
  <2>2. ~job.box => MatchingRelations = Chosen
    BY <1>6 DEF CollectRelations, CollectInv, RelationsSelected, Chosen
  <2>. QED BY <1>1, <1>2, <1>6, <2>1, <2>2, SameJob
       DEF CollectRelations, CollectInv, Decoded, RelationsSelected, WaysSelected, RowsWritten
<1>7. ASSUME RestrictRelations PROVE CollectInv'
  <2>1. relations' = Chosen
    BY <1>7, RestrictedToLayer
       DEF RestrictRelations, CollectInv, Decoded, RelationsSelected, Chosen
  <2>2. member_ids' = WaysOf(Chosen)
    BY <1>7, <2>1 DEF RestrictRelations, WaysOf
  <2>. QED BY <1>1, <1>2, <1>7, <2>1, <2>2, SameJob
       DEF RestrictRelations, CollectInv, Decoded, RelationsSelected, WaysSelected, RowsWritten
<1>8. ASSUME CollectMembers PROVE CollectInv'
  <2>1. relation_ways' = MembersOfLayer
    BY <1>8, MembersLookedUp DEF CollectMembers, CollectInv, Decoded, RelationsSelected
  <2>. QED BY <1>1, <1>2, <1>8, <2>1, SameJob
       DEF CollectMembers, CollectInv, Decoded, RelationsSelected, WaysSelected, RowsWritten
<1>9. ASSUME CollectWays PROVE CollectInv'
  <2>1. kept' = StandaloneWays
    BY <1>9, StandaloneSelected DEF CollectWays, CollectInv, Decoded, RelationsSelected
  <2>. QED BY <1>1, <1>2, <1>9, <2>1, SameJob
       DEF CollectWays, CollectInv, Decoded, RelationsSelected, WaysSelected, RowsWritten
<1>10. ASSUME CollectNodes PROVE CollectInv'
  <2>1. node_features' = PointNodes
    BY <1>10, AllSpilled DEF CollectNodes, CollectInv, Decoded, PointNodes
  <2>. QED BY <1>1, <1>2, <1>10, <2>1, SameJob
       DEF CollectNodes, CollectInv, Decoded, RelationsSelected, WaysSelected, RowsWritten
<1>11. ASSUME FindNothing PROVE CollectInv'
  BY <1>1, <1>2, <1>11, SameJob
     DEF FindNothing, CollectInv, Decoded, RelationsSelected, WaysSelected, RowsWritten
<1>12. ASSUME LocateNodes PROVE CollectInv'
  <2>1. located' = Needed \cap IdsOf("node")
    BY <1>12, AllSpilled DEF LocateNodes, CollectInv, Decoded
  <2>2. Needed' = Needed
    BY <1>1, <1>12 DEF LocateNodes, Needed
  <2>. QED BY <1>1, <1>2, <1>12, <2>1, <2>2, SameJob
       DEF LocateNodes, CollectInv, Decoded, RelationsSelected, WaysSelected, RowsWritten
<1>13. ASSUME Assemble PROVE CollectInv'
  BY <1>1, <1>2, <1>13, SameJob
     DEF Assemble, CollectInv, Decoded, RelationsSelected, WaysSelected, RowsWritten, selected
<1>14. ASSUME StreamNodes PROVE CollectInv'
  <2>1. RowsWritten'
    <3>1. kept' \ unwritten' = {}
      BY <1>14 DEF StreamNodes, selected
    <3>. QED BY <1>1, <1>14, <3>1, SameRows DEF StreamNodes, RowsWritten, selected
  <2>2. Needed' = Needed
    BY <1>1, <1>14 DEF StreamNodes, Needed, selected
  <2>. QED BY <1>1, <1>2, <1>14, <2>1, <2>2, SameJob
       DEF StreamNodes, CollectInv, Decoded, RelationsSelected, WaysSelected, selected
<1>15. ASSUME StreamWays PROVE CollectInv'
  <2>1. RowsWritten'
    <3>1. PICK chunk \in SUBSET unwritten :
            /\ written' = written \cup prepare_geodataframe({}, chunk, {}, {}, located)
            /\ unwritten' = unwritten \ chunk
      BY <1>15 DEF StreamWays
    <3>2. unwritten \subseteq kept
          /\ written = prepare_geodataframe(node_features, kept \ unwritten, {}, {}, located)
      BY <1>15 DEF StreamWays, CollectInv, RowsWritten
    <3>3. kept \ unwritten' = (kept \ unwritten) \cup chunk
      BY <3>1, <3>2
    <3>4. written' = prepare_geodataframe(node_features, kept \ unwritten', {}, {}, located)
      BY <3>1, <3>2, <3>3, FrameOfChunks
    <3>. QED BY <1>1, <1>15, <3>1, <3>2, <3>4, SameRows DEF StreamWays, RowsWritten, selected
  <2>2. Needed' = Needed
    BY <1>1, <1>15 DEF StreamWays, Needed, selected
  <2>. QED BY <1>1, <1>2, <1>15, <2>1, <2>2, SameJob
       DEF StreamWays, CollectInv, Decoded, RelationsSelected, WaysSelected, selected
<1>16. ASSUME StreamRelations PROVE CollectInv'
  BY <1>1, <1>2, <1>16, SameJob
     DEF StreamRelations, CollectInv, Decoded, RelationsSelected, WaysSelected, RowsWritten, selected
<1>. QED BY <1>3, <1>4, <1>5, <1>6, <1>7, <1>8, <1>9, <1>10, <1>11, <1>12, <1>13, <1>14, <1>15,
            <1>16 DEF CollectNext

\* On an extract whose ids are apart; the extract of a read does not change.
Collects == MembersApart => CollectInv

LEMMA CollectsNext == Collects /\ [CollectNext]_vars => Collects'
<1>. SUFFICES ASSUME Collects, [CollectNext]_vars, MembersApart' PROVE CollectInv'
  BY DEF Collects
<1>1. job' = job
  BY DEF CollectNext, vars, selected, Decode, DecodeEnds, CollectRelations, RestrictRelations,
     CollectMembers, CollectWays, CollectNodes, FindNothing, LocateNodes, Assemble, StreamNodes,
     StreamWays, StreamRelations
<1>2. CollectInv
  BY <1>1, SameJob DEF Collects
<1>. QED BY <1>2, InvNext

\* What has been selected is at every step what the layer consists of
\* (collect.py:583-649).
THEOREM CollectInvariant == CollectSpec => []Collects
<1>1. CollectInit => Collects
  BY InvInit DEF Collects
<1>. QED BY <1>1, CollectsNext, PTL DEF CollectSpec

-----------------------------------------------------------------------------
(***************************************************************************)
(* The refinement.                                                         *)
(***************************************************************************)
\* Every step of the reader leaves the frame alone or reads the layer, whole.
LEMMA StepReads == CollectInv /\ [CollectNext]_vars => [Read]_<<job, frame>>
<1>. SUFFICES ASSUME CollectInv, [CollectNext]_vars PROVE [Read]_<<job, frame>>
  OBVIOUS
<1>1. ASSUME pc \in {"output", "stream"}
      PROVE  /\ frame = NotRead
             /\ prepare_geodataframe(node_features, kept, relations, relation_ways, located) = Layer
  <2>1. frame = NotRead /\ job \in Job /\ MembersApart
    BY <1>1 DEF CollectInv
  <2>2. located = Needed \cap IdsOf("node")
    BY <1>1 DEF CollectInv, WaysSelected
  <2>3. node_features = PointNodes /\ kept = StandaloneWays
    BY <1>1 DEF CollectInv, WaysSelected
  <2>4. relation_ways = MembersOfLayer /\ relations = IF MembersOfLayer = {} THEN {} ELSE Chosen
    BY <1>1 DEF CollectInv, RelationsSelected
  <2>. QED BY <2>1, <2>2, <2>3, <2>4, FrameFromNeeded, FrameIsLayer
<1>2. CASE FindNothing
  <2>1. frame = NotRead /\ job \in Job /\ MembersApart
    BY <1>2 DEF FindNothing, CollectInv
  <2>2. node_features = PointNodes /\ kept = StandaloneWays
    BY <1>2 DEF FindNothing, CollectInv, WaysSelected
  <2>3. relation_ways = MembersOfLayer /\ relations = IF MembersOfLayer = {} THEN {} ELSE Chosen
    BY <1>2 DEF FindNothing, CollectInv, RelationsSelected
  <2>4. prepare_geodataframe({}, {}, {}, relation_ways, IdsOf("node")) = {}
    BY DEF prepare_geodataframe, NodeRows, WayRows, RelationRows
  <2>5. Layer = {}
    BY <1>2, <2>1, <2>2, <2>3, <2>4, FrameIsLayer DEF FindNothing, NothingFound
  <2>. QED BY <1>2, <2>1, <2>5 DEF FindNothing, Read
<1>3. CASE Assemble
  BY <1>1, <1>3 DEF Assemble, Read
<1>4. CASE StreamRelations
  <2>1. written = prepare_geodataframe(node_features, kept, {}, {}, located)
    <3>1. kept \ {} = kept
      OBVIOUS
    <3>. QED BY <1>4, <3>1 DEF StreamRelations, CollectInv, RowsWritten
  <2>. QED BY <1>1, <1>4, <2>1, FrameOfParts DEF StreamRelations, Read
<1>5. CASE UNCHANGED <<job, frame>>
  BY <1>5
<1>6. CollectNext => \/ FindNothing \/ Assemble \/ StreamRelations \/ UNCHANGED <<job, frame>>
  BY DEF CollectNext, Decode, DecodeEnds, CollectRelations, RestrictRelations, CollectMembers,
     CollectWays, CollectNodes, LocateNodes, StreamNodes, StreamWays
<1>. QED BY <1>2, <1>3, <1>4, <1>5, <1>6 DEF vars

\* The out-of-core reader implements the promise LayerRead makes, assembling or
\* streaming (collect.py:583-649, assemble.py:62-101, geoparquet.py:53-144).
THEOREM CollectsLayer == CollectSpec => CollectsTheLayer
<1>1. CollectInit => Init
  BY DEF CollectInit
<1>2. Collects /\ [CollectNext]_vars => [MembersApart => Read]_<<job, frame>>
  BY StepReads DEF Collects
<1>. QED BY <1>1, <1>2, CollectInvariant, PTL DEF CollectSpec, CollectsTheLayer

-----------------------------------------------------------------------------
(***************************************************************************)
(* Type correctness, with what it takes to keep located within Needed: no  *)
(* coordinates are gathered before the selection is final.                 *)
(***************************************************************************)
CollectTyped ==
    /\ CollectTypeOK
    /\ pc \notin {"output", "stream", "end"} => located = {}
    /\ pc # "end" => frame = NotRead
    /\ pc \notin {"stream", "end"} => unwritten = {}

LEMMA TypedInit == CollectInit => CollectTyped
BY ExtractAssumption DEF CollectInit, Init, CollectTyped, CollectTypeOK, FrameOK

LEMMA TypedNext == CollectTyped /\ [CollectNext]_vars => CollectTyped'
<1>. SUFFICES ASSUME CollectTyped, [CollectNext]_vars PROVE CollectTyped'
  OBVIOUS
<1>. USE DEF CollectTyped, CollectTypeOK
<1>1. \A kind : Spilled(kind) \subseteq Id
  <2>1. \A i \in spilled : job.file[i] \in Group
    BY DEF Job
  <2>. QED BY <2>1 DEF Spilled, Group
<1>2. located \subseteq Id
  BY DEF Needed, Job
<1>3. \A box : MembersFound(box) \subseteq Id
  BY DEF MembersFound
<1>4. CASE UNCHANGED vars
  BY <1>4 DEF vars, selected, Needed, FrameOK
<1>5. ASSUME NEW i \in DOMAIN job.file, Decode(i) PROVE CollectTyped'
  BY <1>5 DEF Decode, selected, Needed, FrameOK
<1>6. CASE DecodeEnds
  BY <1>6 DEF DecodeEnds, selected, Needed, FrameOK
<1>7. CASE CollectRelations
  <2>1. relations' \subseteq Id /\ member_ids' \subseteq Id
    BY <1>1, <1>7 DEF CollectRelations, MemberWays
  <2>. QED BY <1>7, <2>1 DEF CollectRelations, Needed, FrameOK
<1>8. CASE RestrictRelations
  <2>1. relations' \subseteq Id /\ member_ids' \subseteq Id
    BY <1>8 DEF RestrictRelations, MemberWays
  <2>. QED BY <1>8, <2>1 DEF RestrictRelations, Needed, FrameOK
<1>9. CASE CollectMembers
  BY <1>3, <1>9 DEF CollectMembers, FrameOK
<1>10. CASE CollectWays
  BY <1>1, <1>10 DEF CollectWays, FrameOK
<1>11. CASE CollectNodes
  BY <1>1, <1>11 DEF CollectNodes, Needed, FrameOK
<1>12. CASE FindNothing
  <2>1. FrameOK(Rows({}))
    BY ReadIsOK
  <2>. QED BY <1>12, <2>1 DEF FindNothing, selected, Needed, FrameOK
<1>13. CASE LocateNodes
  BY <1>13 DEF LocateNodes, Needed, FrameOK
<1>14. CASE Assemble
  <2>1. prepare_geodataframe(node_features, kept, relations, relation_ways, located) \in SUBSET Row
    BY <1>2, RowsTyped
  <2>2. FrameOK(frame')
    BY <1>14, <2>1, ReadIsOK DEF Assemble
  <2>. QED BY <1>14, <2>2 DEF Assemble, selected, Needed, FrameOK
<1>15. CASE StreamNodes
  <2>1. written' \subseteq Row
    BY <1>2, <1>15, RowsTyped DEF StreamNodes
  <2>. QED BY <1>15, <2>1 DEF StreamNodes, selected, Needed, FrameOK
<1>16. CASE StreamWays
  <2>1. PICK chunk \in SUBSET unwritten :
          /\ written' = written \cup prepare_geodataframe({}, chunk, {}, {}, located)
          /\ unwritten' = unwritten \ chunk
    BY <1>16 DEF StreamWays
  <2>2. prepare_geodataframe({}, chunk, {}, {}, located) \subseteq Row
    BY <1>2, RowsTyped
  <2>. QED BY <1>16, <2>1, <2>2 DEF StreamWays, selected, Needed, FrameOK
<1>17. CASE StreamRelations
  <2>1. prepare_geodataframe({}, {}, relations, relation_ways, located) \subseteq Row
    BY <1>2, RowsTyped
  <2>2. FrameOK(frame')
    <3>1. written \cup prepare_geodataframe({}, {}, relations, relation_ways, located) \in SUBSET Row
      BY <2>1
    <3>. QED BY <1>17, <3>1, ReadIsOK DEF StreamRelations
  <2>. QED BY <1>17, <2>2 DEF StreamRelations, selected, Needed, FrameOK
<1>. QED BY <1>4, <1>5, <1>6, <1>7, <1>8, <1>9, <1>10, <1>11, <1>12, <1>13, <1>14, <1>15, <1>16,
            <1>17 DEF CollectNext

\* Types, no more coordinates than the selection needs and no way streamed that
\* was not selected (collect.py:563-580), whatever the extract.
THEOREM CollectTypes == CollectSpec => []CollectTypeOK
<1>1. CollectTyped => CollectTypeOK
  BY DEF CollectTyped
<1>. QED BY <1>1, TypedInit, TypedNext, PTL DEF CollectSpec

-----------------------------------------------------------------------------
(***************************************************************************)
(* TagFilter: items and conditions.                                        *)
(***************************************************************************)
LEMMA ItemKinds ==
    ASSUME NEW i \in Item
    PROVE  /\ i.kind \in {"any", "text", "pattern"}
           /\ i.kind = "any" <=> i = AnyValue
           /\ i.kind = "text" => i = Text(i.text)
  BY DEF Item, AnyValue, Text

LEMMA TextIsItself ==
    ASSUME NEW v, NEW w
    PROVE  /\ Text(v) = Text(w) <=> v = w
           /\ Text(v) # AnyValue
           /\ Text(v).kind = "text" /\ Text(v).text = v /\ AnyValue.kind = "any"
  BY DEF Text, AnyValue

\* The two tests of a value agree on a list without patterns in which True stands alone.
LEMMA ItemsMatch ==
    ASSUME NEW items \in SUBSET Item, NEW v,
           \A i \in items : i.kind # "pattern",
           AnyValue \in items => items = {AnyValue}
    PROVE  /\ (Text(v) \in items \/ items = {AnyValue}) <=> \E i \in items : MeetsItem(v, i)
           /\ isin_check(v, items) <=> \E i \in items : MeetsItem(v, i)
  <1>1. \A i \in items : MeetsItem(v, i) <=> i = AnyValue \/ i = Text(v)
    <2> TAKE i \in items
    <2> QED
      BY ItemKinds, TextIsItself DEF MeetsItem
  <1> QED
    BY <1>1 DEF isin_check

LEMMA ConditionMeans ==
    ASSUME NEW c, c.operator \in Operators, NEW tags
    PROVE  ConditionMatches(c, tags) <=>
             LET has == c.key \in DOMAIN tags
             IN  \/ c.operator = "exists" /\ has
                 \/ c.operator = "nexists" /\ ~has
                 \/ c.operator = "eq" /\ has /\ tags[c.key] = c.value
                 \/ c.operator = "ne" /\ ~(has /\ tags[c.key] = c.value)
                 \/ c.operator = "regex" /\ has /\ tags[c.key] \in Search[c.value]
                 \/ c.operator = "nregex" /\ ~(has /\ tags[c.key] \in Search[c.value])
  <1>1. c.operator \in {"exists", "nexists", "eq", "ne", "regex", "nregex"}
    BY DEF Operators, PositiveOperators
  <1>2. CASE c.operator = "exists"
    BY <1>2 DEF ConditionMatches
  <1>3. CASE c.operator = "nexists"
    BY <1>3 DEF ConditionMatches
  <1>4. CASE c.operator = "eq"
    BY <1>4 DEF ConditionMatches, ValueMatches
  <1>5. CASE c.operator = "ne"
    BY <1>5 DEF ConditionMatches, ValueMatches
  <1>6. CASE c.operator = "regex"
    BY <1>6 DEF ConditionMatches, ValueMatches
  <1>7. CASE c.operator = "nregex"
    BY <1>7 DEF ConditionMatches, ValueMatches
  <1> QED
    BY <1>1, <1>2, <1>3, <1>4, <1>5, <1>6, <1>7

\* A condition that asks for something is met by an element with its key only.
LEMMA PositiveNeedsKey ==
    ASSUME NEW c, NEW tags, IsPositive(c), ConditionMatches(c, tags)
    PROVE  c.key \in DOMAIN tags
  <1>1. CASE c.operator = "exists"
    BY <1>1 DEF ConditionMatches
  <1>2. CASE c.operator \in {"eq", "regex"}
    BY <1>2 DEF ConditionMatches
  <1> QED
    BY <1>1, <1>2 DEF IsPositive, PositiveOperators

\* What the entry of a dict is compiled to means what the entry says.
LEMMA ConditionOfItem ==
    ASSUME NEW k, NEW i \in Item
    PROVE  /\ ConditionOf(k, i).key = k /\ IsPositive(ConditionOf(k, i))
           /\ \A tags : ConditionMatches(ConditionOf(k, i), tags)
                          <=> k \in DOMAIN tags /\ MeetsItem(tags[k], i)
  <1>1. CASE i.kind = "any"
    <2>1. ConditionOf(k, i) = Exists(k)
      BY <1>1 DEF ConditionOf
    <2> QED
      BY <1>1, <2>1 DEF Exists, IsPositive, PositiveOperators, ConditionMatches, ValueMatches, MeetsItem
  <1>2. CASE i.kind = "text"
    <2>1. ConditionOf(k, i) = [key |-> k, operator |-> "eq", value |-> i.text]
      BY <1>2 DEF ConditionOf
    <2> QED
      BY <1>2, <2>1 DEF IsPositive, PositiveOperators, ConditionMatches, ValueMatches, MeetsItem
  <1>3. CASE i.kind = "pattern"
    <2>1. ConditionOf(k, i) = [key |-> k, operator |-> "regex", value |-> i.pattern]
      BY <1>3 DEF ConditionOf
    <2> QED
      BY <1>3, <2>1 DEF IsPositive, PositiveOperators, ConditionMatches, ValueMatches, MeetsItem
  <1> QED
    BY <1>1, <1>2, <1>3, ItemKinds

-----------------------------------------------------------------------------
(***************************************************************************)
(* Filters that differ in nothing but whether a value is in a list.        *)
(***************************************************************************)
Alike(f, g) ==
    /\ IsFilter(f) /\ f.form = g.form /\ f.groups = g.groups
    /\ DOMAIN f.entries = DOMAIN g.entries
    /\ \A k \in DOMAIN g.entries : f.entries[k].items = g.entries[k].items

LEMMA EntriesOf ==
    ASSUME NEW f, IsFilter(f), NEW k \in DOMAIN f.entries
    PROVE  /\ f.form = "dict" /\ f.entries[k].items \in SUBSET Item /\ f.entries[k].bare \in BOOLEAN
           /\ f.entries[k] = [bare |-> f.entries[k].bare, items |-> f.entries[k].items]
  <1>1. CASE f.form = "dict"
    <2>1. f.entries \in [DOMAIN f.entries -> [bare : BOOLEAN, items : SUBSET Item]]
      BY <1>1 DEF IsFilter
    <2>2. f.entries[k] \in [bare : BOOLEAN, items : SUBSET Item]
      BY <2>1
    <2> QED
      BY <1>1, <2>2
  <1>2. CASE f.form = "brackets"
    <2>1. f.entries = <<>>
      BY <1>2 DEF IsFilter
    <2> QED
      BY <2>1
  <1> QED
    BY <1>1, <1>2 DEF IsFilter

LEMMA AlikePatterns ==
    ASSUME NEW f, NEW g, Alike(f, g)
    PROVE  /\ dict_has_regex(f) <=> dict_has_regex(g)
           /\ is_advanced_filter(f) <=> is_advanced_filter(g)
           /\ dict_to_groups(f) = dict_to_groups(g)
           /\ f.form \in {"dict", "brackets"}
  <1>1. \A k \in DOMAIN g.entries : HasPattern(f.entries[k]) <=> HasPattern(g.entries[k])
    BY DEF Alike, HasPattern
  <1>2. dict_has_regex(f) <=> dict_has_regex(g)
    BY <1>1 DEF Alike, dict_has_regex
  <1>3. \A k \in DOMAIN g.entries : {{ConditionOf(k, i)} : i \in f.entries[k].items}
                                     = {{ConditionOf(k, i)} : i \in g.entries[k].items}
    BY DEF Alike
  <1>4. dict_to_groups(f) = dict_to_groups(g)
    BY <1>3 DEF dict_to_groups, Alike
  <1> QED
    BY <1>2, <1>4 DEF is_advanced_filter, Alike, IsFilter

LEMMA InList ==
    \A a, b, r, v : r = [bare |-> a, items |-> b]
                      => [r EXCEPT !.bare = v] = [bare |-> v, items |-> b]
  OBVIOUS

LEMMA OtherEntries ==
    ASSUME NEW f, f = [form |-> f.form, entries |-> f.entries, groups |-> f.groups], NEW e
    PROVE  [f EXCEPT !.entries = e] = [form |-> f.form, entries |-> e, groups |-> f.groups]
  <1> DEFINE a == f.form
             b == f.entries
             c == f.groups
  <1>1. f = [form |-> a, entries |-> b, groups |-> c]
    OBVIOUS
  <1> HIDE DEF a, b, c
  <1>2. [f EXCEPT !.entries = e] = [form |-> a, entries |-> e, groups |-> c]
    BY <1>1
  <1> QED
    BY <1>2 DEF a, c

\* Some entries are put into lists.
Unwrap(f, keys) ==
    [f EXCEPT !.entries = [k \in DOMAIN f.entries |->
        IF k \in keys THEN [f.entries[k] EXCEPT !.bare = FALSE] ELSE f.entries[k]]]

LEMMA UnwrapAlike ==
    ASSUME NEW f, IsFilter(f), NEW keys
    PROVE  /\ Alike(Unwrap(f, keys), f)
           /\ \A k \in DOMAIN f.entries :
                BareText(Unwrap(f, keys).entries[k]) <=> k \notin keys /\ BareText(f.entries[k])
  <1> DEFINE e == [k \in DOMAIN f.entries |->
                      IF k \in keys THEN [f.entries[k] EXCEPT !.bare = FALSE] ELSE f.entries[k]]
  <1>1. \A k \in DOMAIN f.entries :
          /\ e[k] \in [bare : BOOLEAN, items : SUBSET Item]
          /\ e[k].items = f.entries[k].items
          /\ e[k].bare <=> k \notin keys /\ f.entries[k].bare
    <2> TAKE k \in DOMAIN f.entries
    <2> DEFINE a == f.entries[k].bare
               b == f.entries[k].items
               r == f.entries[k]
               no == FALSE
    <2>1. r = [bare |-> a, items |-> b] /\ a \in BOOLEAN /\ b \in SUBSET Item
      BY EntriesOf
    <2>2. CASE k \in keys
      <3>1. e[k] = [r EXCEPT !.bare = no]
        BY <2>2
      <3>2. r = [bare |-> a, items |-> b] => [r EXCEPT !.bare = no] = [bare |-> no, items |-> b]
        <4> HIDE DEF a, b, no, r, e
        <4> QED
          BY InList
      <3>3. e[k] = [bare |-> FALSE, items |-> b]
        BY <2>1, <3>1, <3>2
      <3> HIDE DEF e, b
      <3>4. e[k] \in [bare : BOOLEAN, items : SUBSET Item] /\ e[k].items = b /\ e[k].bare = FALSE
        BY <2>1, <3>3
      <3> QED
        BY <2>2, <3>4 DEF b
    <2>3. CASE k \notin keys
      <3>1. e[k] = r
        BY <2>3
      <3>2. r \in [bare : BOOLEAN, items : SUBSET Item] /\ r.items = b /\ r.bare = a
        <4> HIDE DEF r, a, b
        <4> QED
          BY <2>1
      <3> HIDE DEF e
      <3> QED
        BY <2>3, <3>1, <3>2
    <2> QED
      BY <2>2, <2>3
  <1>2. Unwrap(f, keys) = [form |-> f.form, entries |-> e, groups |-> f.groups]
    <2>1. Unwrap(f, keys) = [f EXCEPT !.entries = e]
      BY DEF Unwrap
    <2>2. f = [form |-> f.form, entries |-> f.entries, groups |-> f.groups]
      BY DEF IsFilter
    <2> HIDE DEF e
    <2> QED
      BY <2>1, <2>2, OtherEntries
  <1>3. DOMAIN e = DOMAIN f.entries /\ e = [k \in DOMAIN e |-> e[k]]
    OBVIOUS
  <1>4. f.form = "brackets" => e = <<>>
    <2> SUFFICES ASSUME f.form = "brackets" PROVE e = <<>>
      OBVIOUS
    <2>1. f.entries = <<>>
      BY DEF IsFilter
    <2> QED
      BY <2>1
  <1> HIDE DEF e
  <1>5. e \in [DOMAIN e -> [bare : BOOLEAN, items : SUBSET Item]]
    BY <1>1, <1>3
  <1> DEFINE g == Unwrap(f, keys)
  <1>6. g = [form |-> f.form, entries |-> e, groups |-> f.groups]
    BY <1>2
  <1>7. /\ f.form \in {"dict", "brackets"} /\ (f.form = "dict" => f.groups = {})
        /\ (f.form = "brackets" => \A c \in UNION f.groups : c.operator \in Operators)
    BY DEF IsFilter
  <1> HIDE DEF g
  <1>8. IsFilter(g)
    BY <1>4, <1>5, <1>6, <1>7 DEF IsFilter
  <1>9. /\ g.form = f.form /\ g.groups = f.groups /\ g.entries = e
    BY <1>6
  <1>10. Alike(g, f)
    BY <1>1, <1>3, <1>8, <1>9 DEF Alike
  <1>11. \A k \in DOMAIN f.entries :
           BareText(g.entries[k]) <=> k \notin keys /\ BareText(f.entries[k])
    BY <1>1, <1>9 DEF BareText
  <1> QED
    BY <1>10, <1>11 DEF g

LEMMA UnwrappedAlike ==
    ASSUME NEW f, IsFilter(f)
    PROVE  /\ Alike(Unwrapped(f), f)
           /\ \A k \in DOMAIN f.entries : ~BareText(Unwrapped(f).entries[k])
  <1>1. Unwrapped(f) = Unwrap(f, DOMAIN f.entries)
    BY DEF Unwrapped, Unwrap
  <1> QED
    BY <1>1, UnwrapAlike

LEMMA AlikeTrans ==
    ASSUME NEW f, NEW g, NEW h, Alike(f, g), Alike(g, h)
    PROVE  Alike(f, h)
  BY DEF Alike

-----------------------------------------------------------------------------
(***************************************************************************)
(* What the caller's filter means once it is validated.                    *)
(***************************************************************************)
\* The compiled form of a filter, or a dict without patterns.
Lowered(f) == IF f.form = "brackets" THEN f.groups ELSE dict_to_groups(f)
ValidatedAs(h, f) ==
    IF is_advanced_filter(f) THEN h = Compiled(Lowered(f)) ELSE Alike(h, f)

Accepts(h, tags) == IF h.form = "compiled" THEN CompiledMatches(h, tags) ELSE DictMatchesRecord(h, tags)
Gate(h) == get_data_filter_and_osm_keys(h)[2]

LEMMA DictMeans ==
    ASSUME NEW f, IsFilter(f), f.form = "dict", ~dict_has_regex(f), ~Mixed(f), NEW tags
    PROVE  /\ DictMatchesRecord(f, tags) <=> Meets(f, tags)
           /\ DictMatchesWay(f, tags) <=> Meets(f, tags)
  <1>1. ASSUME NEW k \in DOMAIN f.entries
        PROVE  /\ f.entries[k].items \in SUBSET Item
               /\ \A i \in f.entries[k].items : i.kind # "pattern"
               /\ AnyValue \in f.entries[k].items => f.entries[k].items = {AnyValue}
    BY EntriesOf DEF dict_has_regex, HasPattern, Mixed
  <1>2. \A k \in DOMAIN f.entries : \A v :
          /\ (Text(v) \in f.entries[k].items \/ f.entries[k].items = {AnyValue})
               <=> \E i \in f.entries[k].items : MeetsItem(v, i)
          /\ isin_check(v, f.entries[k].items) <=> \E i \in f.entries[k].items : MeetsItem(v, i)
    BY <1>1, ItemsMatch
  <1>3. f.groups = {}
    BY DEF IsFilter
  <1>4. Meets(f, tags) <=> \E k \in DOMAIN f.entries \cap DOMAIN tags :
                             \E i \in f.entries[k].items : MeetsItem(tags[k], i)
    BY <1>3 DEF Meets
  <1> QED
    BY <1>2, <1>4 DEF DictMatchesRecord, DictMatchesWay

LEMMA CompiledIs ==
    ASSUME NEW groups
    PROVE  /\ Compiled(groups).form = "compiled" /\ Compiled(groups).groups = groups
           /\ Compiled(groups).entries = <<>> /\ DOMAIN Compiled(groups).entries = {}
           /\ KeysOf(Compiled(groups)) = {c.key : c \in UNION groups}
           /\ Gate(Compiled(groups)) = {c.key : c \in {d \in UNION groups : IsPositive(d)}}
  BY DEF Compiled, KeysOf, Gate, get_data_filter_and_osm_keys, positive_keys

LEMMA BracketsMean ==
    ASSUME NEW f, IsFilter(f), f.form = "brackets", NEW tags
    PROVE  CompiledMatches(Compiled(f.groups), tags) <=> Meets(f, tags)
  <1>1. DOMAIN f.entries = {} /\ \A c \in UNION f.groups : c.operator \in Operators
    BY DEF IsFilter
  <1>2. \A g \in f.groups : \A c \in g : c.operator \in Operators
    BY <1>1
  <1>3. CompiledMatches(Compiled(f.groups), tags)
          <=> \E g \in f.groups : \A c \in g : ConditionMatches(c, tags)
    BY CompiledIs DEF CompiledMatches
  <1>4. \A g \in f.groups : \A c \in g :
          ConditionMatches(c, tags) <=>
            LET has == c.key \in DOMAIN tags
            IN  \/ c.operator = "exists" /\ has
                \/ c.operator = "nexists" /\ ~has
                \/ c.operator = "eq" /\ has /\ tags[c.key] = c.value
                \/ c.operator = "ne" /\ ~(has /\ tags[c.key] = c.value)
                \/ c.operator = "regex" /\ has /\ tags[c.key] \in Search[c.value]
                \/ c.operator = "nregex" /\ ~(has /\ tags[c.key] \in Search[c.value])
    BY <1>2, ConditionMeans
  <1> QED
    BY <1>1, <1>3, <1>4 DEF Meets

\* A dict with patterns is compiled to groups of one condition.
LEMMA GroupsOfDict ==
    ASSUME NEW f, NEW g
    PROVE  g \in dict_to_groups(f)
             <=> \E k \in DOMAIN f.entries : \E i \in f.entries[k].items : g = {ConditionOf(k, i)}
  BY DEF dict_to_groups

LEMMA ConditionsOfDict ==
    ASSUME NEW f, NEW c
    PROVE  c \in UNION dict_to_groups(f)
             <=> \E k \in DOMAIN f.entries : \E i \in f.entries[k].items : c = ConditionOf(k, i)
  <1>1. ASSUME c \in UNION dict_to_groups(f)
        PROVE  \E k \in DOMAIN f.entries : \E i \in f.entries[k].items : c = ConditionOf(k, i)
    <2>1. PICK g \in dict_to_groups(f) : c \in g
      BY <1>1
    <2>a. PICK k \in DOMAIN f.entries : \E i \in f.entries[k].items : g = {ConditionOf(k, i)}
      BY GroupsOfDict
    <2>2. PICK i \in f.entries[k].items : g = {ConditionOf(k, i)}
      BY <2>a
    <2> QED
      BY <2>1, <2>2
  <1>2. ASSUME NEW k \in DOMAIN f.entries, NEW i \in f.entries[k].items
        PROVE  ConditionOf(k, i) \in UNION dict_to_groups(f)
    <2>1. {ConditionOf(k, i)} \in dict_to_groups(f)
      BY GroupsOfDict
    <2> QED
      BY <2>1
  <1> QED
    BY <1>1, <1>2

LEMMA PatternsMean ==
    ASSUME NEW f, IsFilter(f), f.form = "dict", NEW tags
    PROVE  CompiledMatches(Compiled(dict_to_groups(f)), tags) <=> Meets(f, tags)
  <1>1. CompiledMatches(Compiled(dict_to_groups(f)), tags)
          <=> \E g \in dict_to_groups(f) : \A c \in g : ConditionMatches(c, tags)
    BY CompiledIs DEF CompiledMatches
  <1>2. (\E g \in dict_to_groups(f) : \A c \in g : ConditionMatches(c, tags))
          <=> \E k \in DOMAIN f.entries : \E i \in f.entries[k].items :
                ConditionMatches(ConditionOf(k, i), tags)
    <2>1. ASSUME NEW g \in dict_to_groups(f), \A c \in g : ConditionMatches(c, tags)
          PROVE  \E k \in DOMAIN f.entries : \E i \in f.entries[k].items :
                    ConditionMatches(ConditionOf(k, i), tags)
      <3>a. PICK k \in DOMAIN f.entries : \E i \in f.entries[k].items : g = {ConditionOf(k, i)}
        BY GroupsOfDict
      <3>1. PICK i \in f.entries[k].items : g = {ConditionOf(k, i)}
        BY <3>a
      <3>2. ConditionMatches(ConditionOf(k, i), tags)
        BY <2>1, <3>1
      <3> QED
        BY <3>2
    <2>2. ASSUME NEW k \in DOMAIN f.entries, NEW i \in f.entries[k].items,
                 ConditionMatches(ConditionOf(k, i), tags)
          PROVE  \E g \in dict_to_groups(f) : \A c \in g : ConditionMatches(c, tags)
      <3>1. {ConditionOf(k, i)} \in dict_to_groups(f)
        BY GroupsOfDict
      <3>2. \A c \in {ConditionOf(k, i)} : ConditionMatches(c, tags)
        BY <2>2
      <3> QED
        BY <3>1, <3>2
    <2> QED
      BY <2>1, <2>2
  <1>3. \A k \in DOMAIN f.entries : \A i \in f.entries[k].items :
          ConditionMatches(ConditionOf(k, i), tags) <=> k \in DOMAIN tags /\ MeetsItem(tags[k], i)
    <2>1. \A k \in DOMAIN f.entries : f.entries[k].items \in SUBSET Item
      BY EntriesOf
    <2> QED
      BY <2>1, ConditionOfItem
  <1>4. f.groups = {}
    BY DEF IsFilter
  <1>5. Meets(f, tags) <=> \E k \in DOMAIN f.entries \cap DOMAIN tags :
                             \E i \in f.entries[k].items : MeetsItem(tags[k], i)
    BY <1>4 DEF Meets
  <1> QED
    BY <1>1, <1>2, <1>3, <1>5

LEMMA PatternKeys ==
    ASSUME NEW f, IsFilter(f), f.form = "dict", dict_has_regex(f)
    PROVE  /\ KeysOf(Compiled(dict_to_groups(f))) = Named(f)
           /\ Gate(Compiled(dict_to_groups(f))) = AskedFor(f)
  <1> DEFINE keys == {k \in DOMAIN f.entries : f.entries[k].items # {}}
             conditions == UNION dict_to_groups(f)
  <1>1. \A k \in DOMAIN f.entries : \A i \in f.entries[k].items :
          ConditionOf(k, i).key = k /\ IsPositive(ConditionOf(k, i))
    <2>1. \A k \in DOMAIN f.entries : f.entries[k].items \in SUBSET Item
      BY EntriesOf
    <2> QED
      BY <2>1, ConditionOfItem
  <1>2. \A c \in conditions : IsPositive(c) /\ c.key \in keys
    BY <1>1, ConditionsOfDict
  <1>3. \A k \in keys : \E c \in conditions : c.key = k
    BY <1>1, ConditionsOfDict
  <1>4. Named(f) = keys /\ AskedFor(f) = keys
    <2>1. f.groups = {}
      BY DEF IsFilter
    <2>2. Listed(f) = keys
      BY DEF Listed
    <2> QED
      BY <2>1, <2>2 DEF Named, AskedFor
  <1>5. {c.key : c \in conditions} = keys /\ {d \in conditions : IsPositive(d)} = conditions
    <2> HIDE DEF keys, conditions
    <2> QED
      BY <1>2, <1>3
  <1> QED
    BY <1>4, <1>5, CompiledIs

LEMMA HeldMeans ==
    ASSUME NEW f, IsFilter(f), ~(f.form = "dict" /\ Mixed(f)),
           NEW h, ValidatedAs(h, f), NEW tags
    PROVE  /\ Accepts(h, tags) <=> Meets(f, tags)
           /\ h.form # "compiled" => (DictMatchesWay(h, tags) <=> Meets(f, tags))
  <1>1. CASE f.form = "brackets"
    <2>1. h = Compiled(f.groups)
      BY <1>1 DEF ValidatedAs, is_advanced_filter, Lowered
    <2> QED
      BY <1>1, <2>1, BracketsMean, CompiledIs DEF Accepts
  <1>2. CASE f.form = "dict" /\ dict_has_regex(f)
    <2>1. h = Compiled(dict_to_groups(f))
      BY <1>2 DEF ValidatedAs, is_advanced_filter, Lowered
    <2> QED
      BY <1>2, <2>1, PatternsMean, CompiledIs DEF Accepts
  <1>3. CASE f.form = "dict" /\ ~dict_has_regex(f)
    <2>1. Alike(h, f)
      BY <1>3 DEF ValidatedAs, is_advanced_filter
    <2>2. IsFilter(h) /\ h.form = "dict" /\ ~dict_has_regex(h)
      BY <1>3, <2>1, AlikePatterns DEF Alike
    <2>3. ~Mixed(h)
      BY <1>3, <2>1 DEF Mixed, Alike, HasPattern
    <2>4. Meets(h, tags) <=> Meets(f, tags)
      BY <2>1 DEF Meets, Alike
    <2> QED
      BY <2>2, <2>3, <2>4, DictMeans DEF Accepts
  <1> QED
    BY <1>1, <1>2, <1>3 DEF IsFilter

LEMMA HeldKeys ==
    ASSUME NEW f, IsFilter(f), NEW h, ValidatedAs(h, f)
    PROVE  KeysOf(h) = Named(f) /\ Gate(h) = AskedFor(f)
  <1>1. CASE f.form = "brackets"
    <2>1. h = Compiled(f.groups)
      BY <1>1 DEF ValidatedAs, is_advanced_filter, Lowered
    <2>2. Listed(f) = {}
      BY <1>1 DEF Listed, IsFilter
    <2> QED
      BY <2>1, <2>2, CompiledIs DEF Named, AskedFor, IsPositive, PositiveOperators
  <1>2. CASE f.form = "dict" /\ dict_has_regex(f)
    <2>1. h = Compiled(dict_to_groups(f))
      BY <1>2 DEF ValidatedAs, is_advanced_filter, Lowered
    <2> QED
      BY <1>2, <2>1, PatternKeys
  <1>3. CASE f.form = "dict" /\ ~dict_has_regex(f)
    <2>1. Alike(h, f)
      BY <1>3 DEF ValidatedAs, is_advanced_filter
    <2>2. f.groups = {} /\ h.groups = {} /\ h.form # "compiled" /\ DOMAIN h.entries = DOMAIN f.entries
      BY <1>3, <2>1 DEF Alike, IsFilter
    <2>3. Listed(f) = DOMAIN f.entries
      BY <1>3 DEF Listed
    <2> QED
      BY <2>2, <2>3 DEF KeysOf, Gate, get_data_filter_and_osm_keys, Named, AskedFor
  <1> QED
    BY <1>1, <1>2, <1>3 DEF IsFilter

\* What meets a filter that is not rejected has a key that the filter asks for.
LEMMA GateIsSound ==
    ASSUME NEW f, IsFilter(f), ~ValidateRaises(f), NEW tags, Meets(f, tags)
    PROVE  DOMAIN tags \cap AskedFor(f) # {}
  <1>1. CASE f.form = "brackets"
    <2>1. DOMAIN f.entries = {}
      BY <1>1 DEF IsFilter
    <2>2. CompiledMatches(Compiled(f.groups), tags)
      BY <1>1, BracketsMean
    <2>3. PICK g \in f.groups : \A c \in g : ConditionMatches(c, tags)
      BY <2>2, CompiledIs DEF CompiledMatches
    <2>4. PICK c \in g : IsPositive(c)
      BY <1>1 DEF ValidateRaises, CompileRaises
    <2>5. c.key \in DOMAIN tags
      BY <2>3, <2>4, PositiveNeedsKey
    <2>6. c.key \in AskedFor(f)
      BY <2>4 DEF AskedFor, IsPositive, PositiveOperators
    <2> QED
      BY <2>5, <2>6
  <1>2. CASE f.form = "dict"
    <2>1. f.groups = {}
      BY <1>2 DEF IsFilter
    <2>2. PICK k \in DOMAIN f.entries \cap DOMAIN tags : \E i \in f.entries[k].items : MeetsItem(tags[k], i)
      BY <2>1 DEF Meets
    <2>3. k \in AskedFor(f)
      BY <2>2 DEF AskedFor, Listed
    <2> QED
      BY <2>2, <2>3
  <1> QED
    BY <1>1, <1>2 DEF IsFilter

-----------------------------------------------------------------------------
(***************************************************************************)
(* Completing it with the key of a layer.                                  *)
(***************************************************************************)
LEMMA OrRequireMeans ==
    ASSUME NEW groups, NEW key, NEW tags
    PROVE  LET h == Compiled(groups)
               with == ensure_filter_key(h, key)
           IN  /\ with.form = "compiled"
               /\ Accepts(with, tags) <=> Accepts(h, tags) \/ (key \in DOMAIN tags /\ key \notin KeysOf(h))
               /\ Gate(with) = Gate(h) \cup ({key} \ KeysOf(h))
  <1> DEFINE h == Compiled(groups)
             with == ensure_filter_key(h, key)
  <1>1. with = IF key \in KeysOf(h) THEN h ELSE Compiled(groups \cup {{Exists(key)}})
    BY CompiledIs DEF ensure_filter_key, or_require
  <1>2. CASE key \in KeysOf(h)
    <2>1. with = h
      BY <1>1, <1>2
    <2> QED
      BY <1>2, <2>1, CompiledIs
  <1>3. CASE key \notin KeysOf(h)
    <2> DEFINE more == groups \cup {{Exists(key)}}
    <2>1. with = Compiled(more)
      BY <1>1, <1>3
    <2>2. Exists(key).key = key /\ IsPositive(Exists(key))
          /\ (ConditionMatches(Exists(key), tags) <=> key \in DOMAIN tags)
      BY DEF Exists, IsPositive, PositiveOperators, ConditionMatches
    <2>3. \A g \in more : (\A c \in g : ConditionMatches(c, tags))
            => (\E a \in groups : \A c \in a : ConditionMatches(c, tags)) \/ key \in DOMAIN tags
      BY <2>2
    <2>4. key \in DOMAIN tags => \E g \in more : \A c \in g : ConditionMatches(c, tags)
      <3>1. {Exists(key)} \in more
        OBVIOUS
      <3>2. key \in DOMAIN tags => \A c \in {Exists(key)} : ConditionMatches(c, tags)
        BY <2>2
      <3> QED
        BY <3>1, <3>2
    <2>5. (\E a \in groups : \A c \in a : ConditionMatches(c, tags))
            => \E g \in more : \A c \in g : ConditionMatches(c, tags)
      OBVIOUS
    <2>6. CompiledMatches(with, tags) <=> CompiledMatches(h, tags) \/ key \in DOMAIN tags
      <3>1. with.groups = more /\ h.groups = groups
        BY <2>1, CompiledIs
      <3> HIDE DEF with, h, more
      <3> QED
        BY <2>3, <2>4, <2>5, <3>1 DEF CompiledMatches
    <2>7. {d \in UNION more : IsPositive(d)} = {d \in UNION groups : IsPositive(d)} \cup {Exists(key)}
      BY <2>2
    <2>8. Gate(with) = Gate(h) \cup {key}
      BY <2>1, <2>2, <2>7, CompiledIs
    <2> QED
      BY <1>3, <2>1, <2>6, <2>8, CompiledIs DEF Accepts
  <1> QED
    BY <1>2, <1>3

LEMMA WithKeyMeans ==
    ASSUME NEW h, IsFilter(h), h.form = "dict", NEW key, NEW tags
    PROVE  LET with == ensure_filter_key(h, key)
               also == key \in DOMAIN tags /\ key \notin DOMAIN h.entries
           IN  /\ with.form = "dict"
               /\ DictMatchesRecord(with, tags) <=> DictMatchesRecord(h, tags) \/ also
               /\ DictMatchesWay(with, tags) <=> DictMatchesWay(h, tags) \/ also
               /\ DOMAIN with.entries = DOMAIN h.entries \cup {key} /\ with.groups = {}
  <1> DEFINE with == ensure_filter_key(h, key)
  <1>1. h.groups = {}
    BY DEF IsFilter
  <1>2. CASE key \in DOMAIN h.entries
    <2>1. with = h
      BY <1>2 DEF ensure_filter_key
    <2> QED
      BY <1>1, <1>2, <2>1
  <1>3. CASE key \notin DOMAIN h.entries
    <2> DEFINE any == [bare |-> FALSE, items |-> {AnyValue}]
               e == [k \in DOMAIN h.entries \cup {key} |-> IF k = key THEN any ELSE h.entries[k]]
    <2>1. with = [form |-> h.form, entries |-> e, groups |-> h.groups]
      <3>1. with = [h EXCEPT !.entries = e]
        BY <1>3 DEF ensure_filter_key, WithKey
      <3>2. h = [form |-> h.form, entries |-> h.entries, groups |-> h.groups]
        BY DEF IsFilter
      <3> HIDE DEF e
      <3> QED
        BY <3>1, <3>2, OtherEntries
    <2>2. e[key].items = {AnyValue} /\ \A k \in DOMAIN h.entries : e[k] = h.entries[k]
      BY <1>3
    <2>3. DOMAIN e = DOMAIN h.entries \cup {key}
      OBVIOUS
    <2> HIDE DEF e
    <2>4. with.entries = e /\ with.form = "dict" /\ with.groups = {}
      BY <1>1, <2>1
    <2> HIDE DEF with
    <2>5. DictMatchesRecord(with, tags) <=> DictMatchesRecord(h, tags) \/ key \in DOMAIN tags
      BY <1>3, <2>2, <2>3, <2>4 DEF DictMatchesRecord
    <2>6. DictMatchesWay(with, tags) <=> DictMatchesWay(h, tags) \/ key \in DOMAIN tags
      BY <1>3, <2>2, <2>3, <2>4 DEF DictMatchesWay, isin_check
    <2> QED
      BY <1>3, <2>3, <2>4, <2>5, <2>6 DEF with
  <1> QED
    BY <1>2, <1>3

-----------------------------------------------------------------------------
(***************************************************************************)
(* The tests of a layer.                                                   *)
(***************************************************************************)
\* A filter that selects an element with these tags if and only if m holds.
Selects(h, tags, m) ==
    /\ h.form \in {"compiled", "dict"}
    /\ DOMAIN tags \cap Gate(h) # {} /\ Accepts(h, tags) <=> m
    /\ h.form = "dict" => (DOMAIN tags \cap Gate(h) # {} /\ DictMatchesWay(h, tags) <=> m)
    /\ h.form = "dict" /\ KeysOf(h) = {} => Gate(h) = {}

LEMMA ValidatedForm ==
    ASSUME NEW f, IsFilter(f), NEW h, ValidatedAs(h, f)
    PROVE  \/ \E groups : h = Compiled(groups)
           \/ IsFilter(h) /\ h.form = "dict"
  <1>1. CASE is_advanced_filter(f)
    BY <1>1 DEF ValidatedAs
  <1>2. CASE ~is_advanced_filter(f)
    BY <1>2 DEF ValidatedAs, is_advanced_filter, Alike, IsFilter
  <1> QED
    BY <1>1, <1>2

LEMMA KeysOfDict ==
    ASSUME NEW h, h.form = "dict", h.groups = {}
    PROVE  Gate(h) = DOMAIN h.entries /\ KeysOf(h) = DOMAIN h.entries
  BY DEF Gate, get_data_filter_and_osm_keys, KeysOf

LEMMA HeldSelects ==
    ASSUME NEW f, IsFilter(f), ~ValidateRaises(f), ~(f.form = "dict" /\ Mixed(f)),
           NEW h, ValidatedAs(h, f), NEW tags
    PROVE  Selects(h, tags, Meets(f, tags))
  <1>1. h.form \in {"compiled", "dict"} /\ (h.form = "dict" => h.groups = {})
    BY ValidatedForm, CompiledIs DEF IsFilter
  <1>2. Meets(f, tags) => DOMAIN tags \cap Gate(h) # {}
    BY HeldKeys, GateIsSound
  <1> QED
    BY <1>1, <1>2, HeldMeans, KeysOfDict DEF Selects

LEMMA CompletedSelects ==
    ASSUME NEW f, IsFilter(f), ~ValidateRaises(f), ~(f.form = "dict" /\ Mixed(f)),
           NEW h, ValidatedAs(h, f), NEW key, NEW tags
    PROVE  Selects(ensure_filter_key(h, key), tags,
                   Meets(f, tags) \/ (key \in DOMAIN tags /\ key \notin Named(f)))
  <1> DEFINE with == ensure_filter_key(h, key)
             also == key \in DOMAIN tags /\ key \notin Named(f)
  <1>1. KeysOf(h) = Named(f) /\ (Meets(f, tags) => DOMAIN tags \cap Gate(h) # {})
    BY HeldKeys, GateIsSound
  <1>2. CASE \E groups : h = Compiled(groups)
    <2>1. h.form = "compiled"
      BY <1>2, CompiledIs
    <2>2. with.form = "compiled"
      BY <1>2, OrRequireMeans
    <2>3. Accepts(with, tags) <=> Meets(f, tags) \/ also
      BY <1>1, <1>2, HeldMeans, OrRequireMeans
    <2>4. Gate(with) = Gate(h) \cup ({key} \ KeysOf(h))
      BY <1>2, OrRequireMeans
    <2> HIDE DEF with
    <2>5. DOMAIN tags \cap Gate(with) # {} /\ Accepts(with, tags) <=> Meets(f, tags) \/ also
      BY <1>1, <2>3, <2>4
    <2> HIDE DEF also
    <2>6. Selects(with, tags, Meets(f, tags) \/ also)
      BY <2>2, <2>5 DEF Selects
    <2> QED
      BY <2>6 DEF with, also
  <1>3. CASE IsFilter(h) /\ h.form = "dict"
    <2>1. h.groups = {} /\ Gate(h) = DOMAIN h.entries /\ KeysOf(h) = DOMAIN h.entries
      BY <1>3, KeysOfDict DEF IsFilter
    <2>2. with.form = "dict" /\ with.groups = {} /\ DOMAIN with.entries = DOMAIN h.entries \cup {key}
      BY <1>3, WithKeyMeans
    <2>3. /\ DictMatchesRecord(with, tags) <=> DictMatchesRecord(h, tags) \/ also
          /\ DictMatchesWay(with, tags) <=> DictMatchesWay(h, tags) \/ also
      BY <1>1, <1>3, <2>1, WithKeyMeans
    <2>4. /\ DictMatchesRecord(h, tags) <=> Meets(f, tags)
          /\ DictMatchesWay(h, tags) <=> Meets(f, tags)
      BY <1>3, HeldMeans DEF Accepts
    <2>5. Gate(with) = Gate(h) \cup {key}
      BY <2>1, <2>2, KeysOfDict
    <2> HIDE DEF with
    <2>6. /\ DOMAIN tags \cap Gate(with) # {} /\ Accepts(with, tags) <=> Meets(f, tags) \/ also
          /\ DOMAIN tags \cap Gate(with) # {} /\ DictMatchesWay(with, tags) <=> Meets(f, tags) \/ also
      BY <1>1, <2>2, <2>3, <2>4, <2>5 DEF Accepts
    <2>7. KeysOf(with) # {}
      BY <2>2 DEF KeysOf
    <2> HIDE DEF also
    <2>8. Selects(with, tags, Meets(f, tags) \/ also)
      BY <2>2, <2>6, <2>7 DEF Selects
    <2> QED
      BY <2>8 DEF with, also
  <1> QED
    BY <1>2, <1>3, ValidatedForm

\* A dict of one list for each key, each with one item that is no pattern.
LEMMA PlainDict ==
    ASSUME NEW f, f = [form |-> f.form, entries |-> f.entries, groups |-> f.groups],
           f.form = "dict", f.groups = {},
           f.entries \in [DOMAIN f.entries -> [bare : BOOLEAN, items : SUBSET Item]],
           \A k \in DOMAIN f.entries : /\ f.entries[k].bare = FALSE
                                      /\ \E i \in Item : i.kind # "pattern" /\ f.entries[k].items = {i}
    PROVE  IsFilter(f) /\ ~ValidateRaises(f) /\ ~Mixed(f) /\ ValidatedAs(f, f)
  <1>1. IsFilter(f)
    BY DEF IsFilter
  <1>2. ~dict_has_regex(f)
    BY DEF dict_has_regex, HasPattern
  <1>3. ~ValidateRaises(f)
    BY <1>2 DEF ValidateRaises, CompileRaises, BareText
  <1>4. ~Mixed(f)
    BY DEF Mixed
  <1>5. ValidatedAs(f, f)
    BY <1>1, <1>2 DEF ValidatedAs, is_advanced_filter, Alike
  <1> QED
    BY <1>1, <1>3, <1>4, <1>5

LEMMA DictOfIs ==
    ASSUME NEW keys, NEW i \in Item, i.kind # "pattern"
    PROVE  LET f == DictOf(keys, {i})
           IN  /\ IsFilter(f) /\ ~ValidateRaises(f) /\ ~Mixed(f) /\ ValidatedAs(f, f) /\ f.groups = {}
               /\ f.form = "dict" /\ DOMAIN f.entries = keys /\ \A k \in keys : f.entries[k].items = {i}
  <1> DEFINE e == [k \in keys |-> [bare |-> FALSE, items |-> {i}]]
             f == DictOf(keys, {i})
  <1>1. \A k \in keys : e[k].bare = FALSE /\ e[k].items = {i} /\ e[k] \in [bare : BOOLEAN, items : SUBSET Item]
    OBVIOUS
  <1>2. DOMAIN e = keys /\ e = [k \in keys |-> e[k]]
    OBVIOUS
  <1>3. f = [None EXCEPT !.form = "dict", !.entries = e]
    BY DEF DictOf
  <1> HIDE DEF e, f
  <1>4. f = [form |-> "dict", entries |-> e, groups |-> {}]
    BY <1>3 DEF None
  <1>5. f.form = "dict" /\ f.entries = e /\ f.groups = {}
    BY <1>4
  <1>6. f = [form |-> f.form, entries |-> f.entries, groups |-> f.groups]
    BY <1>4, <1>5
  <1>7. e \in [DOMAIN e -> [bare : BOOLEAN, items : SUBSET Item]]
    BY <1>1, <1>2
  <1>8. IsFilter(f) /\ ~ValidateRaises(f) /\ ~Mixed(f) /\ ValidatedAs(f, f)
    BY <1>1, <1>2, <1>5, <1>6, <1>7, PlainDict
  <1> QED
    BY <1>1, <1>2, <1>5, <1>8 DEF f

LEMMA AnyOfSelects ==
    ASSUME NEW keys, NEW tags
    PROVE  Selects(AnyOf(keys), tags, DOMAIN tags \cap keys # {})
  <1> DEFINE f == AnyOf(keys)
  <1>1. AnyValue \in Item /\ AnyValue.kind # "pattern" /\ f = DictOf(keys, {AnyValue})
    BY DEF Item, AnyValue, AnyOf
  <1>2. /\ IsFilter(f) /\ ~ValidateRaises(f) /\ ~Mixed(f) /\ ValidatedAs(f, f) /\ f.groups = {}
        /\ DOMAIN f.entries = keys /\ \A k \in keys : f.entries[k].items = {AnyValue}
    BY <1>1, DictOfIs
  <1> HIDE DEF f
  <1>3. Meets(f, tags) <=> DOMAIN tags \cap keys # {}
    BY <1>2, TextIsItself DEF Meets, MeetsItem
  <1>4. Selects(f, tags, Meets(f, tags))
    BY <1>2, HeldSelects
  <1>5. Selects(f, tags, DOMAIN tags \cap keys # {})
    BY <1>3, <1>4 DEF Selects
  <1> QED
    BY <1>5 DEF f

LEMMA BoundarySelects ==
    ASSUME NEW type \in Value \cup {"all"}, NEW tags
    PROVE  Selects(BoundaryOf(type), tags,
                   "boundary" \in DOMAIN tags /\ type \in {"all", tags["boundary"]})
  <1> DEFINE f == BoundaryOf(type)
             i == IF type = "all" THEN AnyValue ELSE Text(type)
  <1>1. i \in Item /\ i.kind # "pattern" /\ f = DictOf({"boundary"}, {i})
    BY DEF Item, AnyValue, Text, BoundaryOf
  <1>2. \A v : MeetsItem(v, i) <=> type \in {"all", v}
    BY TextIsItself DEF MeetsItem
  <1> HIDE DEF i, f
  <1>3. /\ IsFilter(f) /\ ~ValidateRaises(f) /\ ~Mixed(f) /\ ValidatedAs(f, f) /\ f.groups = {}
        /\ DOMAIN f.entries = {"boundary"} /\ \A k \in {"boundary"} : f.entries[k].items = {i}
    BY <1>1, DictOfIs
  <1>4. Meets(f, tags) <=> "boundary" \in DOMAIN tags /\ type \in {"all", tags["boundary"]}
    BY <1>2, <1>3 DEF Meets
  <1>5. Selects(f, tags, Meets(f, tags))
    BY <1>3, HeldSelects
  <1>6. Selects(f, tags, "boundary" \in DOMAIN tags /\ type \in {"all", tags["boundary"]})
    BY <1>4, <1>5 DEF Selects
  <1> QED
    BY <1>6 DEF f

\* The tests of a reader come to what the filter selects.
LEMMA LayerTest ==
    ASSUME NEW s, ~s.keep_all, s.filter_type = "keep", s.osm_keys = Gate(s.data_filter),
           NEW tags, NEW m \in BOOLEAN, Selects(s.data_filter, tags, m)
    PROVE  /\ filter_osm_records(tags, s) <=> m
           /\ record_should_be_kept(tags, s) <=> m
           /\ has_osm_data_type(s.osm_keys, tags) /\ keep_fn(tags, s) <=> m
  <1> DEFINE h == s.data_filter
             has == has_osm_data_type(s.osm_keys, tags)
  <1>1. has <=> DOMAIN tags \cap Gate(h) # {}
    BY DEF has_osm_data_type
  <1>2. CASE h.form = "compiled"
    <2>1. has /\ CompiledMatches(h, tags) <=> m
      BY <1>1, <1>2 DEF Selects, Accepts
    <2> QED
      BY <1>2, <2>1 DEF filter_osm_records, record_should_be_kept, keep_fn, has_osm_data_type
  <1>3. CASE h.form = "dict"
    <2>1. (has /\ DictMatchesRecord(h, tags) <=> m) /\ (has /\ DictMatchesWay(h, tags) <=> m)
      BY <1>1, <1>3 DEF Selects, Accepts
    <2>2. KeysOf(h) = {} => ~has
      BY <1>1, <1>3 DEF Selects
    <2> QED
      BY <1>3, <2>1, <2>2 DEF filter_osm_records, record_should_be_kept, keep_fn, has_osm_data_type
  <1> QED
    BY <1>2, <1>3 DEF Selects

-----------------------------------------------------------------------------
(***************************************************************************)
(* From a call to the filter that its reader works with.                   *)
(***************************************************************************)
FromScript(c, f, v) ==
    IF c.passes THEN ~ValidateRaises(f) /\ ValidatedAs(v, f) ELSE v = None

LEMMA KindsSelected ==
    ASSUME IsCall(Current), NEW f
    PROVE  Selected(f).kinds = Returned[Current.layer]
  <1>1. CASE Current.layer = "network"
    BY <1>1 DEF Selected, InMemory, OutOfCore, get_network_data, Selection, Returned
  <1>2. CASE Current.layer = "buildings"
    BY <1>2 DEF Selected, InMemory, OutOfCore, get_building_data, get_buildings, Selection, Returned, Areas
  <1>3. CASE Current.layer = "landuse"
    BY <1>3 DEF Selected, InMemory, OutOfCore, get_landuse_data, get_landuse, Selection, Returned, Everything
  <1>4. CASE Current.layer = "natural"
    BY <1>4 DEF Selected, InMemory, OutOfCore, get_natural_data, get_natural, Selection, Returned, Everything
  <1>5. CASE Current.layer = "boundaries"
    BY <1>5 DEF Selected, InMemory, OutOfCore, get_boundary_data, get_boundaries, Selection, Returned, Areas
  <1>6. CASE Current.layer = "pois"
    BY <1>6 DEF Selected, InMemory, OutOfCore, get_poi_data, get_pois, Selection, Returned, Everything
  <1>7. CASE Current.layer = "custom"
    BY <1>7 DEF Selected, InMemory, OutOfCore, get_user_defined_data, get_data_by_custom_criteria, Selection,
                Returned, Everything
  <1> QED
    BY <1>1, <1>2, <1>3, <1>4, <1>5, <1>6, <1>7 DEF IsCall

\* Both readers complete a filter alike.
LEMMA FilterSelected ==
    ASSUME IsCall(Current), NEW v
    PROVE  LET or(key) == IF v.form = "none" THEN AnyOf({key}) ELSE ensure_filter_key(v, key)
           IN  /\ Current.layer = "buildings" => Selected(v).filter = or("building")
               /\ Current.layer = "landuse" => Selected(v).filter = or("landuse")
               /\ Current.layer = "natural" => Selected(v).filter = or("natural")
               /\ Current.layer = "boundaries" =>
                    Selected(v).filter =
                      ensure_filter_key(IF v.form = "none" THEN BoundaryOf(Current.boundary_type) ELSE v, "boundary")
               /\ Current.layer = "pois" =>
                    Selected(v).filter = IF v.form = "none" THEN AnyOf({"amenity", "shop", "tourism"}) ELSE v
               /\ Current.layer = "custom" => Selected(v).filter = v
  <1>1. CASE Current.layer = "buildings"
    BY <1>1 DEF Selected, InMemory, OutOfCore, get_building_data, get_buildings, Selection, OrDefault, ensure_layer_key
  <1>2. CASE Current.layer = "landuse"
    BY <1>2 DEF Selected, InMemory, OutOfCore, get_landuse_data, get_landuse, Selection, OrDefault, ensure_layer_key
  <1>3. CASE Current.layer = "natural"
    BY <1>3 DEF Selected, InMemory, OutOfCore, get_natural_data, get_natural, Selection, OrDefault, ensure_layer_key
  <1>4. CASE Current.layer = "boundaries"
    BY <1>4 DEF Selected, InMemory, OutOfCore, get_boundary_data, get_boundaries, Selection
  <1>5. CASE Current.layer = "pois"
    BY <1>5 DEF Selected, InMemory, OutOfCore, get_poi_data, get_pois, Selection, DefaultPois
  <1>6. CASE Current.layer = "custom"
    BY <1>6 DEF Selected, InMemory, OutOfCore, get_user_defined_data, get_data_by_custom_criteria, Selection
  <1> QED
    BY <1>1, <1>2, <1>3, <1>4, <1>5, <1>6

LEMMA SelectsSame ==
    ASSUME NEW h, NEW tags, NEW m \in BOOLEAN, NEW n \in BOOLEAN, m <=> n, Selects(h, tags, m)
    PROVE  Selects(h, tags, n)
  BY DEF Selects

LEMMA CompletedForLayer ==
    ASSUME IsCall(Current), Current.layer \in DOMAIN KeyOf, IsFilter(script.filter),
           Current.passes => ~(script.filter.form = "dict" /\ Mixed(script.filter)),
           NEW v, FromScript(Current, script.filter, v), NEW e
    PROVE  /\ LayerMeans(script.filter, Current, e) \in BOOLEAN
           /\ Selects(Selected(v).filter, e.tags, LayerMeans(script.filter, Current, e))
  <1> DEFINE tags == e.tags
             layer == Current.layer
             means == LayerMeans(script.filter, Current, e)
  <1>1. layer \in {"buildings", "landuse", "natural", "boundaries", "pois"}
    BY DEF KeyOf
  <1>2. /\ layer = "buildings" => KeyOf[layer] = {"building"}
        /\ layer = "landuse" => KeyOf[layer] = {"landuse"}
        /\ layer = "natural" => KeyOf[layer] = {"natural"}
        /\ layer = "boundaries" => KeyOf[layer] = {"boundary"}
        /\ layer = "pois" => KeyOf[layer] = {}
    BY DEF KeyOf
  <1>3. CASE Current.passes
    <2> DEFINE f == script.filter
    <2>1. means <=> Meets(f, tags) \/ (KeyOf[layer] \cap DOMAIN tags # {} /\ KeyOf[layer] \cap Named(f) = {})
      BY <1>3 DEF LayerMeans
    <2>2. means \in BOOLEAN
      BY <1>3 DEF LayerMeans
    <2>3. v.form # "none" /\ ~ValidateRaises(f) /\ ValidatedAs(v, f)
      BY <1>3, ValidatedForm, CompiledIs DEF FromScript
    <2>4. Selects(v, tags, Meets(f, tags))
      BY <1>3, <2>3, HeldSelects
    <2>5. \A key : Selects(ensure_filter_key(v, key), tags, Meets(f, tags) \/ (key \in DOMAIN tags /\ key \notin Named(f)))
      BY <1>3, <2>3, CompletedSelects
    <2>6. CASE layer = "pois"
      <3>1. means <=> Meets(f, tags)
        BY <1>2, <2>1, <2>6
      <3>2. Selected(v).filter = v
        BY <2>3, <2>6, FilterSelected
      <3> HIDE DEF means
      <3>3. Selects(v, tags, means)
        BY <2>2, <2>4, <3>1 DEF Selects
      <3> QED
        BY <2>2, <3>2, <3>3 DEF means
    <2>7. ASSUME NEW key, KeyOf[layer] = {key}, Selected(v).filter = ensure_filter_key(v, key)
          PROVE  Selects(Selected(v).filter, tags, means)
      <3>1. means <=> Meets(f, tags) \/ (key \in DOMAIN tags /\ key \notin Named(f))
        BY <2>1, <2>7
      <3>2. Selects(ensure_filter_key(v, key), tags, Meets(f, tags) \/ (key \in DOMAIN tags /\ key \notin Named(f)))
        BY <2>5
      <3> HIDE DEF means
      <3>3. Selects(ensure_filter_key(v, key), tags, means)
        BY <2>2, <3>1, <3>2 DEF Selects
      <3> QED
        BY <2>7, <3>3
    <2>8. \/ layer = "pois"
          \/ \E key : KeyOf[layer] = {key} /\ Selected(v).filter = ensure_filter_key(v, key)
      BY <1>1, <1>2, <2>3, FilterSelected
    <2> QED
      BY <2>2, <2>6, <2>7, <2>8
  <1>4. CASE ~Current.passes
    <2>1. v.form = "none"
      BY <1>4 DEF FromScript, None
    <2>2. CASE layer = "pois"
      <3>1. means <=> DOMAIN tags \cap {"amenity", "shop", "tourism"} # {}
        BY <1>4, <2>2 DEF LayerMeans
      <3>2. means \in BOOLEAN
        BY <1>4, <2>2 DEF LayerMeans
      <3>3. Selected(v).filter = AnyOf({"amenity", "shop", "tourism"})
        BY <2>1, <2>2, FilterSelected
      <3> HIDE DEF means
      <3>4. Selects(AnyOf({"amenity", "shop", "tourism"}), tags, means)
        BY <3>1, <3>2, AnyOfSelects DEF Selects
      <3> QED
        BY <3>2, <3>3, <3>4 DEF means
    <2>3. CASE layer = "boundaries"
      <3> DEFINE type == Current.boundary_type
      <3>1. means <=> "boundary" \in DOMAIN tags /\ type \in {"all", tags["boundary"]}
        BY <1>4, <2>3 DEF LayerMeans
      <3>2. means \in BOOLEAN
        BY <1>4, <2>3 DEF LayerMeans
      <3>3. Selected(v).filter = ensure_filter_key(BoundaryOf(type), "boundary")
        BY <2>1, <2>3, FilterSelected
      <3>4. type \in Value \cup {"all"}
        BY DEF IsCall
      <3>5. ensure_filter_key(BoundaryOf(type), "boundary") = BoundaryOf(type)
        <4> DEFINE i == IF type = "all" THEN AnyValue ELSE Text(type)
        <4>1. i \in Item /\ i.kind # "pattern" /\ BoundaryOf(type) = DictOf({"boundary"}, {i})
          BY <3>4 DEF Item, AnyValue, Text, BoundaryOf
        <4> HIDE DEF i
        <4>2. DOMAIN BoundaryOf(type).entries = {"boundary"} /\ BoundaryOf(type).form = "dict"
          BY <4>1, DictOfIs
        <4> QED
          BY <4>2 DEF ensure_filter_key
      <3> HIDE DEF means, type
      <3>6. Selects(BoundaryOf(type), tags, means)
        BY <3>1, <3>2, <3>4, BoundarySelects DEF Selects
      <3> QED
        BY <3>2, <3>3, <3>5, <3>6 DEF means
    <2>4. ASSUME NEW key, KeyOf[layer] = {key}, layer \notin {"pois", "boundaries"},
                 Selected(v).filter = AnyOf({key})
          PROVE  means \in BOOLEAN /\ Selects(Selected(v).filter, tags, means)
      <3>1. means <=> DOMAIN tags \cap {key} # {}
        BY <1>4, <2>4 DEF LayerMeans
      <3>2. means \in BOOLEAN
        BY <1>4, <2>4 DEF LayerMeans
      <3> HIDE DEF means
      <3>3. Selects(AnyOf({key}), tags, means)
        BY <3>1, <3>2, AnyOfSelects DEF Selects
      <3> QED
        BY <2>4, <3>2, <3>3
    <2>5. \/ layer \in {"pois", "boundaries"}
          \/ \E key : KeyOf[layer] = {key} /\ Selected(v).filter = AnyOf({key})
      BY <1>1, <1>2, <2>1, FilterSelected
    <2> QED
      BY <2>2, <2>3, <2>4, <2>5
  <1>5. Current.passes \in BOOLEAN
    BY DEF IsCall
  <1> QED
    BY <1>3, <1>4, <1>5

-----------------------------------------------------------------------------
(***************************************************************************)
(* The tests of a custom read.                                             *)
(***************************************************************************)
\* What the readers are told: the filter they work with and what goes with it.
Prepared(c, h, s) ==
    /\ s.data_filter = h /\ s.kinds = Returned[c.layer]
    /\ s.keep_all <=> c.layer = "custom" /\ ~c.passes
    /\ c.layer \in DOMAIN KeyOf => s.osm_keys = Gate(h) /\ s.filter_type = "keep"
    /\ c.layer = "custom" =>
         /\ s.osm_keys = IF c.osm_keys # {} THEN c.osm_keys ELSE Gate(h)
         /\ s.filter_type = IF c.passes /\ c.filter_type # "unset" THEN c.filter_type ELSE "keep"

LEMMA CustomTest ==
    ASSUME NEW f, IsFilter(f), ~(f.form = "dict" /\ Mixed(f)),
           NEW c, c.layer = "custom", c.passes, NEW h, FromScript(c, f, h), NEW s, Prepared(c, h, s),
           Named(f) # {} \/ s.filter_type = "keep", NEW tags
    PROVE  /\ filter_osm_records(tags, s) <=> record_should_be_kept(tags, s)
           /\ keep_fn(tags, s) <=> record_should_be_kept(tags, s)
           /\ Named(f) # {} =>
                (record_should_be_kept(tags, s)
                   <=> has_osm_data_type(s.osm_keys, tags) /\ (Meets(f, tags) <=> s.filter_type = "keep"))
  <1> DEFINE has == has_osm_data_type(s.osm_keys, tags)
             meets == Meets(f, tags)
             keep == s.filter_type = "keep"
  <1>1. s.data_filter = h /\ ~s.keep_all
    BY DEF Prepared
  <1>2. ValidatedAs(h, f) /\ KeysOf(h) = Named(f) /\ (Accepts(h, tags) <=> meets)
        /\ (h.form # "compiled" => (DictMatchesWay(h, tags) <=> meets))
    BY HeldKeys, HeldMeans DEF FromScript
  <1>3. h.form \in {"compiled", "dict"}
    BY <1>2, ValidatedForm, CompiledIs
  <1>4. CASE h.form = "compiled"
    <2>1. CompiledMatches(h, tags) <=> meets
      BY <1>2, <1>4 DEF Accepts
    <2> QED
      BY <1>1, <1>4, <2>1 DEF filter_osm_records, record_should_be_kept, keep_fn
  <1>5. CASE h.form = "dict"
    <2>1. (DictMatchesRecord(h, tags) <=> meets) /\ (DictMatchesWay(h, tags) <=> meets)
      BY <1>2, <1>5 DEF Accepts
    <2>2. /\ filter_osm_records(tags, s) <=> has /\ (KeysOf(h) # {} => (DictMatchesWay(h, tags) <=> keep))
          /\ record_should_be_kept(tags, s) <=> has /\ ((KeysOf(h) = {} \/ DictMatchesRecord(h, tags)) <=> keep)
      BY <1>1, <1>5 DEF filter_osm_records, record_should_be_kept
    <2>3. keep_fn(tags, s) <=> record_should_be_kept(tags, s)
      BY <1>1, <1>5 DEF keep_fn
    <2> QED
      BY <1>2, <2>1, <2>2, <2>3
  <1> QED
    BY <1>3, <1>4, <1>5

\* Without a filter, a custom read in memory keeps what has tags.
LEMMA UnfilteredTest ==
    ASSUME NEW c, c.layer = "custom", ~c.passes, NEW f, NEW h, FromScript(c, f, h), NEW s, Prepared(c, h, s),
           NEW tags
    PROVE  filter_osm_records(tags, s) <=> record_should_be_kept(tags, s)
  <1>1. s.keep_all /\ s.data_filter = None
    BY DEF Prepared, FromScript
  <1>2. KeysOf(None) = {} /\ None.form # "compiled"
    BY DEF KeysOf, None
  <1> QED
    BY <1>1, <1>2 DEF filter_osm_records, record_should_be_kept

-----------------------------------------------------------------------------
(***************************************************************************)
(* The properties, of the answer a to a call c with the filter f.          *)
(***************************************************************************)
RuleOf(f, c, a) ==
    Regular(f, c) =>
        \A e \in a : \A o \in Tagged : o.tags = e.tags /\ o.kind \in Returned[c.layer] => o \in a
LayerOf(f, c, a) ==
    /\ c.layer \in DOMAIN KeyOf
    /\ c.passes => Regular(f, c) /\ ~ValidateRaises(f)
    => a = {e \in Tagged : e.kind \in Returned[c.layer] /\ LayerMeans(f, c, e)}
CustomOf(f, c, a) ==
    /\ c.layer = "custom" /\ c.passes /\ c.filter_type \in {"keep", "exclude"} /\ c.keep_other_tags
    /\ Regular(f, c) /\ Named(f) # {} /\ ~ValidateRaises(f)
    => a = CustomAnswer(f, c)
RightAnswer(f, c, a) == RuleOf(f, c, a) /\ LayerOf(f, c, a) /\ CustomOf(f, c, a)

Completed(c, f, h) ==
    /\ c.layer \in DOMAIN KeyOf /\ (c.passes => ~(f.form = "dict" /\ Mixed(f))) =>
         \A e \in Tagged : Selects(h, e.tags, LayerMeans(f, c, e))
    /\ c.layer = "custom" => FromScript(c, f, h)

\* Both readers test one thing for the elements of a layer.
LEMMA LayerAnswers ==
    ASSUME NEW f, NEW c, NEW h, NEW s, c.layer \in DOMAIN KeyOf,
           c.passes => ~(f.form = "dict" /\ Mixed(f)), c.passes \in BOOLEAN,
           Completed(c, f, h), Prepared(c, h, s), NEW e \in Tagged
    PROVE  /\ filter_osm_records(e.tags, s) <=> LayerMeans(f, c, e)
           /\ record_should_be_kept(e.tags, s) <=> LayerMeans(f, c, e)
           /\ has_osm_data_type(s.osm_keys, e.tags) /\ keep_fn(e.tags, s) <=> LayerMeans(f, c, e)
  <1>1. c.layer # "custom"
    BY DEF KeyOf
  <1>2. ~s.keep_all /\ s.filter_type = "keep" /\ s.osm_keys = Gate(s.data_filter) /\ s.data_filter = h
    BY <1>1 DEF Prepared
  <1> DEFINE m == LayerMeans(f, c, e)
  <1>3. Selects(s.data_filter, e.tags, m)
    BY <1>2 DEF Completed
  <1>4. m \in BOOLEAN
    BY DEF LayerMeans, KeyOf
  <1> HIDE DEF m
  <1>5. /\ filter_osm_records(e.tags, s) <=> m
        /\ record_should_be_kept(e.tags, s) <=> m
        /\ has_osm_data_type(s.osm_keys, e.tags) /\ keep_fn(e.tags, s) <=> m
    BY <1>2, <1>3, <1>4, LayerTest
  <1> QED
    BY <1>5 DEF m

InMemoryAnswer(s) ==
    {e \in Tagged : /\ e.kind \in s.kinds
                    /\ IF e.kind = "way" THEN filter_osm_records(e.tags, s) ELSE record_should_be_kept(e.tags, s)}
OutOfCoreAnswer(c, s) ==
    {e \in Tagged :
        /\ e.kind \in s.kinds
        /\ has_osm_data_type(s.osm_keys, e.tags)
        /\ keep_fn(IF c.keep_other_tags THEN e.tags ELSE resolve_tags(e.tags, requested_tag_keys(s)), s)}

\* The answer to a custom read whose elements are tested by r.
LEMMA CustomAnswerIs ==
    ASSUME NEW f, IsFilter(f), ~ValidateRaises(f), NEW c, c.layer = "custom", c.passes,
           c.filter_type \in {"keep", "exclude"},
           NEW h, FromScript(c, f, h), NEW s, Prepared(c, h, s), NEW a,
           a = {e \in Tagged : has_osm_data_type(s.osm_keys, e.tags)
                               /\ (Meets(f, e.tags) <=> s.filter_type = "keep")}
    PROVE  a = CustomAnswer(f, c)
  <1>1. Gate(h) = AskedFor(f)
    BY HeldKeys DEF FromScript
  <1>2. /\ s.osm_keys = IF c.osm_keys = {} THEN AskedFor(f) ELSE c.osm_keys
        /\ s.filter_type = c.filter_type
    BY <1>1 DEF Prepared
  <1>3. \A e \in Tagged : Meets(f, e.tags) => DOMAIN e.tags \cap AskedFor(f) # {}
    BY GateIsSound
  <1>4. ASSUME NEW e \in Tagged
        PROVE  (has_osm_data_type(s.osm_keys, e.tags) /\ (Meets(f, e.tags) <=> s.filter_type = "keep"))
                 <=> IF c.filter_type = "keep"
                     THEN Meets(f, e.tags) /\ (c.osm_keys = {} \/ DOMAIN e.tags \cap c.osm_keys # {})
                     ELSE ~Meets(f, e.tags)
                          /\ DOMAIN e.tags \cap (IF c.osm_keys = {} THEN AskedFor(f) ELSE c.osm_keys) # {}
    <2>1. CASE c.osm_keys = {}
      BY <1>2, <1>3, <2>1 DEF has_osm_data_type
    <2>2. CASE c.osm_keys # {}
      BY <1>2, <2>2 DEF has_osm_data_type
    <2> QED
      BY <2>1, <2>2
  <1> QED
    BY <1>4 DEF CustomAnswer

LEMMA InMemoryIsRight ==
    ASSUME NEW f, IsFilter(f), NEW c, IsCall(c),
           c.layer = "custom" => /\ c.keep_other_tags
                                 /\ c.passes => c.filter_type \in {"keep", "exclude", "unset"},
           NEW h, NEW s, Completed(c, f, h), Prepared(c, h, s)
    PROVE  RightAnswer(f, c, InMemoryAnswer(s))
  <1> DEFINE a == InMemoryAnswer(s)
  <1>1. s.kinds = Returned[c.layer] /\ c.passes \in BOOLEAN
    BY DEF Prepared, IsCall
  <1>2. CASE c.layer = "network"
    <2>1. s.kinds = {"way"}
      BY <1>1, <1>2 DEF Returned
    <2>2. RuleOf(f, c, a)
      BY <1>1, <2>1 DEF RuleOf, InMemoryAnswer
    <2>3. LayerOf(f, c, a) /\ CustomOf(f, c, a)
      BY <1>2 DEF LayerOf, CustomOf, KeyOf
    <2> QED
      BY <2>2, <2>3 DEF RightAnswer
  <1>3. CASE c.layer \in DOMAIN KeyOf
    <2>1. ASSUME c.passes => ~(f.form = "dict" /\ Mixed(f))
          PROVE  a = {e \in Tagged : e.kind \in Returned[c.layer] /\ LayerMeans(f, c, e)}
      BY <1>1, <1>3, <2>1, LayerAnswers DEF InMemoryAnswer
    <2>2. LayerOf(f, c, a)
      BY <2>1 DEF LayerOf, Regular
    <2>3. ASSUME NEW e \in Tagged, NEW o \in Tagged, o.tags = e.tags
          PROVE  LayerMeans(f, c, e) <=> LayerMeans(f, c, o)
      BY <2>3 DEF LayerMeans
    <2>4. RuleOf(f, c, a)
      BY <2>1, <2>3 DEF RuleOf, Regular
    <2>5. CustomOf(f, c, a)
      BY <1>3 DEF CustomOf, KeyOf
    <2> QED
      BY <2>2, <2>4, <2>5 DEF RightAnswer
  <1>4. CASE c.layer = "custom"
    <2>1. LayerOf(f, c, a)
      BY <1>4 DEF LayerOf, KeyOf
    <2>2. FromScript(c, f, h) /\ Returned[c.layer] = Everything
      BY <1>4 DEF Completed, Returned, Everything
    <2>3. ASSUME Regular(f, c)
          PROVE  \A e \in Tagged : filter_osm_records(e.tags, s) <=> record_should_be_kept(e.tags, s)
      <3>1. CASE c.passes
        <4>1. ~(f.form = "dict" /\ Mixed(f)) /\ (Named(f) # {} \/ s.filter_type = "keep")
          BY <1>4, <2>3, <3>1 DEF Regular, Prepared
        <4> QED
          BY <1>4, <2>2, <3>1, <4>1, CustomTest
      <3>2. CASE ~c.passes
        BY <1>4, <2>2, <3>2, UnfilteredTest
      <3> QED
        BY <3>1, <3>2
    <2>4. ASSUME Regular(f, c)
          PROVE  a = {e \in Tagged : e.kind \in Returned[c.layer] /\ record_should_be_kept(e.tags, s)}
      BY <1>1, <2>3, <2>4 DEF InMemoryAnswer
    <2>5. RuleOf(f, c, a)
      BY <2>4 DEF RuleOf
    <2>6. ASSUME c.passes, c.filter_type \in {"keep", "exclude"}, Regular(f, c), Named(f) # {}, ~ValidateRaises(f)
          PROVE  a = CustomAnswer(f, c)
      <3>1. \A e \in Tagged : record_should_be_kept(e.tags, s)
              <=> has_osm_data_type(s.osm_keys, e.tags) /\ (Meets(f, e.tags) <=> s.filter_type = "keep")
        BY <1>4, <2>2, <2>6, CustomTest DEF Regular
      <3>2. \A e \in Tagged : e.kind \in Returned[c.layer]
        BY <2>2, TagFilterAssumption DEF TagFilterAssumption, Everything
      <3>3. a = {e \in Tagged : has_osm_data_type(s.osm_keys, e.tags)
                                 /\ (Meets(f, e.tags) <=> s.filter_type = "keep")}
        BY <2>4, <2>6, <3>1, <3>2
      <3> HIDE DEF a
      <3> QED
        BY <1>4, <2>2, <2>6, <3>3, CustomAnswerIs
    <2>7. CustomOf(f, c, a)
      BY <2>6 DEF CustomOf
    <2> QED
      BY <2>1, <2>5, <2>7 DEF RightAnswer
  <1> QED
    BY <1>2, <1>3, <1>4 DEF IsCall, KeyOf

LEMMA OutOfCoreIsRight ==
    ASSUME NEW f, IsFilter(f), NEW c, IsCall(c), c.layer = "custom" => c.passes,
           NEW h, NEW s, Completed(c, f, h), Prepared(c, h, s)
    PROVE  RightAnswer(f, c, OutOfCoreAnswer(c, s))
  <1> DEFINE a == OutOfCoreAnswer(c, s)
  <1>1. s.kinds = Returned[c.layer] /\ c.passes \in BOOLEAN
    BY DEF Prepared, IsCall
  <1>2. RuleOf(f, c, a)
    BY <1>1 DEF RuleOf, OutOfCoreAnswer
  <1>3. ASSUME c.layer \in DOMAIN KeyOf, c.passes => ~(f.form = "dict" /\ Mixed(f))
        PROVE  a = {e \in Tagged : e.kind \in Returned[c.layer] /\ LayerMeans(f, c, e)}
    <2>1. c.keep_other_tags
      BY <1>3 DEF IsCall, KeyOf
    <2>2. \A e \in Tagged : has_osm_data_type(s.osm_keys, e.tags) /\ keep_fn(e.tags, s) <=> LayerMeans(f, c, e)
      BY <1>1, <1>3, LayerAnswers
    <2> QED
      BY <1>1, <2>1, <2>2 DEF OutOfCoreAnswer
  <1>4. LayerOf(f, c, a)
    BY <1>3 DEF LayerOf, Regular
  <1>5. ASSUME c.layer = "custom", c.passes, c.filter_type \in {"keep", "exclude"}, c.keep_other_tags,
               Regular(f, c), Named(f) # {}, ~ValidateRaises(f)
        PROVE  a = CustomAnswer(f, c)
    <2>1. FromScript(c, f, h) /\ Returned[c.layer] = Everything
      BY <1>5 DEF Completed, Returned, Everything
    <2>2. \A e \in Tagged :
            has_osm_data_type(s.osm_keys, e.tags) /\ keep_fn(e.tags, s)
              <=> has_osm_data_type(s.osm_keys, e.tags) /\ (Meets(f, e.tags) <=> s.filter_type = "keep")
      BY <1>5, <2>1, CustomTest DEF Regular
    <2>3. \A e \in Tagged : e.kind \in Returned[c.layer]
      BY <2>1, TagFilterAssumption DEF TagFilterAssumption, Everything
    <2>4. a = {e \in Tagged : has_osm_data_type(s.osm_keys, e.tags)
                               /\ (Meets(f, e.tags) <=> s.filter_type = "keep")}
      BY <1>1, <1>5, <2>2, <2>3 DEF OutOfCoreAnswer
    <2> HIDE DEF a
    <2> QED
      BY <1>5, <2>1, <2>4, CustomAnswerIs
  <1>6. CustomOf(f, c, a)
    BY <1>5 DEF CustomOf
  <1> QED
    BY <1>2, <1>4, <1>6 DEF RightAnswer

-----------------------------------------------------------------------------
(***************************************************************************)
(* Preparing a call.                                                       *)
(***************************************************************************)
LEMMA ValidatedIs ==
    ASSUME NEW f, IsFilter(f), NEW g, Alike(g, f),
           \A k \in DOMAIN f.entries : BareText(g.entries[k]) <=> BareText(f.entries[k])
    PROVE  /\ ValidateRaises(g) <=> ValidateRaises(f)
           /\ ValidatedAs(validate_custom_filter(g), f)
           /\ Alike(AsValidated(g), f)
           /\ ~ValidateRaises(g) =>
                \A k \in DOMAIN f.entries : BareText(AsValidated(g).entries[k]) <=> BareText(f.entries[k])
  <1>1. g.form = f.form /\ g.groups = f.groups /\ DOMAIN g.entries = DOMAIN f.entries /\ IsFilter(g)
    BY DEF Alike
  <1>2. /\ dict_has_regex(g) <=> dict_has_regex(f)
        /\ is_advanced_filter(g) <=> is_advanced_filter(f)
        /\ dict_to_groups(g) = dict_to_groups(f)
        /\ f.form \in {"dict", "brackets"}
    BY <1>1, AlikePatterns
  <1>3. ValidateRaises(g) <=> ValidateRaises(f)
    BY <1>1, <1>2 DEF ValidateRaises, CompileRaises
  <1>4. Alike(Unwrapped(g), g) /\ \A k \in DOMAIN g.entries : ~BareText(Unwrapped(g).entries[k])
    BY <1>1, UnwrappedAlike
  <1>5. Alike(Unwrapped(g), f)
    BY <1>4, AlikeTrans
  <1>6. ValidatedAs(validate_custom_filter(g), f)
    <2>1. CASE is_advanced_filter(f)
      <3>1. CASE f.form = "brackets"
        BY <1>1, <1>2, <2>1, <3>1 DEF ValidatedAs, validate_custom_filter, compile_custom_filter, Lowered
      <3>2. CASE f.form = "dict"
        <4>1. dict_has_regex(f)
          BY <2>1, <3>2 DEF is_advanced_filter
        <4> QED
          BY <1>1, <1>2, <2>1, <3>2, <4>1
             DEF ValidatedAs, validate_custom_filter, compile_custom_filter, Lowered
      <3> QED
        BY <1>2, <3>1, <3>2
    <2>2. CASE ~is_advanced_filter(f)
      BY <1>2, <1>5, <2>2 DEF ValidatedAs, validate_custom_filter
    <2> QED
      BY <2>1, <2>2
  <1>7. Alike(AsValidated(g), f)
    BY <1>5 DEF AsValidated
  <1>8. ASSUME ~ValidateRaises(g), NEW k \in DOMAIN f.entries
        PROVE  BareText(AsValidated(g).entries[k]) <=> BareText(f.entries[k])
    <2>1. CASE is_advanced_filter(g)
      BY <2>1 DEF AsValidated
    <2>2. CASE ~is_advanced_filter(g)
      <3>1. f.form = "dict"
        BY <1>1, <1>2, <2>2 DEF is_advanced_filter
      <3>2. ~BareText(g.entries[k])
        BY <1>1, <1>8, <3>1 DEF ValidateRaises
      <3>3. ~BareText(AsValidated(g).entries[k])
        BY <1>1, <1>4, <2>2 DEF AsValidated
      <3> QED
        BY <3>2, <3>3
    <2> QED
      BY <2>1, <2>2
  <1> QED
    BY <1>3, <1>6, <1>7, <1>8

LEMMA SpecPrepared ==
    ASSUME IsCall(Current)
    PROVE  Prepared(Current, held, PreparedSpec)
  <1> DEFINE c == Current
             s == PreparedSpec
  <1>1. s.data_filter = held /\ s.kinds = Selected(held).kinds
    BY DEF PreparedSpec, get_data_filter_and_osm_keys
  <1>2. s.keep_all <=> c.layer = "custom" /\ ~c.passes
    BY DEF PreparedSpec
  <1>3. s.osm_keys = IF c.osm_keys # {} THEN c.osm_keys
                     ELSE IF c.layer = "network" /\ held.form # "compiled" THEN {"highway"} ELSE Gate(held)
    BY DEF PreparedSpec, Gate
  <1>4. s.filter_type = FilterType
    BY DEF PreparedSpec
  <1>5. c.layer \in DOMAIN KeyOf => FilterType = "keep"
    BY DEF FilterType, KeyOf
  <1>6. c.layer = "custom" =>
          FilterType = IF c.passes /\ c.filter_type # "unset" THEN c.filter_type ELSE "keep"
    BY DEF FilterType
  <1>7. c.layer \in DOMAIN KeyOf => c.osm_keys = {} /\ c.layer # "network"
    BY DEF IsCall, KeyOf
  <1> HIDE DEF s
  <1>8. Prepared(c, held, s)
    BY <1>1, <1>2, <1>3, <1>4, <1>5, <1>6, <1>7, KindsSelected DEF Prepared
  <1> QED
    BY <1>8 DEF s

LEMMA CompletedIs ==
    ASSUME IsCall(Current), IsFilter(script.filter), FromScript(Current, script.filter, held)
    PROVE  Completed(Current, script.filter, Selected(held).filter)
  <1>1. ASSUME Current.layer \in DOMAIN KeyOf,
               Current.passes => ~(script.filter.form = "dict" /\ Mixed(script.filter)), NEW e \in Tagged
        PROVE  Selects(Selected(held).filter, e.tags, LayerMeans(script.filter, Current, e))
    BY <1>1, CompletedForLayer
  <1>2. Current.layer = "custom" => Selected(held).filter = held
    BY FilterSelected
  <1> QED
    BY <1>1, <1>2 DEF Completed

\* A call that raises has no answer to be right about.
LEMMA RaisedIsRight ==
    ASSUME NEW f, NEW c,
           \/ /\ c.layer = "custom"
              /\ \/ ~c.passes /\ c.engine = "out_of_core"
                 \/ ~c.keep_other_tags /\ c.engine = "in_memory"
           \/ c.passes /\ ValidateRaises(f)
           \/ /\ c.passes /\ c.filter_type \notin {"keep", "exclude", "unset"}
              /\ c.layer = "network" \/ (c.layer = "custom" /\ c.engine = "in_memory")
    PROVE  RightAnswer(f, c, {})
  <1>1. RuleOf(f, c, {})
    BY DEF RuleOf
  <1>2. LayerOf(f, c, {})
    BY DEF LayerOf, KeyOf
  <1>3. CustomOf(f, c, {})
    BY DEF CustomOf
  <1> QED
    BY <1>1, <1>2, <1>3 DEF RightAnswer

-----------------------------------------------------------------------------
(***************************************************************************)
(* The inductive invariant.  A caller's filter changes only in whether a   *)
(* value is in a list, so each call finds in it what the first one found.  *)
(***************************************************************************)
FilterKept ==
    /\ Alike(given, script.filter)
    /\ \A k \in DOMAIN script.filter.entries :
          BareText(given.entries[k]) <=> BareText(script.filter.entries[k])

FilterInv ==
    /\ script \in Scripts /\ call \in DOMAIN script.calls
    /\ step \in {"call", "complete", "prepare", "select", "between"}
    /\ answers \in Seq(SUBSET Tagged) /\ Len(answers) = IF step = "between" THEN call ELSE call - 1
    /\ FilterKept
    /\ step \in {"complete", "prepare", "select"} => ~RejectedEarly /\ ~RejectedLate
    /\ step = "complete" => FromScript(Current, script.filter, held)
    /\ step \in {"prepare", "select"} => Completed(Current, script.filter, held)
    /\ step = "select" => Prepared(Current, held, spec)
    /\ step = "between" => RightAnswer(script.filter, Current, answers[call])

LEMMA ScriptIs ==
    ASSUME script \in Scripts, call \in DOMAIN script.calls
    PROVE  IsFilter(script.filter) /\ IsCall(Current) /\ call \in Nat
  <1>1. /\ IsFilter(script.filter)
        /\ Len(script.calls) \in Nat \ {0} /\ DOMAIN script.calls = 1..Len(script.calls)
        /\ \A n \in DOMAIN script.calls : IsCall(script.calls[n])
    BY ScriptAssumption DEF ScriptAssumption
  <1> QED
    BY <1>1 DEF Current

LEMMA FilterInvInit == FilterInit => FilterInv
  <1> SUFFICES ASSUME FilterInit PROVE FilterInv
    OBVIOUS
  <1>1. /\ script \in Scripts /\ given = script.filter /\ call = 1 /\ step = "call" /\ answers = <<>>
    BY DEF FilterInit
  <1>2. Len(script.calls) \in Nat \ {0} /\ DOMAIN script.calls = 1..Len(script.calls) /\ IsFilter(script.filter)
    BY <1>1, ScriptAssumption DEF ScriptAssumption
  <1>3. call \in DOMAIN script.calls
    BY <1>1, <1>2
  <1>4. FilterKept
    BY <1>1, <1>2 DEF FilterKept, Alike
  <1>5. answers \in Seq(SUBSET Tagged) /\ Len(answers) = call - 1
    BY <1>1
  <1> QED
    BY <1>1, <1>3, <1>4, <1>5 DEF FilterInv

\* A call ends with the answer a.
LEMMA CallEnds ==
    ASSUME FilterInv, step # "between", NEW a \in SUBSET Tagged,
           answers' = Append(answers, a), step' = "between", UNCHANGED <<script, call>>,
           FilterKept', RightAnswer(script.filter, Current, a)
    PROVE  FilterInv'
  <1>1. answers \in Seq(SUBSET Tagged) /\ Len(answers) = call - 1 /\ call \in Nat
    BY ScriptIs DEF FilterInv
  <1>2. answers' \in Seq(SUBSET Tagged) /\ Len(answers') = call /\ answers'[call] = a
    BY <1>1
  <1>3. Current' = Current
    BY DEF Current
  <1>4. RightAnswer(script.filter, Current, answers[call])'
    BY <1>2, <1>3
  <1> QED
    BY <1>2, <1>4 DEF FilterInv

LEMMA StepReject ==
    ASSUME FilterInv, Reject
    PROVE  FilterInv'
  <1> DEFINE f == script.filter
  <1>1. /\ step = "call" /\ answers' = Append(answers, {}) /\ step' = "between"
        /\ UNCHANGED <<script, call>>
    BY DEF Reject
  <1>2. IsFilter(f) /\ IsCall(Current) /\ FilterKept
    BY ScriptIs DEF FilterInv
  <1>3. ValidateRaises(given) <=> ValidateRaises(f)
    BY <1>2, ValidatedIs DEF FilterKept
  <1>4. RejectedEarly \/ FilterRejected \/ RejectedLate
    BY DEF Reject
  <1>5. RightAnswer(f, Current, {})
    BY <1>3, <1>4, RaisedIsRight DEF RejectedEarly, FilterRejected, RejectedLate
  <1>6. FilterKept'
    <2>1. CASE UNCHANGED given
      BY <1>1, <1>2, <2>1 DEF FilterKept
    <2>2. CASE ~FilterRejected /\ RejectedLate /\ given' = AsValidated(given)
      <3>1. ~ValidateRaises(given)
        BY <2>2 DEF FilterRejected, RejectedLate
      <3>2. Alike(given', f) /\ \A k \in DOMAIN f.entries : BareText(given'.entries[k]) <=> BareText(f.entries[k])
        BY <1>2, <2>2, <3>1, ValidatedIs DEF FilterKept
      <3> QED
        BY <1>1, <3>2 DEF FilterKept
    <2>3. ASSUME NEW seen \in SUBSET DOMAIN given.entries,
                 given' = [given EXCEPT !.entries =
                              [k \in DOMAIN given.entries |->
                                  IF k \in seen /\ ~BareText(given.entries[k])
                                  THEN [given.entries[k] EXCEPT !.bare = FALSE] ELSE given.entries[k]]]
          PROVE  FilterKept'
      <3> DEFINE keys == {k \in seen : ~BareText(given.entries[k])}
      <3>1. given' = Unwrap(given, keys)
        BY <2>3 DEF Unwrap
      <3> HIDE DEF keys
      <3>2. IsFilter(given) /\ DOMAIN given.entries = DOMAIN f.entries
        BY <1>2 DEF FilterKept, Alike
      <3>3. /\ Alike(given', given)
            /\ \A k \in DOMAIN given.entries :
                 BareText(given'.entries[k]) <=> k \notin keys /\ BareText(given.entries[k])
        BY <3>1, <3>2, UnwrapAlike
      <3>4. Alike(given', f)
        BY <1>2, <3>3, AlikeTrans DEF FilterKept
      <3>5. \A k \in DOMAIN f.entries : BareText(given'.entries[k]) <=> BareText(f.entries[k])
        BY <1>2, <3>2, <3>3 DEF FilterKept, keys
      <3> QED
        BY <1>1, <3>4, <3>5 DEF FilterKept
    <2> QED
      BY <2>1, <2>2, <2>3 DEF Reject
  <1> QED
    BY <1>1, <1>5, <1>6, CallEnds

LEMMA StepValidate ==
    ASSUME FilterInv, Validate
    PROVE  FilterInv'
  <1> DEFINE f == script.filter
  <1>1. /\ step = "call" /\ step' = "complete" /\ UNCHANGED <<script, call, answers>>
        /\ ~RejectedEarly /\ ~FilterRejected /\ ~RejectedLate
    BY DEF Validate
  <1>2. IsFilter(f) /\ IsCall(Current) /\ FilterKept
    BY ScriptIs DEF FilterInv
  <1>3. Current' = Current
    BY <1>1 DEF Current
  <1>4. ~RejectedEarly' /\ ~RejectedLate'
    BY <1>1, <1>3 DEF RejectedEarly, RejectedLate
  <1>5. CASE Current.passes
    <2>1. given' = AsValidated(given) /\ held' = validate_custom_filter(given)
      BY <1>5 DEF Validate
    <2>2. ~ValidateRaises(given)
      BY <1>1, <1>5 DEF FilterRejected
    <2>3. /\ ~ValidateRaises(f) /\ ValidatedAs(held', f) /\ Alike(given', f)
          /\ \A k \in DOMAIN f.entries : BareText(given'.entries[k]) <=> BareText(f.entries[k])
      BY <1>2, <2>1, <2>2, ValidatedIs DEF FilterKept
    <2>4. FilterKept'
      BY <1>1, <2>3 DEF FilterKept
    <2>5. FromScript(Current, f, held')
      BY <1>5, <2>3 DEF FromScript
    <2>6. FromScript(Current, script.filter, held)'
      BY <1>1, <1>3, <2>5
    <2> QED
      BY <1>1, <1>4, <2>4, <2>6 DEF FilterInv
  <1>6. CASE ~Current.passes
    <2>1. UNCHANGED given /\ held' = None
      BY <1>6 DEF Validate
    <2>2. FilterKept'
      BY <1>1, <1>2, <2>1 DEF FilterKept
    <2>3. FromScript(Current, f, held')
      BY <1>6, <2>1 DEF FromScript
    <2>4. FromScript(Current, script.filter, held)'
      BY <1>1, <1>3, <2>3
    <2> QED
      BY <1>1, <1>4, <2>2, <2>4 DEF FilterInv
  <1> QED
    BY <1>5, <1>6

LEMMA StepCompleteLayer ==
    ASSUME FilterInv, CompleteLayer
    PROVE  FilterInv'
  <1>1. /\ step = "complete" /\ held' = Selected(held).filter /\ step' = "prepare"
        /\ UNCHANGED <<script, given, call, answers>>
    BY DEF CompleteLayer
  <1>2. Current' = Current
    BY <1>1 DEF Current
  <1>3. IsFilter(script.filter) /\ IsCall(Current) /\ FromScript(Current, script.filter, held)
    BY <1>1, ScriptIs DEF FilterInv
  <1>4. Completed(Current, script.filter, held')
    BY <1>1, <1>3, CompletedIs
  <1>5. Completed(Current, script.filter, held)'
    BY <1>1, <1>2, <1>4
  <1>6. ~RejectedEarly' /\ ~RejectedLate' /\ FilterKept'
    BY <1>1, <1>2 DEF FilterInv, RejectedEarly, RejectedLate, FilterKept
  <1> QED
    BY <1>1, <1>5, <1>6 DEF FilterInv

LEMMA StepPrepare ==
    ASSUME FilterInv, Prepare
    PROVE  FilterInv'
  <1>1. /\ step = "prepare" /\ spec' = PreparedSpec /\ step' = "select"
        /\ UNCHANGED <<script, given, call, held, answers>>
    BY DEF Prepare
  <1>2. Current' = Current
    BY <1>1 DEF Current
  <1>3. IsCall(Current) /\ Completed(Current, script.filter, held)
    BY <1>1, ScriptIs DEF FilterInv
  <1>4. Prepared(Current, held, spec')
    BY <1>1, <1>3, SpecPrepared
  <1>5. Prepared(Current, held, spec)' /\ Completed(Current, script.filter, held)'
    BY <1>1, <1>2, <1>3, <1>4
  <1>6. ~RejectedEarly' /\ ~RejectedLate' /\ FilterKept'
    BY <1>1, <1>2 DEF FilterInv, RejectedEarly, RejectedLate, FilterKept
  <1> QED
    BY <1>1, <1>5, <1>6 DEF FilterInv

LEMMA StepSelectInMemory ==
    ASSUME FilterInv, SelectInMemory
    PROVE  FilterInv'
  <1> DEFINE c == Current
             a == InMemoryAnswer(spec)
  <1>1. /\ step = "select" /\ c.engine = "in_memory" /\ step' = "between"
        /\ answers' = Append(answers, a) /\ UNCHANGED <<script, given, call>>
    BY DEF SelectInMemory, InMemoryAnswer
  <1>2. /\ IsFilter(script.filter) /\ IsCall(c) /\ FilterKept
        /\ Completed(c, script.filter, held) /\ Prepared(c, held, spec)
        /\ ~RejectedEarly /\ ~RejectedLate
    BY <1>1, ScriptIs DEF FilterInv
  <1>3. c.layer = "custom" => /\ c.keep_other_tags
                              /\ c.passes => c.filter_type \in {"keep", "exclude", "unset"}
    BY <1>1, <1>2 DEF RejectedEarly, RejectedLate
  <1>4. RightAnswer(script.filter, c, a)
    BY <1>2, <1>3, InMemoryIsRight
  <1>5. FilterKept'
    BY <1>1, <1>2 DEF FilterKept
  <1>6. a \in SUBSET Tagged
    BY DEF InMemoryAnswer
  <1> HIDE DEF a
  <1> QED
    BY <1>1, <1>4, <1>5, <1>6, CallEnds

LEMMA StepSelectOutOfCore ==
    ASSUME FilterInv, SelectOutOfCore
    PROVE  FilterInv'
  <1> DEFINE c == Current
             a == OutOfCoreAnswer(c, spec)
  <1>1. /\ step = "select" /\ c.engine = "out_of_core" /\ step' = "between"
        /\ answers' = Append(answers, a) /\ UNCHANGED <<script, given, call>>
    BY DEF SelectOutOfCore, OutOfCoreAnswer, Resolved
  <1>2. /\ IsFilter(script.filter) /\ IsCall(c) /\ FilterKept
        /\ Completed(c, script.filter, held) /\ Prepared(c, held, spec)
        /\ ~RejectedEarly
    BY <1>1, ScriptIs DEF FilterInv
  <1>3. c.layer = "custom" => c.passes
    BY <1>1, <1>2 DEF RejectedEarly
  <1>4. RightAnswer(script.filter, c, a)
    BY <1>2, <1>3, OutOfCoreIsRight
  <1>5. FilterKept'
    BY <1>1, <1>2 DEF FilterKept
  <1>6. a \in SUBSET Tagged
    BY DEF OutOfCoreAnswer
  <1> HIDE DEF a
  <1> QED
    BY <1>1, <1>4, <1>5, <1>6, CallEnds

LEMMA StepNextCall ==
    ASSUME FilterInv, NextCall
    PROVE  FilterInv'
  <1>1. /\ step = "between" /\ call < Len(script.calls) /\ call' = call + 1 /\ step' = "call"
        /\ UNCHANGED <<script, given, answers>>
    BY DEF NextCall
  <1>2. /\ script \in Scripts /\ call \in DOMAIN script.calls /\ Len(answers) = call
        /\ answers \in Seq(SUBSET Tagged) /\ FilterKept
    BY <1>1 DEF FilterInv
  <1>3. Len(script.calls) \in Nat /\ DOMAIN script.calls = 1..Len(script.calls)
    BY <1>2, ScriptAssumption DEF ScriptAssumption
  <1>4. call' \in DOMAIN script.calls /\ Len(answers) = call' - 1
    BY <1>1, <1>2, <1>3
  <1>5. FilterKept'
    BY <1>1, <1>2 DEF FilterKept
  <1> QED
    BY <1>1, <1>2, <1>4, <1>5 DEF FilterInv

LEMMA FilterInvStutter ==
    ASSUME FilterInv, UNCHANGED filter_vars
    PROVE  FilterInv'
  BY DEF FilterInv, filter_vars, FilterKept, RejectedEarly, RejectedLate, Current

\* What the caller keeps of a filter is what was passed first, and what a call works
\* with is what that filter means for it: the invariant that makes the answers right.
THEOREM FilterInvariant == FilterSpec => []FilterInv
  <1>1. FilterInv /\ [FilterNext]_filter_vars => FilterInv'
    BY StepReject, StepValidate, StepCompleteLayer, StepPrepare, StepSelectInMemory, StepSelectOutOfCore,
       StepNextCall, FilterInvStutter DEF FilterNext
  <1> QED
    BY <1>1, FilterInvInit, PTL DEF FilterSpec

LEMMA AnswersAreRight ==
    ASSUME FilterInv
    PROVE  OneRule /\ SelectsTheLayer /\ CustomMeans
  <1>1. step = "between" => RightAnswer(script.filter, Current, answers[call])
    BY DEF FilterInv
  <1>2. OneRule
    BY <1>1 DEF OneRule, RightAnswer, RuleOf
  <1>3. SelectsTheLayer
    BY <1>1 DEF SelectsTheLayer, RightAnswer, LayerOf
  <1>4. CustomMeans
    BY <1>1 DEF CustomMeans, RightAnswer, CustomOf
  <1> QED
    BY <1>2, <1>3, <1>4

\* An element is selected for its tags and not for its kind, although the readers
\* test the ways and the other elements with two implementations of the rule.
THEOREM OneRuleForAll == FilterSpec => []OneRule
  BY FilterInvariant, AnswersAreRight, PTL

\* A layer is what its filter says, with either reader, and whatever calls the filter
\* object was passed to before.
THEOREM LayerIsSelected == FilterSpec => []SelectsTheLayer
  BY FilterInvariant, AnswersAreRight, PTL

\* A custom read keeps what meets its filter, or excludes it; the search for
\* candidates by their keys loses none of them.
THEOREM CustomReadIsMeant == FilterSpec => []CustomMeans
  BY FilterInvariant, AnswersAreRight, PTL
=============================================================================
