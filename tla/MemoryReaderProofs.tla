------------------------- MODULE MemoryReaderProofs -------------------------
(***************************************************************************)
(* The in-memory reader implements LayerRead on sorted extracts, for every *)
(* number of groups, elements and every read.                              *)
(***************************************************************************)
EXTENDS MemoryReader, TLAPS

-----------------------------------------------------------------------------
(***************************************************************************)
(* What rows and parts depend on (LayerRead).                              *)
(***************************************************************************)
\* What is in a file has an id.
LEMMA IdsAreIds ==
    ASSUME job \in Job, NEW kind
    PROVE  IdsOf(kind) \subseteq Id
<1>1. \A i \in DOMAIN job.file : job.file[i].ids \subseteq Id
  <2>1. job.file \in Seq(Group)
    BY DEF Job
  <2>2. \A i \in DOMAIN job.file : job.file[i] \in Group
    BY <2>1
  <2>. QED BY <2>2 DEF Group
<1>. QED BY <1>1 DEF IdsOf

\* A frame is made row by row.
LEMMA RowOfFrame ==
    ASSUME NEW nodes, NEW ways, NEW rs, NEW relationWays, NEW at, NEW row
    PROVE  row \in prepare_geodataframe(nodes, ways, rs, relationWays, at) <=>
             /\ \/ row \in NodeRows(nodes)
                \/ row \in WayRows(ways, at)
                \/ row \in RelationRows(rs, relationWays, at)
             /\ row.parts # {} /\ InBox(row)
BY DEF prepare_geodataframe

\* Coordinates of nodes that no way refers to make no difference to its geometry.
LEMMA PartsNeedOwnNodes ==
    ASSUME NEW ways, NEW nodes, NEW at, at \subseteq nodes,
           \A w \in ways : job.refs[w] \cap nodes \subseteq at
    PROVE  Parts(ways, at) = Parts(ways, nodes)
<1>1. \A w \in ways : job.refs[w] \cap at = job.refs[w] \cap nodes
  OBVIOUS
<1>. QED BY <1>1 DEF Parts

\* A row has a kind, an id and parts made of known ways and nodes.
LEMMA RowsTyped ==
    ASSUME NEW nodes \in SUBSET Id, NEW ways \in SUBSET Id, NEW rs \in SUBSET Id,
           NEW relationWays \in SUBSET Id, NEW at \in SUBSET Id
    PROVE  prepare_geodataframe(nodes, ways, rs, relationWays, at) \subseteq Row
<1>1. \A ws \in SUBSET Id : Parts(ws, at) \in SUBSET (Id \X SUBSET Id)
  BY DEF Parts
<1>2. NodeRows(nodes) \subseteq Row
  BY DEF NodeRows, Row, Kind
<1>3. WayRows(ways, at) \subseteq Row
  <2>1. \A w \in ways : Parts({w}, at) \in SUBSET (Id \X SUBSET Id)
    BY <1>1
  <2>2. \A w \in ways : [kind |-> "way", id |-> w, parts |-> Parts({w}, at)] \in Row
    BY <2>1 DEF Row, Kind
  <2>. QED BY <2>2 DEF WayRows
<1>4. RelationRows(rs, relationWays, at) \subseteq Row
  <2>1. \A r : get_ways_for_relation(r, relationWays) \in SUBSET Id
    BY DEF get_ways_for_relation
  <2>. QED BY <1>1, <2>1 DEF RelationRows, Row, Kind
<1>. QED BY <1>2, <1>3, <1>4 DEF prepare_geodataframe

\* Typed rows make a typed frame.
LEMMA ReadIsOK == ASSUME NEW rows \in SUBSET Row PROVE FrameOK(Rows(rows))
<1>1. Rows(rows).rows = rows
  BY DEF Rows
<1>. QED BY <1>1 DEF FrameOK


\* What the groups before position p hold.
Before(kind, p) ==
    UNION {g.ids : g \in {job.file[i] :
                            i \in {j \in DOMAIN job.file : j < p /\ job.file[j].kind = kind}}}
Visible(nodes) == {n \in nodes : job.box => n \in job.inside}
Reaching(ways) == {w \in ways : Touched(w)}

VisibleNodes == Visible(IdsOf("node"))
WaysOfBox == Reaching(IdsOf("way"))
ToComplete ==
    IF job.complete /\ job.box
    THEN UNION {MemberWays(r) \ WaysOfBox :
                  r \in {s \in IdsOf("relation") : MemberWays(s) \cap WaysOfBox # {}}}
    ELSE {}
Completed == ToComplete \cap IdsOf("way")
ToLocate ==
    IF job.box /\ WaysOfBox # {}
    THEN (UNION {job.refs[w] : w \in WaysOfBox \cup Completed}) \ VisibleNodes ELSE {}

\* The first pass, group by group.
Scanning ==
    /\ all_nodes = Visible(Before("node", pos))
    /\ all_ways = Reaching(Before("way", pos))
    /\ all_relations = Before("relation", pos)
    /\ completed = {}
Scanned ==
    /\ all_nodes = VisibleNodes /\ all_ways = WaysOfBox /\ all_relations = IdsOf("relation")
Nothing ==
    /\ VisibleNodes = {} /\ all_nodes = {} /\ all_ways = {} /\ all_relations = {}
    /\ completed = {}
\* The later ones, each with what it looks for.
Fetching == Scanned /\ missing = ToComplete /\ completed = missing \cap Before("way", pos)
Locating ==
    /\ Scanned /\ completed = Completed
    /\ missing = ToLocate /\ located = VisibleNodes \cup (missing \cap Before("node", pos))
Located ==
    /\ Scanned /\ completed = Completed
    /\ located = VisibleNodes \cup (ToLocate \cap IdsOf("node"))

MemoryInv ==
    /\ job \in Job /\ MemoryLegible
    /\ pos \in Nat \ {0}
    /\ pc \in {"scan", "complete", "fetch", "locate", "assemble", "end"}
    /\ pc # "end" => frame = NotRead
    /\ pc = "scan" => Scanning
    /\ pc = "complete" => Scanned /\ completed = {}
    /\ pc = "fetch" => Fetching
    /\ pc = "locate" => Locating
    /\ pc = "assemble" => Nothing \/ Located

-----------------------------------------------------------------------------
(***************************************************************************)
(* Lemmas on a pass over the file.                                         *)
(***************************************************************************)
\* A pass starts with nothing, gathers the group it is at and ends with all.
LEMMA PassStarts == ASSUME job \in Job, NEW kind PROVE Before(kind, 1) = {}
BY DEF Before, Job

LEMMA PassSteps ==
    ASSUME job \in Job, pos \in Nat \ {0}, ~PassEnds, NEW kind
    PROVE  Before(kind, pos + 1) =
             IF job.file[pos].kind = kind THEN Before(kind, pos) \cup Ids ELSE Before(kind, pos)
<1>1. pos \in DOMAIN job.file /\ DOMAIN job.file \subseteq Nat
  BY DEF Job, PassEnds
<1>2. \A j \in DOMAIN job.file : j < pos + 1 <=> j < pos \/ j = pos
  BY <1>1
<1>. QED BY <1>1, <1>2 DEF Before, Ids

LEMMA PassEndsWithAll ==
    ASSUME job \in Job, pos \in Nat \ {0}, PassEnds, NEW kind
    PROVE  Before(kind, pos) = IdsOf(kind)
<1>1. \A j \in DOMAIN job.file : j < pos
  BY DEF Job, PassEnds
<1>. QED BY <1>1 DEF Before, IdsOf

\* At a way group of a sorted file all nodes have been read.
LEMMA NodesBeforeWays ==
    ASSUME job \in Job, NodesFirst, pos \in Nat \ {0}, At("way")
    PROVE  Before("node", pos) = IdsOf("node")
<1>1. pos \in DOMAIN job.file /\ DOMAIN job.file \subseteq Nat
  BY DEF Job, At, PassEnds
<1>2. \A j \in DOMAIN job.file : job.file[j].kind = "node" => j < pos
  BY <1>1 DEF NodesFirst, At
<1>. QED BY <1>2 DEF Before, IdsOf

\* A way refers to a node in the box, of those the reader has parsed.
LEMMA TouchedByVisible ==
    ASSUME NEW w
    PROVE  (job.box => job.refs[w] \cap VisibleNodes # {}) <=> Touched(w)
BY DEF VisibleNodes, Visible, Touched

-----------------------------------------------------------------------------
(***************************************************************************)
(* The invariant.                                                          *)
(***************************************************************************)
\* A read does not change its extract.
LEMMA SameJob ==
    ASSUME job' = job
    PROVE  /\ (job \in Job)' = (job \in Job) /\ MemoryLegible' = MemoryLegible
           /\ VisibleNodes' = VisibleNodes /\ WaysOfBox' = WaysOfBox
           /\ IdsOf("node")' = IdsOf("node") /\ IdsOf("relation")' = IdsOf("relation")
           /\ ToComplete' = ToComplete /\ Completed' = Completed /\ ToLocate' = ToLocate
BY DEF MemoryLegible, NodesFirst, MembersApart, CompletedAlone, VisibleNodes, Visible, WaysOfBox,
       Reaching, IdsOf, ToComplete, Completed, ToLocate, PresentMembers, Touched, MemberWays,
       MemberIds

\* What was read so far depends on the position only.
LEMMA SamePass ==
    ASSUME job' = job
    PROVE  /\ Before("node", pos)' = Before("node", pos')
           /\ Before("way", pos)' = Before("way", pos')
           /\ Before("relation", pos)' = Before("relation", pos')
           /\ Visible(Before("node", pos))' = Visible(Before("node", pos'))
           /\ Reaching(Before("way", pos))' = Reaching(Before("way", pos'))
BY DEF Before, Visible, Reaching, Touched, IdsOf

LEMMA InvInit == MemoryInit /\ MemoryLegible => MemoryInv
<1>. SUFFICES ASSUME MemoryInit, MemoryLegible PROVE MemoryInv
  OBVIOUS
<1>1. job \in Job /\ pos = 1 /\ pc = "scan" /\ frame = NotRead
  BY ExtractAssumption DEF MemoryInit, Init
<1>2. Scanning
  BY <1>1, PassStarts DEF MemoryInit, Scanning, Visible, Reaching
<1>. QED BY <1>1, <1>2 DEF MemoryInv

LEMMA InvNext == MemoryInv /\ [MemoryNext]_vars => MemoryInv'
<1>. SUFFICES ASSUME MemoryInv, [MemoryNext]_vars PROVE MemoryInv'
  OBVIOUS
<1>1. job' = job
  BY DEF MemoryNext, vars, parsed, ScanNodes, ScanWays, ScanWaysFails, ScanRelations, ScanEnds,
     FindMissingMembers, FetchMembers, FindBoundaryNodes, LocateNodes, LocateEnds, Assemble
<1>2. job \in Job /\ MemoryLegible /\ (job \in Job /\ MemoryLegible)'
  BY <1>1, SameJob DEF MemoryInv
<1>. USE DEF MemoryInv
<1>3. CASE UNCHANGED vars
  BY <1>1, <1>2, <1>3, SameJob, SamePass
     DEF vars, parsed, Scanning, Scanned, Nothing, Fetching, Locating, Located
<1>4. CASE ScanNodes
  <2>1. Before("node", pos + 1) = Before("node", pos) \cup Ids
        /\ Before("way", pos + 1) = Before("way", pos)
        /\ Before("relation", pos + 1) = Before("relation", pos)
    BY <1>2, <1>4, PassSteps DEF ScanNodes, At
  <2>2. Scanning'
    BY <1>1, <1>4, <2>1, SamePass DEF ScanNodes, Skip, Scanning, Visible
  <2>. QED BY <1>2, <1>4, <2>2 DEF ScanNodes, Skip
<1>5. CASE ScanWays
  <2>1. Before("way", pos + 1) = Before("way", pos) \cup Ids
        /\ Before("node", pos + 1) = Before("node", pos)
        /\ Before("relation", pos + 1) = Before("relation", pos)
    BY <1>2, <1>5, PassSteps DEF ScanWays, At
  <2>2. all_nodes = VisibleNodes
    BY <1>2, <1>5, NodesBeforeWays DEF ScanWays, Scanning, VisibleNodes, MemoryLegible
  <2>3. all_ways' = all_ways \cup Reaching(Ids)
    BY <1>5, <2>2, TouchedByVisible DEF ScanWays, Reaching
  <2>4. Scanning'
    BY <1>1, <1>5, <2>1, <2>3, SamePass DEF ScanWays, Skip, Scanning, Reaching
  <2>. QED BY <1>2, <1>5, <2>4 DEF ScanWays, Skip
<1>6. CASE ScanWaysFails
  <2>1. pos \in DOMAIN job.file /\ DOMAIN job.file \subseteq Nat
    BY <1>2, <1>6 DEF Job, ScanWaysFails, At, PassEnds
  <2>2. PICK b \in DOMAIN job.file : b < pos /\ job.file[b].kind = "node"
    BY <1>2, <1>6, <2>1 DEF ScanWaysFails, At, MemoryLegible, NodesFirst
  <2>3. b \in 1..pos - 1
    BY <1>2, <2>1, <2>2 DEF Job
  <2>. QED BY <1>6, <2>2, <2>3 DEF ScanWaysFails
<1>7. CASE ScanRelations
  <2>1. Before("relation", pos + 1) = Before("relation", pos) \cup Ids
        /\ Before("way", pos + 1) = Before("way", pos)
        /\ Before("node", pos + 1) = Before("node", pos)
    BY <1>2, <1>7, PassSteps DEF ScanRelations, At
  <2>2. Scanning'
    BY <1>1, <1>7, <2>1, SamePass DEF ScanRelations, Skip, Scanning
  <2>. QED BY <1>2, <1>7, <2>2 DEF ScanRelations, Skip
<1>8. CASE ScanEnds
  <2>1. Scanned /\ completed = {}
    BY <1>2, <1>8, PassEndsWithAll DEF ScanEnds, Scanning, Scanned, VisibleNodes, WaysOfBox
  <2>2. CASE all_nodes = {}
    BY <1>1, <1>2, <1>8, <2>1, <2>2, SameJob DEF ScanEnds, Begin, Nothing, Scanned
  <2>3. CASE all_nodes # {}
    BY <1>1, <1>2, <1>8, <2>1, <2>3, SameJob DEF ScanEnds, Begin, Scanned
  <2>. QED BY <2>2, <2>3
<1>9. CASE FindMissingMembers
  <2>1. missing' = ToComplete
    BY <1>9 DEF FindMissingMembers, MissingMembers, ToComplete, Scanned
  <2>2. Before("way", 1) = {}
    BY <1>2, PassStarts
  <2>. QED BY <1>1, <1>2, <1>9, <2>1, <2>2, SameJob, SamePass
       DEF FindMissingMembers, Begin, parsed, Scanned, Fetching
<1>10. CASE FetchMembers
  <2>1. Before("way", pos + 1) =
          IF job.file[pos].kind = "way" THEN Before("way", pos) \cup Ids ELSE Before("way", pos)
    BY <1>2, <1>10, PassSteps DEF FetchMembers
  <2>2. completed' = missing \cap Before("way", pos + 1)
    BY <1>10, <2>1 DEF FetchMembers, Fetching
  <2>. QED BY <1>1, <1>2, <1>10, <2>2, SameJob, SamePass
       DEF FetchMembers, Skip, parsed, Scanned, Fetching
<1>11. CASE FindBoundaryNodes
  <2>1. completed = Completed
    BY <1>2, <1>11, PassEndsWithAll DEF FindBoundaryNodes, Fetching, Completed
  <2>2. missing' = ToLocate
    BY <1>11, <2>1 DEF FindBoundaryNodes, BoundaryNodes, ToLocate, Fetching, Scanned
  <2>3. Before("node", 1) = {}
    BY <1>2, PassStarts
  <2>. QED BY <1>1, <1>2, <1>11, <2>1, <2>2, <2>3, SameJob, SamePass
       DEF FindBoundaryNodes, Begin, parsed, Fetching, Scanned, Locating
<1>12. CASE LocateNodes
  <2>1. Before("node", pos + 1) =
          IF job.file[pos].kind = "node" THEN Before("node", pos) \cup Ids ELSE Before("node", pos)
    BY <1>2, <1>12, PassSteps DEF LocateNodes
  <2>2. located' = VisibleNodes \cup (missing \cap Before("node", pos + 1))
    BY <1>12, <2>1 DEF LocateNodes, Locating
  <2>. QED BY <1>1, <1>2, <1>12, <2>2, SameJob, SamePass
       DEF LocateNodes, Skip, parsed, Scanned, Locating
<1>13. CASE LocateEnds
  <2>1. located = VisibleNodes \cup (ToLocate \cap IdsOf("node"))
    BY <1>2, <1>13, PassEndsWithAll DEF LocateEnds, Locating
  <2>. QED BY <1>1, <1>2, <1>13, <2>1, SameJob DEF LocateEnds, Begin, parsed, Scanned, Locating, Located
<1>14. CASE Assemble
  BY <1>2, <1>14 DEF Assemble
<1>. QED BY <1>3, <1>4, <1>5, <1>6, <1>7, <1>8, <1>9, <1>10, <1>11, <1>12, <1>13, <1>14
         DEF MemoryNext

\* On an extract the readers agree on; the extract of a read does not change.
Gathers == MemoryLegible => MemoryInv

LEMMA GathersNext == Gathers /\ [MemoryNext]_vars => Gathers'
<1>. SUFFICES ASSUME Gathers, [MemoryNext]_vars, MemoryLegible' PROVE MemoryInv'
  BY DEF Gathers
<1>1. job' = job
  BY DEF MemoryNext, vars, parsed, ScanNodes, ScanWays, ScanWaysFails, ScanRelations, ScanEnds,
     FindMissingMembers, FetchMembers, FindBoundaryNodes, LocateNodes, LocateEnds, Assemble
<1>2. MemoryInv
  BY <1>1, SameJob DEF Gathers
<1>. QED BY <1>2, InvNext

\* Each pass has gathered what it was to gather from the groups behind it
\* (pbfreader.pyx:484-504, 583-599, 619-646).
THEOREM MemoryInvariant == MemorySpec => []Gathers
<1>1. MemoryInit => Gathers
  BY InvInit DEF Gathers
<1>. QED BY <1>1, GathersNext, PTL DEF MemorySpec

-----------------------------------------------------------------------------
(***************************************************************************)
(* The refinement.                                                         *)
(***************************************************************************)
MembersOfLayer == UNION {LayerMembers(r) : r \in LayerRelations}

\* The relations that pass the filter and reach into the box are the layer's.
LEMMA LayerRelation ==
    ASSUME Scanned, NEW r
    PROVE  r \in LayerRelations <=>
             r \in filtered_relations /\ \E w \in MemberWays(r) : w \in WaysOfBox
BY DEF Scanned, filtered_relations, LayerRelations, PresentMembers, WaysOfBox, Reaching

\* A way that a relation names by its id is a member way of it.
LEMMA NamedIsMember ==
    ASSUME job \in Job, MembersApart, NEW r \in IdsOf("relation"),
           NEW w \in IdsOf("way"), w \in MemberIds(r)
    PROVE  w \in PresentMembers(r)
BY IdsAreIds DEF MembersApart, PresentMembers

\* The standalone ways are those of the box that no relation of the layer has.
LEMMA NormalWays ==
    ASSUME job \in Job, MembersApart, Scanned
    PROVE  normal_ways = StandaloneWays
<1>1. ASSUME NEW w \in WaysOfBox
      PROVE  w \in relation_way_ids <=> \E r \in LayerRelations : w \in MemberWays(r)
  <2>1. w \in IdsOf("way")
    BY DEF WaysOfBox, Reaching
  <2>2. ASSUME NEW r \in filtered_relations, w \in MemberIds(r)
        PROVE  r \in LayerRelations /\ w \in MemberWays(r)
    BY <1>1, <2>1, <2>2, NamedIsMember, LayerRelation
       DEF Scanned, filtered_relations, PresentMembers
  <2>3. ASSUME NEW r \in LayerRelations, w \in MemberWays(r)
        PROVE  r \in filtered_relations /\ w \in MemberIds(r)
    <3>1. \E m \in job.members[r] : m[2] = w
      BY <2>3 DEF MemberWays
    <3>. QED BY <3>1, LayerRelation DEF MemberIds
  <2>. QED BY <2>2, <2>3 DEF relation_way_ids
<1>. QED BY <1>1 DEF normal_ways, StandaloneWays, Scanned, WaysOfBox, Reaching

\* A relation of the layer gets the member ways that the layer gives it.
LEMMA MembersOfOne ==
    ASSUME job \in Job, MembersApart, Scanned, completed = Completed,
           NEW r \in LayerRelations
    PROVE  get_ways_for_relation(r, relation_ways) = get_ways_for_relation(r, MembersOfLayer)
<1>1. r \in filtered_relations /\ r \in IdsOf("relation") /\ MemberWays(r) \cap WaysOfBox # {}
  BY LayerRelation DEF LayerRelations
<1>2. ASSUME NEW w \in MemberIds(r), w \in WaysOfBox \cup Completed
      PROVE  w \in MembersOfLayer
  <2>1. w \in IdsOf("way") /\ (Touched(w) \/ job.complete)
    BY <1>2 DEF WaysOfBox, Reaching, Completed, ToComplete
  <2>2. w \in LayerMembers(r)
    BY <1>1, <2>1, NamedIsMember DEF LayerMembers
  <2>. QED BY <2>2 DEF MembersOfLayer
<1>3. ASSUME NEW w \in MemberIds(r), w \in MembersOfLayer
      PROVE  w \in WaysOfBox \cup Completed
  <2>1. w \in IdsOf("way") /\ (Touched(w) \/ job.complete)
    BY <1>3 DEF MembersOfLayer, LayerMembers, PresentMembers
  <2>2. w \in MemberWays(r)
    BY <1>1, <2>1, NamedIsMember DEF PresentMembers
  <2>3. CASE w \in WaysOfBox
    BY <2>3
  <2>4. CASE w \notin WaysOfBox
    <3>1. job.box /\ job.complete
      BY <2>1, <2>4 DEF WaysOfBox, Reaching, Touched
    <3>. QED BY <1>1, <2>1, <2>2, <2>4, <3>1 DEF Completed, ToComplete
  <2>. QED BY <2>3, <2>4
<1>4. \A w \in MemberIds(r) : w \in relation_ways <=> w \in WaysOfBox \cup Completed
  BY <1>1 DEF relation_ways, relation_way_ids, Scanned
<1>. QED BY <1>2, <1>3, <1>4 DEF get_ways_for_relation

\* A relation that is not of the layer gets none: what is completed belongs to
\* relations that reach into the box, and none of them shares a way with it.
LEMMA NoMembersElsewhere ==
    ASSUME job \in Job, MembersApart, CompletedAlone, Scanned, completed = Completed,
           NEW r \in filtered_relations, r \notin LayerRelations
    PROVE  get_ways_for_relation(r, relation_ways) = {}
<1>1. r \in IdsOf("relation") /\ MemberWays(r) \cap WaysOfBox = {}
  BY LayerRelation DEF filtered_relations, Scanned
<1>2. SUFFICES ASSUME NEW w \in MemberIds(r), w \in WaysOfBox \cup Completed
               PROVE  FALSE
  BY DEF get_ways_for_relation, relation_ways, Scanned
<1>3. w \in PresentMembers(r)
  <2>1. w \in IdsOf("way")
    BY <1>2 DEF WaysOfBox, Reaching, Completed
  <2>. QED BY <1>1, <2>1, NamedIsMember
<1>4. w \notin WaysOfBox
  BY <1>1, <1>3 DEF PresentMembers
<1>5. PICK s \in IdsOf("relation") : w \in MemberWays(s) /\ MemberWays(s) \cap WaysOfBox # {}
  BY <1>2, <1>4 DEF Completed, ToComplete
<1>6. job.box /\ job.complete
  BY <1>2, <1>4 DEF Completed, ToComplete
<1>7. \E v \in PresentMembers(s) : Touched(v)
  BY <1>5 DEF WaysOfBox, Reaching, PresentMembers
<1>8. \E v \in PresentMembers(r) : Touched(v)
  BY <1>1, <1>3, <1>5, <1>6, <1>7 DEF CompletedAlone
<1>. QED BY <1>1, <1>8 DEF PresentMembers, WaysOfBox, Reaching

\* Every vertex of a way that has rows or members is located.
LEMMA AllLocated ==
    ASSUME Located, NEW w, w \in WaysOfBox \cup Completed
    PROVE  job.refs[w] \cap IdsOf("node") \subseteq located
<1>1. CASE job.box
  <2>1. WaysOfBox # {}
    <3>1. CASE w \in WaysOfBox
      BY <3>1
    <3>2. CASE w \in Completed
      <4>1. PICK r \in IdsOf("relation") : MemberWays(r) \cap WaysOfBox # {}
        BY <3>2 DEF Completed, ToComplete
      <4>. QED BY <4>1
    <3>. QED BY <3>1, <3>2
  <2>2. ASSUME NEW n \in job.refs[w], n \notin VisibleNodes
        PROVE  n \in ToLocate
    BY <1>1, <2>1, <2>2 DEF ToLocate
  <2>. QED BY <2>2 DEF Located
<1>2. CASE ~job.box
  BY <1>2 DEF Located, VisibleNodes, Visible
<1>. QED BY <1>1, <1>2

\* What is assembled is what LayerRead promises.
LEMMA FrameIsLayer ==
    ASSUME job \in Job, MemoryLegible, Located
    PROVE  prepare_geodataframe(points, normal_ways, filtered_relations, relation_ways, located)
             = Layer
<1>1. Scanned /\ completed = Completed
  BY DEF Located
<1>2. points = PointNodes
  BY <1>1 DEF points, PointNodes, Scanned, VisibleNodes, Visible
<1>3. normal_ways = StandaloneWays
  BY <1>1, NormalWays DEF MemoryLegible
<1>4. located \subseteq IdsOf("node")
  BY DEF Located, VisibleNodes, Visible
<1>5. \A ways : ways \subseteq WaysOfBox \cup Completed
                  => Parts(ways, located) = Parts(ways, IdsOf("node"))
  <2>1. SUFFICES ASSUME NEW ways, ways \subseteq WaysOfBox \cup Completed
                 PROVE  Parts(ways, located) = Parts(ways, IdsOf("node"))
    OBVIOUS
  <2>2. \A w \in ways : job.refs[w] \cap IdsOf("node") \subseteq located
    BY <2>1, AllLocated
  <2>. QED BY <1>4, <2>2, PartsNeedOwnNodes
<1>6. WayRows(StandaloneWays, located) = WayRows(StandaloneWays, IdsOf("node"))
  <2>1. \A w \in StandaloneWays : Parts({w}, located) = Parts({w}, IdsOf("node"))
    <3>1. \A w \in StandaloneWays : {w} \subseteq WaysOfBox \cup Completed
      BY DEF StandaloneWays, WaysOfBox, Reaching
    <3>. QED BY <1>5, <3>1
  <2>. QED BY <2>1 DEF WayRows
<1> DEFINE rowOf(r) == [kind |-> "relation", id |-> r,
                        parts |-> Parts(get_ways_for_relation(r, relation_ways), located)]
<1>7. \A r \in LayerRelations :
        rowOf(r) = [kind |-> "relation", id |-> r,
                    parts |-> Parts(get_ways_for_relation(r, MembersOfLayer), IdsOf("node"))]
  <2>1. SUFFICES ASSUME NEW r \in LayerRelations
                 PROVE  Parts(get_ways_for_relation(r, relation_ways), located)
                          = Parts(get_ways_for_relation(r, MembersOfLayer), IdsOf("node"))
    OBVIOUS
  <2>2. get_ways_for_relation(r, relation_ways) \subseteq WaysOfBox \cup Completed
    BY <1>1 DEF get_ways_for_relation, relation_ways, Scanned
  <2>. QED BY <1>1, <1>5, <2>2, MembersOfOne DEF MemoryLegible
<1>8. \A r \in filtered_relations : r \notin LayerRelations => rowOf(r).parts = {}
  <2>1. \A r \in filtered_relations : r \notin LayerRelations
                                        => get_ways_for_relation(r, relation_ways) = {}
    BY <1>1, NoMembersElsewhere DEF MemoryLegible
  <2>2. Parts({}, located) = {}
    BY DEF Parts
  <2>. QED BY <2>1, <2>2
<1>9. LayerRelations \subseteq filtered_relations
  BY <1>1, LayerRelation
<1>10. \A row : row.parts # {} =>
         (row \in RelationRows(filtered_relations, relation_ways, located)
            <=> row \in RelationRows(LayerRelations, MembersOfLayer, IdsOf("node")))
  <2>1. RelationRows(filtered_relations, relation_ways, located)
          = {rowOf(r) : r \in filtered_relations}
    BY DEF RelationRows
  <2>2. RelationRows(LayerRelations, MembersOfLayer, IdsOf("node"))
          = {rowOf(r) : r \in LayerRelations}
    BY <1>7 DEF RelationRows
  <2>. QED BY <1>8, <1>9, <2>1, <2>2
<1>11. prepare_geodataframe(PointNodes, StandaloneWays, filtered_relations, relation_ways, located)
         = prepare_geodataframe(PointNodes, StandaloneWays, LayerRelations, MembersOfLayer,
                                IdsOf("node"))
  BY <1>6, <1>10 DEF prepare_geodataframe
<1>. QED BY <1>2, <1>3, <1>11 DEF Layer, MembersOfLayer

\* Nor is there anything in the layer when the reader saw no node in the box.
LEMMA NothingIsLayer ==
    ASSUME job \in Job, MemoryLegible, Nothing
    PROVE  Layer = {} /\ prepare_geodataframe(points, normal_ways, filtered_relations,
                                              relation_ways, located) = {}
<1>1. PointNodes = {}
  BY DEF PointNodes, Nothing, VisibleNodes, Visible
<1>2. ASSUME IdsOf("node") = {} PROVE Layer = {}
  <2>1. \A ways : Parts(ways, {}) = {}
    BY DEF Parts, Drawable
  <2>2. ASSUME NEW row \in WayRows(StandaloneWays, {}) PROVE row.parts = {}
    <3>1. PICK w : row = [kind |-> "way", id |-> w, parts |-> Parts({w}, {})]
      BY DEF WayRows
    <3>2. Parts({w}, {}) = {}
      BY <2>1
    <3>. QED BY <3>1, <3>2
  <2>3. \A row : row \in RelationRows(LayerRelations, MembersOfLayer, {}) => row.parts = {}
    BY <2>1 DEF RelationRows
  <2>4. NodeRows(PointNodes) = {}
    BY <1>1 DEF NodeRows
  <2>5. \A row : row \notin Layer
    BY <1>2, <2>2, <2>3, <2>4, RowOfFrame DEF Layer, MembersOfLayer
  <2>. QED BY <2>5 DEF Layer, prepare_geodataframe
<1>3. ASSUME \A w : ~Touched(w) PROVE Layer = {}
  <2>1. StandaloneWays = {} /\ LayerRelations = {}
    BY <1>3 DEF StandaloneWays, LayerRelations
  <2>2. \A rw, at : prepare_geodataframe({}, {}, {}, rw, at) = {}
    BY DEF prepare_geodataframe, NodeRows, WayRows, RelationRows
  <2>. QED BY <1>1, <2>1, <2>2 DEF Layer
<1>4. points = {} /\ normal_ways = {} /\ filtered_relations = {}
  BY DEF Nothing, points, normal_ways, filtered_relations
<1>5. \A rw, at : prepare_geodataframe({}, {}, {}, rw, at) = {}
  BY DEF prepare_geodataframe, NodeRows, WayRows, RelationRows
<1>6. IdsOf("node") = {} \/ \A w : ~Touched(w)
  BY DEF Nothing, VisibleNodes, Visible, Touched
<1>. QED BY <1>2, <1>3, <1>4, <1>5, <1>6

LEMMA StepReads == MemoryInv /\ [MemoryNext]_vars => [Read]_<<job, frame>>
<1>. SUFFICES ASSUME MemoryInv, [MemoryNext]_vars PROVE [Read]_<<job, frame>>
  OBVIOUS
<1>1. CASE Assemble
  <2>1. prepare_geodataframe(points, normal_ways, filtered_relations, relation_ways, located) = Layer
    BY <1>1, FrameIsLayer, NothingIsLayer DEF Assemble, MemoryInv
  <2>. QED BY <1>1, <2>1 DEF Assemble, MemoryInv, Read
<1>2. CASE ScanWaysFails
  <2>1. pos \in DOMAIN job.file /\ DOMAIN job.file \subseteq Nat
    BY <1>2 DEF MemoryInv, Job, ScanWaysFails, At, PassEnds
  <2>2. PICK b \in DOMAIN job.file : b < pos /\ job.file[b].kind = "node"
    BY <1>2, <2>1 DEF MemoryInv, ScanWaysFails, At, MemoryLegible, NodesFirst
  <2>3. b \in 1..pos - 1
    BY <2>1, <2>2 DEF MemoryInv, Job
  <2>. QED BY <1>2, <2>2, <2>3 DEF ScanWaysFails
<1>3. MemoryNext => Assemble \/ ScanWaysFails \/ UNCHANGED <<job, frame>>
  BY DEF MemoryNext, ScanNodes, ScanWays, ScanRelations, ScanEnds, FindMissingMembers, FetchMembers,
     FindBoundaryNodes, LocateNodes, LocateEnds
<1>. QED BY <1>1, <1>2, <1>3 DEF vars

\* On sorted extracts whose ids and completed members are apart the in-memory
\* reader implements the promise of LayerRead: the layer's rows, none of them
\* cut at the edge of the box (pbfreader.pyx:473-652, data_manager.pyx:86-211).
THEOREM ReadsLayer == MemorySpec => ReadsTheLayer
<1>1. MemoryInit => Init
  BY DEF MemoryInit
<1>2. Gathers /\ [MemoryNext]_vars => [MemoryLegible => Read]_<<job, frame>>
  BY StepReads DEF Gathers
<1>. QED BY <1>1, <1>2, MemoryInvariant, PTL DEF MemorySpec, ReadsTheLayer

-----------------------------------------------------------------------------
(***************************************************************************)
(* Type correctness, on files in any order; that no way is fetched twice   *)
(* needs that the second pass looks for none that the first one kept.      *)
(***************************************************************************)
MemoryTyped ==
    /\ MemoryTypeOK
    /\ pc \in {"scan", "complete"} => completed = {}
    /\ pc = "fetch" => missing \cap all_ways = {}

LEMMA TypedInit == MemoryInit => MemoryTyped
<1>. SUFFICES ASSUME MemoryInit PROVE MemoryTyped
  OBVIOUS
<1>1. job \in Job
  BY ExtractAssumption DEF MemoryInit, Init
<1>2. Len(job.file) \in Nat
  BY <1>1 DEF Job
<1>. QED BY <1>1, <1>2 DEF MemoryInit, Init, MemoryTyped, MemoryTypeOK, FrameOK

LEMMA TypedNext == MemoryTyped /\ [MemoryNext]_vars => MemoryTyped'
<1>. SUFFICES ASSUME MemoryTyped, [MemoryNext]_vars PROVE MemoryTyped'
  OBVIOUS
<1>. USE DEF MemoryTyped, MemoryTypeOK
<1>1. Len(job.file) \in Nat /\ DOMAIN job.file = 1..Len(job.file)
  BY DEF Job
<1>2. ASSUME ~PassEnds PROVE Ids \subseteq Id /\ pos + 1 \in 1..Len(job.file) + 1
  <2>1. pos \in DOMAIN job.file
    BY <1>1, <1>2 DEF PassEnds
  <2>2. job.file[pos] \in Group
    BY <2>1 DEF Job
  <2>. QED BY <1>1, <2>1, <2>2 DEF Ids, Group
<1>3. CASE UNCHANGED vars
  BY <1>3 DEF vars, parsed, FrameOK
<1>4. CASE ScanNodes
  BY <1>2, <1>4 DEF ScanNodes, At, Skip, FrameOK
<1>5. CASE ScanWays
  BY <1>2, <1>5 DEF ScanWays, At, Skip, FrameOK
<1>6. CASE ScanWaysFails
  BY <1>6 DEF ScanWaysFails, parsed, FrameOK
<1>7. CASE ScanRelations
  BY <1>2, <1>7 DEF ScanRelations, At, Skip, FrameOK
<1>8. CASE ScanEnds
  BY <1>1, <1>8 DEF ScanEnds, Begin, FrameOK
<1>9. CASE FindMissingMembers
  <2>1. missing' \subseteq Id /\ missing' \cap all_ways = {}
    BY <1>9 DEF FindMissingMembers, MissingMembers, MemberWays
  <2>. QED BY <1>1, <1>9, <2>1 DEF FindMissingMembers, Begin, parsed, FrameOK
<1>10. CASE FetchMembers
  BY <1>2, <1>10 DEF FetchMembers, Skip, parsed, FrameOK
<1>11. CASE FindBoundaryNodes
  <2>1. missing' \subseteq Id
    <3>1. \A w \in all_ways \cup completed : job.refs[w] \subseteq Id
      BY DEF Job
    <3>. QED BY <1>11, <3>1 DEF FindBoundaryNodes, BoundaryNodes
  <2>. QED BY <1>1, <1>11, <2>1 DEF FindBoundaryNodes, Begin, parsed, FrameOK
<1>12. CASE LocateNodes
  BY <1>2, <1>12 DEF LocateNodes, Skip, parsed, FrameOK
<1>13. CASE LocateEnds
  BY <1>1, <1>13 DEF LocateEnds, Begin, parsed, FrameOK
<1>14. CASE Assemble
  <2>1. /\ points \in SUBSET Id /\ normal_ways \in SUBSET Id /\ filtered_relations \in SUBSET Id
        /\ relation_ways \in SUBSET Id /\ located \in SUBSET Id
    BY DEF points, normal_ways, filtered_relations, relation_ways
  <2>2. prepare_geodataframe(points, normal_ways, filtered_relations, relation_ways, located)
          \in SUBSET Row
    BY <2>1, RowsTyped
  <2>3. FrameOK(frame')
    BY <1>14, <2>2, ReadIsOK DEF Assemble
  <2>. QED BY <1>14, <2>3 DEF Assemble, parsed, FrameOK
<1>. QED BY <1>3, <1>4, <1>5, <1>6, <1>7, <1>8, <1>9, <1>10, <1>11, <1>12, <1>13, <1>14
         DEF MemoryNext

\* Types, no pass past the end of the file and no way completed that the box had
\* already kept (pbfreader.pyx:558-592), whatever the extract.
THEOREM MemoryTypes == MemorySpec => []MemoryTypeOK
<1>1. MemoryTyped => MemoryTypeOK
  BY DEF MemoryTyped
<1>. QED BY <1>1, TypedInit, TypedNext, PTL DEF MemorySpec
-----------------------------------------------------------------------------
(***************************************************************************)
(* Files in any order: ways may be missed, but what is read of them is     *)
(* what they are.                                                          *)
(***************************************************************************)
\* The ways that a relation which reaches into the box may ask for.
Completable ==
    {w \in IdsOf("way") :
        /\ job.box /\ job.complete
        /\ \E s \in IdsOf("relation") :
              w \in MemberWays(s) /\ MemberWays(s) \cap WaysOfBox # {}}

FindsVertices ==
    /\ located \subseteq IdsOf("node")
    /\ \A w \in all_ways \cup completed : job.refs[w] \cap IdsOf("node") \subseteq located

FirstPass ==
    /\ all_nodes = Visible(Before("node", pos)) /\ all_relations = Before("relation", pos)
    /\ completed = {}
NodesParsed == all_nodes = VisibleNodes /\ all_relations = IdsOf("relation")
SecondPass ==
    /\ NodesParsed /\ missing \cap IdsOf("way") \subseteq Completable
    /\ all_ways = {} => missing = {} /\ completed = {}
ThirdPass ==
    /\ NodesParsed /\ (all_ways = {} => completed = {})
    /\ missing = IF job.box /\ all_ways # {} THEN BoundaryNodes ELSE {}
    /\ located = VisibleNodes \cup (missing \cap Before("node", pos))
ReadAll ==
    \/ all_nodes = {} /\ all_ways = {} /\ all_relations = {} /\ completed = {}
    \/ NodesParsed /\ FindsVertices

LooseInv ==
    /\ job \in Job /\ pos \in Nat \ {0}
    /\ pc \in {"scan", "complete", "fetch", "locate", "assemble", "end"}
    /\ pc # "end" => frame = NotRead
    /\ all_nodes \subseteq VisibleNodes /\ all_ways \subseteq WaysOfBox
    /\ completed \subseteq Completable
    /\ pc = "scan" => FirstPass
    /\ pc = "complete" => NodesParsed /\ completed = {}
    /\ pc = "fetch" => SecondPass
    /\ pc = "locate" => ThirdPass
    /\ pc = "assemble" => ReadAll
    /\ UnsortedOnlyLoses

\* A group that is being read holds elements of the extract.
LEMMA GroupOfFile ==
    ASSUME job \in Job, pos \in Nat \ {0}, NEW kind, At(kind)
    PROVE  Ids \subseteq IdsOf(kind)
<1>1. pos \in DOMAIN job.file /\ job.file[pos].kind = kind
  BY DEF Job, At, PassEnds
<1>. QED BY <1>1 DEF Ids, IdsOf

LEMMA BeforeInFile == ASSUME NEW kind PROVE Before(kind, pos) \subseteq IdsOf(kind)
BY DEF Before, IdsOf

LEMMA VisibleInFile == VisibleNodes \subseteq IdsOf("node")
BY DEF VisibleNodes, Visible

\* A kept relation with a member that was kept or completed is of the layer, and
\* the member is one that the layer gives it.
LEMMA MemberOfLayer ==
    ASSUME job \in Job, MembersApart, CompletedAlone, all_relations = IdsOf("relation"),
           all_ways \subseteq WaysOfBox, completed \subseteq Completable,
           NEW r \in filtered_relations, NEW w \in get_ways_for_relation(r, relation_ways)
    PROVE  r \in LayerRelations /\ w \in LayerMembers(r)
<1>1. /\ r \in IdsOf("relation") /\ job.relations /\ Matches("relation", r)
      /\ w \in MemberIds(r) /\ w \in all_ways \cup completed
  BY DEF filtered_relations, get_ways_for_relation, relation_ways
<1>2. w \in IdsOf("way")
  BY <1>1 DEF WaysOfBox, Reaching, Completable
<1>3. w \in PresentMembers(r)
  BY <1>1, <1>2, NamedIsMember
<1>4. CASE w \in all_ways
  <2>1. Touched(w)
    BY <1>4 DEF WaysOfBox, Reaching
  <2>. QED BY <1>1, <1>3, <2>1 DEF LayerRelations, LayerMembers
<1>5. CASE w \in completed
  <2>1. PICK s \in IdsOf("relation") : w \in MemberWays(s) /\ MemberWays(s) \cap WaysOfBox # {}
    BY <1>5 DEF Completable
  <2>2. job.box /\ job.complete
    BY <1>5 DEF Completable
  <2>3. \E v \in PresentMembers(s) : Touched(v)
    BY <2>1 DEF WaysOfBox, Reaching, PresentMembers
  <2>4. \E v \in PresentMembers(r) : Touched(v)
    BY <1>1, <1>3, <2>1, <2>2, <2>3 DEF CompletedAlone
  <2>. QED BY <1>1, <1>3, <2>2, <2>4 DEF LayerRelations, LayerMembers
<1>. QED BY <1>1, <1>4, <1>5

\* The ways kept for themselves are standalone in the layer.
LEMMA StandaloneInLayer ==
    ASSUME all_relations = IdsOf("relation"), all_ways \subseteq WaysOfBox
    PROVE  normal_ways \subseteq StandaloneWays
<1>1. SUFFICES ASSUME NEW w \in normal_ways, NEW r \in LayerRelations, w \in MemberWays(r)
               PROVE  w \in relation_way_ids
  BY DEF normal_ways, StandaloneWays, WaysOfBox, Reaching
<1>2. r \in filtered_relations
  BY DEF LayerRelations, filtered_relations
<1>3. \E m \in job.members[r] : m[2] = w
  BY <1>1 DEF MemberWays
<1>. QED BY <1>2, <1>3 DEF MemberIds, relation_way_ids

\* More of the same parts keep a row in the box.
LEMMA MoreParts ==
    ASSUME NEW k, NEW i, NEW few, NEW many, few \subseteq many,
           InBox([kind |-> k, id |-> i, parts |-> few])
    PROVE  InBox([kind |-> k, id |-> i, parts |-> many])
BY DEF InBox

\* Every row that is assembled is, perhaps in part, one of the layer.
LEMMA RowsOfLayer ==
    ASSUME job \in Job, MembersApart, CompletedAlone, NodesParsed, FindsVertices,
           all_ways \subseteq WaysOfBox, completed \subseteq Completable,
           NEW row \in prepare_geodataframe(points, normal_ways, filtered_relations,
                                            relation_ways, located)
    PROVE  \E whole \in Layer : /\ row.kind = whole.kind /\ row.id = whole.id
                                /\ row.parts \subseteq whole.parts
<1>1. row.parts # {} /\ InBox(row)
  BY RowOfFrame
<1>2. CASE row \in NodeRows(points)
  <2>1. points \subseteq PointNodes
    BY DEF points, PointNodes, NodesParsed, VisibleNodes, Visible
  <2>2. row \in NodeRows(PointNodes)
    BY <1>2, <2>1 DEF NodeRows
  <2>3. row \in Layer
    BY <1>1, <2>2, RowOfFrame DEF Layer
  <2>. QED BY <2>3
<1>3. CASE row \in WayRows(normal_ways, located)
  <2>1. PICK w \in normal_ways :
          row = [kind |-> "way", id |-> w, parts |-> Parts({w}, located)]
    BY <1>3 DEF WayRows
  <2>2. w \in StandaloneWays
    BY StandaloneInLayer DEF NodesParsed
  <2>3. Parts({w}, located) = Parts({w}, IdsOf("node"))
    <3>1. \A v \in {w} : job.refs[v] \cap IdsOf("node") \subseteq located
      BY DEF FindsVertices, normal_ways
    <3>. QED BY <3>1, PartsNeedOwnNodes DEF FindsVertices
  <2>4. row \in WayRows(StandaloneWays, IdsOf("node"))
    BY <2>1, <2>2, <2>3 DEF WayRows
  <2>5. row \in Layer
    BY <1>1, <2>4, RowOfFrame DEF Layer
  <2>. QED BY <2>5
<1>4. CASE row \in RelationRows(filtered_relations, relation_ways, located)
  <2>1. PICK r \in filtered_relations :
          row = [kind |-> "relation", id |-> r,
                 parts |-> Parts(get_ways_for_relation(r, relation_ways), located)]
    BY <1>4 DEF RelationRows
  <2> DEFINE mine == get_ways_for_relation(r, relation_ways)
             theirs == get_ways_for_relation(r, MembersOfLayer)
             whole == [kind |-> "relation", id |-> r, parts |-> Parts(theirs, IdsOf("node"))]
  <2>2. \A w \in mine : r \in LayerRelations /\ w \in LayerMembers(r)
    BY MemberOfLayer DEF NodesParsed
  <2>3. mine # {}
    <3>1. Parts({}, located) = {}
      BY DEF Parts
    <3>. QED BY <1>1, <2>1, <3>1
  <2>4. r \in LayerRelations /\ mine \subseteq theirs
    BY <2>2, <2>3 DEF get_ways_for_relation, MembersOfLayer
  <2>5. Parts(mine, located) = Parts(mine, IdsOf("node"))
    <3>1. \A w \in mine : job.refs[w] \cap IdsOf("node") \subseteq located
      BY DEF FindsVertices, get_ways_for_relation, relation_ways
    <3>. QED BY <3>1, PartsNeedOwnNodes DEF FindsVertices
  <2>6. Parts(mine, IdsOf("node")) \subseteq Parts(theirs, IdsOf("node"))
    BY <2>4 DEF Parts
  <2>7. whole.parts # {} /\ InBox(whole)
    BY <1>1, <2>1, <2>5, <2>6, MoreParts
  <2>8. whole \in RelationRows(LayerRelations, MembersOfLayer, IdsOf("node"))
    BY <2>4 DEF RelationRows
  <2>9. whole \in Layer
    BY <2>7, <2>8, RowOfFrame DEF Layer, MembersOfLayer
  <2>. QED BY <2>1, <2>5, <2>6, <2>9
<1>. QED BY <1>2, <1>3, <1>4, RowOfFrame

LEMMA LooseInit == MemoryInit => LooseInv
<1>. SUFFICES ASSUME MemoryInit PROVE LooseInv
  OBVIOUS
<1>1. job \in Job /\ pos = 1 /\ pc = "scan" /\ frame = NotRead
  BY ExtractAssumption DEF MemoryInit, Init
<1>2. FirstPass
  BY <1>1, PassStarts DEF MemoryInit, FirstPass, Visible
<1>. QED BY <1>1, <1>2 DEF MemoryInit, LooseInv, UnsortedOnlyLoses

\* What the invariant says of the extract is not touched by a step.
LEMMA SameLoose ==
    ASSUME job' = job
    PROVE  /\ (job \in Job)' = (job \in Job) /\ VisibleNodes' = VisibleNodes
           /\ WaysOfBox' = WaysOfBox /\ Completable' = Completable
           /\ IdsOf("node")' = IdsOf("node") /\ IdsOf("relation")' = IdsOf("relation")
           /\ IdsOf("way")' = IdsOf("way")
BY DEF VisibleNodes, Visible, WaysOfBox, Reaching, IdsOf, Completable, Touched, MemberWays

LEMMA LooseNext == LooseInv /\ [MemoryNext]_vars => LooseInv'
<1>. SUFFICES ASSUME LooseInv, [MemoryNext]_vars PROVE LooseInv'
  OBVIOUS
<1>1. job' = job
  BY DEF MemoryNext, vars, parsed, ScanNodes, ScanWays, ScanWaysFails, ScanRelations, ScanEnds,
     FindMissingMembers, FetchMembers, FindBoundaryNodes, LocateNodes, LocateEnds, Assemble
<1>2. job \in Job /\ (job \in Job)'
  BY <1>1 DEF LooseInv
<1>. USE DEF LooseInv
<1>p. frame' = NotRead \/ frame' = Failed => UnsortedOnlyLoses'
  BY DEF UnsortedOnlyLoses
<1>3. CASE UNCHANGED vars
  <2>1. UnsortedOnlyLoses' <=> UnsortedOnlyLoses
    BY <1>3 DEF vars, parsed, UnsortedOnlyLoses, MembersApart, CompletedAlone, Layer, IdsOf,
       MemberIds, MemberWays, PresentMembers, Touched, prepare_geodataframe, NodeRows, WayRows,
       RelationRows, Parts, InBox, PointNodes, StandaloneWays, LayerRelations, LayerMembers,
       Matches, get_ways_for_relation
  <2>2. BoundaryNodes' = BoundaryNodes
    BY <1>3 DEF vars, parsed, BoundaryNodes
  <2>. QED BY <1>1, <1>2, <1>3, <2>1, <2>2, SameLoose, SamePass
       DEF vars, parsed, FirstPass, NodesParsed, SecondPass, ThirdPass, ReadAll, FindsVertices
<1>4. CASE ScanNodes
  <2>1. Before("node", pos + 1) = Before("node", pos) \cup Ids
        /\ Before("relation", pos + 1) = Before("relation", pos)
    BY <1>2, <1>4, PassSteps DEF ScanNodes, At
  <2>2. FirstPass'
    BY <1>1, <1>4, <2>1, SamePass DEF ScanNodes, Skip, FirstPass, Visible
  <2>3. all_nodes' \subseteq VisibleNodes
    BY <1>2, <1>4, GroupOfFile DEF ScanNodes, VisibleNodes, Visible
  <2>. QED BY <1>1, <1>2, <1>4, <1>p, <2>2, <2>3, SameLoose DEF ScanNodes, Skip
<1>5. CASE ScanWays
  <2>1. Before("node", pos + 1) = Before("node", pos)
        /\ Before("relation", pos + 1) = Before("relation", pos)
    BY <1>2, <1>5, PassSteps DEF ScanWays, At
  <2>2. FirstPass'
    BY <1>1, <1>5, <2>1, SamePass DEF ScanWays, Skip, FirstPass
  <2>3. ASSUME NEW w \in Ids, job.box => job.refs[w] \cap all_nodes # {}
        PROVE  w \in WaysOfBox
    <3>1. w \in IdsOf("way")
      BY <1>2, <1>5, GroupOfFile DEF ScanWays
    <3>2. Touched(w)
      BY <2>3, TouchedByVisible
    <3>. QED BY <3>1, <3>2 DEF WaysOfBox, Reaching
  <2>4. all_ways' \subseteq WaysOfBox
    BY <1>5, <2>3 DEF ScanWays
  <2>. QED BY <1>1, <1>2, <1>5, <1>p, <2>2, <2>4, SameLoose DEF ScanWays, Skip
<1>6. CASE ScanWaysFails
  BY <1>1, <1>2, <1>6, <1>p, SameLoose DEF ScanWaysFails, parsed
<1>7. CASE ScanRelations
  <2>1. Before("relation", pos + 1) = Before("relation", pos) \cup Ids
        /\ Before("node", pos + 1) = Before("node", pos)
    BY <1>2, <1>7, PassSteps DEF ScanRelations, At
  <2>2. FirstPass'
    BY <1>1, <1>7, <2>1, SamePass DEF ScanRelations, Skip, FirstPass
  <2>. QED BY <1>1, <1>2, <1>7, <1>p, <2>2, SameLoose DEF ScanRelations, Skip
<1>8. CASE ScanEnds
  <2>1. NodesParsed /\ completed = {}
    BY <1>2, <1>8, PassEndsWithAll DEF ScanEnds, FirstPass, NodesParsed, VisibleNodes
  <2>2. CASE all_nodes = {} /\ pc' = "assemble"
    BY <1>1, <1>2, <1>8, <1>p, <2>1, <2>2, SameLoose DEF ScanEnds, ReadAll
  <2>3. CASE pc' = "complete"
    BY <1>1, <1>2, <1>8, <1>p, <2>1, <2>3, SameLoose DEF ScanEnds, Begin, NodesParsed
  <2>. QED BY <1>8, <2>2, <2>3 DEF ScanEnds, Begin
<1>9. CASE FindMissingMembers
  <2>1. missing' \cap IdsOf("way") \subseteq Completable
    BY <1>9 DEF FindMissingMembers, MissingMembers, Completable, NodesParsed
  <2>2. all_ways = {} => missing' = {}
    BY <1>9 DEF FindMissingMembers, MissingMembers
  <2>3. SecondPass'
    BY <1>1, <1>9, <2>1, <2>2, SameLoose DEF FindMissingMembers, parsed, SecondPass, NodesParsed
  <2>. QED BY <1>1, <1>2, <1>9, <1>p, <2>3, SameLoose DEF FindMissingMembers, Begin, parsed
<1>10. CASE FetchMembers
  <2>1. completed' \subseteq Completable /\ (all_ways = {} => completed' = {})
    <3>1. job.file[pos].kind = "way" => Ids \subseteq IdsOf("way")
      BY <1>2, <1>10, GroupOfFile DEF FetchMembers, At
    <3>. QED BY <1>10, <3>1 DEF FetchMembers, SecondPass
  <2>2. SecondPass'
    BY <1>1, <1>10, <2>1, SameLoose DEF FetchMembers, parsed, SecondPass, NodesParsed
  <2>. QED BY <1>1, <1>2, <1>10, <1>p, <2>1, <2>2, SameLoose DEF FetchMembers, Skip, parsed
<1>11. CASE FindBoundaryNodes
  <2>1. Before("node", 1) = {}
    BY <1>2, PassStarts
  <2>2. BoundaryNodes' = BoundaryNodes
    BY <1>1, <1>11 DEF FindBoundaryNodes, parsed, BoundaryNodes
  <2>3. ThirdPass'
    BY <1>1, <1>11, <2>1, <2>2, SameLoose, SamePass
       DEF FindBoundaryNodes, Begin, parsed, SecondPass, ThirdPass, NodesParsed
  <2>. QED BY <1>1, <1>2, <1>11, <1>p, <2>3, SameLoose DEF FindBoundaryNodes, Begin, parsed
<1>12. CASE LocateNodes
  <2>1. Before("node", pos + 1) =
          IF job.file[pos].kind = "node" THEN Before("node", pos) \cup Ids ELSE Before("node", pos)
    BY <1>2, <1>12, PassSteps DEF LocateNodes
  <2>2. BoundaryNodes' = BoundaryNodes
    BY <1>1, <1>12 DEF LocateNodes, parsed, BoundaryNodes
  <2>3. located' = VisibleNodes \cup (missing \cap Before("node", pos + 1))
    BY <1>12, <2>1 DEF LocateNodes, ThirdPass
  <2>4. ThirdPass'
    BY <1>1, <1>12, <2>2, <2>3, SameLoose, SamePass DEF LocateNodes, Skip, parsed, ThirdPass, NodesParsed
  <2>. QED BY <1>1, <1>2, <1>12, <1>p, <2>4, SameLoose DEF LocateNodes, Skip, parsed
<1>13. CASE LocateEnds
  <2>1. NodesParsed /\ FindsVertices
    <3>1. NodesParsed /\ located \subseteq IdsOf("node")
      BY <1>13, BeforeInFile, VisibleInFile DEF LocateEnds, ThirdPass
    <3>2. ASSUME NEW w \in all_ways \cup completed
          PROVE  job.refs[w] \cap IdsOf("node") \subseteq located
      <4>1. CASE ~job.box
        BY <1>13, <4>1 DEF LocateEnds, ThirdPass, VisibleNodes, Visible
      <4>2. CASE job.box
        <5>1. missing = BoundaryNodes
          BY <1>13, <3>2, <4>2 DEF LocateEnds, ThirdPass
        <5>2. job.refs[w] \subseteq all_nodes \cup missing
          BY <3>2, <5>1 DEF BoundaryNodes
        <5>3. missing = {} \/ Before("node", pos) = IdsOf("node")
          BY <1>2, <1>13, PassEndsWithAll DEF LocateEnds
        <5>. QED BY <1>13, <5>2, <5>3 DEF LocateEnds, ThirdPass, NodesParsed
      <4>. QED BY <4>1, <4>2
    <3>. QED BY <3>1, <3>2 DEF FindsVertices
  <2>2. ReadAll'
    BY <1>1, <1>13, <2>1, SameLoose DEF LocateEnds, parsed, NodesParsed, FindsVertices, ReadAll
  <2>. QED BY <1>1, <1>2, <1>13, <1>p, <2>2, SameLoose DEF LocateEnds, Begin, parsed
<1>14. CASE Assemble
  <2> DEFINE rows == prepare_geodataframe(points, normal_ways, filtered_relations,
                                          relation_ways, located)
  <2>1. ASSUME MembersApart, CompletedAlone, NEW row \in rows
        PROVE  \E whole \in Layer : /\ row.kind = whole.kind /\ row.id = whole.id
                                    /\ row.parts \subseteq whole.parts
    <3>1. CASE NodesParsed /\ FindsVertices
      BY <1>2, <2>1, <3>1, RowsOfLayer
    <3>2. CASE all_nodes = {} /\ all_ways = {} /\ all_relations = {}
      <4>1. points = {} /\ normal_ways = {} /\ filtered_relations = {}
        BY <3>2 DEF points, normal_ways, filtered_relations
      <4>. QED BY <2>1, <4>1 DEF prepare_geodataframe, NodeRows, WayRows, RelationRows
    <3>. QED BY <1>14, <3>1, <3>2 DEF Assemble, ReadAll
  <2>2. frame'.rows = rows
    BY <1>14 DEF Assemble, Rows
  <2>3. Layer' = Layer /\ MembersApart' = MembersApart /\ CompletedAlone' = CompletedAlone
    BY <1>1 DEF MembersApart, CompletedAlone, Layer, IdsOf, MemberIds, MemberWays, PresentMembers,
       Touched, prepare_geodataframe, NodeRows, WayRows, RelationRows, Parts, InBox, PointNodes,
       StandaloneWays, LayerRelations, LayerMembers, Matches, get_ways_for_relation
  <2>4. UnsortedOnlyLoses'
    BY <2>1, <2>2, <2>3 DEF UnsortedOnlyLoses
  <2>. QED BY <1>1, <1>2, <1>14, <2>4, SameLoose DEF Assemble, parsed
<1>. QED BY <1>3, <1>4, <1>5, <1>6, <1>7, <1>8, <1>9, <1>10, <1>11, <1>12, <1>13, <1>14
         DEF MemoryNext

\* A file whose groups come in any order costs the in-memory reader rows and
\* member ways; no row is one that the layer does not have, and the vertices of
\* the ways it keeps are all there (pbfreader.pyx:493-501, 601-646).
THEOREM UnsortedFilesOnlyLose == MemorySpec => []UnsortedOnlyLoses
<1>1. LooseInv => UnsortedOnlyLoses
  BY DEF LooseInv
<1>. QED BY <1>1, LooseInit, LooseNext, PTL DEF MemorySpec
=============================================================================
