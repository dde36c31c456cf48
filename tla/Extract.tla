------------------------------ MODULE Extract ------------------------------
(***************************************************************************)
(* What both readers of pyrosm are given - an OSM extract and a read of it *)
(* - and what they share: assembling the selected elements into rows       *)
(* (frames.prepare_geodataframe, geometry.pyx, relations.pyx).             *)
(*                                                                         *)
(* Geometry is abstracted to the vertices and member ways it was made      *)
(* from; tag filtering to the set of elements that pass (see the README).  *)
(***************************************************************************)
EXTENDS Naturals, Sequences

CONSTANTS
    Id,      \* OSM ids: unique within a kind, not between kinds
    Jobs     \* the extracts and reads considered

Kind == {"node", "way", "relation"}
Element == Kind \X Id
Group == [kind : Kind, ids : SUBSET Id]

Job == [file      : Seq(Group),              \* the primitive groups, in file order
        refs      : [Id -> SUBSET Id],       \* way -> its nodes
        members   : [Id -> SUBSET Element],  \* relation -> its members
        inside    : SUBSET Id,               \* nodes within the bounding box
        crossing  : SUBSET Id,               \* ways that meet the box between two vertices
        match     : SUBSET Element,          \* elements that pass the layer's filter
        box       : BOOLEAN,                 \* a bounding box is given
        complete  : BOOLEAN,                 \* complete_relations
        nodes     : BOOLEAN,                 \* keep_nodes
        ways      : BOOLEAN,                 \* keep_ways
        relations : BOOLEAN]                 \* keep_relations

ASSUME ExtractAssumption == Jobs \subseteq Job

VARIABLE job

IdsOf(kind) == UNION {g.ids : g \in {job.file[i] : i \in {j \in DOMAIN job.file : job.file[j].kind = kind}}}
Matches(kind, i) == <<kind, i>> \in job.match
MemberWays(r) == {w \in Id : <<"way", w>> \in job.members[r]}
MemberIds(r) == {m[2] : m \in job.members[r]}

\* A way with fewer than two located vertices has no geometry and no row.
Drawable(vertices) == \E a, b \in vertices : a # b

\* relations.get_ways_for_relation compares ids and ignores the member's type.
get_ways_for_relation(r, relationWays) == MemberIds(r) \cap relationWays

\* The final spatial join with the box.
InBox(row) == \/ ~job.box
              \/ \E part \in row.parts : part[1] \in job.crossing \/ part[2] \cap job.inside # {}

Parts(ways, located) ==
    {part \in {<<w, job.refs[w] \cap located>> : w \in ways} : Drawable(part[2])}
NodeRows(nodes) == {[kind |-> "node", id |-> n, parts |-> {<<n, {n}>>}] : n \in nodes}
WayRows(ways, located) ==
    {[kind |-> "way", id |-> w, parts |-> Parts({w}, located)] : w \in ways}
RelationRows(relations, relationWays, located) ==
    {[kind |-> "relation", id |-> r,
      parts |-> Parts(get_ways_for_relation(r, relationWays), located)] : r \in relations}

\* Rows without geometry are dropped, then those the spatial join does not hit.
prepare_geodataframe(nodes, ways, relations, relationWays, located) ==
    {row \in NodeRows(nodes) \cup WayRows(ways, located)
               \cup RelationRows(relations, relationWays, located) :
        row.parts # {} /\ InBox(row)}

\* How a read ends.
NotRead == [st |-> "none"]
Failed == [st |-> "error"]
Rows(rows) == [st |-> "rows", rows |-> rows]
Row == [kind : Kind, id : Id, parts : SUBSET (Id \X SUBSET Id)]
FrameOK(f) == f = NotRead \/ f = Failed \/ \E rows \in {f.rows} : f = Rows(rows) /\ rows \subseteq Row

-----------------------------------------------------------------------------
(***************************************************************************)
(* What a file must look like for the two readers to agree on it.          *)
(***************************************************************************)
\* Nodes, of which there are some, come before the ways that refer to them.
NodesFirst ==
    \A a \in DOMAIN job.file : job.file[a].kind = "way" =>
        /\ \E b \in DOMAIN job.file : b < a /\ job.file[b].kind = "node"
        /\ \A b \in DOMAIN job.file : a < b => job.file[b].kind # "node"

\* No node or relation member has the id of a way of the extract.
MembersApart ==
    \A r \in Id : MemberIds(r) \cap IdsOf("way") \subseteq MemberWays(r)
=============================================================================
