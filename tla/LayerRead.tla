----------------------------- MODULE LayerRead -----------------------------
(***************************************************************************)
(* What reading a layer promises, whichever engine does it: one frame, with *)
(* the rows below and the whole geometry of each.                          *)
(***************************************************************************)
EXTENDS Extract

VARIABLE frame

Touched(w) == ~job.box \/ job.refs[w] \cap job.inside \cap IdsOf("node") # {}
PresentMembers(r) == MemberWays(r) \cap IdsOf("way")

\* Point features: matching nodes inside the box.
PointNodes ==
    {n \in IdsOf("node") : job.nodes /\ Matches("node", n) /\ (job.box => n \in job.inside)}

\* Matching relations that have a member way with a node inside the box.
LayerRelations ==
    {r \in IdsOf("relation") :
        job.relations /\ Matches("relation", r) /\ \E w \in PresentMembers(r) : Touched(w)}

\* The member ways their geometries are made from: those that reach into the
\* box, or all of them with complete_relations.
LayerMembers(r) == {w \in PresentMembers(r) : Touched(w) \/ job.complete}

\* Matching ways with a node inside the box that are not part of such a relation.
StandaloneWays ==
    {w \in IdsOf("way") : /\ job.ways /\ Matches("way", w) /\ Touched(w)
                          /\ \A r \in LayerRelations : w \notin MemberWays(r)}

\* Every vertex that the extract has the coordinates of is used, inside the
\* box or not.
Layer ==
    prepare_geodataframe(PointNodes, StandaloneWays, LayerRelations,
                         UNION {LayerMembers(r) : r \in LayerRelations}, IdsOf("node"))

\* A relation that shares a way with one that reaches into the box reaches into
\* the box itself.
CompletedAlone ==
    job.box /\ job.complete =>
        \A r, s \in IdsOf("relation") :
            /\ MemberWays(r) \cap PresentMembers(s) # {}
            /\ \E w \in PresentMembers(r) : Touched(w)
            => \E w \in PresentMembers(s) : Touched(w)

Init == job \in Jobs /\ frame = NotRead
Read == frame = NotRead /\ frame' = Rows(Layer) /\ UNCHANGED job
Spec == Init /\ [][Read]_<<job, frame>>
=============================================================================
