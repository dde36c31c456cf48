----------------------------- MODULE CropReread -----------------------------
(***************************************************************************)
(* A crop and then a read of what it wrote, with the same box.             *)
(***************************************************************************)
EXTENDS CropPipeline

\* A read of every layer from the given blocks, without complete_relations.
GroupSets(blocks) ==
    FlattenSeq([b \in DOMAIN blocks |-> [i \in DOMAIN blocks[b].groups |->
        [kind |-> blocks[b].groups[i].kind, ids |-> ToSet(blocks[b].groups[i].ids)]]])
ReadOf(blocks) ==
    [file |-> GroupSets(blocks), refs |-> crop.refs, members |-> crop.members,
     inside |-> crop.inside, crossing |-> {}, match |-> Element,
     box |-> TRUE, complete |-> FALSE, nodes |-> TRUE, ways |-> TRUE, relations |-> TRUE]

Reading(job) == INSTANCE LayerRead WITH Jobs <- {}, frame <- outcome

\* "a cropped-and-reread file matches reading the source with the same
\* bounding_box" (pyrosm.py:1227-1229): the layer that either reader makes of the output
\* is the one it makes of the source.
RereadMatches ==
    outcome = "done" /\ crop.keep_relations /\ ~crop.onto_source =>
        Reading(ReadOf(output))!Layer = Reading(ReadOf(crop.source))!Layer
=============================================================================
