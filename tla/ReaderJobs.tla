----------------------------- MODULE ReaderJobs -----------------------------
(***************************************************************************)
(* Small extracts and reads for the two readers: three nodes, two ways and *)
(* two relations, with every bounding box, filter and relation between     *)
(* them that changes what a read selects.                                  *)
(***************************************************************************)
EXTENDS Naturals

\* Nodes 1..3 (8 is in no file), ways 4 and 5, relations 6 and 7.
AllIds == 1..8
G(kind, ids) == [kind |-> kind, ids |-> ids]
AsFunction(i, j, a, b) == [k \in AllIds |-> IF k = i THEN a ELSE IF k = j THEN b ELSE {}]

SortedFile == <<G("node", {1, 2}), G("node", {3}), G("way", {4, 5}), G("relation", {6, 7})>>
\* Ways among or before the nodes: no reader checks the order of a file.
SplitFile == <<G("node", {1, 2}), G("way", {4, 5}), G("node", {3}), G("relation", {6, 7})>>
WaysFirstFile == <<G("way", {4, 5}), G("node", {1, 2, 3}), G("relation", {6, 7})>>

\* Ways that share a node, ways that do not and miss one, a way of one node.
Refs(v, w) == {AsFunction(v, w, {1, 2}, {2, 3}), AsFunction(v, w, {1, 2}, {3, 8}),
               AsFunction(v, w, {1}, {1, 3})}
Ways(ids) == {<<"way", i>> : i \in ids}
Members(v, w) ==
    {AsFunction(6, 7, Ways(a) \cup {<<"node", 1>>}, Ways(b)) :
        a \in SUBSET {v, w}, b \in {{w}, {v, w}}}
Matching(v, w) ==
    {m \cup {<<"node", 1>>, <<"node", 3>>} :
        m \in SUBSET {<<"way", v>>, <<"way", w>>, <<"relation", 6>>, <<"relation", 7>>}}

JobsOf(files, v, w, reach, boxes, completes) ==
    [file : files, refs : Refs(v, w), members : Members(v, w), match : Matching(v, w),
     inside : reach, crossing : {{}, {5}}, box : boxes, complete : completes,
     nodes : {TRUE}, ways : BOOLEAN, relations : BOOLEAN]

SortedJobs ==
    JobsOf({SortedFile}, 4, 5, SUBSET (1..3), {TRUE}, BOOLEAN)
      \cup JobsOf({SortedFile}, 4, 5, {{}}, {FALSE}, {FALSE})
AnyOrderJobs == SortedJobs \cup JobsOf({SplitFile, WaysFirstFile}, 4, 5, SUBSET (1..3), {TRUE}, BOOLEAN)
=============================================================================
