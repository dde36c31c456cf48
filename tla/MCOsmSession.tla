---------------------------- MODULE MCOsmSession ----------------------------
(***************************************************************************)
(* Small histories: two nodes, of which one crosses the edge of the box,   *)
(* two ways and a relation, with up to two versions of each.               *)
(***************************************************************************)
EXTENDS OsmSession

AllIds == {1, 2}
AllKeys == {"a", "b"}
T(a, b) == [k \in AllKeys |-> IF k = "a" THEN a ELSE b]
N(id, time, place, tags) == [id |-> id, time |-> time, visible |-> TRUE, place |-> place, tags |-> tags]
W(id, time, nodes, tags) == [id |-> id, time |-> time, visible |-> TRUE, nodes |-> nodes, tags |-> tags]
R(time, ways) == [id |-> 1, time |-> time, visible |-> TRUE, ways |-> ways, tags |-> T("x", "-")]
Deleted(v) == [v EXCEPT !.visible = FALSE]

FirstNodes ==
    {<<N(1, 2, "in", T("x", "-"))>>, <<N(1, 3, "in", NoTags)>>}
      \cup {<<N(1, 2, "in", T("x", "-")), v>> :
            v \in {N(1, 3, "there", T("y", "-")), N(1, 3, "out", T("x", "-")), N(1, 3, "in", NoTags),
                   Deleted(N(1, 3, "out", NoTags))}}
      \cup {<<N(1, 2, "out", NoTags), N(1, 3, "in", T("x", "-"))>>}
SecondNodes ==
    {<<N(2, 2, "out", NoTags)>>, <<N(2, 2, "out", NoTags), N(2, 3, "far", NoTags)>>,
     <<N(2, 2, "out", NoTags), N(2, 4, "in", NoTags)>>,
     <<N(2, 2, "out", NoTags), Deleted(N(2, 3, "out", NoTags))>>}
FirstWays ==
    {<<W(1, 2, {1, 2}, T("x", "y")), W(1, 3, {1, 2}, T("y", "-"))>>,
     <<W(1, 3, {1, 2}, T("x", "-")), Deleted(W(1, 4, {}, T("-", "-")))>>,
     <<W(1, 2, {2}, T("x", "-")), W(1, 3, {1, 2}, T("x", "y"))>>,
     <<W(1, 2, {1, 2}, T("x", "-")), W(1, 3, {2}, T("x", "-"))>>}
SecondWays == {<<W(2, 2, {2}, T("x", "-")), W(2, 4, {2}, T("y", "-"))>>}
Relations ==
    {<<R(2, {1, 2})>>, <<R(2, {1}), R(3, {1, 2})>>, <<R(2, {1, 2}), Deleted(R(4, {}))>>, <<R(3, {2})>>}

Files(firsts, seconds, ways, relations, boxes) ==
    {[nodes |-> n \o m, ways |-> v \o w, relations |-> r, box |-> b # "none",
      complete_relations |-> b = "complete"] :
        n \in firsts, m \in seconds, v \in ways, w \in SecondWays, r \in relations, b \in boxes}

C(reader, timestamp) == [reader |-> reader, timestamp |-> timestamp, flaw |-> "none"]
Flawed(reader, flaw) == [reader |-> reader, timestamp |-> NoTime, flaw |-> flaw]
Object(file, osh, engine, script) ==
    [file |-> file, osh_file |-> osh, engine |-> engine, script |-> script]

\* Every history at every moment.
Histories ==
    {Object(f, TRUE, "in_memory", s) :
        f \in Files(FirstNodes, SecondNodes, FirstWays, Relations, {"none", "box", "complete"}),
        s \in {<<C("get_landuse", 2), C("get_landuse", 3)>>, <<C("get_natural", 4)>>}}

\* One history, and every script of up to three calls.
OneHistory ==
    CHOOSE f \in Files({<<N(1, 2, "in", T("x", "-")), N(1, 3, "there", T("y", "-"))>>}, SecondNodes, FirstWays,
                       {<<R(3, {2})>>}, {"complete"}) : ~OnlyGrown(f)
Requests ==
    {C("get_network", t) : t \in {NoTime, 1, 3, 4, 5}}
      \cup {Flawed("get_boundaries", "tags"), Flawed("get_buildings", "tags"), Flawed("get_buildings", "filter"),
            Flawed("get_pois", "filter"), C("get_data_by_custom_criteria", 2), C("write_pbf", NoTime)}
Scripts ==
    {Object(OneHistory, TRUE, "in_memory", <<a, b, c>>) : a \in Requests, b \in Requests, c \in Requests}
\* A file without history: one version of each element.
Plain ==
    [OneHistory EXCEPT !.nodes = <<N(1, 2, "in", T("x", "-")), N(2, 2, "out", NoTags)>>,
                       !.ways = <<W(1, 2, {1, 2}, T("x", "-"))>>]
PlainScripts ==
    {Object(Plain, FALSE, e, <<a, b>>) : a \in Requests, b \in Requests, e \in {"in_memory", "out_of_core"}}

MCSessions == Histories \cup Scripts \cup PlainScripts
=============================================================================
