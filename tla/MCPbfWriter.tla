---------------------------- MODULE MCPbfWriter ----------------------------
(***************************************************************************)
(* Three data sets and lists of up to MaxRows of the rows below.           *)
(***************************************************************************)
EXTENDS PbfWriter

CONSTANTS MaxRows

One(k, v) == (k :> v)
NoTags == <<>>

\* Two relations that are members of each other, one of which has a way and a
\* node, and a member that is not held; ids are shared between kinds.
Network ==
    [nodes |-> (1 :> [place |-> 0, version |-> 3, tags |-> NoTags]) @@
               (2 :> [place |-> 21, version |-> 1, tags |-> One("name", "")]) @@
               (3 :> [place |-> 30, version |-> 0, tags |-> NoTags]),
     ways |-> (1 :> [nodes |-> <<1, 2>>, version |-> 2, tags |-> One("highway", "x") @@ One("length", "9")]) @@
              (2 :> [nodes |-> <<2, 3, 2>>, version |-> 1, tags |-> NoTags]),
     relations |-> (1 :> [members |-> <<<<"way", 1, "outer">>, <<"relation", 2, "">>, <<"way", 9, "outer">>>>,
                          version |-> 1, tags |-> One("type", "x")]) @@
                   (2 :> [members |-> <<<<"relation", 1, "">>, <<"node", 3, "stop">>>>, version |-> 2, tags |-> NoTags])]
\* A file that an earlier call has written.
Rewritten ==
    [nodes |-> (5 :> [place |-> 2, version |-> 1, tags |-> NoTags]) @@
               (-1 :> [place |-> 10, version |-> 1, tags |-> One("name", "x")]) @@
               (-2 :> [place |-> 21, version |-> 1, tags |-> NoTags]),
     ways |-> (-1 :> [nodes |-> <<-1, -2, 5>>, version |-> 1, tags |-> One("name", "x")]),
     relations |-> <<>>]
Nothing == [nodes |-> <<>>, ways |-> <<>>, relations |-> <<>>]

Geometry(t, coords) == [type |-> t, coords |-> coords, holes |-> FALSE]
Row(kind, id, g, cells, extra) == [osm_type |-> kind, id |-> id, geometry |-> g, cells |-> cells, extra |-> extra]
Text(s) == <<"str", s>>
Rows ==
    {Row("way", 1, Geometry("LineString", <<0, 21>>), One("lanes", <<"float", 20>>) @@ One("length", <<"float", 15>>), <<>>),
     Row("way", -1, Geometry("LineString", <<10, 21>>), One("name", <<"missing", 0>>) @@ One("lit", <<"bool", TRUE>>), <<>>),
     Row(None, 2, Geometry("Point", <<21>>), One("name", Text("")) @@ One("", Text("x")), One("name", Text("y")) @@ One("ele", <<"float", 15>>)),
     Row("relation", 1, Geometry("MultiPolygon", <<0>>), <<>>, One("type", Text("y"))),
     Row(None, 0, Geometry("Point", <<20>>), One("name", Text("x")), <<>>),
     Row("way", 8, Geometry("LineString", <<21, 0, 39>>), <<>>, <<>>),
     Row(None, 0, Geometry("Polygon", <<0, 10, 20, 0>>), One("name", <<"int", 7>>), <<>>),
     Row(None, 0, [Geometry("Polygon", <<0, 10, 20, 0>>) EXCEPT !.holes = TRUE], <<>>, <<>>),
     Row("node", 0, Geometry("Point", <<40>>), <<>>, <<>>),
     Row(None, 0, Geometry("None", <<>>), <<>>, <<>>)}

MCJobs ==
    LET call(held, rows, subset, frames) ==
            [nodes |-> held.nodes, ways |-> held.ways, relations |-> held.relations,
             rows |-> rows, subset_only |-> subset, is_frames |-> frames]
        lists == UNION {[1..n -> Rows] : n \in 0..MaxRows}
    IN  {call(held, rows, subset, TRUE) : held \in {Network, Rewritten, Nothing}, rows \in lists, subset \in BOOLEAN}
          \cup {call(Nothing, <<>>, FALSE, FALSE)}
=============================================================================
