--------------------------- MODULE MCGraphExport ---------------------------
(***************************************************************************)
(* Small street networks for GraphExport.  Only the order in which nodes   *)
(* appear matters, so a network is drawn with its nodes numbered as they   *)
(* appear in its ways.  Most networks have ways of one street each; those  *)
(* of CutNetworks have longer ways, with gaps, and a box.                  *)
(***************************************************************************)
EXTENDS GraphExport

AllNodes == 1..5

\* Sequences of nodes in which each new node is one more than the largest.
Numberings[k \in 0..8] ==
    IF k = 0 THEN {<<>>}
    ELSE UNION {
        {Append(q, n) : n \in {m \in 1..4 : m \in Range(q) \/ m = 1 + Cardinality(Range(q))}} :
            q \in Numberings[k - 1]}

\* All nodes are located and there is no box.
Whole(ways, include, differ, rings) ==
    [ways |-> ways, located |-> AllNodes, box |-> FALSE, inside |-> {}, crossing |-> {},
     include |-> include, differ |-> differ, remove_rings |-> rings]
Street(m, n, oneway, class) == [nodes |-> <<m, n>>, oneway |-> oneway, class |-> class]

\* The classes are alike: the first way has class 1.
NetworksOf(k, oneway, classes, include, differ, rings) ==
    {Whole([i \in 1..k |-> Street(q[2 * i - 1], q[2 * i], o[i], c[i])], n, diff, r) :
        q \in Numberings[2 * k], o \in [1..k -> oneway],
        c \in {d \in [1..k -> classes] : d[1] = 1},
        n \in include, diff \in differ, r \in rings}

NoLoops(networks) == {n \in networks : \A i \in DOMAIN n.ways : n.ways[i].nodes[1] # n.ways[i].nodes[2]}

\* "against" only changes where a row stands among the others; two streets show it.
AnyWay == {"along", "against", "both"}

\* A ring and, apart from it, a street with ends.
RingAndStreet ==
    {Whole([i \in 1..4 |-> Street(i, IF i = 3 THEN 1 ELSE i + 1, o[i], 1)], n, FALSE, r) :
        o \in [1..4 -> {"along", "both"}], n \in {{}, {2}}, r \in BOOLEAN}

\* Two ways whose nodes are q: one of the first k, one of the others.
TwoWays(q, k) ==
    <<[nodes |-> SubSeq(q, 1, k), oneway |-> "along", class |-> 1],
      [nodes |-> SubSeq(q, k + 1, Len(q)), oneway |-> "both", class |-> 1]>>
\* A reader selects the ways that have a located node in the box.
Selected(net) ==
    net.box => \A i \in DOMAIN net.ways : ToSet(net.ways[i].nodes) \cap net.located \cap net.inside # {}
CutNetworks ==
    {net \in {[Whole(TwoWays(q, k), {}, FALSE, TRUE) EXCEPT
                 !.located = AllNodes \ gap, !.box = i # {}, !.inside = i, !.crossing = c] :
                q \in Numberings[5], k \in 0..5, gap \in {{}, {2}, {1, 3}},
                i \in {{}, {1}, {2}, {3, 4}}, c \in {{}, {{1, 2}}}} :
        Selected(net) /\ (net.crossing # {} => net.box)}

SmallNetworks == {
    CutNetworks,
    NetworksOf(1, AnyWay, {1}, {{}, {1}}, {FALSE}, BOOLEAN),
    NetworksOf(2, AnyWay, {1, 2}, {{}, {2}}, BOOLEAN, {TRUE}),
    NetworksOf(3, {"along", "both"}, {1}, {{}}, {FALSE}, {TRUE}),
    NoLoops(NetworksOf(3, {"along", "both"}, {1, 2}, {{}}, {TRUE}, {FALSE})),
    NoLoops(NetworksOf(4, {"along"}, {1}, {{}}, {FALSE}, {FALSE})),
    RingAndStreet}
=============================================================================
