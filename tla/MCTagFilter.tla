---------------------------- MODULE MCTagFilter ----------------------------
(***************************************************************************)
(* Small filters: dicts over three keys, bracket strings of one and two    *)
(* brackets, and pairs of calls that are given the same filter object.     *)
(***************************************************************************)
EXTENDS TagFilter

MainKeys == {"building", "landuse", "highway", "bicycle"}
AllKeys == MainKeys \cup {"natural", "boundary", "amenity", "shop", "tourism"}
ValuesOf(k) == IF k = "bicycle" THEN {"yes", "no"} ELSE {"yes"}
TagSets ==
    UNION {{t \in [ks -> {"yes", "no"}] : \A k \in ks : t[k] \in ValuesOf(k)} : ks \in SUBSET MainKeys}
\* Tags of the layers whose keys no other filter names.
MoreTagSets ==
    {[k \in {key} |-> "yes"] : key \in {"natural", "amenity", "shop", "tourism"}}
      \cup {[k \in {"boundary"} |-> v] : v \in {"yes", "no"}}
      \cup {[k \in {"boundary", "bicycle"} |-> v] : v \in {"yes", "no"}}
      \cup {[k \in {"natural", "bicycle"} |-> "no"], [k \in {"amenity", "highway"} |-> "no"]}
AllElements == {[kind |-> k, tags |-> t] : k \in {"node", "way", "relation"}, t \in TagSets \cup MoreTagSets}

SearchIn == [p \in {"y", "o"} |-> IF p = "y" THEN {"yes"} ELSE {"no"}]
\* Of the column lists in config/default_tags.py, the columns that are keys here.
KnownColumns ==
    [building |-> {"building", "landuse", "amenity", "shop"}, highway |-> {"highway", "bicycle"},
     landuse |-> {"landuse"}, natural |-> {"natural"}, boundary |-> {"boundary"},
     amenity |-> {"amenity", "building", "landuse"}, shop |-> {"shop", "bicycle"}, tourism |-> {"tourism"}]

List(items) == [bare |-> FALSE, items |-> items]
Bare(item) == [bare |-> TRUE, items |-> {item}]
Matching(p) == [kind |-> "pattern", pattern |-> p]
Dict(entries) == [form |-> "dict", entries |-> entries, groups |-> {}]
One(k, e) == Dict([x \in {k} |-> e])
Two(k, e, l, f) == Dict([x \in {k, l} |-> IF x = k THEN e ELSE f])
Brackets(groups) == [form |-> "brackets", entries |-> <<>>, groups |-> groups]
Cond(k, op, v) == IF op \in {"exists", "nexists"} THEN [key |-> k, operator |-> op] ELSE [key |-> k, operator |-> op, value |-> v]

Entries ==
    {List({AnyValue}), Bare(AnyValue), List({Text("yes")}), List({Text("no")}), List({}),
     List({Text("no"), AnyValue}), Bare(Text("yes")), List({Matching("y")}), Bare(Matching("o")),
     List({Text("no"), Matching("y")})}
Dicts == {Dict(<<>>)}
    \cup {One(k, e) : k \in {"building", "bicycle"}, e \in Entries}
    \cup {Two("bicycle", e, l, f) : l \in {"landuse", "highway"}, e \in Entries, f \in {List({AnyValue}), List({Text("no")}), List({}), Bare(AnyValue)}}
Conditions ==
    {Cond("bicycle", op, v) : op \in {"eq", "ne"}, v \in {"no"}} \cup {Cond("bicycle", op, "y") : op \in {"regex", "nregex"}}
    \cup {Cond(k, op, "-") : k \in {"bicycle", "building"}, op \in {"exists", "nexists"}} \cup {Cond("highway", "exists", "-")}
BracketFilters ==
    {Brackets({{a, b}}) : a \in Conditions, b \in Conditions}
      \cup {Brackets({{a}, {b, Cond("highway", "exists", "-")}}) : a \in Conditions, b \in Conditions}

Call(layer, engine, type, keys) ==
    [layer |-> layer, engine |-> engine, passes |-> TRUE, filter_type |-> type, osm_keys |-> keys,
     columns |-> {}, keep_other_tags |-> TRUE, network_type |-> "all", boundary_type |-> "yes"]
NetworkPresets ==
    [cycling |-> One("bicycle", List({Text("no")}))]
Layers == {Call(l, e, "unset", {}) : l \in {"buildings", "landuse"}, e \in {"in_memory", "out_of_core"}}
Customs ==
    {Call("custom", e, t, ks) : e \in {"in_memory", "out_of_core"}, t \in {"keep", "exclude"}, ks \in {{}, {"highway"}}}
      \cup {Call("custom", e, "drop", {}) : e \in {"in_memory", "out_of_core"}}
Networks ==
    {[Call("network", e, t, {}) EXCEPT !.passes = p, !.network_type = n] :
        e \in {"in_memory", "out_of_core"}, t \in {"unset", "keep", "drop"}, p \in BOOLEAN, n \in {"all", "cycling"}}
Unfiltered ==
    {[Call(l, e, "unset", {}) EXCEPT !.passes = FALSE, !.boundary_type = b] :
        l \in {"buildings", "landuse", "natural", "boundaries", "pois", "custom"}, e \in {"in_memory", "out_of_core"},
        b \in {"yes", "all"}}
MoreLayers == {Call(l, e, "unset", {}) : l \in {"natural", "boundaries", "pois"}, e \in {"in_memory", "out_of_core"}}
SomeFilters == {Dict(<<>>), One("bicycle", Bare(AnyValue)), One("boundary", List({Text("no")})),
                Two("boundary", Bare(AnyValue), "amenity", List({Text("yes")})), Brackets({{Cond("bicycle", "eq", "no")}}),
                Brackets({{Cond("boundary", "ne", "no"), Cond("bicycle", "exists", "-")}})}
Minimal == {[Call("custom", e, "keep", {}) EXCEPT !.keep_other_tags = FALSE] : e \in {"in_memory", "out_of_core"}}

AllScripts ==
    {[filter |-> f, calls |-> <<c, d>>] :
        f \in Dicts \cup BracketFilters, c \in Layers \cup {Call("custom", "in_memory", "drop", {})},
        d \in Layers \cup {Call("custom", "in_memory", "keep", {})}}
      \cup {[filter |-> f, calls |-> <<c>>] :
        f \in Dicts \cup BracketFilters, c \in Customs \cup Networks \cup MoreLayers \cup Minimal}
      \cup {[filter |-> f, calls |-> <<c, d>>] : f \in SomeFilters, c \in Layers \cup MoreLayers, d \in MoreLayers}
      \cup {[filter |-> Dict(<<>>), calls |-> <<c>>] : c \in Unfiltered}

\* The same call with all tags and with those that are requested.
WithFewTags(c) == <<c, [c EXCEPT !.keep_other_tags = FALSE]>>
MinimalScripts ==
    {[filter |-> f, calls |-> WithFewTags([Call("custom", "out_of_core", "keep", {}) EXCEPT !.columns = cs])] :
        f \in BracketFilters, cs \in {{}, {"building"}, {"building", "bicycle"}}}
=============================================================================
