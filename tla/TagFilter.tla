----------------------------- MODULE TagFilter -----------------------------
(***************************************************************************)
(* Which elements a filter selects: from the custom_filter a caller passes *)
(* (validated, completed with the key of the layer, compiled) to the tests *)
(* of the readers, which have two implementations of the rule.             *)
(*                                                                         *)
(* A filter object belongs to the caller, who may pass it to several       *)
(* calls.  Positions and geometries are left out: an element is its kind   *)
(* and its tags.                                                           *)
(***************************************************************************)
EXTENDS Naturals, Sequences

CONSTANTS
    Key, Value,
    Pattern,     \* regular expressions
    Search,      \* pattern -> the values in which it is found
    Tagged,      \* the elements of the file: [kind, tags]
    TagColumns,  \* Conf.tags: some keys -> the columns that go with them
    Presets,     \* some network types -> their predefined filters
    Scripts      \* a filter object and the calls it is passed to

\* An entry of a dict is a bare value or a list: "any" is Python's True.
Item == [kind : {"any"}] \cup [kind : {"text"}, text : Value] \cup [kind : {"pattern"}, pattern : Pattern]
AnyValue == [kind |-> "any"]
Text(v) == [kind |-> "text", text |-> v]

PositiveOperators == {"eq", "regex", "exists"}

\* "brackets" holds one set of conditions for each string; "dict" has entries
\* and no groups, the others have groups and no entries.
None == [form |-> "none", entries |-> <<>>, groups |-> {}]
Compiled(groups) == [form |-> "compiled", entries |-> <<>>, groups |-> groups]

VARIABLES
    script,
    given,       \* the caller's filter object, as it is now
    call,        \* the number of the call that runs, or of the last one
    step,
    held,        \* custom_filter in the call
    spec,        \* data_filter, osm_keys, filter_type, keep_all, requested keys
    answers      \* of the calls that have ended

filter_vars == <<script, given, call, step, held, spec, answers>>

NoSpec == [data_filter |-> None, osm_keys |-> {}, filter_type |-> "keep", keep_all |-> FALSE, columns |-> {},
           kinds |-> {}]
Current == script.calls[call]

TagFilterAssumption ==
    /\ Search \in [Pattern -> SUBSET Value]
    /\ \A e \in Tagged : e.kind \in {"node", "way", "relation"} /\ DOMAIN e.tags \subseteq Key
ASSUME TagFilterAssumption

\* A caller's filter is a dict or bracket strings.
Operators == PositiveOperators \cup {"ne", "nregex", "nexists"}
IsFilter(f) ==
    /\ f = [form |-> f.form, entries |-> f.entries, groups |-> f.groups]
    /\ \/ /\ f.form = "dict" /\ f.groups = {}
          /\ f.entries \in [DOMAIN f.entries -> [bare : BOOLEAN, items : SUBSET Item]]
       \/ /\ f.form = "brackets" /\ f.entries = <<>>
          /\ \A c \in UNION f.groups : c.operator \in Operators

\* Only a custom read takes keys to keep and keep_other_tags.
IsCall(c) ==
    /\ c.layer \in {"network", "buildings", "landuse", "natural", "boundaries", "pois", "custom"}
    /\ c.engine \in {"in_memory", "out_of_core"} /\ c.passes \in BOOLEAN
    /\ c.layer # "custom" => c.osm_keys = {} /\ c.keep_other_tags
    /\ c.boundary_type \in Value \cup {"all"}

ScriptAssumption ==
    \A s \in Scripts :
        /\ IsFilter(s.filter)
        /\ Len(s.calls) \in Nat \ {0} /\ DOMAIN s.calls = 1..Len(s.calls)
        /\ \A n \in DOMAIN s.calls : IsCall(s.calls[n])
ASSUME ScriptAssumption

-----------------------------------------------------------------------------
(***************************************************************************)
(* Compiling a filter (filter_compiler.py).                                *)
(***************************************************************************)
IsPositive(c) == c.operator \in PositiveOperators

ValueMatches(c, value) ==
    CASE c.operator = "eq" -> value = c.value
      [] c.operator = "ne" -> value # c.value
      [] c.operator = "regex"  -> value \in Search[c.value]
      [] c.operator = "nregex" -> value \notin Search[c.value]
\* Mutant of ConditionMatches: a negative operator needs the key, too.
NeedsKey(c, tags) ==
    CASE c.operator = "exists" -> c.key \in DOMAIN tags
      [] c.operator = "nexists" -> c.key \notin DOMAIN tags
      [] OTHER -> c.key \in DOMAIN tags /\ ValueMatches(c, tags[c.key])
ConditionMatches(c, tags) ==
    CASE c.operator = "exists" -> c.key \in DOMAIN tags
      [] c.operator = "nexists" -> c.key \notin DOMAIN tags
      [] OTHER -> IF c.key \notin DOMAIN tags THEN c.operator \in {"ne", "nregex"}
                  ELSE ValueMatches(c, tags[c.key])

Exists(key) == [key |-> key, operator |-> "exists"]
CompiledMatches(f, tags) == \E g \in f.groups : \A c \in g : ConditionMatches(c, tags)

positive_keys(f) == {c.key : c \in {d \in UNION f.groups : IsPositive(d)}}
KeysOf(f) == DOMAIN f.entries \cup {c.key : c \in UNION f.groups}

or_require(f, key) == IF key \in KeysOf(f) THEN f ELSE Compiled(f.groups \cup {{Exists(key)}})

HasPattern(entry) == \E i \in entry.items : i.kind = "pattern"
dict_has_regex(f) == \E k \in DOMAIN f.entries : HasPattern(f.entries[k])
is_advanced_filter(f) == f.form \in {"brackets", "compiled"} \/ (f.form = "dict" /\ dict_has_regex(f))

ConditionOf(key, item) ==
    CASE item.kind = "any" -> Exists(key)
      [] item.kind = "pattern" -> [key |-> key, operator |-> "regex", value |-> item.pattern]
      [] item.kind = "text" -> [key |-> key, operator |-> "eq", value |-> item.text]
dict_to_groups(f) == UNION {{{ConditionOf(k, i)} : i \in f.entries[k].items} : k \in DOMAIN f.entries}

\* A string that is not in a list is rejected, in a dict with patterns too.
BareText(entry) == entry.bare /\ \E i \in entry.items : i.kind = "text"
CompileRaises(f) ==
    \/ f.form = "brackets" /\ \E g \in f.groups : ~\E c \in g : IsPositive(c)
    \/ f.form = "dict" /\ dict_has_regex(f) /\ \E k \in DOMAIN f.entries : BareText(f.entries[k])
compile_custom_filter(f) ==
    CASE f.form = "brackets" -> Compiled(f.groups)
      [] f.form = "dict" /\ dict_has_regex(f) -> Compiled(dict_to_groups(f))
      [] OTHER -> f

(***************************************************************************)
(* Validating and completing it (utils): a bare True of a plain dict is    *)
(* put into a list, in the caller's own dict.                              *)
(***************************************************************************)
ValidateRaises(f) ==
    \/ f.form = "none"
    \/ CompileRaises(f)
    \/ f.form = "dict" /\ \E k \in DOMAIN f.entries : BareText(f.entries[k])
Unwrapped(f) == [f EXCEPT !.entries = [k \in DOMAIN f.entries |-> [f.entries[k] EXCEPT !.bare = FALSE]]]
AsValidated(f) == IF is_advanced_filter(f) THEN f ELSE Unwrapped(f)
validate_custom_filter(f) == IF is_advanced_filter(f) THEN compile_custom_filter(f) ELSE Unwrapped(f)

WithKey(f, key) ==
    [f EXCEPT !.entries = [k \in DOMAIN f.entries \cup {key} |->
                              IF k = key THEN [bare |-> FALSE, items |-> {AnyValue}] ELSE f.entries[k]]]
ensure_filter_key(f, key) ==
    IF f.form = "compiled" THEN or_require(f, key)
    ELSE IF key \in DOMAIN f.entries THEN f ELSE WithKey(f, key)

get_data_filter_and_osm_keys(f) ==
    IF f.form = "compiled" THEN <<f, positive_keys(f)>> ELSE <<f, DOMAIN f.entries>>

-----------------------------------------------------------------------------
(***************************************************************************)
(* The rule for the ways of the in-memory reader.                          *)
(***************************************************************************)
isin_check(value, items) == AnyValue \in items \/ Text(value) \in items

\* Mutant of DictMatchesWay: the rule as it was (issues #108 and #112), only
\* one of the keys is looked at.
FirstKeyMatches(f, tags) ==
    LET present == DOMAIN f.entries \cap DOMAIN tags
    IN  present # {} /\ LET k == CHOOSE k \in present : TRUE IN isin_check(tags[k], f.entries[k].items)
DictMatchesWay(f, tags) ==
    \E k \in DOMAIN f.entries \cap DOMAIN tags : isin_check(tags[k], f.entries[k].items)

has_osm_data_type(keys, tags) == DOMAIN tags \cap keys # {}

filter_osm_records(tags, s) ==
    /\ IF s.keep_all THEN DOMAIN tags # {} ELSE has_osm_data_type(s.osm_keys, tags)
    /\ IF s.data_filter.form = "compiled" THEN CompiledMatches(s.data_filter, tags) <=> s.filter_type = "keep"
       ELSE KeysOf(s.data_filter) # {} => (DictMatchesWay(s.data_filter, tags) <=> s.filter_type = "keep")

(***************************************************************************)
(* The rule for its nodes and relations, and for all elements of the       *)
(* out-of-core reader.                                                     *)
(***************************************************************************)
DictMatchesRecord(f, tags) ==
    \E k \in DOMAIN f.entries \cap DOMAIN tags :
        Text(tags[k]) \in f.entries[k].items \/ f.entries[k].items = {AnyValue}

record_should_be_kept(tags, s) ==
    IF s.keep_all THEN DOMAIN tags # {}
    ELSE /\ has_osm_data_type(s.osm_keys, tags)
         /\ IF s.data_filter.form = "compiled" THEN CompiledMatches(s.data_filter, tags) <=> s.filter_type = "keep"
            ELSE (KeysOf(s.data_filter) = {} \/ DictMatchesRecord(s.data_filter, tags)) <=> s.filter_type = "keep"

(***************************************************************************)
(* The out-of-core reader decodes the elements with one of the keys, with  *)
(* the tags that were requested, and tests those.                          *)
(***************************************************************************)
GeometryTagKeys == {"type", "area", "barrier", "route", "railway", "highway", "waterway"}
requested_tag_keys(s) == s.columns \cup s.osm_keys \cup GeometryTagKeys
resolve_tags(tags, keys) == [k \in DOMAIN tags \cap keys |-> tags[k]]
keep_fn(tags, s) == s.data_filter.form = "none" \/ record_should_be_kept(tags, s)
Resolved(e, s) == IF Current.keep_other_tags THEN e.tags ELSE resolve_tags(e.tags, requested_tag_keys(s))

-----------------------------------------------------------------------------
(***************************************************************************)
(* The calls.                                                              *)
(***************************************************************************)
Areas == {"way", "relation"}
Everything == {"node", "way", "relation"}
DictOf(keys, items) ==
    [None EXCEPT !.form = "dict", !.entries = [k \in keys |-> [bare |-> FALSE, items |-> items]]]
AnyOf(keys) == DictOf(keys, {AnyValue})
Selection(f, kinds) == [filter |-> f, kinds |-> kinds]

\* The filter that each reader works with and the kinds of elements that it returns:
\* in memory, where None stands for a call without custom_filter,
OrDefault(f, key) == IF f.form = "none" THEN AnyOf({key}) ELSE ensure_filter_key(f, key)
get_building_data(f) == Selection(OrDefault(f, "building"), Areas)
get_landuse_data(f) == Selection(OrDefault(f, "landuse"), Everything)
get_natural_data(f) == Selection(OrDefault(f, "natural"), Everything)
BoundaryOf(type) == DictOf({"boundary"}, IF type = "all" THEN {AnyValue} ELSE {Text(type)})
get_boundary_data(f, type) ==
    Selection(ensure_filter_key(IF f.form = "none" THEN BoundaryOf(type) ELSE f, "boundary"), Areas)
DefaultPois(f) == IF f.form = "none" THEN AnyOf({"amenity", "shop", "tourism"}) ELSE f
get_poi_data(f) == Selection(f, Everything)
get_user_defined_data(f) == Selection(f, Everything)
get_network_data(f) == Selection(f, {"way"})

\* and out of core.
ensure_layer_key(f, key) == IF f.form = "none" THEN AnyOf({key}) ELSE ensure_filter_key(f, key)
get_buildings(f) == Selection(ensure_layer_key(f, "building"), Areas)
get_landuse(f) == Selection(ensure_layer_key(f, "landuse"), Everything)
get_natural(f) == Selection(ensure_layer_key(f, "natural"), Everything)
get_pois(f) == Selection(IF f.form = "none" THEN AnyOf({"amenity", "shop", "tourism"}) ELSE f, Everything)
get_boundaries(f, type) ==
    Selection(ensure_filter_key(IF f.form = "none" THEN BoundaryOf(type) ELSE f, "boundary"), Areas)
get_data_by_custom_criteria(f) == Selection(f, Everything)

network_filter(type) == IF type \in DOMAIN Presets THEN Presets[type] ELSE None
OrPreset(f) == IF Current.passes THEN f ELSE network_filter(Current.network_type)

InMemory(f) ==
    CASE Current.layer = "network" -> get_network_data(OrPreset(f))
      [] Current.layer = "buildings" -> get_building_data(f)
      [] Current.layer = "landuse" -> get_landuse_data(f)
      [] Current.layer = "natural" -> get_natural_data(f)
      [] Current.layer = "boundaries" -> get_boundary_data(f, Current.boundary_type)
      [] Current.layer = "pois" -> get_poi_data(DefaultPois(f))
      [] Current.layer = "custom" -> get_user_defined_data(f)
OutOfCore(f) ==
    CASE Current.layer = "network" -> get_network_data(OrPreset(f))
      [] Current.layer = "buildings" -> get_buildings(f)
      [] Current.layer = "landuse" -> get_landuse(f)
      [] Current.layer = "natural" -> get_natural(f)
      [] Current.layer = "boundaries" -> get_boundaries(f, Current.boundary_type)
      [] Current.layer = "pois" -> get_pois(f)
      [] Current.layer = "custom" -> get_data_by_custom_criteria(f)
Selected(f) == IF Current.engine = "in_memory" THEN InMemory(f) ELSE OutOfCore(f)

Argument == IF Current.passes THEN given ELSE None

\* What a call raises before it looks at its filter, with it, and after it.  The
\* out-of-core custom read takes any filter_type.
RejectedEarly ==
    /\ Current.layer = "custom"
    /\ \/ ~Current.passes /\ Current.engine = "out_of_core"
       \/ ~Current.keep_other_tags /\ Current.engine = "in_memory"
RejectedLate ==
    /\ Current.passes /\ Current.filter_type \notin {"keep", "exclude", "unset"}
    /\ Current.layer = "network" \/ (Current.layer = "custom" /\ Current.engine = "in_memory")
FilterRejected == Current.passes /\ ValidateRaises(given)

Reject ==
    /\ step = "call"
    /\ \/ RejectedEarly /\ UNCHANGED given
       \/ ~RejectedEarly /\ FilterRejected
          /\ IF is_advanced_filter(given) THEN UNCHANGED given
             ELSE \E seen \in SUBSET DOMAIN given.entries :
                     given' = [given EXCEPT !.entries =
                                  [k \in DOMAIN given.entries |->
                                      IF k \in seen /\ ~BareText(given.entries[k])
                                      THEN [given.entries[k] EXCEPT !.bare = FALSE] ELSE given.entries[k]]]
       \/ ~RejectedEarly /\ ~FilterRejected /\ RejectedLate /\ given' = AsValidated(given)
    /\ answers' = Append(answers, {})
    /\ step' = "between"
    /\ UNCHANGED <<script, call, held, spec>>

Validate ==
    /\ step = "call" /\ ~RejectedEarly /\ ~FilterRejected /\ ~RejectedLate
    /\ IF Current.passes
       THEN given' = AsValidated(given) /\ held' = validate_custom_filter(given)
       ELSE UNCHANGED given /\ held' = None
    /\ step' = "complete"
    /\ UNCHANGED <<script, call, spec, answers>>

\* Mutant of CompleteLayer: the key is added to the filter of the caller.
CompleteInPlace ==
    /\ step = "complete"
    /\ held' = Selected(held).filter
    /\ given' = IF given.form = "dict" /\ ~dict_has_regex(given) /\ Current.passes THEN held' ELSE given
    /\ step' = "prepare"
    /\ UNCHANGED <<script, call, spec, answers>>

CompleteLayer ==
    /\ step = "complete"
    /\ held' = Selected(held).filter
    /\ step' = "prepare"
    /\ UNCHANGED <<script, given, call, spec, answers>>

FilterType ==
    CASE Current.layer \notin {"network", "custom"} -> "keep"
      [] Current.layer = "network" ->
            IF ~Current.passes THEN "exclude"
            ELSE IF Current.filter_type # "unset" THEN Current.filter_type
            ELSE IF held.form = "compiled" THEN "keep" ELSE "exclude"
      [] Current.layer = "custom" ->
            IF Current.passes /\ Current.filter_type # "unset" THEN Current.filter_type ELSE "keep"

DefaultColumns(f) ==
    LET known == UNION {TagColumns[k] : k \in KeysOf(f) \cap DOMAIN TagColumns}
    IN  IF known = {} THEN KeysOf(f) ELSE known

\* A network selects ways by "highway" unless its filter is compiled; a custom
\* read by the keys it is told, if any; no filter at all keeps what has tags.
PreparedSpec ==
    LET prepared == get_data_filter_and_osm_keys(held)
    IN  [data_filter |-> prepared[1],
         osm_keys    |-> IF Current.osm_keys # {} THEN Current.osm_keys
                         ELSE IF Current.layer = "network" /\ held.form # "compiled" THEN {"highway"}
                         ELSE prepared[2],
         filter_type |-> FilterType,
         keep_all    |-> Current.layer = "custom" /\ ~Current.passes,
         kinds       |-> Selected(held).kinds,
         columns     |-> IF Current.columns # {} THEN Current.columns ELSE DefaultColumns(held)]

Prepare ==
    /\ step = "prepare"
    /\ spec' = PreparedSpec
    /\ step' = "select"
    /\ UNCHANGED <<script, given, call, held, answers>>

\* Ways that a selected relation refers to are selected with it, as part of the
\* relation: MemoryReader has that rule.
SelectInMemory ==
    /\ step = "select" /\ Current.engine = "in_memory"
    /\ answers' = Append(answers,
                         {e \in Tagged : /\ e.kind \in spec.kinds
                                          /\ IF e.kind = "way" THEN filter_osm_records(e.tags, spec)
                                             ELSE record_should_be_kept(e.tags, spec)})
    /\ step' = "between"
    /\ UNCHANGED <<script, given, call, held, spec>>

SelectOutOfCore ==
    /\ step = "select" /\ Current.engine = "out_of_core"
    /\ answers' = Append(answers,
                         {e \in Tagged : /\ e.kind \in spec.kinds
                                          /\ has_osm_data_type(spec.osm_keys, e.tags)
                                          /\ keep_fn(Resolved(e, spec), spec)})
    /\ step' = "between"
    /\ UNCHANGED <<script, given, call, held, spec>>

NextCall ==
    /\ step = "between" /\ call < Len(script.calls)
    /\ call' = call + 1
    /\ step' = "call"
    /\ held' = None /\ spec' = NoSpec
    /\ UNCHANGED <<script, given, answers>>

FilterInit ==
    /\ script \in Scripts
    /\ given = script.filter
    /\ call = 1 /\ step = "call" /\ held = None /\ spec = NoSpec /\ answers = <<>>
FilterNext ==
    \/ Reject \/ Validate \/ CompleteLayer \/ Prepare
    \/ SelectInMemory \/ SelectOutOfCore \/ NextCall
FilterSpec == FilterInit /\ [][FilterNext]_filter_vars

-----------------------------------------------------------------------------
(***************************************************************************)
(* What the filters mean, from the documentation of custom_filter: a dict  *)
(* is met by an element with one of the keys and one of its values, a      *)
(* bracket string by one that meets all of its brackets, and a list by one *)
(* that meets one of the strings.                                          *)
(***************************************************************************)
MeetsItem(value, item) ==
    \/ item.kind = "any"
    \/ item.kind = "text" /\ value = item.text
    \/ item.kind = "pattern" /\ value \in Search[item.pattern]
Meets(f, tags) ==
    \/ \E k \in DOMAIN f.entries \cap DOMAIN tags : \E i \in f.entries[k].items : MeetsItem(tags[k], i)
    \/ \E g \in f.groups : \A c \in g :
          LET has == c.key \in DOMAIN tags
          IN  \/ c.operator = "exists" /\ has
              \/ c.operator = "nexists" /\ ~has
              \/ c.operator = "eq" /\ has /\ tags[c.key] = c.value
              \/ c.operator = "ne" /\ ~(has /\ tags[c.key] = c.value)
              \/ c.operator = "regex" /\ has /\ tags[c.key] \in Search[c.value]
              \/ c.operator = "nregex" /\ ~(has /\ tags[c.key] \in Search[c.value])

\* Two things a filter names, or asks for.  An empty list beside a pattern asks for
\* nothing, since compiling the dict drops it; a plain dict keeps its key.
Listed(f) == {k \in DOMAIN f.entries : f.entries[k].items # {} \/ ~dict_has_regex(f)}
Named(f) == Listed(f) \cup {c.key : c \in UNION f.groups}
AskedFor(f) == Listed(f) \cup {c.key : c \in {d \in UNION f.groups : d.operator \in {"eq", "regex", "exists"}}}

\* Two filters on which the implementations differ, left out below: a list with
\* True among other values (any value for the ways of the in-memory reader, the
\* listed ones elsewhere), and an exclude filter without keys (all such ways,
\* no node and no relation).
Mixed(f) == \E k \in DOMAIN f.entries :
    AnyValue \in f.entries[k].items /\ ~HasPattern(f.entries[k]) /\ f.entries[k].items # {AnyValue}
Regular(f, c) ==
    /\ ~(f.form = "dict" /\ Mixed(f))
    /\ ~(c.filter_type = "exclude" /\ Named(f) = {})

\* The kinds of elements that a layer consists of, as its readers document them.
Returned ==
    [network |-> {"way"}, custom |-> {"node", "way", "relation"},
     buildings |-> {"way", "relation"}, boundaries |-> {"way", "relation"},
     landuse |-> {"node", "way", "relation"}, natural |-> {"node", "way", "relation"},
     pois |-> {"node", "way", "relation"}]

\* An element is selected for its tags and not for its kind: the filter of the
\* ways "mirrors the relations/nodes path" (data_filter.pyx:165).
OneRule ==
    step = "between" /\ Regular(script.filter, Current) =>
        \A e \in answers[call] : \A f \in Tagged :
            f.tags = e.tags /\ f.kind \in Returned[Current.layer] => f \in answers[call]

\* A layer is what its filter says, with either reader and whatever calls the filter
\* object was passed to before: elements that meet the filter, and those with the key
\* of the layer when the filter does not speak of it.  Without a filter it is the
\* elements with the key, boundaries of the type that was asked for, and amenities,
\* shops and sights.
KeyOf == [buildings |-> {"building"}, landuse |-> {"landuse"}, natural |-> {"natural"},
          boundaries |-> {"boundary"}, pois |-> {}]
LayerMeans(f, c, e) ==
    IF c.passes
    THEN \/ Meets(f, e.tags)
         \/ KeyOf[c.layer] \cap DOMAIN e.tags # {} /\ KeyOf[c.layer] \cap Named(f) = {}
    ELSE CASE c.layer = "pois" -> DOMAIN e.tags \cap {"amenity", "shop", "tourism"} # {}
           [] c.layer = "boundaries" ->
                "boundary" \in DOMAIN e.tags /\ c.boundary_type \in {"all", e.tags["boundary"]}
           [] OTHER -> KeyOf[c.layer] \cap DOMAIN e.tags # {}
SelectsTheLayer ==
    /\ step = "between" /\ Current.layer \in DOMAIN KeyOf
    /\ Current.passes => Regular(script.filter, Current) /\ ~ValidateRaises(script.filter)
    => answers[call] = {e \in Tagged : e.kind \in Returned[Current.layer] /\ LayerMeans(script.filter, Current, e)}

\* A custom read keeps what meets its filter, or excludes it, among the elements
\* with one of the keys it was told or the filter asks for; and the search for
\* candidates by their keys loses no element that should be kept.
CustomAnswer(f, c) ==
    {e \in Tagged :
        IF c.filter_type = "keep"
        THEN Meets(f, e.tags) /\ (c.osm_keys = {} \/ DOMAIN e.tags \cap c.osm_keys # {})
        ELSE ~Meets(f, e.tags)
             /\ DOMAIN e.tags \cap (IF c.osm_keys = {} THEN AskedFor(f) ELSE c.osm_keys) # {}}
CustomMeans ==
    /\ step = "between" /\ Current.layer = "custom" /\ Current.passes
    /\ Current.filter_type \in {"keep", "exclude"} /\ Current.keep_other_tags
    /\ Regular(script.filter, Current) /\ Named(script.filter) # {} /\ ~ValidateRaises(script.filter)
    => answers[call] = CustomAnswer(script.filter, Current)

\* "keep_other_tags=False returns the same elements" (tests/test_engine.py:804):
\* the calls of a script are the same but for the tags they ask for.
SameElements ==
    \A m, n \in DOMAIN answers :
        [script.calls[m] EXCEPT !.keep_other_tags = TRUE] = [script.calls[n] EXCEPT !.keep_other_tags = TRUE]
          => answers[m] = answers[n]
=============================================================================
