-------------------------------- MODULE Crop --------------------------------
(***************************************************************************)
(* Cropping a PBF file by a box (pbf_export.pyx): what a source file is,   *)
(* what each pass does with one of its blocks, and what a crop promises.   *)
(*                                                                         *)
(* A block is a blob of type OSMData: groups of elements of one kind, each *)
(* with the numbers of the strings (tags, roles, user names) it uses in    *)
(* the table of its block.  Coordinates and refs are data of the element.  *)
(***************************************************************************)
EXTENDS Naturals, Sequences, FiniteSets, SequencesExt

CONSTANTS
    Id,      \* OSM ids: unique within a kind, not between kinds
    Word,    \* the strings of the tables
    Blank,   \* the string at the head of every table
    Schema,  \* which metadata fields a node carries
    Crops    \* the calls considered

Kind == {"node", "way", "relation"}
Element == Kind \X Id
Group == [kind : Kind, ids : Seq(Id)]
Block == [groups   : Seq(Group),
          strings  : Seq(Word),            \* the string table
          words    : [Element -> Seq(Nat)], \* element -> indices into it
          standard : BOOLEAN,              \* granularity 100 and no offsets
          legible  : BOOLEAN]              \* it can be decompressed and parsed

CropCall ==
    [source         : Seq(Block),
     supported      : BOOLEAN,             \* its header asks for known features only
     inside         : SUBSET Id,           \* nodes whose coordinates are in the box
     refs           : [Id -> SUBSET Id],   \* way -> its nodes
     members        : [Id -> SUBSET Element],
     schema         : [Id -> Schema],
     workers        : Nat \ {0},
     keep_relations : BOOLEAN,
     compact        : BOOLEAN,
     repack         : BOOLEAN,
     onto_source    : BOOLEAN]             \* output_path is the source's own path

ASSUME CropAssumption == Crops \subseteq CropCall /\ Blank \in Word

VARIABLE crop

Blocks == DOMAIN crop.source
IdsOf(block, kind) ==
    UNION {{g.ids[k] : k \in DOMAIN g.ids} : g \in {block.groups[i] : i \in {j \in DOMAIN block.groups : block.groups[j].kind = kind}}}

-----------------------------------------------------------------------------
(***************************************************************************)
(* The passes, for one block.  The sequential functions and those the      *)
(* workers run are written out twice in the code and agree.                *)
(***************************************************************************)
stage1_nodes_in_bbox(block) == IdsOf(block, "node") \cap crop.inside

\* Mutant of stage2_ways: only ways that lie in the box as a whole.
WholeWays(block, nodes) == {w \in IdsOf(block, "way") : crop.refs[w] # {} /\ crop.refs[w] \subseteq nodes}

stage2_ways(block, nodes) == {w \in IdsOf(block, "way") : crop.refs[w] \cap nodes # {}}
RefsOf(ways) == UNION {crop.refs[w] : w \in ways}

\* Members that are relations are not looked at.
stage3_relations(block, nodes, ways) ==
    {r \in IdsOf(block, "relation") :
        \E m \in crop.members[r] : \/ m[1] = "node" /\ m[2] \in nodes
                                   \/ m[1] = "way" /\ m[2] \in ways}

-----------------------------------------------------------------------------
(***************************************************************************)
(* The write pass of a plain crop.                                         *)
(***************************************************************************)
Written(groups, strings, words) == [groups |-> groups, strings |-> strings, words |-> words]
Nothing == Written(<<>>, <<>>, <<>>)

KeptIds(kind, ids, kept) ==
    FlattenSeq([k \in DOMAIN ids |-> IF <<kind, ids[k]>> \in kept THEN <<ids[k]>> ELSE <<>>])
KeptGroup(g, kept) == [g EXCEPT !.ids = KeptIds(g.kind, g.ids, kept)]

\* Groups that have no kept element are left out.
KeptGroups(groups, kept) ==
    LET filled == [g \in Group |-> IF g.ids = <<>> THEN <<>> ELSE <<g>>]
    IN  FlattenSeq([i \in DOMAIN groups |-> filled[KeptGroup(groups[i], kept)]])

ElementsIn(groups) ==
    UNION {{<<groups[i].kind, groups[i].ids[k]>> : k \in DOMAIN groups[i].ids} : i \in DOMAIN groups}
UsedStrings(block) ==
    {1} \cup UNION {{block.words[e][k] : k \in DOMAIN block.words[e]} : e \in ElementsIn(block.groups)}

\* Mutant of compact_string_table: the indices are not mapped to the new table.
CutStringTable(block) ==
    Written(block.groups,
            [k \in 1..Cardinality(UsedStrings(block)) |-> block.strings[CHOOSE i \in UsedStrings(block) :
                Cardinality({j \in UsedStrings(block) : j <= i}) = k]],
            block.words)

\* The strings in use keep their order; each index becomes its rank among them.
compact_string_table(block) ==
    LET used == UsedStrings(block)
        new_index(i) == Cardinality({j \in used : j <= i})
    IN  Written(block.groups,
                [k \in 1..Cardinality(used) |-> block.strings[CHOOSE i \in used : new_index(i) = k]],
                [e \in DOMAIN block.words |->
                    [k \in DOMAIN block.words[e] |-> new_index(block.words[e][k])]])

build_output_block(block, kept) ==
    LET written[groups \in Seq(Group)] ==
            LET copied == Written(groups, block.strings, [e \in ElementsIn(groups) |-> block.words[e]])
            IN  IF groups = <<>> THEN Nothing
                ELSE IF crop.compact THEN compact_string_table(copied) ELSE copied
    IN  written[KeptGroups(block.groups, kept)]

-----------------------------------------------------------------------------
(***************************************************************************)
(* What a crop promises: the nodes in the box, the ways that have one of   *)
(* them, the nodes of those ways, and the relations with a member in that. *)
(***************************************************************************)
SourceIds(kind) == UNION {IdsOf(crop.source[b], kind) : b \in Blocks}

NodesInBox == SourceIds("node") \cap crop.inside
CropWays == {w \in SourceIds("way") : crop.refs[w] \cap NodesInBox # {}}
CropNodes == NodesInBox \cup RefsOf(CropWays)
CropRelations ==
    {r \in SourceIds("relation") :
        /\ crop.keep_relations
        /\ \E m \in crop.members[r] : \/ m[1] = "node" /\ m[2] \in CropNodes
                                      \/ m[1] = "way" /\ m[2] \in CropWays}

Elements(nodes, ways, relations) ==
    ({"node"} \X nodes) \cup ({"way"} \X ways) \cup ({"relation"} \X relations)
TheCrop == Elements(CropNodes, CropWays, CropRelations)

\* What a source is taken to be, a file of OSM data and no history: an element is in
\* one block of it, and a block that can be read names strings that its table has.
ASSUME SourceAssumption ==
    \A c \in Crops : \A b \in DOMAIN c.source : \A e \in ElementsIn(c.source[b].groups) :
        /\ \A d \in DOMAIN c.source \ {b} : e \notin ElementsIn(c.source[d].groups)
        /\ c.source[b].legible => c.source[b].words[e] \in Seq(DOMAIN c.source[b].strings)
=============================================================================
