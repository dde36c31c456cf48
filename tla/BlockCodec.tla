----------------------------- MODULE BlockCodec -----------------------------
(***************************************************************************)
(* A block of a PBF file: how the writer fills it (pbf_export.pyx), how    *)
(* protobuf lays it out, and how it is decoded, from the bytes             *)
(* (primitive_block_decoder.pyx) to tags (engine/decode.py, tagparser.pyx).*)
(*                                                                         *)
(* A message is a sequence of fields.  A field is a number, a run of bytes *)
(* (packed numbers), a string or a message.  A byte carries Bits bits and  *)
(* a flag; integers have Width bits (7 and 64 in the code).  A place is    *)
(* one number: longitudes are encoded like latitudes.                      *)
(***************************************************************************)
EXTENDS Integers, Sequences, FiniteSets, SequencesExt

CONSTANTS Bits, Width, Garbage

BlockCodecAssumption == Bits \in Nat \ {0} /\ Width \in Nat \ {0, 1}
ASSUME BlockCodecAssumption

More == 2 ^ Bits                        \* the flag of a byte
Modulus == 2 ^ Width
Unsigned(n) == n % Modulus
Signed(u) == IF u >= 2 ^ (Width - 1) THEN u - Modulus ELSE u

Varint(f, n) == [field |-> f, wire |-> "varint", value |-> n]
Bytes(f, run) == [field |-> f, wire |-> "length", value |-> run]
Fields(msg, f) == SelectSeq(msg, LAMBDA x : x.field = f)
LastOf(msg, f, default) ==
    LET found == Fields(msg, f) IN IF found = <<>> THEN default ELSE Last(found).value

-----------------------------------------------------------------------------
(***************************************************************************)
(* Numbers as protobuf writes them.                                        *)
(***************************************************************************)
VarintBytes(u) ==
    LET count == CHOOSE n \in 1..Width : u < More ^ n /\ \A m \in 1..(n - 1) : u >= More ^ m
    IN  [i \in 1..count |-> ((u \div More ^ (i - 1)) % More) + (IF i < count THEN More ELSE 0)]
ZigZag(n) == IF n >= 0 THEN 2 * n ELSE -2 * n - 1
Packed(numbers) == FlattenSeq([i \in DOMAIN numbers |-> VarintBytes(Unsigned(numbers[i]))])
PackedSigned(numbers) == FlattenSeq([i \in DOMAIN numbers |-> VarintBytes(Unsigned(ZigZag(numbers[i])))])

delta_encode(values) ==
    [i \in DOMAIN values |-> IF i = 1 THEN values[1] ELSE values[i] - values[i - 1]]

(***************************************************************************)
(* Numbers as the decoder reads them.                                      *)
(***************************************************************************)
EndsIn(run) == {p \in DOMAIN run : run[p] < More}
count_packed(run) == Cardinality(EndsIn(run))
read_varint(run, from, to) ==
    FoldLeft(LAMBDA sum, p : (sum + (run[from + p - 1] % More) * More ^ (p - 1)) % Modulus, 0,
             [p \in 1..(to - from + 1) |-> p])
read_packed(run) ==
    LET end(i) == CHOOSE p \in EndsIn(run) : Cardinality({q \in EndsIn(run) : q < p}) = i - 1
    IN  [i \in 1..count_packed(run) |-> read_varint(run, IF i = 1 THEN 1 ELSE end(i - 1) + 1, end(i))]

zig_zag_decode(u) == IF u % 2 = 0 THEN u \div 2 ELSE -(u \div 2) - 1
CumSum(numbers) ==
    [i \in DOMAIN numbers |->
        FoldLeft(LAMBDA sum, n : Signed(Unsigned(sum + n)), 0, SubSeq(numbers, 1, i))]
read_signed(run) == LET numbers == read_packed(run) IN [i \in DOMAIN numbers |-> zig_zag_decode(numbers[i])]
read_delta(run) == CumSum(read_signed(run))
read_plain(run) == LET numbers == read_packed(run) IN [i \in DOMAIN numbers |-> Signed(numbers[i])]

-----------------------------------------------------------------------------
(***************************************************************************)
(* Filling a block from records.  A tag dict is a function; the order in   *)
(* which its pairs are written is that of some sequence of its keys.       *)
(***************************************************************************)
Blank == ""
KeysInOrder(tags) == SetToSeq(DOMAIN tags)

intern(table, s) == IF \E i \in DOMAIN table : table[i] = s THEN table ELSE Append(table, s)
StringTable(strings) == FoldLeft(intern, <<Blank>>, strings)
IndexIn(table, s) == (CHOOSE i \in DOMAIN table : table[i] = s) - 1

PairsOf(tags) == FlattenSeq([i \in DOMAIN KeysInOrder(tags) |-> <<KeysInOrder(tags)[i], tags[KeysInOrder(tags)[i]]>>])
Indices(table, strings) == [i \in DOMAIN strings |-> IndexIn(table, strings[i])]
StringTableField(table) == Bytes("stringtable", [i \in DOMAIN table |-> Bytes("s", table[i])])

\* A node without tags still ends with a zero, unless no node has tags.
keys_vals(table, nodes) ==
    FlattenSeq([i \in DOMAIN nodes |-> Append(Indices(table, PairsOf(nodes[i].tags)), 0)])
\* Mutant of DenseTags: only the nodes that have tags.
TaggedOnly(table, nodes) == keys_vals(table, SelectSeq(nodes, LAMBDA n : DOMAIN n.tags # {}))
DenseTags(table, nodes) == keys_vals(table, nodes)

emit_node_block(nodes) ==
    LET table == StringTable(FlattenSeq([i \in DOMAIN nodes |-> PairsOf(nodes[i].tags)]))
        has_tags == \E i \in DOMAIN nodes : DOMAIN nodes[i].tags # {}
        column(f(_)) == [i \in DOMAIN nodes |-> f(nodes[i])]
        dense == <<Bytes("id", PackedSigned(delta_encode(column(LAMBDA n : n.id)))),
                   Bytes("lat", PackedSigned(delta_encode(column(LAMBDA n : n.lat)))),
                   Bytes("denseinfo", <<Bytes("version", Packed(column(LAMBDA n : n.version)))>>)>>
                 \o (IF has_tags THEN <<Bytes("keys_vals", Packed(DenseTags(table, nodes)))>> ELSE <<>>)
    IN  <<StringTableField(table), Bytes("group", <<Bytes("dense", dense)>>)>>

TagFields(table, tags) ==
    LET keys == KeysInOrder(tags)
    IN  IF keys = <<>> THEN <<>>
        ELSE <<Bytes("keys", Packed(Indices(table, keys))),
               Bytes("vals", Packed(Indices(table, [i \in DOMAIN keys |-> tags[keys[i]]])))>>
InfoField(r) == Bytes("info", <<Varint("version", r.version)>>)

emit_way_block(ways) ==
    LET table == StringTable(FlattenSeq([i \in DOMAIN ways |-> PairsOf(ways[i].tags)]))
        way(w) == <<Varint("id", Unsigned(w.id))>> \o TagFields(table, w.tags)
                  \o <<InfoField(w), Bytes("refs", PackedSigned(delta_encode(w.refs)))>>
    IN  <<StringTableField(table), Bytes("group", [i \in DOMAIN ways |-> Bytes("way", way(ways[i]))])>>

type_map == [k \in {"node", "way", "relation"} |-> CASE k = "node" -> 0 [] k = "way" -> 1 [] k = "relation" -> 2]
emit_relation_block(relations) ==
    LET roles(r) == [i \in DOMAIN r.members |-> r.members[i][3]]
        table == StringTable(FlattenSeq([i \in DOMAIN relations |-> PairsOf(relations[i].tags) \o roles(relations[i])]))
        relation(r) ==
            <<Varint("id", Unsigned(r.id))>> \o TagFields(table, r.tags)
              \o <<InfoField(r),
                   Bytes("roles_sid", Packed(Indices(table, roles(r)))),
                   Bytes("memids", PackedSigned(delta_encode([i \in DOMAIN r.members |-> r.members[i][2]]))),
                   Bytes("types", Packed([i \in DOMAIN r.members |-> type_map[r.members[i][1]]]))>>
    IN  <<StringTableField(table), Bytes("group", [i \in DOMAIN relations |-> Bytes("relation", relation(relations[i]))])>>

-----------------------------------------------------------------------------
(***************************************************************************)
(* Decoding a block: strings and dense nodes.                              *)
(***************************************************************************)
decode_string_table(block) == LET s == Fields(LastOf(block, "stringtable", <<>>), "s") IN [i \in DOMAIN s |-> s[i].value]
StringAt(table, index) == table[index + 1]
GroupsOf(block) == [i \in DOMAIN Fields(block, "group") |-> Fields(block, "group")[i].value]

decode_dense_group(dense) ==
    [id        |-> read_delta(LastOf(dense, "id", <<>>)),
     lat       |-> read_delta(LastOf(dense, "lat", <<>>)),
     keys_vals |-> read_plain(LastOf(dense, "keys_vals", <<>>)),
     version   |-> read_plain(LastOf(LastOf(dense, "denseinfo", <<>>), "version", <<>>))]
collect_dense(group) == [i \in DOMAIN Fields(group, "dense") |-> decode_dense_group(Fields(group, "dense")[i].value)]
DenseGroups(block) == FlattenSeq([i \in DOMAIN GroupsOf(block) |-> collect_dense(GroupsOf(block)[i])])

merge_dense(groups) ==
    [id        |-> FlattenSeq([i \in DOMAIN groups |-> groups[i].id]),
     lat       |-> FlattenSeq([i \in DOMAIN groups |-> groups[i].lat]),
     keys_vals |-> FlattenSeq([i \in DOMAIN groups |-> groups[i].keys_vals]),
     version   |-> FlattenSeq([i \in DOMAIN groups |-> groups[i].version])]

\* The tags of each node: pairs up to a zero in the place of a key (the number
\* of a value may be zero).
PairsAt(kv, p) == CHOOSE m \in 0..Len(kv) : /\ p + 2 * m > Len(kv) \/ kv[p + 2 * m] = 0
                                            /\ \A k \in 0..(m - 1) : p + 2 * k <= Len(kv) /\ kv[p + 2 * k] # 0
TagsFrom(table, kv, p, m) ==
    [k \in {StringAt(table, kv[p + 2 * i]) : i \in 0..(m - 1)} |->
        StringAt(table, kv[p + 2 * (CHOOSE i \in 0..(m - 1) : /\ StringAt(table, kv[p + 2 * i]) = k
                                                              /\ \A j \in (i + 1)..(m - 1) : StringAt(table, kv[p + 2 * j]) # k) + 1])]
parse_dense_tags(table, kv, n) ==
    FoldLeft(LAMBDA walk, i :
                LET m == PairsAt(kv, walk.p)
                IN  [p |-> walk.p + 2 * m + 1, tags |-> Append(walk.tags, TagsFrom(table, kv, walk.p, m))],
             [p |-> 1, tags |-> <<>>], [i \in 1..n |-> i]).tags

-----------------------------------------------------------------------------
(***************************************************************************)
(* Ways and relations, in two passes: the first counts and so sizes flat   *)
(* arrays, whose cells hold Garbage until the second has filled them.      *)
(***************************************************************************)
ElementsOf(block, kind) ==
    LET of(group) == [i \in DOMAIN Fields(group, kind) |-> Fields(group, kind)[i].value]
    IN  FlattenSeq([i \in DOMAIN GroupsOf(block) |-> of(GroupsOf(block)[i])])

Counted(elements, f) ==
    FoldLeft(LAMBDA sum, e : FoldLeft(LAMBDA s, x : s + count_packed(x.value), sum, Fields(e, f)), 0, elements)

Sized(n) == [i \in 1..n |-> Garbage]
ElementArrays(n_elem, n_tags, n_members) ==
    [ei |-> 0, ti |-> 0, mi |-> 0,
     id |-> Sized(n_elem), keys |-> Sized(n_tags), vals |-> Sized(n_tags),
     members |-> Sized(n_members), types |-> Sized(n_members), roles |-> Sized(n_members),
     version |-> Sized(n_elem),
     tags_off |-> [Sized(n_elem + 1) EXCEPT ![1] = 0], members_off |-> [Sized(n_elem + 1) EXCEPT ![1] = 0]]

fill_packed(out, at, values) == [i \in DOMAIN out |-> IF i - at \in DOMAIN values THEN values[i - at] ELSE out[i]]

fill_element(b, e, members_field) ==
    LET keys == read_plain(LastOf(e, "keys", <<>>))
        members == read_delta(LastOf(e, members_field, <<>>))
        ti == b.ti + Len(keys)
        mi == b.mi + Len(members)
    IN  [b EXCEPT !.ei = @ + 1, !.ti = ti, !.mi = mi,
                  !.id = [@ EXCEPT ![b.ei + 1] = Signed(LastOf(e, "id", 0))],
                  !.keys = fill_packed(@, b.ti, keys),
                  !.vals = fill_packed(@, b.ti, read_plain(LastOf(e, "vals", <<>>))),
                  !.members = fill_packed(@, b.mi, members),
                  !.types = fill_packed(@, b.mi, read_plain(LastOf(e, "types", <<>>))),
                  !.roles = fill_packed(@, b.mi, read_plain(LastOf(e, "roles_sid", <<>>))),
                  !.version = [@ EXCEPT ![b.ei + 1] = LastOf(LastOf(e, "info", <<>>), "version", -1)],
                  !.tags_off = [@ EXCEPT ![b.ei + 2] = ti],
                  !.members_off = [@ EXCEPT ![b.ei + 2] = mi]]

decode_elements(block, kind, members_field) ==
    LET elements == ElementsOf(block, kind)
    IN  FoldLeft(LAMBDA b, e : fill_element(b, e, members_field),
                 ElementArrays(Len(elements), Counted(elements, "keys"), Counted(elements, members_field)),
                 elements)

\* The slices of element i, resolved through the string table.
resolve_tags(table, b, i) ==
    LET cells == (b.tags_off[i] + 1)..b.tags_off[i + 1]
    IN  [k \in {StringAt(table, b.keys[c]) : c \in cells} |->
            StringAt(table, b.vals[CHOOSE c \in cells : /\ StringAt(table, b.keys[c]) = k
                                                        /\ \A d \in cells : d > c => StringAt(table, b.keys[d]) # k])]
MembersOf(b, i) == SubSeq(b.members, b.members_off[i] + 1, b.members_off[i + 1])

-----------------------------------------------------------------------------
(***************************************************************************)
(* A decoded block as sets of elements.                                    *)
(***************************************************************************)
DecodedNodes(block) ==
    LET nodes == merge_dense(DenseGroups(block))
        table == decode_string_table(block)
        tags == parse_dense_tags(table, nodes.keys_vals, Len(nodes.id))
    IN  {[id |-> nodes.id[i], lat |-> nodes.lat[i], version |-> nodes.version[i], tags |-> tags[i]] : i \in DOMAIN nodes.id}
DecodedWays(block) ==
    LET b == decode_elements(block, "way", "refs")
        table == decode_string_table(block)
    IN  {[id |-> b.id[i], refs |-> MembersOf(b, i), version |-> b.version[i], tags |-> resolve_tags(table, b, i)] : i \in DOMAIN b.id}
KindOf(t) == CHOOSE k \in DOMAIN type_map : type_map[k] = t
DecodedRelations(block) ==
    LET b == decode_elements(block, "relation", "memids")
        table == decode_string_table(block)
        member(c) == <<KindOf(b.types[c]), b.members[c], StringAt(table, b.roles[c])>>
    IN  {[id |-> b.id[i], version |-> b.version[i], tags |-> resolve_tags(table, b, i),
          members |-> [j \in 1..(b.members_off[i + 1] - b.members_off[i]) |-> member(b.members_off[i] + j)]] : i \in DOMAIN b.id}
=============================================================================
