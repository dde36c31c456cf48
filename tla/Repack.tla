------------------------------- MODULE Repack -------------------------------
(***************************************************************************)
(* The write pass of a crop with repack=True (pbf_export._RepackWriter):   *)
(* the kept elements go through a buffer a kind and come out in blocks of  *)
(* MaxGroup elements with string tables of their own.                      *)
(***************************************************************************)
EXTENDS Crop

CONSTANT MaxGroup   \* _MAX_GROUP, 8000 elements

ASSUME RepackAssumption == MaxGroup \in Nat \ {0}

\* A writer: nodes wait with their metadata in chunks, ways and relations as a list;
\* out has the groups it has made blocks of.
NewWriter == [node_chunks |-> <<>>, way_buf |-> <<>>, rel_buf |-> <<>>, out |-> <<>>,
              rejected |-> FALSE]
Reject(w) == [w EXCEPT !.rejected = TRUE]

-----------------------------------------------------------------------------
(***************************************************************************)
(* One output block: its strings are interned in the order of first use.   *)
(***************************************************************************)
\* The strings an element uses, wherever it is.
Text(e) ==
    LET b == CHOOSE c \in Blocks : e \in ElementsIn(crop.source[c].groups)
        words == crop.source[b].words[e]
    IN  [k \in DOMAIN words |-> crop.source[b].strings[words[k]]]

intern(texts) ==
    LET all == FlattenSeq(texts)
        first == {i \in DOMAIN all : all[i] # Blank /\ \A j \in 1..i - 1 : all[j] # all[i]}
    IN  <<Blank>> \o [k \in 1..Cardinality(first) |->
            all[CHOOSE i \in first : Cardinality({j \in first : j <= i}) = k]]

emit_repack_block(g) ==
    LET texts == [k \in DOMAIN g.ids |-> Text(<<g.kind, g.ids[k]>>)]
        table == intern(texts)
        index(s) == CHOOSE i \in DOMAIN table : table[i] = s
    IN  Written(<<g>>, table,
                [e \in ElementsIn(<<g>>) |-> [k \in DOMAIN Text(e) |-> index(Text(e)[k])]])

Packed(kind, ids) == [kind |-> kind, ids |-> ids]
FullBlocks(kind, ids) ==
    [j \in 1..Len(ids) \div MaxGroup |->
        Packed(kind, SubSeq(ids, (j - 1) * MaxGroup + 1, j * MaxGroup))]
Remainder(ids) == SubSeq(ids, (Len(ids) \div MaxGroup) * MaxGroup + 1, Len(ids))

-----------------------------------------------------------------------------
Chunk(ids, schema) == [ids |-> ids, schema |-> schema]
IdsOfChunks(chunks) == FlattenSeq([i \in DOMAIN chunks |-> chunks[i].ids])

\* concat_meta: what shares a dense block has the same metadata fields.
Mixed(chunks) == \E i, j \in DOMAIN chunks : chunks[i].schema # chunks[j].schema

add_nodes(w, chunk) ==
    LET chunks == Append(w.node_chunks, chunk)
        ids == IdsOfChunks(chunks)
    IN  IF Len(ids) < MaxGroup THEN [w EXCEPT !.node_chunks = chunks]
        ELSE IF Mixed(chunks) THEN Reject(w)
        ELSE [w EXCEPT !.out = @ \o FullBlocks("node", ids),
                       !.node_chunks = <<Chunk(Remainder(ids), chunk.schema)>>]

flush_nodes(w) ==
    LET ids == IdsOfChunks(w.node_chunks)
    IN  IF ids = <<>> THEN [w EXCEPT !.node_chunks = <<>>]
        ELSE IF Mixed(w.node_chunks) THEN Reject(w)
        ELSE [w EXCEPT !.out = Append(@, Packed("node", ids)), !.node_chunks = <<>>]

flush_ways(w) ==
    IF w.rejected \/ w.way_buf = <<>> THEN w
    ELSE [w EXCEPT !.out = Append(@, Packed("way", w.way_buf)), !.way_buf = <<>>]

add_ways(w, ids) ==
    LET f == flush_nodes(w)
        buffered == f.way_buf \o ids
    IN  IF f.rejected THEN f
        ELSE [f EXCEPT !.out = @ \o FullBlocks("way", buffered),
                       !.way_buf = Remainder(buffered)]

add_relations(w, ids) ==
    LET f == flush_ways(flush_nodes(w))
        buffered == f.rel_buf \o ids
    IN  IF f.rejected THEN f
        ELSE [f EXCEPT !.out = @ \o FullBlocks("relation", buffered),
                       !.rel_buf = Remainder(buffered)]

\* Mutant of close: the relations that are still waiting are forgotten.
CloseEarly(w) == flush_ways(flush_nodes(w))

close(w) ==
    LET f == flush_ways(flush_nodes(w))
    IN  IF f.rejected \/ f.rel_buf = <<>> THEN f
        ELSE [f EXCEPT !.out = Append(@, Packed("relation", f.rel_buf)),
                       !.rel_buf = <<>>]

-----------------------------------------------------------------------------
\* The kept elements of a source group.  Plain nodes may differ in their
\* metadata, dense ones share it.
repack_group(w, g, kept) ==
    LET ids == KeptGroup(g, kept).ids
        schemas == {crop.schema[ids[k]] : k \in DOMAIN ids}
    IN  IF w.rejected \/ ids = <<>> THEN w
        ELSE CASE g.kind = "node" -> IF Cardinality(schemas) > 1 THEN Reject(w)
                                     ELSE add_nodes(w, Chunk(ids, crop.schema[ids[1]]))
               [] g.kind = "way" -> add_ways(w, ids)
               [] g.kind = "relation" -> add_relations(w, ids)
=============================================================================
