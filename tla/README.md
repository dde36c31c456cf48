# Verification of pyrosm

TLA+ models of pyrosm (version 0.11.0), checked with TLC and proved with TLAPS.
pyrosm reads OpenStreetMap extracts (`.osm.pbf`) into GeoDataFrames: buildings,
networks, points of interest or any custom selection of tags. It has two reading
engines. `in_memory` parses the whole file in one process and keeps it.
`out_of_core` decodes the file in a pool of processes, spills what a read needs to
shard files, collects from those and can cache results on disk. It also crops files
by a box, writes edited frames back to PBF, and turns networks into graphs. Paths
below are relative to `src/pyrosm`.

## Inventory

| Component | State | Operations | What is hard | What makes it correct |
|---|---|---|---|---|
| Result cache (`engine/cache.py`, `engine/readers.py`) | a directory shared by processes: results, `.empty` markers, temporaries; the source's mtime and size | `result_path`, `materialize`, `materialize_pair`, `clear`, `list_files` | no locks: other processes act between any two file system calls; kills, full disks; a source replaced during a read | a result is whole, belongs to the version in its name, and is what the read asked for; a read raises only for a reason |
| Parallel decoding (`engine/pool.py`, `engine/decode.py`, `engine/blobs.py`) | futures, worker processes, a directory of shards | `_decode_and_run`, `_decode_all`, `_run_pool`, `_decode_batch` | worker deaths, forbidden pools, errors in any block, a serial fallback after a partial success | every row once and in file order, no stray writer, no directory left behind, every read ends |
| Out-of-core collection (`engine/collect.py`, `assemble.py`, `geoparquet.py`, `bounding_box.py`) | columns gathered from the shards | `_collect_layer`, `_assemble_layer`, `_stream_layer_to_parquet` | elements arrive in any order; what to keep depends on what is found later; output in chunks | the layer of the extract, no geometry cut |
| In-memory reader (`pbfreader.pyx`, `data_manager.pyx`, `user_defined.py`) | parsed collections, ids looked for by later passes | `parse_osm_data`, `get_user_defined_data` | three passes over the file, each depending on the one before; the order of the groups | the same layer |
| Shared assembly (`frames.pyx`, `geometry.pyx`, `relations.pyx`) | none | `prepare_geodataframe`, geometries of ways and relations | which rows disappear, ids shared between kinds | one row for each selected element that has a geometry |
| Reader session (`pyrosm.py`) | what an `OSM` object parsed, the time it was last asked for, its node table | `get_*`, `write_pbf`, `_read_pbf`, routing to an engine | what is kept after another call or an exception | a read returns what a fresh object would |
| History reads (`pbfreader.pyx`, `data_filter.pyx`) | versions of elements | timestamp filter, `visible`, `get_latest_version` | versions dropped in one order or another, later passes by id | the state of the map at that time |
| Tag filters (`data_filter.pyx`, `filter_compiler.py`, the layer modules) | the filter object of the caller | `validate_custom_filter`, `compile_custom_filter`, `filter_osm_records`, `record_should_be_kept` | one rule implemented twice; the caller's object is completed in place and used again; tags resolved before the filter sees them | both implementations agree; a layer is what its filter says |
| Block decoding (`primitive_block_decoder.pyx`, `delta_compression.pyx`, `tagparser.pyx`) | none | offsets, deltas, varints, tags | unchecked offsets into arrays filled in two passes, terminators, widths | what was written is read |
| Network reads (`frames.pyx`, `geometry.pyx`, `networks.py`) | the ways' geometries, edge and node tables | `get_network(nodes=True)` | a batched builder beside one for ways with gaps; edges cut by geometry, nodes by id | a street for every pair of located neighbours, with its own ends; the table has the ends |
| Graphs (`graphs.py`, `graph_export.pyx`, `graph_connectivity.py`) | directed edges; the stacks of the component search; the graph | `get_directed_edges`, `to_networkx`, `to_igraph`, ... | one-way directions, Tarjan's search without recursion, empty frames, edges that are passed over in silence | what is kept is a largest strongly connected component; no edge is lost |
| Graph simplification (`graph_simplify.py`, `_simplify_walk.pyx`) | visited edges, chains | `detect_endpoints`, `walk_chains`, the collapse | rings without an endpoint, both directions of a street with one geometry, parallel streets, walks that cross | every directed edge in one chain at most, connections unchanged, geometry along the walk |
| Crop and export (`pbf_export.pyx`) | id sets broadcast in files, one process pool, a repack writer, the output file | `crop_pbf` | four stages that depend on each other, workers that die, output written while the source is read | parallel equals sequential, the crop has what its box promises, a bad source costs nothing |
| Frames to PBF (`pbf_writer.py`, `pbf_export.pyx`) | edits by id, new rows, counters of new ids | `write_geodataframe_to_pbf`, `write_pbf_from_records` | ids of new elements, points that meet, the closure of a subset, a row that is refused late | what is written is read back; every reference has a record |
| Downloads (`utils/download.py`, `data/`) | the download directory | `download`, `get_data` | interrupted or concurrent downloads | a file that exists is complete |
| Configuration (`config/`) | none | tables | nothing that a state machine shows | |

How they interact: `OSM.get_*` routes a call either to the in-memory reader, whose
parsed collections it keeps and hands to `user_defined` and its siblings, or to
`engine.readers`, which wraps `pool._decode_and_run` (pool and shards) around
`collect._collect_layer`, and both in `cache.materialize` when a result directory
is used. Pool processes and the caller share only the shard directory and the
futures; readers and clearers of the cache share only its directory. Both engines
end in the same `prepare_geodataframe`, and a network goes on from there to
`graphs`. `crop_pbf` reads blocks of a file itself and has a pool of its own;
`write_pbf` takes what the session holds.

The hazards of each component, at the lines where they bite, are in
`PROJECT.json` with the properties that cover them.

## Modules

| Module | Models | Checked by |
|---|---|---|
| `ResultCache` | the cache and the caching branch of the readers | `cache_race`, `cache_ends` |
| `DecodePool` | tasks, process pool, fallback, shards, the collect phase's partitions | `pool_reads` |
| `Extract` | what both readers are given and the assembly they share | (extended by the readers) |
| `LayerRead` | what reading a layer promises: the abstract specification | (refined by the readers) |
| `MemoryReader` | the in-memory reader | `memory_layer` |
| `LayerCollect` | the out-of-core reader | `collect_layer` |
| `ReaderJobs` | the small extracts and reads that the reader runs enumerate | |
| `NetworkRead` | the ways of a network cut into streets | (extended by `GraphSimplify`) |
| `GraphSimplify` | directed edges of a street network, their simplification | (extended by `GraphExport`) |
| `GraphExport` | the largest strongly connected component and the graph: the whole way from ways to an exporter | `export_simplify` |
| `Crop` | what a source file is, the passes of a crop for one block, what a crop promises | (extended by `Repack`) |
| `Repack` | the writer that fills blocks anew | (extended by `CropPipeline`) |
| `CropPipeline` | `crop_pbf`: preflight, passes, pool, files, output | `crop_pbf` |
| `CropReread` | a crop and then a read of it; uses `LayerRead` | `crop_pbf` |
| `History` | the in-memory reader's passes over a file with several versions of an element | (extended by `OsmSession`) |
| `OsmSession` | an `OSM` object between and during calls | `session_reads`, `session_history` |
| `TagFilter` | filters from the caller's object to the tests of both readers | `filter_rules`, `filter_minimal` |
| `BlockCodec` | a block: filling it, its bytes, decoding it | (extended by `PbfWriter`) |
| `PbfWriter` | `write_pbf` from frames to a file | `writer_records` |
| `MC*` | constants and symmetry of the runs | |
| `DataLemmas` | facts of numbers, places and sequences that the proofs share | |
| `*Proofs` | theorems | |

### ResultCache

A step is one file system call (`stat`, `exists`, `mkstemp`, opening and closing
the temporary, `rename`, `unlink`, `touch`), so that every other process can act
between two of them. `pc` follows the control of `materialize` and of
`materialize_pair`, which differ in the number of parts a read has (`NumParts`);
`at` is the part its loops are at. `result`, `marker`, `temp` and `orphan` are the
directory. A frame is abstracted to the set of source versions it was decoded from
(the source is opened by path twice, by the indexer and by the workers), and a
version stands for one (mtime, size) with its bytes. `End` is the exit of the
`finally` clause; `Kill` skips it. `clear` lists the directory once and then tests
and removes entry by entry (`ClearVisit`, `ClearUnlink`, `ClearFails`). The
history variables `dirty`, `misled`, `cleared`, `faulted` and `tainted` record
what the environment did to a read and are read by properties only.

### DecodePool

Executor 0 is the calling process, the others are the pool's. `fut`, `results` and
`Take`/`Die`/`Terminate` are `concurrent.futures` as `_run_pool` uses it:
`list(pool.map(...))` inside a `with` block, `BrokenProcessPool` for every
unfinished future once a worker dies, cancellation on leaving the block except for
tasks that are already in the call queue, and a join of all processes. That part
is external to pyrosm and modelled from its use. `DecodeBlock`, `OpenShard` and
`CloseShard` are `_decode_batch`, with the shard named after task and number, so
that a serial fallback overwrites what the pool left. `Run` is the collect phase:
contiguous partitions of the shards for ways, strided ones for node coordinates. A
blob is its position in the file; `weight` is what it decodes to in memory.

### Extract, LayerRead and the two readers

An extract (`Job`) is a sequence of primitive groups of one kind each, with the
nodes of each way, the members of each relation, which nodes lie in the box and
which ways cross the box between two vertices. `job.match` says which elements pass
the tag filter, `nodes`, `ways` and `relations` are the three `keep_` flags. A
geometry is abstracted to what it is made from: the located vertices of a way, or
those of the member ways of a relation. A way needs two located vertices to be
drawn (a closed ring, a polygon and the assembly of multipolygons are left out).
`prepare_geodataframe` drops rows without geometry and then those the spatial join
does not hit. The order of rows and the columns are not modelled.

`LayerRead` states the promise in one step: `Layer` has the matching nodes in the
box, the matching ways that reach into it and belong to no selected relation, and
the matching relations with a member way in the box, each with all vertices that
the extract has, also those outside the box.

`MemoryReader` has one action per group of each pass: `ScanNodes`, `ScanWays`,
`ScanRelations` (first pass), `FetchMembers` (second pass, `complete_relations`),
`LocateNodes` (third pass) and one per decision between them, with the early
returns. `ScanWaysFails` is the `ValueError` of `np.concatenate` on a file that has
ways before any node. `Assemble` is `get_user_defined_data` over `get_osm_data`.

`LayerCollect` decodes the blocks in any order (`DecodePool` shows what brings
that about) and has one action per phase of `_collect_layer`, followed by either
the assembly at once or the chunked stream, whose chunks are any `ChunkSize` ways.

The two readers agree with the promise under named conditions on the extract:

- `NodesFirst` (in memory only): node groups come before way groups, and there is
  one. PBF writers sort files this way; pyrosm does not check it.
- `MembersApart`: no node or relation member has the id of a way in the extract.
- `CompletedAlone` (in memory only, with `complete_relations`): a relation that
  shares a way with one that reaches into the box reaches into it itself.

What happens without the first is what `UnsortedOnlyLoses` bounds; what happens
without the others is described under Findings.

### NetworkRead, GraphSimplify and GraphExport

`NetworkRead` starts from the ways that a reader selected (with a box, those that
have a located node in it). `CreateWayGeometries` is the builder: ways all of whose
nodes are located are cut from one flat array, through `offsets`, `seg_counts` and
`concatenated_ranges`, and dealt out by `seg_cum`; the others go through
`create_linestring_geometry`. A point is the node it was made from, so that a street
with the wrong geometry can be told from one with the wrong ends, which are lists of
their own until `SliceToSegments` puts them beside the exploded rows. `FilterByBox`
drops streets by geometry (`crossing` has the pairs of nodes outside the box between
which a street meets it) and nodes by id.

`generate_directed_edges` orders the rows as the code concatenates them, because the
walk depends on their order. Suffix columns, roundabouts and the default of a missing
`oneway` only decide a way's direction; `force_bidirectional` makes every way
`"both"`. `is_endpoint`, `visited`, `chains`, `prev` and `cur` are the arrays and
locals of `walk_chains`. `StartAtEndpoint` and `StartRing` are its two outer loops, in
the order of the CSR table (`Before`: nodes as they are factorised, then rows), and
`Extend` is one turn of `while`. The guard counter of the loop never fires, because
`visited` grows with each turn (`ExportEnds`), and is left out. `Collapse` merges a
chain into a row: `geom_reversed` finds which way each row is drawn,
`stitch_geometries` joins the rows' points. One attribute is kept, as the set of its
values along the chain.

`queue`, `preorder`, `lowlink`, `scc_found` and `scc_queue` are those of
`_strongly_connected_components`; a step is one turn of its inner `while`.
`Descend` is a turn that finds a successor without a number, `Postpone` and
`CloseComponent` are the two ends of a node. `Source` takes any node next, since the
order of the nodes table comes from the read. `RetainAll` is `retain_all=True`.
`create_igraph` and `create_nxgraph` pass over the rows whose ends the nodes table
lacks; the graph is its nodes and edges.

Two properties assume `Apart`, no two rows that join the same nodes in the same
direction. OpenStreetMap has such rows; Findings says what they cause.

### Crop, Repack, CropPipeline and CropReread

A source is a sequence of blocks, each with groups, a string table and, for each
element, the places in it of the strings it uses. `Crop` has the passes as functions
of one block (`stage1_nodes_in_bbox`, `stage2_ways`, `stage3_relations`,
`build_output_block`, `compact_string_table`), which the code writes twice, for the
sequential path and for the workers, and `TheCrop`, what the box promises. `Repack`
is `_RepackWriter`: buffers by kind, `FullBlocks` when one is full, strings interned
anew, and a rejection when nodes of different metadata would share a dense block.
`SourceAssumption` says what a source is: data in which an element is in one block, and
words that the block's table has.

`CropPipeline` is `crop_pbf`. `phase` is where the caller is. Sequentially
`StreamBlock` reads the next block in every pass; in parallel the blocks are tasks of
one `multiprocessing.Pool`, taken in order (`TakeTask`) and finished in any
(`FinishTask`), and the sets of a pass reach the workers as files that each loads
once (`w_get_set`). `WorkerDies` is what `multiprocessing.Pool` does: a new process
takes the place of the dead one, with an empty cache, and nobody does its task. The
results of a pass are needed all before the next one (`NodesSelected`, ...), those of
the last pass in the order of the source (`WriteNext`). `outfile` is what lies at
`output_path`. `CropReread` hands source and output to `LayerRead`.

### History and OsmSession

`History` has the passes of `MemoryReader` again, as one operator each, for files
with several versions of an element: which versions a pass keeps, and
`get_latest_version`, which merges what is left column by column. A pass is the set of
places it keeps in the list of its kind, and a later place is a later version
(`OneVersionEach` in `SessionAssumption`: a file that is no history has one version of
each element). `AsOf` is the map at a time. `OsmSession` is the object: `held`, `current` and `changed` are its parsed
collections, `_current_timestamp` and `_timestamp_changed`. A call goes through
`Check`, `SetCurrentTime`, `Parse` and `Extract`, may be rejected at the step where
the code notices a flaw in its arguments, may raise because of the file or run out of
memory, and the next call starts with what that left. `ReadEngine` is the other
engine, which keeps nothing in the object; `WriteHeld` is `write_pbf`, which takes
what is held.

### TagFilter

A filter is a dict of entries, a list of bracket strings, or compiled groups of
conditions. `given` is the caller's object, which validation changes in place and the
caller may pass to the next call of its script; `held` is the one in the call. The
rule is written twice: `filter_osm_records` for ways in memory, and
`record_should_be_kept` for everything else. `SelectOutOfCore` tests tags after
`resolve_tags` has cut them to `requested_tag_keys`. Of the preset tables in `config/`
one of each shape stands for the rest. `ScriptAssumption` says what a script is: a dict
or bracket strings (`IsFilter`) and calls with the arguments their layer takes (`IsCall`).

What a filter means is said by `Meets`, without brackets, groups or candidate keys. A key
with an empty list asks for nothing beside a pattern, because compiling drops it, and
for a key that nothing satisfies without one (`Listed`).

### BlockCodec and PbfWriter

`BlockCodec` has a block three times: as the writer fills it (`emit_node_block`,
`emit_way_block`, `emit_relation_block`), as protobuf's fields and bytes (external:
modelled from the format the decoder parses), and as the decoder reads it, with the
counting pass, offsets, deltas, zigzag and terminators of
`primitive_block_decoder.pyx`. A byte carries `Bits` bits and integers have `Width`
bits, so that varints of several bytes and negative numbers of full width occur with
small numbers. `Garbage` stands for the content of arrays before they are filled.

`PbfWriter` is `write_pbf`: `_collect_edits` sorts the rows of the frames into edits
and new elements, `TakeRelation` closes a subset over relations that may be members
of each other, `BuildRecords` and `Synthesize` make the records, points that meet
sharing a node, and `Open`, `WriteBlock` write them. A geometry that cannot be
written raises in `Synthesize`, a full disk in `WriteFails`. `JobsAssumption`: the rows
are a sequence, and no element that is held has id 0, which stands for a row without one.


## Runs

All runs allow the system to stop (`CHECK_DEADLOCK FALSE`): reads end and bounds
are spent.

| Run | Instance | Distinct states | Shows |
|---|---|---|---|
| `cache_race` | 2 readers, 1 clearer, one read each of one or two files, 1 fault | 388 000 | no half-written result, right answers, explained errors and leftovers |
| `cache_ends` | 1 reader with 2 reads, 1 clearer without limit, 1 fault, 1 replaced source | 267 000 | keys and markers match the source, reads end |
| `pool_reads` | up to 4 blobs, 3 workers, 2 faults, 1 shared node | 226 000 | order, cleanup, joins, termination |
| `memory_layer` | 3 nodes, 2 ways, 2 relations, 3 group orders, every box, filter and flag | 1 345 000 | refines `LayerRead`; unsorted files only lose |
| `collect_layer` | the same extracts, sorted; blocks in any order; chunks of one | 1 260 000 | refines `LayerRead` |
| `export_simplify` | networks of up to 4 streets, longer ways with gaps and a box | 695 000 | streets are those of the ways, chains partition the rows, reachability and geometry survive, the component kept is a largest one, no edge is lost, exports end |
| `crop_pbf` | files of 2 to 4 blocks, 2 workers, 1 death | 130 000 | parallel equals sequential, the crop is what its box promises and reads back as the source does, a bad source spares the output, crops end |
| `session_reads` | histories of 5 elements, scripts of 3 calls, faults | 243 000 | a used object reads as a new one; nothing newer than asked; nothing lost |
| `session_history` | the same histories | violation | a state that no version had |
| `filter_rules` | filters of 2 keys, up to 2 calls with one filter object | 89 000 | both evaluators agree, layers and custom reads mean what they say |
| `filter_minimal` | custom reads with all tags and with some | violation | fewer tags, other elements |
| `writer_records` | 3 data sets, up to 3 of 10 rows, 1 failing write | 73 000 | what is written is read back, a refused row spares the output |

### Bounds

- Cache: a race needs two readers and a clearer. A third reader adds no step that
  these two cannot take, and one fault is enough to kill either at any step. The
  case of two readers and a replaced source is too large for a run next to the rest
  and is covered by the theorems, which hold for any number of either.
- Pool: with four blobs and three workers `ceil(n / workers)` leaves a task that is
  smaller, a task that does not exist, and tasks of two shards; two faults cover a
  failure of the fallback after a failure of the pool.
- Readers: two ways that share a node, that do not, or of which one has a single
  node; two relations that share none, one or both; one member that is a node; and
  every subset of the nodes inside the box. Each clause of `LayerRead` is decided
  both ways. Node 8 is in no file: an extract may lack vertices. `ChunkSize = 1`
  makes the stream of two ways take two chunks and an empty rest.
- Graphs: networks of one and two streets in every direction, with two classes, with
  and without `edge_attrs_differ`, nodes to include and rings to remove; three, one-way
  or not (`"against"` is `"along"` with the ends exchanged and the row in another
  place); four one-way streets without loops; and a ring of three beside a street.
  These have every shape that decides a branch: dead ends, crossings, parallel
  streets, a street both ways, loops, rings with and without an endpoint, several
  components. `CutNetworks` adds two ways of up to five nodes, with gaps, and boxes
  that keep a node, that keep an end, and that a street crosses with both ends
  outside. Networks that differ only in the names of their nodes are drawn once,
  numbered as their nodes appear.
- Crop: four nodes, two ways and two relations that share ids, and a member that is in
  no file, in sorted, dense and unsorted blocks; a block of the repack writer holds
  `MaxGroup = 2` elements, so it is filled, cut and left over. Two workers and one
  death leave one to go on; with three blocks or more a set is read from a worker's
  cache and from a file.
- Session: two nodes, two ways and a relation, each with no, one or two versions; no
  box, a box, a box with `complete_relations`; scripts of three calls out of eleven
  requests are what it takes to parse, fail, and read again.
- Filters: dicts of up to two keys, empty lists among their values, one or two brackets of
  two conditions; two calls
  show what the first leaves in the caller's object.
- Writer: ten rows of which any three are written in any frame order, blocks of two.
  `Bits = 2` and `Width = 9` with coordinates up to `Limit = 39` give varints of one to
  five bytes and deltas of both signs; negative ids have full width.

### Fairness

`cache_ends` assumes weak fairness of each reader's and clearer's own next step:
a process that is not killed runs on, and none of these steps waits for another
process (there are no locks). Starting a read, faults, kills and replacements of
the source are not fair. `pool_reads` assumes the same for the caller, for each
process while it decodes or may take a task, and for the executor's manager, which
kills the other processes of a broken pool. `export_simplify` and `writer_records`
assume weak fairness of the one process that runs these functions, without the
failing write. `crop_pbf` assumes it of the caller and the workers; deaths and failing
writes are not fair, and `CropEnds` excepts a crop that lost a task: nothing in
`multiprocessing.Pool` completes it. The readers, the session and the filters have no
liveness property: they are loops over finite collections.

## Proofs

Every theorem holds for all values of the constants that satisfy the assumption
named in the module, and all its leaves are checked.

| Module | Theorem | Establishes |
|---|---|---|
| `ResultCacheProofs` | `CacheInvariant` | `CacheInv`, inductive |
| | `TypeCorrect`, `NoHalfWrittenFile`, `CacheKeyedOnSource`, `EmptyMarkerSound`, `AnswerMatchesSource` | `TypeOK`, `NeverHalfWritten`, `KeyedOnSource`, `MarkerSound`, `ReadReturnsItsVersion` |
| | `ExcuseInvariant` | `ExcuseInv`, inductive |
| | `ErrorsHaveReasons`, `LeftoversHaveReasons` | `ErrorsAreExplained`, `LeftoversAreExplained` |
| `DecodePoolProofs` | `PoolInvariant` | `PoolInv`, inductive |
| | `PoolIsJoined`, `DirectoryRemoved` | `NoStrayWriter`, `NothingLeft` |
| | `FileInvariant` | `FileInv`, inductive along with `PoolInv` |
| | `RowsAreTheFile` | `RowsInFileOrder` |
| `MemoryReaderProofs` | `ReadsLayer`, `MemoryInvariant`, `MemoryTypes` | refinement of `LayerRead`, its invariant, types |
| | `UnsortedFilesOnlyLose` | `UnsortedOnlyLoses` |
| `LayerCollectProofs` | `CollectsLayer`, `CollectInvariant`, `CollectTypes` | the same for the out-of-core reader |
| | `FilterInvariant` | `FilterInv` of `TagFilter`, inductive |
| | `OneRuleForAll`, `LayerIsSelected`, `CustomReadIsMeant` | `OneRule`, `SelectsTheLayer`, `CustomMeans` |
| `GraphExportProofs` | `WalkInvariant` | `WalkInv`, inductive |
| | `RowsWalkedOnce`, `ChainsArePaths` | `EachRowOnce`, `ChainsPassThrough` |
| | `ReadInvariant` | `ReadInv`, inductive |
| | `StreetsAreTheWays` | `ReadsTheStreets` |
| | `FrameInvariant` | `FrameInv`, inductive along with `WalkInv` and `ReadInv` |
| | `DrawnAsWalked`, `EveryRowIsExported` | `MergedAsWalked`, `NoRowPassedOver` |
| | `SearchInvariant` | `SearchInv`, inductive along with `FrameInv` and `ReadInv` |
| | `LargestIsKept` | `LargestComponent` |
| | `RingInvariant` | `RingInv`, inductive along with `WalkInv` and `FrameInv` |
| | `WaysSurvive` | `SameReach` |
| `CropPipelineProofs` | `CropInvariant` | `CropInv`, inductive |
| | `ParallelAsSequential`, `BadSourceCostsNothing` | `WritesInOrder`, `SparesTheOutput` |
| | `WriteInvariant` | `WriteInv`, inductive along with `CropInv` |
| | `TheCropIsWritten`, `CropReadsAsSource` | `WritesTheCrop`, `RereadMatches` |
| `OsmSessionProofs` | `SessionInvariant` | `SessionInv`, inductive |
| | `ReadsLikeNew`, `HoldsOneParse` | `ReadsAsFresh`, and that what is held is one parse |
| | `NothingNewer`, `NothingLost`, `LatestIsRead` | `NothingFromTheFuture`, `NeverLoses`, `LatestIfOnlyGrown` |
| | `ClosureInvariant` | `ClosureInv` of `PbfWriter`, inductive |
| | `SubsetIsSmallest`, `OutputIsSpared` | `Smallest`, `RejectedLeavesOutput` |
| `DataLemmas` | lemmas | least numbers, places, sums, division, concatenation of sequences |

*Cache.* That a result is whole is not inductive by itself: the rename publishes
whatever the temporary holds, so `TempOK` says that a temporary about to be renamed
holds what its reader wrote, or is gone. `KeysOK` gives the length of the keys
taken so far, `CleanOK` ties key, source and decoded version of a read whose source
was left alone, `AnswerOK` says what a read that is about to return has in hand.
Each action preserves each of them; the two-part loops and the clearer's `unlink`
are the long cases.

That errors and leftovers have reasons needs to know what a read relies on at each
phase. `Secure` says that an unexcused read still has the temporaries it has yet to
close or rename and the files it found, published or loads; only a clear takes a file
away, and it excuses every reader that could miss it. `Tidy` says which temporaries a
read has at each phase, so what it leaves at its end is known: none, unless the
`finally` clause was cut short.

*Pool.* `PoolInv` relates the caller's phase, the executors and the directory: from
the exit of the `with` block on, no executor but the caller's works, and files
exist only while the directory does.

`FileInv` follows the blobs. A task that somebody works on is in one executor's hands,
and at each step the shards it has written, the open one and the blobs it has pending
are together the beginning of its slice (`BatchesOK`); a task that is done has its
slice (`DoneOK`), also when the fallback decodes it again over the shards a dead worker
left, because a shard has the same name whoever writes it; and the caller has seen all
tasks before `next` end well (`NextOK`). The slices are the file (`CeilFacts`: with
`ceil(n / workers)` blobs a task the last one may be short and later ones are empty),
and so are the contiguous parts of the shards. The strided parts hold every shard, which
is what the lookup of a node needs.

*Readers.* `MemoryInv` says for each pass what it has gathered, as a function of
the groups behind its position, and `CollectInv` what each phase has selected; the
final step then builds exactly `Layer`. The lemmas in between are the argument why
the box, the members and the vertices come out right: a way that reaches the box is
found because all nodes were parsed before it (`NodesFirst`), member ids that are
way ids are members (`MembersApart`), a relation that the layer lacks gets no way
(`CompletedAlone`), and geometry depends on a way's own vertices only
(`PartsNeedOwnNodes`).

On files in any order `LooseInv` keeps half of `MemoryInv`: the ways gathered are some
of those that reach the box, the completed ones some of those a kept relation may ask
for, and of each of them every vertex the file holds is located. So every row is a
row of the layer, perhaps in part.

*Graphs.* `EachRowOnce` needs to know what the walk relies on: chains are non-empty
sequences of rows, `visited` is exactly their range, and `prev` and `cur` are the
ends of the last row. `WalkInv` adds that, and that consecutive rows of a chain
meet at a node that is no endpoint and do not turn back there. `Start` adds a row
that is in no chain; `Extend` adds to the last chain a row that is in none; all
other steps leave the chains alone.

`ReadsTheStreets` is about the arithmetic of the batched builder. Place `p` of
`concatenated_ranges` lies in the run of one way, `cumsum` grows by that way's segments,
so the segments taken for it from the flat array are those that
`create_linestring_geometry` would have built, and the slice from `seg_cum` has its own
and no other's. What remains is that every way, batched or not, contributes the pairs of
its located nodes (`AllOfWay`), and that dropping ways without geometry, flattening and
the box keep their order (`Only` of a concatenation is the concatenation of the `Only`s).
The nodes are the ends of these pairs in each of the three states of the read.

`FrameInv` carries that through the export: a directed row is a street or its flip, so
the nodes table has its ends; a merged row begins and ends where its chain does, and
`RetainAll` and `KeepLargest` keep rows whose ends they keep. `MergedAsWalked` then says
of one chain: `geom_reversed` compares the ends of a line, as drawn and reversed, with
the ends of the row, so each row is turned as it is walked, and stitching drops one
of two equal points where rows meet. With `edge_attrs_differ` consecutive rows meet at a
node that is no endpoint, of which `Disagree` is one kind, so their class is the same and
the chain has one.

`LargestComponent` compares Tarjan's search without recursion with mutual reach, which the
run computes with Warshall's algorithm. The proof first shows that this recursion over
sets yields the least relation that has the edges and is reflexive and transitive
(`ReachesIs`; for that `NetworkAssumption` says that there are finitely many nodes), so
that a set of nodes which no edge leaves is one that nobody in it gets out of. `SearchInv`
then says of each turn: `queue` is a path whose numbered nodes ascend (`PathOK`); what is
in `scc_found` cannot be left (`FoundOK`); `lowlink` of a node that waits on `scc_queue`
is the number of one it reaches, and no greater than its successors' that are not found
(`LowOK`); a node that waits reaches an earlier one in hand and is reached by all of them
(`BackOK`); it was found from one that waits too, or from the last one in hand before it
(`ParentOK`); and on `scc_queue` what was found below a node in hand lies above the rest
(`OrderOK`). If `Low` is the node's own number, it and the nodes that the
code takes off `scc_queue` reach each other (`TakenNode`) and no edge leads from them to
an earlier node (`NoneBelow`), so they are a whole component.

`SameReach` has a condition, `Apart`. Under it a node that is dropped has at most one row
to and one from each of its two neighbours, so it is only passed straight on
(`PassesOK`). `RingInv` says what
that makes of the walk: it stops at a node that is kept or where it began (`WalkStops`),
because the only row in a chain that may follow its last is its own first
(`EndMeetsStart`); and when all rows from kept nodes are walked, those that are left lie
on rings (`RestIsRings`). Thus no way is opened, since a chain is a way. For the other direction
the nodes that can be reached after simplification, with those on the chains from them,
are closed under the rows from before. The hard case is a ring that is
walked once in each direction: its two chains must start at the same node, or each would
keep a node that lies inside the other. They do because a ring starts at the node that
comes first in `u` (`OwnRank`, `NoStartInside`).

*Crop.* A set of ids is made once, then written to a file, loaded by any worker that
needs it and kept there. `CropInv` says that wherever it is, it is the one its pass
defines from the source, so the result of a task does not depend on which worker
computed it, when, or after how many others; what is written follows by position. An
illegible block never has a result, and every result of the first pass is needed
before the output is opened, so a crop of such a source never opens it.

`WriteInv` follows the write pass. Copied and compacted blocks are a function of the
source; the repack writer has a state. At group `i` of block `n` (`RepackOK`,
`WriterAt`) its blocks and its buffers together hold, for each kind, the kept elements
of everything before, in order, each with its strings. Every operation of `Repack` is
shown to keep that sum or to add the kept elements of its group to it: `FullBlocks` and
`Remainder` only cut a buffer at multiples of `MaxGroup`. On a sorted source no kind
returns once the next has come, so a block that is not full is the last of its kind
(`Tidy`). `close` empties the buffers, and the sum is then in the blocks. A string
table, renumbered by `compact_string_table` (a string's rank among those used) or
interned by `emit_repack_block` (its first use), gives each element the text it had and
has no other string; that is where `SourceAssumption` is needed: a legible block names
strings its table has, and an element is in one block of its source, which is no
history (`_read_header` refuses those, `pbf_export.pyx:115`).

`CropReadsAsSource` follows from `TheCropIsWritten` with sets alone: the nodes of the crop
that are in the box are the source's, a way reaches the box in one if it does in the
other, its vertices are all there, and a relation has a member in the crop's layer if it
has one in the source's.

*Session.* `SessionInv` ties what the object holds to the moment it was parsed for,
and `changed` to whether that is the moment it was last asked for, at each point of a
call where an exception may leave it. A read that returns has either parsed in the
same call or found both in agreement.

The three properties of histories are then about `parse_osm_data` of one file, box and
time. Each pass keeps places up to the time, each record has its last place (the
greatest, `MaxOfPlaces`) and each tag from one of them, so nothing is newer. An element
that exists at the time has its latest version visible, hence not dropped, and last
among the visible ones; a way that reaches the box has a located node that is visible in
some pass, and its vertices outside are fetched. The proof showed that this needs a node
to exist at that time: without one the read returns nothing, and `NeverLoses` says so
for ways. If elements only gain, a version dropped or skipped by the box has no later
one that is kept, and the last known value of each column is that of the last version.

*Filters.* Between two calls the caller's object has changed in one thing only, that a
bare `True` is now in a list (`FilterKept`, `Alike`). No test of tags tells such dicts
apart, and validation looks only for bare texts, which it leaves as they are in a dict
that it rejects. So each call meets the filter of the script, and what it holds is that
filter validated. `FilterInv` follows it from there: completed with the key of the
layer it selects the layer (`Completed`), in whichever of the shapes dict, bracket and
compiled it now is. `LayerTest` and `CustomTest` then show that the three tests, for ways
in memory, for the rest in memory and behind the shards, all come to `Meets`;
`GateIsSound` shows that an element that meets a filter has a candidate key, so looking
for candidates first loses none. The proof attempt showed that a key with an empty list
is not the same beside a pattern as without one (Findings).

*Writer.* `OutputInv`: the output is opened when every row has been taken, and only a
failing write raises after that. `ClosureInv` has the two halves of `Smallest`. Whatever the closure has
taken, every closed set that has the edited elements contains (`Needed`); and a relation
that was taken is pending, or its ways, nodes and held relations were taken, too
(`Closing`). When nothing is pending, the ways bring in their nodes, and what was taken
is closed.

*Induction over data.* The library's induction theorems take an operator as a parameter
and cannot be instantiated here. The proofs use the least number instead: `LeastNat` in
`DataLemmas` gives every non-empty set of numbers its smallest, so a claim about all
prefixes of a sequence fails at a first one, and from there one unfolding of the
recursive function is a contradiction. `SeqInduction` is that argument once for
sequences: a set that has the empty sequence and with a sequence every one that is one
longer has all of them. Of that kind are the facts of `FlattenSeq` (`FlattenElements`,
`FlattenConcat`, `FlattenAppend`), of `cumsum` and of `Only`.

Only model-checked are:

- liveness (`ReadEnds`, `ExportEnds`, `CropEnds` and those of cache and writer), which
  the provers do not do;
- two properties of the writer, `Rereads` and `NewRowsAreThere`. Both compare what is
  decoded from the bytes of a block with the records that went in. The codec is built from
  `SelectSeq`, `SortSeq` and powers of two, which the provers cannot expand, and from
  folds over bytes, each of which needs its own induction over data.

## Findings

Two runs show a disagreement between the code and what the repository says of it.

- `session_history`: `get_latest_version` takes the last value of each column that is
  not null, so a way keeps a tag its latest version has lost; deleted versions are
  dropped before the latest is chosen; the box is applied to each version. A history
  read can return a state that no version had.
- `filter_minimal`: with `keep_other_tags=False` the workers resolve only the tags that
  were requested, and the filter is tested on what they leave. A condition that
  excludes a value, or a key, is met by the tag's absence, and elements come back that
  the same read with all tags leaves out: `["building"][!"bicycle"]` with the default
  columns or with `tags_as_columns=["building"]`. It takes a key that is not among the
  columns: `["highway"][!"bicycle"]` with the default columns of `highway`, which list
  `bicycle`, is not affected. `KnownColumns` gives each key the columns that
  `config/default_tags.py` gives it, cut to the keys of the instance.

Seen while modelling, without a run of their own:

*Cache and pool.*
- The key is taken from a `stat` before the source is opened by path. A source that is
  replaced during a read and then restored leaves another version's frames under its
  key (`engine/cache.py:49-53`).
- The fallback is also taken when a worker dies halfway, with a warning that says
  decoding could not start (`engine/pool.py:62-70`).

*Readers.*
- Member ids of any kind are compared with way ids, so a relation may get a way it does
  not have (`relations.pyx:39`, `engine/collect.py:20-23`), and a standalone way whose
  id is that of a node member disappears in memory (`data_manager.pyx:150`).
- With `complete_relations` the in-memory reader keeps a relation for ways that were
  completed for another (`pbfreader.pyx:577`), the other reader does not
  (`CHANGELOG.md:27` says that they agree).
- A node that several shards hold is located at another copy with several workers than
  with one (`engine/collect.py:164, 222`).
- On an unsorted file the in-memory reader loses ways (`pbfreader.pyx:497`).
- A history without a version of a way or relation at the time raises `KeyError:
  'visible'` (`pbfreader.pyx:529-533`); times of ways and relations ignore
  `date_granularity`.
- `get_network(nodes=True)` raises when no way has two located nodes, where
  `get_network()` returns nothing.

*Graphs.*
- Beside a parallel street a node of degree four is taken for a point on a street, and
  rows that are on no ring are never walked (`graph_simplify.py:123, 161`; the comment
  at 160 says that only rings remain).
- A network of one ring simplifies to empty frames, as documented, and
  `get_connected_edges` takes `max` of nothing (`graph_connectivity.py:80`).
- `_create_nxgraph` gives each edge the key 0, so of two edges between the same nodes
  the later one stays (`tests/test_graph_exports.py:246` tolerates it).
- Edge frames without a range index lose rows or raise in `to_dict(orient="index")`
  when nothing has reset it; `_create_igraph` skips edges with unknown ends and then
  passes attributes of all.

*Filters.*
- `validate_custom_filter` rewrites `True` to `[True]` in the caller's dict,
  `get_data_by_custom_criteria` extends the caller's `tags_as_columns`
  (`pyrosm.py:1175`).
- A list that mixes `True` with other values, and an excluding filter without keys, are
  treated otherwise for ways in memory than elsewhere.
- In a dict with a pattern an empty list asks for nothing; in a dict without one its key
  selects candidates that no value satisfies (`filter_compiler.py:271`).
- The out-of-core custom read does not check `filter_type`; `get_boundaries` with a
  `custom_filter` ignores `boundary_type`.
- A tag named `nodes`, `version`, `timestamp` or `visible` overwrites the field of the
  record (`tagparser.pyx:34-53`).

*Crop and writer.*
- A crop onto its own source leaves a header only; an output made by `mkstemp` stays
  behind empty when the preflight rejects the source; a repack that is rejected leaves
  a partial output.
- A crop with `complete_relations=True` may read back with other rows than its source,
  because the members it adds reach into the box of the read.
- In a block with several dense groups, an earlier one without tags shifts the tags of
  the later (`_merge_dense`); packed fields in several runs, or unpacked, are not joined.
- A tag that has the name of a structural column (`length`) is lost from written ways.
- An edit replaces all tags of an element, and of several rows of one way the last one
  counts; a row of an element that is not held is written as a second one.
- With `subset_only` a new element may get the id of a source element that is not
  written; a member of a kept relation that has a negative id and is absent may come to
  mean a new way; two new points at one place become one node with the tags of the last.

The properties of the runs state their conditions on such inputs by name (`NodesFirst`,
`MembersApart`, `CompletedAlone`, `Apart`) or leave the input out, as said with the
module.

## Not modelled

- `exclude_relations`, constantly false in the code, and groups that mix kinds, which
  the format forbids.
- Geometric operations, which belong to shapely: rings and multipolygons, repairs,
  lengths. Their inputs are modelled.
- The table from ids to coordinates and the arrays of the in-memory reader; the blob
  header; protobuf's generated code.
- The union of the schemas of streamed parts (`engine/geoparquet.py:122`).
- Constructors of pandana and pandarm, which pass columns on; street counts, which
  networkx computes; `track_merged`.
- Geometries other than points, lines and polygons in the writer; a network of nodes
  without ways, which only warns.
- A worker of a crop that dies while it holds the lock of the pool's queue, which stops
  the other workers, too; `CropEnds` excepts every crop in which a worker died.
- Downloads and configuration: tables, HTTP, one file per download.

## Plan

The order in which the modules were written follows what the system promises most
visibly: cache and pool, the two readers against one abstract layer, graphs, then the
crop, the session, filters and the writer. What is left:

1. `Download`, beside `ResultCache`: a file that exists is taken for complete
   (`utils/download.py:89`), two processes that download the same file.
2. `ParquetStream`, below `LayerCollect`: columns that a part lacks or types otherwise.
3. A theorem that decoding a block gives back what filled it, which the two properties of
   the writer without one need.
4. `_gather_node_records` and `_assemble_network`, so that the network read of the
   out-of-core engine goes from blocks to streets in one composition.
