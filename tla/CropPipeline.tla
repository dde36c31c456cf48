---------------------------- MODULE CropPipeline ----------------------------
(***************************************************************************)
(* pbf_export.crop_pbf: a preflight of the header, three passes that select *)
(* nodes, ways and relations, and a pass that writes.  A pass needs all     *)
(* results of the one before.  With workers the blocks of a pass are the    *)
(* tasks of one multiprocessing.Pool and the sets reach the workers as      *)
(* files, which each worker loads once.                                     *)
(***************************************************************************)
EXTENDS Repack

CONSTANTS
    MaxWorkers,  \* bound of crop.workers
    MaxDeaths    \* bound: workers that die in one crop

ASSUME PipelineAssumption ==
    /\ MaxWorkers \in Nat /\ MaxDeaths \in Nat
    /\ \A c \in Crops : c.workers <= MaxWorkers

VARIABLES
    phase,     \* where crop_pbf is
    waiting,   \* blocks of the pass that nobody has begun
    busy,      \* [worker -> block it works on, or Idle]
    result,    \* [block -> what the pass got from it, or NoResult]
    lost,      \* blocks whose worker died: nobody will do them
    files,     \* [set name -> ids, or NoSet]: the .npy files in tmpdir
    cache,     \* [worker -> [set name -> ids, or NoSet]]: its _W_CACHE
    selected,  \* [set name -> ids]: the arrays of the calling process
    writer,    \* the repack writer
    group,     \* the group of its block that it is at
    output,    \* what has been written, block by block
    outfile,   \* the file at output_path: "before", "open", "partial", "complete"
    outcome    \* "running", "done", "error"

control == <<phase, waiting, busy, result, lost>>
sets == <<files, cache, selected>>
target == <<writer, group, output, outfile>>
vars == <<crop, control, sets, target, outcome>>

Worker == 1..MaxWorkers
Idle == 0
SetName == {"nodes_in_bbox", "kept_nodes", "kept_ways", "kept_rel"}
NoSet == [ids |-> {}, there |-> FALSE]
IdSet(ids) == [ids |-> ids, there |-> TRUE]
NoSets == [name \in SetName |-> NoSet]
NoResult == [st |-> "none"]
Broken == [st |-> "error"]
Found(ids) == [st |-> "ids", ids |-> ids]
Built(block) == [st |-> "block", block |-> block]
Passes == {"nodes", "ways", "relations", "write"}

\* A pool does not pay off on few blocks.
Parallel == crop.workers > 1 /\ Len(crop.source) >= 2 * crop.workers

CropInit ==
    /\ crop \in Crops
    /\ phase = "preflight"
    /\ waiting = {} /\ lost = {}
    /\ busy = [w \in Worker |-> Idle]
    /\ result = [b \in Blocks |-> NoResult]
    /\ files = NoSets
    /\ cache = [w \in Worker |-> NoSets]
    /\ selected = [name \in SetName |-> {}]
    /\ writer = NewWriter /\ group = 1 /\ output = <<>> /\ outfile = "before"
    /\ outcome = "running"

\* A file opened for writing is empty when it is read again.
Begin(pass) ==
    /\ phase' = pass
    /\ waiting' = IF \/ pass = "write" /\ crop.onto_source
                     \/ pass = "relations" /\ ~crop.keep_relations THEN {} ELSE Blocks
    /\ result' = [b \in Blocks |-> NoResult]

\* The finally block of the parallel path: close, join, remove tmpdir.
Fail ==
    /\ phase' = IF Parallel THEN "join" ELSE "end"
    /\ outcome' = "error"

-----------------------------------------------------------------------------
\* Mutant of Preflight: the output is opened at the start.
PreflightOpens ==
    /\ phase = "preflight"
    /\ IF crop.supported
       THEN Begin("nodes") /\ outfile' = "open" /\ UNCHANGED outcome
       ELSE phase' = "end" /\ outcome' = "error" /\ UNCHANGED <<waiting, result, outfile>>
    /\ UNCHANGED <<crop, busy, lost, sets, writer, group, output>>

\* read_header: asks nothing of the blocks.
Preflight ==
    /\ phase = "preflight"
    /\ IF crop.supported
       THEN Begin("nodes") /\ UNCHANGED outcome
       ELSE phase' = "end" /\ outcome' = "error" /\ UNCHANGED <<waiting, result>>
    /\ UNCHANGED <<crop, busy, lost, sets, target>>

\* The sets that a pass looks elements up in.
Needs(pass) ==
    CASE pass = "ways" -> {"nodes_in_bbox"}
      [] pass = "relations" -> {"kept_nodes", "kept_ways"}
      [] pass \in {"write", "join"} -> {"kept_nodes", "kept_ways", "kept_rel"}
      [] OTHER -> {}

KeptOf(ids) == Elements(ids["kept_nodes"], ids["kept_ways"], ids["kept_rel"])

\* What a pass does with one block, given the sets it has.
ResultOf(b, ids) ==
    LET block == crop.source[b]
    IN  IF ~block.legible THEN Broken
        ELSE CASE phase = "nodes" -> Found(stage1_nodes_in_bbox(block))
               [] phase = "ways" -> Found(stage2_ways(block, ids["nodes_in_bbox"]))
               [] phase = "relations" ->
                    Found(stage3_relations(block, ids["kept_nodes"], ids["kept_ways"]))
               [] OTHER -> Built(build_output_block(block, KeptOf(ids)))

First(b) == b \in waiting /\ \A c \in waiting : b <= c

-----------------------------------------------------------------------------
(***************************************************************************)
(* Sequentially, the calling process streams the file in every pass.        *)
(***************************************************************************)
StreamBlock ==
    /\ ~Parallel /\ phase \in Passes
    /\ ~(phase = "write" /\ crop.repack)
    /\ \A b \in Blocks : result[b] # Broken
    /\ phase = "write" => \A b \in Blocks : result[b] # NoResult => b <= Len(output)
    /\ \E b \in waiting :
         /\ First(b)
         /\ waiting' = waiting \ {b}
         /\ result' = [result EXCEPT ![b] = ResultOf(b, selected)]
    /\ UNCHANGED <<crop, phase, busy, lost, sets, target, outcome>>

-----------------------------------------------------------------------------
(***************************************************************************)
(* The pool.  Its queue is served in order; a worker that dies is replaced  *)
(* by a new one, with an empty cache, and its task is never done.           *)
(***************************************************************************)
\* Mutant of TakeTask: the workers stop as soon as the pool is closed.
TakeTaskWhileOpen(w) ==
    /\ Parallel /\ phase \in Passes /\ w <= crop.workers
    /\ ~(phase = "write" /\ crop.repack)
    /\ busy[w] = Idle
    /\ \E b \in waiting :
         /\ First(b)
         /\ busy' = [busy EXCEPT ![w] = b]
         /\ waiting' = waiting \ {b}
    /\ UNCHANGED <<crop, phase, result, lost, sets, target, outcome>>

TakeTask(w) ==
    /\ Parallel /\ phase \in Passes \cup {"join"} /\ w <= crop.workers
    /\ ~(phase = "write" /\ crop.repack)
    /\ busy[w] = Idle
    /\ \E b \in waiting :
         /\ First(b)
         /\ busy' = [busy EXCEPT ![w] = b]
         /\ waiting' = waiting \ {b}
    /\ UNCHANGED <<crop, phase, result, lost, sets, target, outcome>>

\* Mutant of w_get_set: one slot for every set, whatever its name.
AnySet(w, name) ==
    LET held == {n \in SetName : cache[w][n].there}
    IN  IF held # {} THEN cache[w][CHOOSE n \in held : TRUE] ELSE files[name]

\* Loaded from its file on first use only.
w_get_set(w, name) == IF cache[w][name].there THEN cache[w][name] ELSE files[name]

FinishTask(w) ==
    LET b == busy[w]
        loaded == [name \in Needs(phase) |-> w_get_set(w, name)]
        ids == [name \in SetName |-> IF name \in Needs(phase) THEN loaded[name].ids ELSE {}]
        found == \A name \in Needs(phase) : loaded[name].there
    IN  /\ b # Idle
        /\ busy' = [busy EXCEPT ![w] = Idle]
        /\ result' = [result EXCEPT ![b] = IF found THEN ResultOf(b, ids) ELSE Broken]
        /\ cache' = [cache EXCEPT ![w] = [name \in SetName |->
                        IF name \in Needs(phase) THEN loaded[name] ELSE cache[w][name]]]
        /\ UNCHANGED <<crop, phase, waiting, lost, files, selected, target, outcome>>

WorkerDies(w) ==
    /\ Cardinality(lost) < MaxDeaths
    /\ busy[w] # Idle
    /\ lost' = lost \cup {busy[w]}
    /\ busy' = [busy EXCEPT ![w] = Idle]
    /\ cache' = [cache EXCEPT ![w] = NoSets]
    /\ UNCHANGED <<crop, phase, waiting, result, files, selected, target, outcome>>

-----------------------------------------------------------------------------
(***************************************************************************)
(* The calling process between the passes.                                 *)
(***************************************************************************)
AllDone == \A b \in Blocks : result[b].st = "ids"
PassResult == UNION {result[b].ids : b \in Blocks}

\* Results of pool.map, or the first exception once all tasks are done.
PassFails ==
    /\ phase \in Passes
    /\ \E b \in Blocks : result[b] = Broken
    /\ Parallel => \A b \in Blocks : result[b] # NoResult
    /\ Fail
    /\ outfile' = IF outfile = "open" THEN "partial" ELSE outfile
    /\ UNCHANGED <<crop, waiting, busy, result, lost, sets, writer, group, output>>

\* The arrays of a pass, saved for the workers if there are any.
Select(found) ==
    /\ selected' = [name \in SetName |-> IF name \in DOMAIN found THEN found[name]
                                                                  ELSE selected[name]]
    /\ files' = [name \in SetName |-> IF Parallel /\ name \in DOMAIN found
                                          THEN IdSet(found[name]) ELSE files[name]]

NodesSelected ==
    /\ phase = "nodes" /\ AllDone
    /\ Select([name \in {"nodes_in_bbox"} |-> PassResult])
    /\ Begin("ways")
    /\ UNCHANGED <<crop, busy, lost, cache, target, outcome>>

\* Mutant of WaysSelected: the nodes of the kept ways are forgotten.
WaysAlone ==
    /\ phase = "ways" /\ AllDone
    /\ Select([name \in {"kept_nodes", "kept_ways"} |->
                 IF name = "kept_ways" THEN PassResult ELSE selected["nodes_in_bbox"]])
    /\ Begin("relations")
    /\ UNCHANGED <<crop, busy, lost, cache, target, outcome>>

\* Ways are complete: all their nodes are kept with those in the box.
WaysSelected ==
    /\ phase = "ways" /\ AllDone
    /\ Select([name \in {"kept_nodes", "kept_ways"} |->
                 IF name = "kept_ways" THEN PassResult
                 ELSE selected["nodes_in_bbox"] \cup RefsOf(PassResult)])
    /\ Begin("relations")
    /\ UNCHANGED <<crop, busy, lost, cache, target, outcome>>

\* Without keep_relations the pass over the relations is not made.  The output
\* is opened, and what was there is gone, before the source is read again.
RelationsSelected ==
    /\ phase = "relations"
    /\ crop.keep_relations => AllDone
    /\ Select([name \in {"kept_rel"} |-> IF crop.keep_relations THEN PassResult ELSE {}])
    /\ Begin("write")
    /\ outfile' = "open"
    /\ UNCHANGED <<crop, busy, lost, cache, writer, group, output, outcome>>

\* Results come in any order and are written in the order of the source.
WriteNext ==
    /\ phase = "write" /\ ~crop.repack
    /\ \E b \in Blocks :
         /\ b = Len(output) + 1
         /\ result[b].st = "block"
         /\ output' = Append(output, result[b].block)
    /\ UNCHANGED <<crop, control, sets, writer, group, outfile, outcome>>

Finish ==
    /\ phase' = IF Parallel THEN "join" ELSE "end"
    /\ outcome' = "done"
    /\ outfile' = "complete"

WriteEnds ==
    /\ phase = "write" /\ ~crop.repack
    /\ Len(output) = Len(crop.source) \/ crop.onto_source
    /\ Finish
    /\ UNCHANGED <<crop, waiting, busy, result, lost, sets, writer, group, output>>

\* The output stays as far as it got; the workers have nothing queued.
Abandon ==
    /\ Fail
    /\ outfile' = "partial"
    /\ waiting' = {}
    /\ UNCHANGED <<crop, busy, result, lost, sets, output>>

\* Blocks are repacked by the calling process, workers or not, group by group.
RepackNext ==
    /\ phase = "write" /\ crop.repack
    /\ \E b \in waiting :
         LET block == crop.source[b]
         IN  /\ First(b)
             /\ block.standard
             /\ group \in DOMAIN block.groups
             /\ writer' = repack_group(writer, block.groups[group], KeptOf(selected))
             /\ group' = group + 1
             /\ IF writer'.rejected THEN Abandon
                ELSE UNCHANGED <<crop, control, sets, output, outfile, outcome>>

RepackBlockEnds ==
    /\ phase = "write" /\ crop.repack
    /\ \E b \in waiting :
         /\ First(b)
         /\ crop.source[b].standard /\ group \notin DOMAIN crop.source[b].groups
         /\ waiting' = waiting \ {b}
    /\ group' = 1
    /\ UNCHANGED <<crop, phase, busy, result, lost, sets, writer, output, outfile, outcome>>

\* The blocks made have a grid of their own.
RejectGrid ==
    /\ phase = "write" /\ crop.repack
    /\ \E b \in waiting : First(b) /\ ~crop.source[b].standard
    /\ writer' = Reject(writer)
    /\ Abandon
    /\ UNCHANGED group

RepackEnds ==
    /\ phase = "write" /\ crop.repack
    /\ waiting = {}
    /\ writer' = close(writer)
    /\ UNCHANGED group
    /\ IF writer'.rejected THEN Abandon
       ELSE /\ Finish
            /\ output' = [b \in DOMAIN writer'.out |-> emit_repack_block(writer'.out[b])]
            /\ UNCHANGED <<crop, waiting, busy, result, lost, sets>>

\* The disk is full, say.
WriteFails ==
    /\ phase = "write"
    /\ Fail
    /\ outfile' = "partial"
    /\ waiting' = IF crop.repack THEN {} ELSE waiting
    /\ UNCHANGED <<crop, busy, result, lost, sets, writer, group, output>>

\* close lets the workers do what is queued, join waits for them.
Join ==
    /\ phase = "join"
    /\ waiting = {} /\ lost = {} /\ \A w \in Worker : busy[w] = Idle
    /\ phase' = "end"
    /\ files' = NoSets
    /\ UNCHANGED <<crop, waiting, busy, result, lost, cache, selected, target, outcome>>

Progress ==
    \/ Preflight \/ StreamBlock
    \/ \E w \in Worker : TakeTask(w) \/ FinishTask(w)
    \/ PassFails \/ NodesSelected \/ WaysSelected \/ RelationsSelected
    \/ WriteNext \/ WriteEnds \/ RepackNext \/ RepackBlockEnds \/ RejectGrid \/ RepackEnds \/ Join
CropNext == Progress \/ WriteFails \/ \E w \in Worker : WorkerDies(w)

CropSpec == CropInit /\ [][CropNext]_vars /\ WF_vars(Progress)

-----------------------------------------------------------------------------
\* Whatever the workers did and in whatever order they finished, died and were
\* replaced: what is written of a plain crop is what the crop of the source is,
\* block by block, so that the output of workers and of the sequential path is the
\* same (pyrosm.py:1244, "byte-identical"; pbf_export.pyx:619-629).
WritesInOrder ==
    ~crop.repack =>
        \A b \in DOMAIN output : output[b] = build_output_block(crop.source[b], TheCrop)

\* A source that cannot be cropped does not cost the file that the output would
\* replace: all of it is read before that is opened (pbf_export.pyx:514, 561, 826).
SparesTheOutput ==
    ~crop.supported \/ (\E b \in Blocks : ~crop.source[b].legible) =>
        outfile = "before" /\ output = <<>>

-----------------------------------------------------------------------------
IdsOfKind(groups, kind) ==
    FlattenSeq([i \in DOMAIN groups |-> IF groups[i].kind = kind THEN groups[i].ids ELSE <<>>])
ElementsOf(blocks, kind) == FlattenSeq([b \in DOMAIN blocks |-> IdsOfKind(blocks[b].groups, kind)])
TextIn(block, e) == [k \in DOMAIN block.words[e] |-> block.strings[block.words[e][k]]]

\* Nodes, then ways, then relations.
Sorted ==
    LET rank == [node |-> 1, way |-> 2, relation |-> 3]
        kinds == FlattenSeq([b \in Blocks |-> [i \in DOMAIN crop.source[b].groups |->
                                                 rank[crop.source[b].groups[i].kind]]])
    IN  \A i, j \in DOMAIN kinds : i <= j => kinds[i] <= kinds[j]

\* A crop that ends well has written the elements of the crop, each once and in the
\* order of the source, with the strings they had, whether it copied, compacted or
\* repacked the blocks; compact and repack leave no string that nothing uses, and
\* repack no block of a sorted source unfilled but the last of each kind
\* (pyrosm.py:1252-1260, "The written OSM data is identical").
WritesTheCrop ==
    outcome = "done" /\ ~crop.onto_source =>
        /\ \A kind \in Kind :
             ElementsOf(output, kind) = KeptIds(kind, ElementsOf(crop.source, kind), TheCrop)
        /\ \A b \in DOMAIN output : \A e \in ElementsIn(output[b].groups) :
             TextIn(output[b], e) = Text(e)
        /\ crop.compact \/ crop.repack =>
             \A b \in DOMAIN output : output[b].groups # <<>> =>
                 UsedStrings(output[b]) = DOMAIN output[b].strings
        /\ crop.repack /\ Sorted =>
             \A b, c \in DOMAIN output :
                 b < c /\ output[b].groups[1].kind = output[c].groups[1].kind =>
                     Len(output[b].groups[1].ids) = MaxGroup

\* What a crop may fail for: a source that cannot be cropped, an output that cannot be
\* written though every block was read and made, and, repacking, what the blocks it makes cannot express
\* (pbf_export.pyx:1304, 1411): another grid, or kept nodes that differ in their
\* metadata fields.
HasReason ==
    /\ \/ ~crop.supported
       \/ \E b \in Blocks : ~crop.source[b].legible
       \/ outfile = "partial" /\ \A b \in Blocks : result[b] # Broken
    /\ writer.rejected =>
         \/ \E b \in Blocks : ~crop.source[b].standard
         \/ \E m, n \in CropNodes \cap SourceIds("node") : crop.schema[m] # crop.schema[n]

\* Every crop ends, well or with an error that it has a reason for: no worker misses
\* a set of ids, whenever it was started (pbf_export.pyx:691, 787-835).  But once a
\* worker dies the crop need not end: the pool replaces the worker and nobody does
\* its task again (pbf_export.pyx:797).
CropEnds == <>(lost # {} \/ (phase = "end" /\ (outcome = "error" => HasReason)))
=============================================================================
