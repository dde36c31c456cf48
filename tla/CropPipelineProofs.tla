------------------------- MODULE CropPipelineProofs -------------------------
(***************************************************************************)
(* For any source, number of workers and number of deaths: a crop writes   *)
(* what the crop of the source is, copied, compacted or repacked; a read of *)
(* it is a read of the source; and a source that cannot be cropped costs no *)
(* file.                                                                   *)
(***************************************************************************)
EXTENDS CropReread, DataLemmas, TLAPS

-----------------------------------------------------------------------------
(***************************************************************************)
(* The invariant.  A set of ids, once there, is the one that the crop is   *)
(* defined by, wherever it is kept; a result is what its pass makes of its *)
(* block with those sets.                                                  *)
(***************************************************************************)
Right ==
    [nodes_in_bbox |-> NodesInBox, kept_nodes |-> CropNodes, kept_ways |-> CropWays,
     kept_rel |-> CropRelations]

ShapeOK ==
    /\ result = [b \in Blocks |-> result[b]]
    /\ busy = [w \in Worker |-> busy[w]]
    /\ cache = [w \in Worker |-> cache[w]]
    /\ \A w \in Worker : cache[w] = [name \in SetName |-> cache[w][name]]

\* Nobody works outside the passes.
IdleOK == ~Parallel \/ phase \in {"preflight", "end"} => \A w \in Worker : busy[w] = Idle

SetsOK ==
    /\ \A name \in SetName : files[name].there => files[name].ids = Right[name]
    /\ \A w \in Worker, name \in SetName : cache[w][name].there => cache[w][name].ids = Right[name]

SelectedOK ==
    /\ phase \in {"preflight", "nodes", "ways", "relations", "write", "join", "end"}
    /\ phase \in {"ways", "relations", "write"} => selected["nodes_in_bbox"] = NodesInBox
    /\ phase \in {"relations", "write"} =>
         selected["kept_nodes"] = CropNodes /\ selected["kept_ways"] = CropWays
    /\ phase = "write" => selected["kept_rel"] = CropRelations

BlockOf(b) == build_output_block(crop.source[b], TheCrop)
Wanted(b, r) ==
    /\ r.st = "ids" =>
         /\ phase = "nodes" => r.ids = stage1_nodes_in_bbox(crop.source[b])
         /\ phase = "ways" => r.ids = stage2_ways(crop.source[b], NodesInBox)
         /\ phase = "relations" => r.ids = stage3_relations(crop.source[b], CropNodes, CropWays)
    /\ r.st = "block" => r.block = BlockOf(b)
ResultOK == \A b \in Blocks : Wanted(b, result[b])

OutputOK ==
    ~crop.repack => /\ output \in Seq({BlockOf(b) : b \in Blocks})
                    /\ \A b \in DOMAIN output : output[b] = BlockOf(b)

\* A block that cannot be read has no result, which keeps a crop in the first pass.
LegibleOK == \A b \in Blocks : ~crop.source[b].legible => result[b] \in {NoResult, Broken}
SpareOK ==
    /\ (\E b \in Blocks : ~crop.source[b].legible) =>
         phase \in {"preflight", "nodes", "join", "end"}
    /\ ~crop.supported => phase \in {"preflight", "end"}
    /\ SparesTheOutput

CropInv ==
    ShapeOK /\ IdleOK /\ SetsOK /\ SelectedOK /\ ResultOK /\ OutputOK /\ LegibleOK /\ SpareOK

-----------------------------------------------------------------------------
(***************************************************************************)
(* What a pass adds up to.                                                 *)
(***************************************************************************)
LEMMA NodesAddUp == UNION {stage1_nodes_in_bbox(crop.source[b]) : b \in Blocks} = NodesInBox
  BY DEF stage1_nodes_in_bbox, NodesInBox, SourceIds

LEMMA WaysAddUp == UNION {stage2_ways(crop.source[b], NodesInBox) : b \in Blocks} = CropWays
  BY DEF stage2_ways, CropWays, SourceIds

LEMMA RelationsAddUp ==
    ASSUME crop.keep_relations
    PROVE  UNION {stage3_relations(crop.source[b], CropNodes, CropWays) : b \in Blocks}
             = CropRelations
  BY DEF stage3_relations, CropRelations, SourceIds

LEMMA NoRelations == ASSUME ~crop.keep_relations PROVE CropRelations = {}
  BY DEF CropRelations

\* A crop does not change under way.
LEMMA SameCrop ==
    ASSUME crop' = crop
    PROVE  /\ Blocks' = Blocks /\ Parallel' = Parallel
           /\ NodesInBox' = NodesInBox /\ CropWays' = CropWays /\ CropNodes' = CropNodes
           /\ CropRelations' = CropRelations /\ TheCrop' = TheCrop /\ Right' = Right
           /\ \A b : BlockOf(b)' = BlockOf(b)
           /\ \A b \in Blocks :
                /\ stage1_nodes_in_bbox(crop.source[b])' = stage1_nodes_in_bbox(crop.source[b])
                /\ stage2_ways(crop.source[b], NodesInBox)' = stage2_ways(crop.source[b], NodesInBox)
                /\ stage3_relations(crop.source[b], CropNodes, CropWays)'
                     = stage3_relations(crop.source[b], CropNodes, CropWays)
  <1>1. Blocks' = Blocks /\ Parallel' = Parallel
    BY DEF Blocks, Parallel
  <1>2. \A kind : SourceIds(kind)' = SourceIds(kind)
    BY <1>1 DEF SourceIds
  <1>3. NodesInBox' = NodesInBox
    BY <1>2 DEF NodesInBox
  <1>4. CropWays' = CropWays
    BY <1>2, <1>3 DEF CropWays
  <1>5. CropNodes' = CropNodes
    BY <1>3, <1>4 DEF CropNodes, RefsOf
  <1>6. CropRelations' = CropRelations
    BY <1>2, <1>4, <1>5 DEF CropRelations
  <1>7. TheCrop' = TheCrop /\ Right' = Right
    BY <1>3, <1>4, <1>5, <1>6 DEF TheCrop, Right
  <1>8. \A b : BlockOf(b)' = BlockOf(b)
    BY <1>7 DEF BlockOf, build_output_block
  <1>9. \A b \in Blocks :
          /\ stage1_nodes_in_bbox(crop.source[b])' = stage1_nodes_in_bbox(crop.source[b])
          /\ stage2_ways(crop.source[b], NodesInBox)' = stage2_ways(crop.source[b], NodesInBox)
          /\ stage3_relations(crop.source[b], CropNodes, CropWays)'
               = stage3_relations(crop.source[b], CropNodes, CropWays)
    BY <1>3, <1>4, <1>5 DEF stage1_nodes_in_bbox, stage2_ways, stage3_relations
  <1> QED
    BY <1>1, <1>3, <1>4, <1>5, <1>6, <1>7, <1>8, <1>9

-----------------------------------------------------------------------------
(***************************************************************************)
(* What leaves a part of the invariant alone.                              *)
(***************************************************************************)
LEMMA KeepShape ==
    ASSUME ShapeOK, UNCHANGED <<crop, result, busy, cache>>
    PROVE  ShapeOK'
  BY SameCrop DEF ShapeOK

LEMMA KeepSets ==
    ASSUME SetsOK, UNCHANGED <<crop, files, cache>>
    PROVE  SetsOK'
  BY SameCrop DEF SetsOK

LEMMA KeepSelected ==
    ASSUME SelectedOK, UNCHANGED <<crop, selected>>,
           phase' = phase \/ phase' \in {"nodes", "join", "end"}
    PROVE  SelectedOK'
  BY SameCrop DEF SelectedOK

LEMMA KeepResults ==
    ASSUME ResultOK, LegibleOK, UNCHANGED <<crop, result>>,
           phase' = phase \/ phase' \in {"join", "end"}
    PROVE  ResultOK' /\ LegibleOK'
  <1>1. LegibleOK'
    BY SameCrop DEF LegibleOK
  <1>2. \A b \in Blocks : Wanted(b, result[b])'
    BY SameCrop DEF ResultOK, Wanted
  <1>3. ResultOK'
    BY SameCrop, <1>2 DEF ResultOK
  <1> QED
    BY <1>1, <1>3

LEMMA KeepOutput ==
    ASSUME OutputOK, UNCHANGED <<crop, output>>
    PROVE  OutputOK'
  BY SameCrop DEF OutputOK

LEMMA KeepSpare ==
    ASSUME SpareOK, UNCHANGED <<crop, output, outfile>>,
           phase' = phase \/ phase' = "end" \/ (phase' = "join" /\ crop.supported)
    PROVE  SpareOK'
  BY SameCrop DEF SpareOK, SparesTheOutput

\* A pass begins without results.
LEMMA BeginPass ==
    ASSUME ShapeOK, NEW pass, Begin(pass), UNCHANGED <<crop, busy, cache>>
    PROVE  ShapeOK' /\ ResultOK' /\ LegibleOK'
  <1>1. Blocks' = Blocks /\ \A b \in Blocks : result'[b] = NoResult
    BY SameCrop DEF Begin
  <1>2. ShapeOK'
    BY <1>1 DEF ShapeOK, Begin
  <1>3. ResultOK' /\ LegibleOK'
    BY <1>1 DEF ResultOK, Wanted, LegibleOK, NoResult
  <1> QED
    BY <1>2, <1>3

\* What a pass gets from a block is what the crop wants of it.
LEMMA ResultIsRight ==
    ASSUME NEW b \in Blocks, NEW ids, phase \in Passes \cup {"join"},
           \A name \in Needs(phase) : ids[name] = Right[name]
    PROVE  /\ ~crop.source[b].legible => ResultOf(b, ids) = Broken
           /\ Wanted(b, ResultOf(b, ids))
  <1>1. phase = "ways" => ids["nodes_in_bbox"] = NodesInBox
    BY DEF Needs, Right
  <1>2. phase = "relations" => ids["kept_nodes"] = CropNodes /\ ids["kept_ways"] = CropWays
    BY DEF Needs, Right
  <1>3. ASSUME phase \in {"write", "join"} PROVE KeptOf(ids) = TheCrop
    <2>1. /\ ids["kept_nodes"] = CropNodes /\ ids["kept_ways"] = CropWays
          /\ ids["kept_rel"] = CropRelations
      BY <1>3 DEF Needs, Right
    <2> QED
      BY <2>1 DEF KeptOf, TheCrop
  <1> QED
    BY <1>1, <1>2, <1>3 DEF ResultOf, Broken, Found, Built, BlockOf, Wanted, Passes

\* The result of one block changes, to the one it should have.
LEMMA OneResult ==
    ASSUME ResultOK, LegibleOK, ShapeOK, UNCHANGED <<crop, phase>>,
           NEW b, NEW r, result' = [result EXCEPT ![b] = r],
           b \in Blocks =>
               /\ ~crop.source[b].legible => r = Broken
               /\ Wanted(b, r)
    PROVE  ResultOK' /\ LegibleOK' /\ result' = [c \in Blocks' |-> result'[c]]
  <1>1. Blocks' = Blocks /\ DOMAIN result = Blocks
    BY SameCrop DEF ShapeOK
  <1>2. \A c \in Blocks : result'[c] = IF c = b THEN r ELSE result[c]
    BY <1>1
  <1>3. result' = [c \in Blocks' |-> result'[c]]
    BY <1>1
  <1>4. LegibleOK'
    BY <1>1, <1>2 DEF LegibleOK
  <1>5. ASSUME NEW c \in Blocks
        PROVE  Wanted(c, result[c])'
    BY <1>2, <1>5, SameCrop DEF ResultOK, Wanted
  <1> QED
    BY <1>1, <1>3, <1>4, <1>5 DEF ResultOK

-----------------------------------------------------------------------------
LEMMA InitCrop == CropInit => CropInv
  <1> SUFFICES ASSUME CropInit PROVE CropInv
    OBVIOUS
  <1>1. ShapeOK
    BY DEF CropInit, ShapeOK, NoSets
  <1>2. IdleOK
    BY DEF CropInit, IdleOK
  <1>3. SetsOK
    BY DEF CropInit, SetsOK, NoSets, NoSet
  <1>4. SelectedOK
    BY DEF CropInit, SelectedOK
  <1>5. ResultOK /\ LegibleOK
    BY DEF CropInit, ResultOK, Wanted, LegibleOK, NoResult
  <1>6. OutputOK
    BY DEF CropInit, OutputOK
  <1>7. SpareOK
    BY DEF CropInit, SpareOK, SparesTheOutput
  <1> QED
    BY <1>1, <1>2, <1>3, <1>4, <1>5, <1>6, <1>7 DEF CropInv

-----------------------------------------------------------------------------
(***************************************************************************)
(* Between the passes.                                                     *)
(***************************************************************************)
LEMMA StepPreflight == CropInv /\ Preflight => CropInv'
  <1> SUFFICES ASSUME CropInv, Preflight PROVE CropInv'
    OBVIOUS
  <1>1. SetsOK' /\ OutputOK' /\ SelectedOK'
    BY KeepSets, KeepOutput, KeepSelected DEF CropInv, Preflight, sets, target, Begin
  <1>2. IdleOK'
    BY DEF CropInv, IdleOK, Preflight
  <1>3. CASE crop.supported
    <2>1. Begin("nodes") /\ phase' = "nodes"
      BY <1>3 DEF Preflight, Begin
    <2>2. ShapeOK' /\ ResultOK' /\ LegibleOK'
      BY <2>1, BeginPass DEF CropInv, Preflight, sets
    <2>3. SpareOK'
      BY <1>3, <2>1, SameCrop DEF CropInv, SpareOK, SparesTheOutput, Preflight, target
    <2> QED
      BY <1>1, <1>2, <2>2, <2>3 DEF CropInv
  <1>4. CASE ~crop.supported
    <2>1. ShapeOK' /\ ResultOK' /\ LegibleOK' /\ SpareOK'
      BY <1>4, KeepShape, KeepResults, KeepSpare DEF CropInv, Preflight, sets, target
    <2> QED
      BY <1>1, <1>2, <2>1 DEF CropInv
  <1> QED
    BY <1>3, <1>4

\* The sets that a pass leaves are saved as they are.
LEMMA SelectSets ==
    ASSUME SetsOK, UNCHANGED <<crop, cache>>, NEW found, Select(found),
           \A name \in DOMAIN found : found[name] = Right[name]
    PROVE  SetsOK'
  BY SameCrop DEF SetsOK, Select, IdSet

\* A pass that got all its results has read every block.
LEMMA AllLegible ==
    ASSUME LegibleOK, AllDone
    PROVE  \A b \in Blocks : crop.source[b].legible
  BY DEF LegibleOK, AllDone, NoResult, Broken

LEMMA StepNodesSelected == CropInv /\ NodesSelected => CropInv'
  <1> SUFFICES ASSUME CropInv, NodesSelected PROVE CropInv'
    OBVIOUS
  <1>1. \A b \in Blocks : result[b].ids = stage1_nodes_in_bbox(crop.source[b])
    BY DEF CropInv, ResultOK, Wanted, NodesSelected, AllDone
  <1>2. PassResult = NodesInBox
    BY <1>1, NodesAddUp DEF PassResult
  <1>3. selected'["nodes_in_bbox"] = NodesInBox /\ phase' = "ways"
    BY <1>2 DEF NodesSelected, Select, Begin, SetName
  <1>4. SetsOK'
    BY <1>2, SelectSets DEF CropInv, NodesSelected, Right
  <1>5. SelectedOK'
    BY <1>3, SameCrop DEF SelectedOK, NodesSelected
  <1>6. ShapeOK' /\ ResultOK' /\ LegibleOK'
    BY BeginPass DEF CropInv, NodesSelected
  <1>7. IdleOK' /\ OutputOK'
    BY <1>3, SameCrop, KeepOutput DEF CropInv, IdleOK, NodesSelected, target
  <1>8. SpareOK'
    BY AllLegible, SameCrop DEF CropInv, SpareOK, SparesTheOutput, NodesSelected, target
  <1> QED
    BY <1>4, <1>5, <1>6, <1>7, <1>8 DEF CropInv

LEMMA StepWaysSelected == CropInv /\ WaysSelected => CropInv'
  <1> SUFFICES ASSUME CropInv, WaysSelected PROVE CropInv'
    OBVIOUS
  <1>1. \A b \in Blocks : result[b].ids = stage2_ways(crop.source[b], NodesInBox)
    BY DEF CropInv, ResultOK, Wanted, WaysSelected, AllDone
  <1>2. PassResult = CropWays /\ selected["nodes_in_bbox"] = NodesInBox
    BY <1>1, WaysAddUp DEF PassResult, CropInv, SelectedOK, WaysSelected
  <1>3. /\ selected'["kept_ways"] = CropWays /\ selected'["kept_nodes"] = CropNodes
        /\ selected'["nodes_in_bbox"] = NodesInBox
        /\ phase' = "relations"
    BY <1>2 DEF WaysSelected, Select, Begin, SetName, CropNodes
  <1>4. SetsOK'
    BY <1>2, SelectSets DEF CropInv, WaysSelected, Right, CropNodes
  <1>5. SelectedOK'
    BY <1>3, SameCrop DEF SelectedOK, WaysSelected
  <1>6. ShapeOK' /\ ResultOK' /\ LegibleOK'
    BY BeginPass DEF CropInv, WaysSelected
  <1>7. IdleOK' /\ OutputOK'
    BY <1>3, SameCrop, KeepOutput DEF CropInv, IdleOK, WaysSelected, target
  <1>8. SpareOK'
    BY AllLegible, SameCrop DEF CropInv, SpareOK, SparesTheOutput, WaysSelected, target
  <1> QED
    BY <1>4, <1>5, <1>6, <1>7, <1>8 DEF CropInv

LEMMA StepRelationsSelected == CropInv /\ RelationsSelected => CropInv'
  <1> SUFFICES ASSUME CropInv, RelationsSelected PROVE CropInv'
    OBVIOUS
  <1> DEFINE chosen == IF crop.keep_relations THEN PassResult ELSE {}
  <1>1. chosen = CropRelations
    <2>1. CASE crop.keep_relations
      <3>1. \A b \in Blocks :
              result[b].ids = stage3_relations(crop.source[b], CropNodes, CropWays)
        BY <2>1 DEF CropInv, ResultOK, Wanted, RelationsSelected, AllDone
      <3> QED
        BY <2>1, <3>1, RelationsAddUp DEF PassResult
    <2>2. CASE ~crop.keep_relations
      BY <2>2, NoRelations
    <2> QED
      BY <2>1, <2>2
  <1>2. /\ selected["kept_nodes"] = CropNodes /\ selected["kept_ways"] = CropWays
        /\ selected["nodes_in_bbox"] = NodesInBox
    BY DEF CropInv, SelectedOK, RelationsSelected
  <1>3. /\ selected'["kept_rel"] = CropRelations
        /\ selected'["kept_nodes"] = CropNodes /\ selected'["kept_ways"] = CropWays
        /\ selected'["nodes_in_bbox"] = NodesInBox
        /\ phase' = "write"
    BY <1>1, <1>2 DEF RelationsSelected, Select, Begin, SetName
  <1>4. SetsOK'
    BY <1>1, SelectSets DEF CropInv, RelationsSelected, Right
  <1>5. SelectedOK'
    BY <1>3, SameCrop DEF SelectedOK, RelationsSelected
  <1>6. ShapeOK' /\ ResultOK' /\ LegibleOK'
    BY BeginPass DEF CropInv, RelationsSelected
  <1>7. IdleOK' /\ OutputOK'
    BY <1>3, SameCrop, KeepOutput DEF CropInv, IdleOK, RelationsSelected
  \* Had a block been illegible or the header refused, this would not be the phase.
  <1>8. SpareOK'
    BY SameCrop DEF CropInv, SpareOK, SparesTheOutput, RelationsSelected
  <1> QED
    BY <1>4, <1>5, <1>6, <1>7, <1>8 DEF CropInv

-----------------------------------------------------------------------------
(***************************************************************************)
(* Inside a pass.                                                          *)
(***************************************************************************)
LEMMA StepStreamBlock == CropInv /\ StreamBlock => CropInv'
  <1> SUFFICES ASSUME CropInv, StreamBlock PROVE CropInv'
    OBVIOUS
  <1>1. UNCHANGED <<crop, phase, busy, lost, sets, target, outcome>>
    BY DEF StreamBlock
  <1>2. PICK b \in waiting : First(b) /\ result' = [result EXCEPT ![b] = ResultOf(b, selected)]
    BY DEF StreamBlock
  <1>3. phase \in Passes
    BY DEF StreamBlock
  <1>4. \A name \in Needs(phase) : selected[name] = Right[name]
    BY <1>3 DEF CropInv, SelectedOK, Needs, Right, Passes
  <1>5. b \in Blocks => /\ ~crop.source[b].legible => ResultOf(b, selected) = Broken
                        /\ Wanted(b, ResultOf(b, selected))
    BY <1>3, <1>4, ResultIsRight
  <1>6. ResultOK' /\ LegibleOK' /\ result' = [c \in Blocks' |-> result'[c]]
    BY <1>1, <1>2, <1>5, OneResult DEF CropInv
  <1>7. ShapeOK'
    BY <1>1, <1>6 DEF CropInv, ShapeOK, sets
  <1>8. SetsOK' /\ SelectedOK' /\ OutputOK' /\ SpareOK'
    BY <1>1, KeepSets, KeepSelected, KeepOutput, KeepSpare DEF CropInv, sets, target
  <1>9. IdleOK'
    BY <1>1, SameCrop DEF CropInv, IdleOK
  <1> QED
    BY <1>6, <1>7, <1>8, <1>9 DEF CropInv

\* What a worker takes, loses or forgets.
LEMMA StepTakeTask == CropInv /\ (\E w \in Worker : TakeTask(w)) => CropInv'
  <1> SUFFICES ASSUME CropInv, NEW w \in Worker, TakeTask(w) PROVE CropInv'
    OBVIOUS
  <1>1. /\ UNCHANGED <<crop, phase, result, lost, sets, target, outcome>>
        /\ Parallel /\ phase \notin {"preflight", "end"}
        /\ \E b : busy' = [busy EXCEPT ![w] = b]
    BY DEF TakeTask, Passes
  <1>2. ShapeOK'
    BY <1>1, SameCrop DEF CropInv, ShapeOK, sets
  <1>3. IdleOK'
    BY <1>1, SameCrop DEF IdleOK
  <1>4. SetsOK' /\ SelectedOK' /\ ResultOK' /\ LegibleOK' /\ OutputOK' /\ SpareOK'
    BY <1>1, KeepSets, KeepSelected, KeepResults, KeepOutput, KeepSpare DEF CropInv, sets, target
  <1> QED
    BY <1>2, <1>3, <1>4 DEF CropInv

LEMMA StepWorkerDies == CropInv /\ (\E w \in Worker : WorkerDies(w)) => CropInv'
  <1> SUFFICES ASSUME CropInv, NEW w \in Worker, WorkerDies(w) PROVE CropInv'
    OBVIOUS
  <1>1. /\ UNCHANGED <<crop, phase, result, files, selected, target>>
        /\ busy' = [busy EXCEPT ![w] = Idle]
        /\ cache' = [cache EXCEPT ![w] = NoSets]
    BY DEF WorkerDies
  <1>2. ShapeOK'
    BY <1>1, SameCrop DEF CropInv, ShapeOK, NoSets
  <1>3. IdleOK'
    BY <1>1, SameCrop DEF CropInv, IdleOK, ShapeOK
  <1>4. SetsOK'
    BY <1>1, SameCrop DEF CropInv, SetsOK, ShapeOK, NoSets, NoSet
  <1>5. SelectedOK' /\ ResultOK' /\ LegibleOK' /\ OutputOK' /\ SpareOK'
    BY <1>1, KeepSelected, KeepResults, KeepOutput, KeepSpare DEF CropInv, target
  <1> QED
    BY <1>2, <1>3, <1>4, <1>5 DEF CropInv

\* A worker has the sets it needs from its cache or from the files, or fails.
LEMMA StepFinishTask == CropInv /\ (\E w \in Worker : FinishTask(w)) => CropInv'
  <1> SUFFICES ASSUME CropInv, NEW w \in Worker, FinishTask(w) PROVE CropInv'
    OBVIOUS
  <1> PICK b : b = busy[w]
    OBVIOUS
  <1> PICK loaded : loaded = [name \in Needs(phase) |-> w_get_set(w, name)]
    OBVIOUS
  <1> PICK ids : ids = [name \in SetName |-> IF name \in Needs(phase) THEN loaded[name].ids ELSE {}]
    OBVIOUS
  <1> PICK r : r = IF \A name \in Needs(phase) : loaded[name].there
                   THEN ResultOf(b, ids) ELSE Broken
    OBVIOUS
  <1>1. /\ b # Idle
        /\ busy' = [busy EXCEPT ![w] = Idle]
        /\ result' = [result EXCEPT ![b] = r]
        /\ cache' = [cache EXCEPT ![w] = [name \in SetName |->
                        IF name \in Needs(phase) THEN loaded[name] ELSE cache[w][name]]]
        /\ UNCHANGED <<crop, phase, waiting, lost, files, selected, target, outcome>>
    BY DEF FinishTask
  <1>2. Parallel /\ phase \notin {"preflight", "end"}
    BY <1>1 DEF CropInv, IdleOK
  <1>3. Needs(phase) \subseteq SetName
    BY DEF Needs, SetName
  <1>4. \A name \in Needs(phase) : loaded[name].there => loaded[name].ids = Right[name]
    BY <1>3 DEF CropInv, SetsOK, w_get_set
  <1>5. b \in Blocks =>
          /\ ~crop.source[b].legible => r = Broken
          /\ Wanted(b, r)
    <2>1. CASE \A name \in Needs(phase) : loaded[name].there
      <3>1. \A name \in Needs(phase) : ids[name] = Right[name]
        BY <1>3, <1>4, <2>1
      <3>2. phase \in Passes \cup {"join"}
        BY <1>2 DEF CropInv, SelectedOK, Passes
      <3>3. r = ResultOf(b, ids)
        BY <2>1
      <3> QED
        BY <3>1, <3>2, <3>3, ResultIsRight
    <2>2. CASE ~\A name \in Needs(phase) : loaded[name].there
      BY <2>2 DEF Broken, Wanted
    <2> QED
      BY <2>1, <2>2
  <1>6. ResultOK' /\ LegibleOK' /\ result' = [c \in Blocks' |-> result'[c]]
    BY <1>1, <1>5, OneResult DEF CropInv
  <1>7. ShapeOK'
    <2>1. busy' = [v \in Worker |-> busy'[v]] /\ cache' = [v \in Worker |-> cache'[v]]
      BY <1>1 DEF CropInv, ShapeOK
    <2>2. ASSUME NEW v \in Worker PROVE cache'[v] = [name \in SetName |-> cache'[v][name]]
      <3>1. cache'[v] = IF v = w THEN [name \in SetName |->
                          IF name \in Needs(phase) THEN loaded[name] ELSE cache[w][name]]
                        ELSE cache[v]
        BY <1>1 DEF CropInv, ShapeOK
      <3> QED
        BY <3>1 DEF CropInv, ShapeOK
    <2> QED
      BY <1>6, <2>1, <2>2 DEF ShapeOK
  <1>8. IdleOK'
    BY <1>1, <1>2, SameCrop DEF IdleOK
  <1>9. SetsOK'
    BY <1>1, <1>3, <1>4, SameCrop DEF CropInv, SetsOK, ShapeOK
  <1>10. SelectedOK' /\ OutputOK' /\ SpareOK'
    BY <1>1, KeepSelected, KeepOutput, KeepSpare DEF CropInv, target
  <1> QED
    BY <1>6, <1>7, <1>8, <1>9, <1>10 DEF CropInv

-----------------------------------------------------------------------------
(***************************************************************************)
(* Writing, and the ends of a crop.                                        *)
(***************************************************************************)
LEMMA StepWriteNext == CropInv /\ WriteNext => CropInv'
  <1> SUFFICES ASSUME CropInv, WriteNext PROVE CropInv'
    OBVIOUS
  <1>1. /\ UNCHANGED <<crop, control, sets, writer, group, outfile, outcome>>
        /\ phase = "write" /\ ~crop.repack
    BY DEF WriteNext
  <1>2. PICK b \in Blocks : /\ b = Len(output) + 1
                            /\ result[b].st = "block"
                            /\ output' = Append(output, result[b].block)
    BY DEF WriteNext
  <1>3. result[b].block = BlockOf(b)
    BY <1>2 DEF CropInv, ResultOK, Wanted
  <1> DEFINE S == {BlockOf(c) : c \in Blocks}
  <1>4. output \in Seq(S) /\ \A c \in DOMAIN output : output[c] = BlockOf(c)
    BY <1>1 DEF CropInv, OutputOK
  <1>5. output' = Append(output, BlockOf(b)) /\ BlockOf(b) \in S
    BY <1>2, <1>3
  <1> HIDE DEF S
  <1>6. output' \in Seq(S) /\ \A c \in DOMAIN output' : output'[c] = BlockOf(c)
    BY <1>2, <1>4, <1>5
  <1>7. OutputOK'
    BY <1>1, <1>6, SameCrop DEF OutputOK, S
  <1>8. ShapeOK' /\ IdleOK'
    BY <1>1, KeepShape, SameCrop DEF CropInv, IdleOK, control, sets
  <1>9. SetsOK' /\ SelectedOK' /\ ResultOK' /\ LegibleOK'
    BY <1>1, KeepSets, KeepSelected, KeepResults DEF CropInv, control, sets
  <1>10. SpareOK'
    BY <1>1, SameCrop DEF CropInv, SpareOK, SparesTheOutput, control
  <1> QED
    BY <1>7, <1>8, <1>9, <1>10 DEF CropInv

\* A crop of a good source may end anyhow; only output and file change with it.
LEMMA StepEnds ==
    ASSUME CropInv, UNCHANGED <<crop, busy, result, sets>>,
           phase = "write",
           phase' = phase \/ phase' = IF Parallel THEN "join" ELSE "end",
           ~crop.repack => UNCHANGED output
    PROVE  CropInv'
  <1>1. phase' \in {"write", "join", "end"} /\ (phase' = "end" => ~Parallel)
    OBVIOUS
  <1>2. ShapeOK' /\ SetsOK' /\ SelectedOK' /\ ResultOK' /\ LegibleOK'
    BY <1>1, KeepShape, KeepSets, KeepSelected, KeepResults DEF CropInv, sets
  <1>3. IdleOK'
    BY <1>1, SameCrop DEF CropInv, IdleOK
  <1>4. OutputOK'
    BY KeepOutput, SameCrop DEF CropInv, OutputOK
  <1>5. SpareOK'
    BY SameCrop DEF CropInv, SpareOK, SparesTheOutput
  <1> QED
    BY <1>2, <1>3, <1>4, <1>5 DEF CropInv

LEMMA StepWriting ==
    CropInv /\ (WriteEnds \/ RepackNext \/ RepackBlockEnds \/ RejectGrid \/ RepackEnds \/ WriteFails)
      => CropInv'
  <1>1. ASSUME CropInv, WriteEnds PROVE CropInv'
    BY <1>1, StepEnds DEF WriteEnds, Finish
  <1>2. ASSUME CropInv, RepackNext PROVE CropInv'
    BY <1>2, StepEnds DEF RepackNext, Abandon, Fail, control
  <1>3. ASSUME CropInv, RepackBlockEnds PROVE CropInv'
    BY <1>3, StepEnds DEF RepackBlockEnds
  <1>4. ASSUME CropInv, RejectGrid PROVE CropInv'
    BY <1>4, StepEnds DEF RejectGrid, Abandon, Fail
  <1>5. ASSUME CropInv, RepackEnds PROVE CropInv'
    BY <1>5, StepEnds DEF RepackEnds, Abandon, Fail, Finish
  <1>6. ASSUME CropInv, WriteFails PROVE CropInv'
    BY <1>6, StepEnds DEF WriteFails, Fail
  <1> QED
    BY <1>1, <1>2, <1>3, <1>4, <1>5, <1>6

LEMMA StepPassFails == CropInv /\ PassFails => CropInv'
  <1> SUFFICES ASSUME CropInv, PassFails PROVE CropInv'
    OBVIOUS
  <1>1. /\ UNCHANGED <<crop, busy, result, lost, sets, writer, group, output>>
        /\ phase \in Passes /\ phase' = IF Parallel THEN "join" ELSE "end"
        /\ outfile' = IF outfile = "open" THEN "partial" ELSE outfile
    BY DEF PassFails, Fail
  <1>2. ShapeOK' /\ SetsOK' /\ SelectedOK' /\ ResultOK' /\ LegibleOK' /\ OutputOK'
    BY <1>1, KeepShape, KeepSets, KeepSelected, KeepResults, KeepOutput DEF CropInv, sets
  <1>3. IdleOK'
    BY <1>1, SameCrop DEF CropInv, IdleOK
  <1>4. SpareOK'
    BY <1>1, SameCrop DEF CropInv, SpareOK, SparesTheOutput, Passes
  <1> QED
    BY <1>2, <1>3, <1>4 DEF CropInv

LEMMA StepJoin == CropInv /\ Join => CropInv'
  <1> SUFFICES ASSUME CropInv, Join PROVE CropInv'
    OBVIOUS
  <1>1. /\ UNCHANGED <<crop, busy, result, cache, selected, target>>
        /\ phase = "join" /\ phase' = "end" /\ files' = NoSets
        /\ \A w \in Worker : busy[w] = Idle
    BY DEF Join
  <1>2. ShapeOK' /\ SelectedOK' /\ ResultOK' /\ LegibleOK' /\ OutputOK' /\ SpareOK'
    BY <1>1, KeepShape, KeepSelected, KeepResults, KeepOutput, KeepSpare DEF CropInv, target
  <1>3. SetsOK' /\ IdleOK'
    BY <1>1, SameCrop DEF CropInv, SetsOK, IdleOK, NoSets, NoSet
  <1> QED
    BY <1>2, <1>3 DEF CropInv

LEMMA StepCrop == CropInv /\ [CropNext]_vars => CropInv'
  <1>1. ASSUME CropInv, UNCHANGED vars PROVE CropInv'
    <2>1. UNCHANGED <<crop, phase, busy, result, files, cache, selected, output, outfile>>
      BY <1>1 DEF vars, control, sets, target
    <2>2. ShapeOK' /\ SetsOK' /\ SelectedOK' /\ ResultOK' /\ LegibleOK' /\ OutputOK' /\ SpareOK'
      BY <1>1, <2>1, KeepShape, KeepSets, KeepSelected, KeepResults, KeepOutput, KeepSpare
         DEF CropInv
    <2>3. IdleOK'
      BY <1>1, <2>1, SameCrop DEF CropInv, IdleOK
    <2> QED
      BY <2>2, <2>3 DEF CropInv
  <1> QED
    BY <1>1, StepPreflight, StepStreamBlock, StepTakeTask, StepFinishTask, StepWorkerDies,
       StepPassFails, StepNodesSelected, StepWaysSelected, StepRelationsSelected, StepWriteNext,
       StepWriting, StepJoin DEF CropNext, Progress

\* The invariant of every crop.
THEOREM CropInvariant == CropSpec => []CropInv
  <1> QED
    BY InitCrop, StepCrop, PTL DEF CropSpec

\* However many workers there are and whichever die, a plain crop writes of each
\* block of the source what the crop is defined to have of it, in the order of the
\* source (pbf_export.pyx:619-629, 797-835).
THEOREM ParallelAsSequential == CropSpec => []WritesInOrder
  <1>1. CropInv => WritesInOrder
    BY DEF CropInv, OutputOK, WritesInOrder, BlockOf
  <1> QED
    BY <1>1, CropInvariant, PTL

\* A source with a block that cannot be read, or that its header rules out, leaves
\* the file at the output path as it was (pbf_export.pyx:514, 561, 826).
THEOREM BadSourceCostsNothing == CropSpec => []SparesTheOutput
  <1>1. CropInv => SparesTheOutput
    BY DEF CropInv, SpareOK
  <1> QED
    BY <1>1, CropInvariant, PTL

-----------------------------------------------------------------------------
(***************************************************************************)
(* The elements that are kept, of a list of ids and of groups.             *)
(***************************************************************************)
OneKept(kind, kept) == [i \in Id |-> IF <<kind, i>> \in kept THEN <<i>> ELSE <<>>]
OfKind(kind) == [g \in Group |-> IF g.kind = kind THEN g.ids ELSE <<>>]
Filled(kept) == [g \in Group |-> LET k == KeptGroup(g, kept) IN IF k.ids = <<>> THEN <<>> ELSE <<k>>]

LEMMA OneKeptIn == ASSUME NEW kind, NEW kept PROVE ToSeqs(OneKept(kind, kept), Id, Id)
  BY DEF OneKept, ToSeqs

LEMMA OfKindIn == ASSUME NEW kind PROVE ToSeqs(OfKind(kind), Group, Id)
  BY DEF OfKind, Group, ToSeqs

LEMMA KeptIdsIs ==
    ASSUME NEW kind, NEW ids \in Seq(Id), NEW kept
    PROVE  KeptIds(kind, ids, kept) = FlatEach(OneKept(kind, kept), ids)
  <1>1. [k \in DOMAIN ids |-> IF <<kind, ids[k]>> \in kept THEN <<ids[k]>> ELSE <<>>]
          = Each(OneKept(kind, kept), ids)
    BY DEF OneKept, Each
  <1> QED
    BY <1>1 DEF KeptIds, FlatEach

LEMMA IdsOfKindIs ==
    ASSUME NEW groups \in Seq(Group), NEW kind
    PROVE  IdsOfKind(groups, kind) = FlatEach(OfKind(kind), groups)
  <1>1. [i \in DOMAIN groups |-> IF groups[i].kind = kind THEN groups[i].ids ELSE <<>>]
          = Each(OfKind(kind), groups)
    BY DEF OfKind, Each
  <1> QED
    BY <1>1 DEF IdsOfKind, FlatEach

LEMMA KeptIdsEmpty == ASSUME NEW kind, NEW kept PROVE KeptIds(kind, <<>>, kept) = <<>>
  <1>1. <<>> \in Seq(Id)
    OBVIOUS
  <1>2. KeptIds(kind, <<>>, kept) = FlatEach(OneKept(kind, kept), <<>>)
    BY <1>1, KeptIdsIs
  <1> QED
    BY <1>2, FlatEachEmpty

LEMMA KeptIdsIn ==
    ASSUME NEW kind, NEW ids \in Seq(Id), NEW kept
    PROVE  KeptIds(kind, ids, kept) \in Seq(Id)
  <1> DEFINE f == OneKept(kind, kept)
  <1>1. ToSeqs(f, Id, Id)
    BY OneKeptIn
  <1>2. KeptIds(kind, ids, kept) = FlatEach(f, ids)
    BY KeptIdsIs
  <1> HIDE DEF f
  <1> QED
    BY <1>1, <1>2, FlatEachIn

LEMMA KeptIdsConcat ==
    \A kind, kept : \A s, t \in Seq(Id) :
      KeptIds(kind, s \o t, kept) = KeptIds(kind, s, kept) \o KeptIds(kind, t, kept)
  <1> TAKE kind, kept
  <1> TAKE s, t \in Seq(Id)
  <1> DEFINE f == OneKept(kind, kept)
  <1>1. s \o t \in Seq(Id)
    OBVIOUS
  <1>2. KeptIds(kind, s \o t, kept) = FlatEach(f, s \o t)
    BY <1>1, KeptIdsIs
  <1>3. KeptIds(kind, s, kept) = FlatEach(f, s) /\ KeptIds(kind, t, kept) = FlatEach(f, t)
    BY KeptIdsIs
  <1>4. ToSeqs(f, Id, Id)
    BY OneKeptIn
  <1> HIDE DEF f
  <1>5. FlatEach(f, s \o t) = FlatEach(f, s) \o FlatEach(f, t)
    BY <1>4, FlatEachConcat
  <1> QED
    BY <1>2, <1>3, <1>5

LEMMA IdsOfKindEmpty == ASSUME NEW kind PROVE IdsOfKind(<<>>, kind) = <<>>
  <1>1. <<>> \in Seq(Group)
    OBVIOUS
  <1>2. IdsOfKind(<<>>, kind) = FlatEach(OfKind(kind), <<>>)
    BY <1>1, IdsOfKindIs
  <1> QED
    BY <1>2, FlatEachEmpty

LEMMA IdsOfKindIn ==
    ASSUME NEW kind, NEW groups \in Seq(Group)
    PROVE  IdsOfKind(groups, kind) \in Seq(Id)
  <1> DEFINE f == OfKind(kind)
  <1>1. ToSeqs(f, Group, Id)
    BY OfKindIn
  <1>2. IdsOfKind(groups, kind) = FlatEach(f, groups)
    BY IdsOfKindIs
  <1> HIDE DEF f
  <1> QED
    BY <1>1, <1>2, FlatEachIn

LEMMA IdsOfKindConcat ==
    ASSUME NEW kind, NEW s \in Seq(Group), NEW t \in Seq(Group)
    PROVE  IdsOfKind(s \o t, kind) = IdsOfKind(s, kind) \o IdsOfKind(t, kind)
  <1> DEFINE f == OfKind(kind)
  <1>1. s \o t \in Seq(Group)
    OBVIOUS
  <1>2. IdsOfKind(s \o t, kind) = FlatEach(f, s \o t)
    BY <1>1, IdsOfKindIs
  <1>3. IdsOfKind(s, kind) = FlatEach(f, s) /\ IdsOfKind(t, kind) = FlatEach(f, t)
    BY IdsOfKindIs
  <1>4. ToSeqs(f, Group, Id)
    BY OfKindIn
  <1> HIDE DEF f
  <1>5. FlatEach(f, s \o t) = FlatEach(f, s) \o FlatEach(f, t)
    BY <1>4, FlatEachConcat
  <1> QED
    BY <1>2, <1>3, <1>5

LEMMA IdsOfKindAppend ==
    ASSUME NEW kind, NEW s \in Seq(Group), NEW g \in Group
    PROVE  IdsOfKind(Append(s, g), kind)
             = IdsOfKind(s, kind) \o (IF g.kind = kind THEN g.ids ELSE <<>>)
  <1> DEFINE f == OfKind(kind)
  <1>1. Append(s, g) \in Seq(Group)
    OBVIOUS
  <1>2. IdsOfKind(Append(s, g), kind) = FlatEach(f, Append(s, g)) /\ IdsOfKind(s, kind) = FlatEach(f, s)
    BY <1>1, IdsOfKindIs
  <1>3. f[g] = IF g.kind = kind THEN g.ids ELSE <<>>
    BY DEF OfKind
  <1>4. ToSeqs(f, Group, Id)
    BY OfKindIn
  <1> HIDE DEF f
  <1>5. FlatEach(f, Append(s, g)) = FlatEach(f, s) \o f[g]
    BY <1>4, FlatEachAppend
  <1> QED
    BY <1>2, <1>3, <1>5

LEMMA IdsOfKindOne ==
    ASSUME NEW kind, NEW g \in Group
    PROVE  IdsOfKind(<<g>>, kind) = IF g.kind = kind THEN g.ids ELSE <<>>
  <1> DEFINE e == IF g.kind = kind THEN g.ids ELSE <<>>
  <1>1. e \in Seq(Id)
    BY DEF Group
  <1>2. <<>> \in Seq(Group) /\ Append(<<>>, g) = <<g>> /\ <<>> \o e = e
    BY <1>1
  <1>3. IdsOfKind(Append(<<>>, g), kind) = IdsOfKind(<<>>, kind) \o e
    BY <1>2, IdsOfKindAppend
  <1> QED
    BY <1>2, <1>3, IdsOfKindEmpty

LEMMA KeptGroupIn ==
    ASSUME NEW g \in Group, NEW kept
    PROVE  /\ KeptGroup(g, kept) \in Group /\ KeptGroup(g, kept).kind = g.kind
           /\ KeptGroup(g, kept).ids = KeptIds(g.kind, g.ids, kept)
  <1>1. g.ids \in Seq(Id)
    BY DEF Group
  <1>2. KeptIds(g.kind, g.ids, kept) \in Seq(Id)
    BY <1>1, KeptIdsIn
  <1> QED
    BY <1>2 DEF KeptGroup, Group

LEMMA KeptGroupsIs ==
    ASSUME NEW groups \in Seq(Group), NEW kept
    PROVE  KeptGroups(groups, kept) = FlatEach(Filled(kept), groups)
  <1> DEFINE filled == [g \in Group |-> IF g.ids = <<>> THEN <<>> ELSE <<g>>]
  <1>1. ASSUME NEW i \in DOMAIN groups
        PROVE  filled[KeptGroup(groups[i], kept)] = Filled(kept)[groups[i]]
    <2>1. groups[i] \in Group
      OBVIOUS
    <2>2. KeptGroup(groups[i], kept) \in Group
      BY <2>1, KeptGroupIn
    <2> QED
      BY <2>1, <2>2 DEF Filled
  <1>2. [i \in DOMAIN groups |-> filled[KeptGroup(groups[i], kept)]] = Each(Filled(kept), groups)
    BY <1>1 DEF Each
  <1> QED
    BY <1>2 DEF KeptGroups, FlatEach

\* Mapped one way or the other it comes to the same.
LEMMA SameEach ==
    ASSUME NEW f, NEW g, NEW h, NEW j, NEW s, \A i \in DOMAIN s : h[f[s[i]]] = j[g[s[i]]]
    PROVE  Each(h, Each(f, s)) = Each(j, Each(g, s))
  BY DEF Each

KeptOfKind(kind, kept) == [ids \in Seq(Id) |-> KeptIds(kind, ids, kept)]
GroupIds(kind) == [groups \in Seq(Group) |-> IdsOfKind(groups, kind)]

\* What is kept of lists one after the other.
LEMMA KeptIdsFlatten ==
    ASSUME NEW kind, NEW kept, NEW ss \in Seq(Seq(Id))
    PROVE  KeptIds(kind, FlattenSeq(ss), kept) = FlatEach(KeptOfKind(kind, kept), ss)
  <1> DEFINE h == KeptOfKind(kind, kept)
  <1>1. \A s \in Seq(Id) : h[s] = KeptIds(kind, s, kept)
    BY DEF KeptOfKind
  <1>2. ToSeqs(h, Seq(Id), Id) /\ <<>> \in Seq(Id) /\ h[<<>>] = <<>>
    <2>1. <<>> \in Seq(Id)
      OBVIOUS
    <2> HIDE DEF h
    <2>2. ToSeqs(h, Seq(Id), Id)
      BY <1>1, KeptIdsIn DEF ToSeqs
    <2>3. h[<<>>] = <<>>
      BY <1>1, <2>1, KeptIdsEmpty
    <2> QED
      BY <2>1, <2>2, <2>3
  <1> HIDE DEF h
  <1>3. \A s, t \in Seq(Id) : h[s \o t] = h[s] \o h[t]
    <2> TAKE s, t \in Seq(Id)
    <2>1. s \o t \in Seq(Id)
      OBVIOUS
    <2>2. KeptIds(kind, s \o t, kept) = KeptIds(kind, s, kept) \o KeptIds(kind, t, kept)
      BY KeptIdsConcat, ZenonT(30)
    <2>3. h[s \o t] = KeptIds(kind, s \o t, kept)
      BY <1>1, <2>1
    <2>4. h[s] = KeptIds(kind, s, kept) /\ h[t] = KeptIds(kind, t, kept)
      BY <1>1
    <2> QED
      BY <2>2, <2>3, <2>4, Zenon
  <1>4. FlattenSeq(ss) \in Seq(Id)
    BY FlattenElements
  <1>5. h[FlattenSeq(ss)] = FlatEach(h, ss)
    BY <1>2, <1>3, FlattenedEach
  <1> QED
    BY <1>1, <1>4, <1>5 DEF h

LEMMA IdsOfKindFlatten ==
    ASSUME NEW kind, NEW ss \in Seq(Seq(Group))
    PROVE  IdsOfKind(FlattenSeq(ss), kind) = FlatEach(GroupIds(kind), ss)
  <1> DEFINE h == GroupIds(kind)
  <1>1. \A s \in Seq(Group) : h[s] = IdsOfKind(s, kind)
    BY DEF GroupIds
  <1>2. ToSeqs(h, Seq(Group), Id) /\ <<>> \in Seq(Group) /\ h[<<>>] = <<>>
    <2>1. <<>> \in Seq(Group)
      OBVIOUS
    <2> HIDE DEF h
    <2>2. ToSeqs(h, Seq(Group), Id)
      BY <1>1, IdsOfKindIn DEF ToSeqs
    <2>3. h[<<>>] = <<>>
      BY <1>1, <2>1, IdsOfKindEmpty
    <2> QED
      BY <2>1, <2>2, <2>3
  <1> HIDE DEF h
  <1>3. \A s, t \in Seq(Group) : h[s \o t] = h[s] \o h[t]
    <2> TAKE s, t \in Seq(Group)
    <2>1. s \o t \in Seq(Group)
      OBVIOUS
    <2>2. IdsOfKind(s \o t, kind) = IdsOfKind(s, kind) \o IdsOfKind(t, kind)
      BY IdsOfKindConcat
    <2> QED
      BY <1>1, <2>1, <2>2
  <1>4. FlattenSeq(ss) \in Seq(Group)
    BY FlattenElements
  <1>5. h[FlattenSeq(ss)] = FlatEach(h, ss)
    BY <1>2, <1>3, FlattenedEach
  <1> QED
    BY <1>1, <1>4, <1>5 DEF h

\* The kept elements of a kind are those of the kept groups.
LEMMA KeptGroupsIn ==
    ASSUME NEW groups \in Seq(Group), NEW kept
    PROVE  KeptGroups(groups, kept) \in Seq(Group)
  <1> DEFINE f == Filled(kept)
  <1>1. ToSeqs(f, Group, Group)
    <2> SUFFICES ASSUME NEW g \in Group PROVE f[g] \in Seq(Group)
      BY DEF ToSeqs
    <2>1. KeptGroup(g, kept) \in Group
      BY KeptGroupIn
    <2> QED
      BY <2>1 DEF Filled
  <1>2. KeptGroups(groups, kept) = FlatEach(f, groups)
    BY KeptGroupsIs
  <1> HIDE DEF f
  <1> QED
    BY <1>1, <1>2, FlatEachIn

LEMMA KeptGroupsHave ==
    ASSUME NEW groups \in Seq(Group), NEW kept, NEW kind
    PROVE  IdsOfKind(KeptGroups(groups, kept), kind) = KeptIds(kind, IdsOfKind(groups, kind), kept)
  <1> DEFINE f == Filled(kept)
             g == OfKind(kind)
             h == GroupIds(kind)
             j == KeptOfKind(kind, kept)
  <1>1. \A x \in Group : f[x] \in Seq(Group)
    <2> TAKE x \in Group
    <2>1. KeptGroup(x, kept) \in Group
      BY KeptGroupIn
    <2> QED
      BY <2>1 DEF Filled
  <1>2. \A x \in Group : g[x] \in Seq(Id)
    BY OfKindIn DEF ToSeqs
  <1>3. ASSUME NEW x \in Group PROVE h[f[x]] = j[g[x]]
    <2> DEFINE k == KeptGroup(x, kept)
    <2>1. k \in Group /\ k.kind = x.kind /\ k.ids = KeptIds(x.kind, x.ids, kept)
      BY KeptGroupIn
    <2> HIDE DEF k
    <2>2. f[x] = IF k.ids = <<>> THEN <<>> ELSE <<k>>
      BY DEF Filled, k
    <2>3. h[f[x]] = IF k.ids = <<>> THEN <<>> ELSE IF k.kind = kind THEN k.ids ELSE <<>>
      <3>1. f[x] \in Seq(Group)
        BY <1>1
      <3>2. h[f[x]] = IdsOfKind(f[x], kind)
        BY <3>1 DEF GroupIds
      <3> HIDE DEF f, h
      <3>3. CASE k.ids = <<>>
        BY <2>2, <3>2, <3>3, IdsOfKindEmpty
      <3>4. CASE k.ids # <<>>
        BY <2>1, <2>2, <3>2, <3>4, IdsOfKindOne
      <3> QED
        BY <3>3, <3>4
    <2>4. g[x] = IF x.kind = kind THEN x.ids ELSE <<>>
      BY DEF OfKind
    <2>5. j[g[x]] = IF x.kind = kind THEN KeptIds(kind, x.ids, kept) ELSE <<>>
      <3>1. g[x] \in Seq(Id)
        BY <1>2
      <3>2. j[g[x]] = KeptIds(kind, g[x], kept)
        BY <3>1 DEF KeptOfKind
      <3> HIDE DEF g, j
      <3> QED
        BY <2>4, <3>2, KeptIdsEmpty
    <2> HIDE DEF f, g, h, j
    <2> QED
      BY <2>1, <2>3, <2>5
  <1> HIDE DEF f, g, h, j
  <1>4. Each(h, Each(f, groups)) = Each(j, Each(g, groups))
    <2>1. \A i \in DOMAIN groups : h[f[groups[i]]] = j[g[groups[i]]]
      BY <1>3
    <2> QED
      BY <2>1, SameEach
  <1>5. Each(f, groups) \in Seq(Seq(Group)) /\ Each(g, groups) \in Seq(Seq(Id))
    BY <1>1, <1>2, EachIn
  <1>6. IdsOfKind(KeptGroups(groups, kept), kind) = FlatEach(h, Each(f, groups))
    BY <1>5, KeptGroupsIs, IdsOfKindFlatten DEF FlatEach, f, h
  <1>7. KeptIds(kind, IdsOfKind(groups, kind), kept) = FlatEach(j, Each(g, groups))
    BY <1>5, IdsOfKindIs, KeptIdsFlatten DEF FlatEach, g, j
  <1> QED
    BY <1>4, <1>6, <1>7 DEF FlatEach

\* A block that is copied or compacted has the kept groups of its source.
LEMMA BlockGroups ==
    ASSUME NEW block, block.groups \in Seq(Group), NEW kept
    PROVE  build_output_block(block, kept).groups = KeptGroups(block.groups, kept)
  <1>1. KeptGroups(block.groups, kept) \in Seq(Group)
    BY KeptGroupsIn
  <1> QED
    BY <1>1 DEF build_output_block, compact_string_table, Nothing, Written

\* Blocks that have the kept groups of the blocks of the source have what is kept.
LEMMA BlocksHave ==
    ASSUME NEW source, NEW kept, NEW kind, NEW out,
           \A b \in DOMAIN source : source[b].groups \in Seq(Group),
           Len(source) \in Nat, DOMAIN source = 1..Len(source), DOMAIN out = DOMAIN source,
           \A b \in DOMAIN source : out[b].groups = KeptGroups(source[b].groups, kept)
    PROVE  ElementsOf(out, kind) = KeptIds(kind, ElementsOf(source, kind), kept)
  <1> DEFINE ss == [b \in DOMAIN source |-> IdsOfKind(source[b].groups, kind)]
             j == KeptOfKind(kind, kept)
  <1>1. \A b \in DOMAIN source : ss[b] \in Seq(Id)
    BY IdsOfKindIn
  <1>2. ss \in Seq(Seq(Id)) /\ DOMAIN ss = DOMAIN source
    BY <1>1
  <1>3. ASSUME NEW b \in DOMAIN source
        PROVE  IdsOfKind(out[b].groups, kind) = j[ss[b]]
    <2>1. ss[b] = IdsOfKind(source[b].groups, kind) /\ ss[b] \in Seq(Id)
      BY <1>1
    <2>2. j[ss[b]] = KeptIds(kind, ss[b], kept)
      BY <2>1 DEF KeptOfKind
    <2> HIDE DEF ss, j
    <2> QED
      BY <2>1, <2>2, KeptGroupsHave
  <1>4. KeptIds(kind, FlattenSeq(ss), kept) = FlatEach(j, ss)
    <2> HIDE DEF ss
    <2> QED
      BY <1>2, KeptIdsFlatten
  <1>5. [b \in DOMAIN out |-> IdsOfKind(out[b].groups, kind)] = Each(j, ss)
    <2> HIDE DEF ss, j
    <2> QED
      BY <1>2, <1>3 DEF Each
  <1> QED
    BY <1>4, <1>5 DEF ElementsOf, FlatEach

-----------------------------------------------------------------------------
(***************************************************************************)
(* Elements of groups, as a set.                                           *)
(***************************************************************************)
LEMMA KeptIdsRange ==
    ASSUME NEW kind, NEW ids \in Seq(Id), NEW kept
    PROVE  Range(KeptIds(kind, ids, kept)) = {x \in Range(ids) : <<kind, x>> \in kept}
  <1> DEFINE f == OneKept(kind, kept)
  <1>1. Range(FlatEach(f, ids)) = UNION {Range(f[ids[i]]) : i \in 1..Len(ids)}
    <2>1. ToSeqs(f, Id, Id)
      BY OneKeptIn
    <2> HIDE DEF f
    <2> QED
      BY <2>1, FlatEachRange
  <1>2. DOMAIN ids = 1..Len(ids) /\ \A i \in 1..Len(ids) : ids[i] \in Id
    OBVIOUS
  <1>3. \A x \in Id : Range(f[x]) = IF <<kind, x>> \in kept THEN {x} ELSE {}
    BY DEF OneKept, Range
  <1> HIDE DEF f
  <1>4. UNION {Range(f[ids[i]]) : i \in 1..Len(ids)} = {x \in Range(ids) : <<kind, x>> \in kept}
    <2>1. \A i \in 1..Len(ids) : Range(f[ids[i]]) = IF <<kind, ids[i]>> \in kept THEN {ids[i]} ELSE {}
      BY <1>2, <1>3
    <2>2. ASSUME NEW x
          PROVE  x \in UNION {Range(f[ids[i]]) : i \in 1..Len(ids)}
                   <=> x \in {y \in Range(ids) : <<kind, y>> \in kept}
      <3>1. x \in UNION {Range(f[ids[i]]) : i \in 1..Len(ids)} <=> \E i \in 1..Len(ids) : x \in Range(f[ids[i]])
        OBVIOUS
      <3>2. \A i \in 1..Len(ids) : x \in Range(f[ids[i]]) <=> x = ids[i] /\ <<kind, ids[i]>> \in kept
        BY <2>1
      <3>3. x \in Range(ids) <=> \E i \in 1..Len(ids) : x = ids[i]
        BY <1>2 DEF Range
      <3> QED
        BY <3>1, <3>2, <3>3
    <2> QED
      BY <2>2
  <1> QED
    BY <1>1, <1>4, KeptIdsIs DEF f

LEMMA IdsOfKindRange ==
    ASSUME NEW kind, NEW groups \in Seq(Group)
    PROVE  \A x : x \in Range(IdsOfKind(groups, kind)) <=>
             \E i \in DOMAIN groups : groups[i].kind = kind /\ \E k \in DOMAIN groups[i].ids : x = groups[i].ids[k]
  <1> DEFINE f == OfKind(kind)
  <1>1. Range(FlatEach(f, groups)) = UNION {Range(f[groups[i]]) : i \in 1..Len(groups)}
    <2>1. ToSeqs(f, Group, Id)
      BY OfKindIn
    <2> HIDE DEF f
    <2> QED
      BY <2>1, FlatEachRange
  <1>2. DOMAIN groups = 1..Len(groups) /\ \A i \in 1..Len(groups) : groups[i] \in Group
    OBVIOUS
  <1>3. \A g \in Group : Range(f[g]) = IF g.kind = kind THEN {g.ids[k] : k \in DOMAIN g.ids} ELSE {}
    BY DEF OfKind, Range
  <1> HIDE DEF f
  <1>4. \A i \in DOMAIN groups :
           Range(f[groups[i]]) = IF groups[i].kind = kind THEN {groups[i].ids[k] : k \in DOMAIN groups[i].ids} ELSE {}
    BY <1>2, <1>3
  <1>5. IdsOfKind(groups, kind) = FlatEach(f, groups)
    BY IdsOfKindIs DEF f
  <1> SUFFICES ASSUME NEW x
               PROVE  x \in Range(IdsOfKind(groups, kind)) <=>
                        \E i \in DOMAIN groups : groups[i].kind = kind /\ \E k \in DOMAIN groups[i].ids : x = groups[i].ids[k]
    OBVIOUS
  <1>6. x \in Range(IdsOfKind(groups, kind)) <=> \E i \in DOMAIN groups : x \in Range(f[groups[i]])
    BY <1>1, <1>2, <1>5
  <1>7. \A i \in DOMAIN groups : x \in Range(f[groups[i]]) <=>
           groups[i].kind = kind /\ \E k \in DOMAIN groups[i].ids : x = groups[i].ids[k]
    BY <1>4
  <1> QED
    BY <1>6, <1>7

LEMMA ElementsInHas ==
    ASSUME NEW groups \in Seq(Group), NEW kind, NEW x
    PROVE  <<kind, x>> \in ElementsIn(groups) <=> x \in Range(IdsOfKind(groups, kind))
  <1>1. <<kind, x>> \in ElementsIn(groups) <=>
           \E i \in DOMAIN groups : \E k \in DOMAIN groups[i].ids : <<kind, x>> = <<groups[i].kind, groups[i].ids[k]>>
    BY DEF ElementsIn
  <1> QED
    BY <1>1, IdsOfKindRange

LEMMA ElementsInAre ==
    ASSUME NEW groups \in Seq(Group), NEW e \in ElementsIn(groups)
    PROVE  \E kind \in Kind, x \in Id : e = <<kind, x>>
  <1>1. PICK i \in DOMAIN groups : \E k \in DOMAIN groups[i].ids : e = <<groups[i].kind, groups[i].ids[k]>>
    BY DEF ElementsIn
  <1>2. PICK k \in DOMAIN groups[i].ids : e = <<groups[i].kind, groups[i].ids[k]>>
    BY <1>1
  <1>3. groups[i] \in Group
    BY <1>1
  <1>4. groups[i].kind \in Kind /\ groups[i].ids \in Seq(Id)
    BY <1>3 DEF Group
  <1>5. groups[i].ids[k] \in Id
    BY <1>2, <1>4
  <1> QED
    BY <1>2, <1>4, <1>5

LEMMA KeptGroupsElements ==
    ASSUME NEW groups \in Seq(Group), NEW kept, NEW e \in ElementsIn(KeptGroups(groups, kept))
    PROVE  e \in ElementsIn(groups) /\ e \in kept
  <1> DEFINE gs == KeptGroups(groups, kept)
  <1>1. gs \in Seq(Group)
    BY KeptGroupsIn
  <1>2. PICK kind \in Kind, x \in Id : e = <<kind, x>>
    <2> HIDE DEF gs
    <2>1. e \in ElementsIn(gs)
      BY DEF gs
    <2> QED
      BY <1>1, <2>1, ElementsInAre
  <1>3. x \in Range(IdsOfKind(gs, kind))
    <2>1. <<kind, x>> \in ElementsIn(gs)
      BY <1>2
    <2> HIDE DEF gs
    <2> QED
      BY <1>1, <2>1, ElementsInHas
  <1>4. x \in Range(KeptIds(kind, IdsOfKind(groups, kind), kept))
    BY <1>3, KeptGroupsHave
  <1>5. IdsOfKind(groups, kind) \in Seq(Id)
    BY IdsOfKindIn
  <1>6. x \in Range(IdsOfKind(groups, kind)) /\ <<kind, x>> \in kept
    BY <1>4, <1>5, KeptIdsRange
  <1> QED
    BY <1>2, <1>6, ElementsInHas

-----------------------------------------------------------------------------
(***************************************************************************)
(* Compacting keeps the strings.                                           *)
(***************************************************************************)
\* A block whose elements have words, all of them in its table.
Worded(block) ==
    /\ block.groups \in Seq(Group)
    /\ \A e \in ElementsIn(block.groups) :
         /\ e \in DOMAIN block.words
         /\ block.words[e] \in Seq(DOMAIN block.strings)
    /\ \E n \in Nat : DOMAIN block.strings = 1..n

LEMMA UsedArePlaces ==
    ASSUME NEW block, Worded(block)
    PROVE  Places(UsedStrings(block)) /\ 1 \in UsedStrings(block)
           /\ \A e \in ElementsIn(block.groups) : \A k \in DOMAIN block.words[e] :
                 block.words[e][k] \in UsedStrings(block)
  <1>1. PICK n \in Nat : DOMAIN block.strings = 1..n
    BY DEF Worded
  <1>2. ASSUME NEW e \in ElementsIn(block.groups), NEW k \in DOMAIN block.words[e]
        PROVE  block.words[e][k] \in 1..n
    <2>1. block.words[e] \in Seq(1..n)
      BY <1>1 DEF Worded
    <2> QED
      BY <2>1
  <1>3. UsedStrings(block) \subseteq 1..n + 1
    <2>1. ASSUME NEW i \in UsedStrings(block), i # 1 PROVE i \in 1..n
      BY <1>2, <2>1 DEF UsedStrings
    <2> QED
      BY <2>1
  <1>4. n + 1 \in Nat
    OBVIOUS
  <1> QED
    BY <1>3, <1>4 DEF Places, UsedStrings

LEMMA CompactIs ==
    ASSUME NEW block, Worded(block)
    PROVE  LET out == compact_string_table(block)
               used == UsedStrings(block)
           IN  /\ out.groups = block.groups
               /\ DOMAIN out.words = DOMAIN block.words
               /\ \A e \in ElementsIn(block.groups) :
                    /\ DOMAIN out.words[e] = DOMAIN block.words[e]
                    /\ \A k \in DOMAIN block.words[e] : out.words[e][k] = Upto(used, block.words[e][k])
               /\ DOMAIN out.strings = 1..Cardinality(used)
               /\ \A i \in used : Upto(used, i) \in 1..Cardinality(used) /\ out.strings[Upto(used, i)] = block.strings[i]
  <1> DEFINE out == compact_string_table(block)
             used == UsedStrings(block)
             N == Cardinality(used)
  <1>1. Places(used)
    BY UsedArePlaces
  <1>2. /\ out.groups = block.groups
        /\ out.words = [e \in DOMAIN block.words |-> [k \in DOMAIN block.words[e] |-> Upto(used, block.words[e][k])]]
        /\ out.strings = [k \in 1..N |-> block.strings[CHOOSE i \in used : Upto(used, i) = k]]
    BY DEF compact_string_table, Written, Upto
  <1>3. ASSUME NEW i \in used
        PROVE  Upto(used, i) \in 1..N /\ out.strings[Upto(used, i)] = block.strings[i]
    <2> DEFINE k == Upto(used, i)
               c == CHOOSE j \in used : Upto(used, j) = k
    <2> HIDE DEF used
    <2>1. k \in 1..N
      BY <1>1, UptoIn
    <2>2. c \in used /\ Upto(used, c) = Upto(used, i)
      OBVIOUS
    <2> HIDE DEF c
    <2>3. c = i
      BY <1>1, <2>2, UptoOnce
    <2>4. out.strings[k] = block.strings[c]
      <3> HIDE DEF k
      <3> QED
        BY <1>2, <2>1 DEF c
    <2> QED
      BY <2>1, <2>3, <2>4
  <1>4. \A e \in ElementsIn(block.groups) : e \in DOMAIN block.words
    BY DEF Worded
  <1>5. DOMAIN out.words = DOMAIN block.words /\ DOMAIN out.strings = 1..N
    BY <1>2
  <1>6. \A e \in ElementsIn(block.groups) :
          /\ DOMAIN out.words[e] = DOMAIN block.words[e]
          /\ \A k \in DOMAIN block.words[e] : out.words[e][k] = Upto(used, block.words[e][k])
    <2> HIDE DEF out, used
    <2> QED
      BY <1>2, <1>4
  <1>7. out.groups = block.groups
    BY <1>2
  <1> HIDE DEF out, used, N
  <1>8. /\ out.groups = block.groups
        /\ DOMAIN out.words = DOMAIN block.words
        /\ \A e \in ElementsIn(block.groups) :
             /\ DOMAIN out.words[e] = DOMAIN block.words[e]
             /\ \A k \in DOMAIN block.words[e] : out.words[e][k] = Upto(used, block.words[e][k])
        /\ DOMAIN out.strings = 1..N
        /\ \A i \in used : Upto(used, i) \in 1..N /\ out.strings[Upto(used, i)] = block.strings[i]
    BY <1>3, <1>5, <1>6, <1>7
  <1> QED
    BY <1>8 DEF out, used, N

\* What is compacted says the same, and has no string that nothing uses.
LEMMA CompactText ==
    ASSUME NEW block, Worded(block), NEW e \in ElementsIn(block.groups)
    PROVE  TextIn(compact_string_table(block), e) = TextIn(block, e)
  <1> DEFINE out == compact_string_table(block)
             used == UsedStrings(block)
  <1>1. /\ DOMAIN out.words[e] = DOMAIN block.words[e]
        /\ \A k \in DOMAIN block.words[e] : out.words[e][k] = Upto(used, block.words[e][k])
        /\ \A i \in used : out.strings[Upto(used, i)] = block.strings[i]
    BY CompactIs
  <1>2. \A k \in DOMAIN block.words[e] : block.words[e][k] \in used
    BY UsedArePlaces
  <1> HIDE DEF out, used
  <1>3. TextIn(out, e) = TextIn(block, e)
    BY <1>1, <1>2 DEF TextIn
  <1> QED
    BY <1>3 DEF out

LEMMA CompactUses ==
    ASSUME NEW block, Worded(block)
    PROVE  UsedStrings(compact_string_table(block)) = DOMAIN compact_string_table(block).strings
  <1> DEFINE out == compact_string_table(block)
             used == UsedStrings(block)
             N == Cardinality(used)
  <1>1. /\ out.groups = block.groups
        /\ \A e \in ElementsIn(block.groups) :
             /\ DOMAIN out.words[e] = DOMAIN block.words[e]
             /\ \A k \in DOMAIN block.words[e] : out.words[e][k] = Upto(used, block.words[e][k])
        /\ DOMAIN out.strings = 1..N
    BY CompactIs
  <1>2. Places(used) /\ 1 \in used
    BY UsedArePlaces
  <1>3. used = {1} \cup UNION {{block.words[e][k] : k \in DOMAIN block.words[e]} : e \in ElementsIn(block.groups)}
    BY DEF UsedStrings
  <1>4. UsedStrings(out) = {1} \cup UNION {{out.words[e][k] : k \in DOMAIN out.words[e]} : e \in ElementsIn(out.groups)}
    BY DEF UsedStrings
  <1> HIDE DEF out, used
  <1>5. Upto(used, 1) = 1
    <2>1. {j \in used : j <= 1} = {1}
      <3>1. PICK n \in Nat : used \in SUBSET (1..n)
        BY <1>2 DEF Places
      <3>2. \A j \in used : j \in Nat /\ 1 <= j
        BY <3>1
      <3>3. \A j \in used : j <= 1 <=> j = 1
        BY <3>2
      <3> QED
        BY <1>2, <3>3
    <2> QED
      BY <2>1, FS_Singleton DEF Upto
  <1>6. UsedStrings(out) = {Upto(used, i) : i \in used}
    <2>1. \A e \in ElementsIn(block.groups) :
             {out.words[e][k] : k \in DOMAIN out.words[e]} = {Upto(used, block.words[e][k]) : k \in DOMAIN block.words[e]}
      BY <1>1
    <2>2. UsedStrings(out) = {1} \cup UNION {{Upto(used, block.words[e][k]) : k \in DOMAIN block.words[e]} : e \in ElementsIn(block.groups)}
      BY <1>1, <1>4, <2>1
    <2>3. ASSUME NEW y PROVE y \in UsedStrings(out) <=> \E i \in used : y = Upto(used, i)
      <3>1. y \in UsedStrings(out) <=> (y = 1 \/ \E e \in ElementsIn(block.groups) : \E k \in DOMAIN block.words[e] : y = Upto(used, block.words[e][k]))
        BY <2>2
      <3>2. \A i : i \in used <=> (i = 1 \/ \E e \in ElementsIn(block.groups) : \E k \in DOMAIN block.words[e] : i = block.words[e][k])
        BY <1>3
      <3> QED
        BY <1>5, <3>1, <3>2
    <2> QED
      BY <2>3
  <1>7. {Upto(used, i) : i \in used} = 1..N
    <2>1. \A i \in used : Upto(used, i) \in 1..N
      BY <1>2, UptoIn
    <2>2. \A k \in 1..N : \E i \in used : Upto(used, i) = k
      BY <1>2, UptoAll
    <2> HIDE DEF N
    <2> QED
      BY <2>1, <2>2
  <1> QED
    BY <1>1, <1>6, <1>7 DEF out

-----------------------------------------------------------------------------
(***************************************************************************)
(* The source, and what a block that is copied or compacted says of it.    *)
(***************************************************************************)
LEMMA SourceFacts ==
    ASSUME crop \in Crops
    PROVE  /\ crop.source \in Seq(Block) /\ Len(crop.source) \in Nat /\ Blocks = 1..Len(crop.source)
           /\ \A b \in Blocks : crop.source[b] \in Block /\ crop.source[b].groups \in Seq(Group)
  <1>1. crop \in CropCall
    BY CropAssumption
  <1>2. crop.source \in Seq(Block)
    BY <1>1 DEF CropCall
  <1>3. \A b \in Blocks : crop.source[b] \in Block
    BY <1>2 DEF Blocks
  <1>4. \A b \in Blocks : crop.source[b].groups \in Seq(Group)
    BY <1>3 DEF Block
  <1> QED
    BY <1>2, <1>3, <1>4 DEF Blocks

LEMMA TextIsThere ==
    ASSUME crop \in Crops, NEW b \in Blocks, NEW e \in ElementsIn(crop.source[b].groups)
    PROVE  Text(e) = TextIn(crop.source[b], e)
  <1> DEFINE c == CHOOSE d \in Blocks : e \in ElementsIn(crop.source[d].groups)
  <1>1. c \in Blocks /\ e \in ElementsIn(crop.source[c].groups)
    OBVIOUS
  <1>2. \A d \in Blocks \ {b} : e \notin ElementsIn(crop.source[d].groups)
    BY SourceAssumption DEF Blocks
  <1>3. c = b
    <2> HIDE DEF c
    <2> QED
      BY <1>1, <1>2
  <1>4. Text(e) = [k \in DOMAIN crop.source[c].words[e] |-> crop.source[c].strings[crop.source[c].words[e][k]]]
    BY DEF Text
  <1> HIDE DEF c
  <1> QED
    BY <1>3, <1>4 DEF TextIn

LEMMA SourceWorded ==
    ASSUME crop \in Crops, NEW b \in Blocks, crop.source[b].legible
    PROVE  Worded(crop.source[b])
  <1> DEFINE block == crop.source[b]
  <1>1. block \in Block /\ block.groups \in Seq(Group)
    BY SourceFacts
  <1>2. block.strings \in Seq(Word) /\ block.words \in [Element -> Seq(Nat)]
    BY <1>1 DEF Block
  <1>3. ASSUME NEW e \in ElementsIn(block.groups)
        PROVE  e \in DOMAIN block.words /\ block.words[e] \in Seq(DOMAIN block.strings)
    <2>1. e \in Element
      <3>1. PICK kind \in Kind, x \in Id : e = <<kind, x>>
        <4> HIDE DEF block
        <4> QED
          BY <1>1, <1>3, ElementsInAre
      <3> QED
        BY <3>1 DEF Element
    <2>2. block.words[e] \in Seq(DOMAIN block.strings)
      BY SourceAssumption DEF Blocks
    <2> HIDE DEF block
    <2> QED
      BY <1>2, <2>1, <2>2
  <1>4. \E n \in Nat : DOMAIN block.strings = 1..n
    <2> HIDE DEF block
    <2>1. Len(block.strings) \in Nat /\ DOMAIN block.strings = 1..Len(block.strings)
      BY <1>2
    <2> QED
      BY <2>1
  <1> HIDE DEF block
  <1>5. Worded(block)
    BY <1>1, <1>3, <1>4 DEF Worded
  <1> QED
    BY <1>5 DEF block

\* What is copied of a block.
Copied(block, kept) ==
    LET groups == KeptGroups(block.groups, kept)
    IN  Written(groups, block.strings, [e \in ElementsIn(groups) |-> block.words[e]])

LEMMA CopiedText ==
    ASSUME NEW block, Worded(block), NEW kept
    PROVE  /\ Worded(Copied(block, kept))
           /\ \A e \in ElementsIn(Copied(block, kept).groups) :
                /\ e \in ElementsIn(block.groups)
                /\ TextIn(Copied(block, kept), e) = TextIn(block, e)
  <1> DEFINE groups == KeptGroups(block.groups, kept)
             out == Copied(block, kept)
  <1>1. /\ block.groups \in Seq(Group)
        /\ \A e \in ElementsIn(block.groups) :
             e \in DOMAIN block.words /\ block.words[e] \in Seq(DOMAIN block.strings)
        /\ \E n \in Nat : DOMAIN block.strings = 1..n
    BY DEF Worded
  <1>2. groups \in Seq(Group)
    BY <1>1, KeptGroupsIn
  <1>3. \A e \in ElementsIn(groups) : e \in ElementsIn(block.groups)
    BY <1>1, KeptGroupsElements
  <1>4. /\ out.groups = groups /\ out.strings = block.strings
        /\ out.words = [e \in ElementsIn(groups) |-> block.words[e]]
    BY DEF Copied, Written
  <1> HIDE DEF out, groups
  <1>5. Worded(out)
    BY <1>1, <1>2, <1>3, <1>4 DEF Worded
  <1>6. \A e \in ElementsIn(out.groups) : TextIn(out, e) = TextIn(block, e)
    <2> TAKE e \in ElementsIn(out.groups)
    <2>1. out.words[e] = block.words[e]
      BY <1>4
    <2> QED
      BY <1>4, <2>1 DEF TextIn
  <1> QED
    BY <1>3, <1>4, <1>5, <1>6 DEF out

LEMMA BlockIs ==
    ASSUME NEW block, block.groups \in Seq(Group), NEW kept
    PROVE  build_output_block(block, kept) =
             IF KeptGroups(block.groups, kept) = <<>> THEN Nothing
             ELSE IF crop.compact THEN compact_string_table(Copied(block, kept)) ELSE Copied(block, kept)
  <1>1. KeptGroups(block.groups, kept) \in Seq(Group)
    BY KeptGroupsIn
  <1> QED
    BY <1>1 DEF build_output_block, Copied

LEMMA BlockSays ==
    ASSUME crop \in Crops, NEW b \in Blocks, crop.source[b].legible
    PROVE  /\ \A e \in ElementsIn(BlockOf(b).groups) : TextIn(BlockOf(b), e) = Text(e)
           /\ crop.compact /\ BlockOf(b).groups # <<>> =>
                UsedStrings(BlockOf(b)) = DOMAIN BlockOf(b).strings
  <1> DEFINE block == crop.source[b]
             out == BlockOf(b)
             copy == Copied(block, TheCrop)
             none == KeptGroups(block.groups, TheCrop) = <<>>
  <1>1. Worded(block) /\ block.groups \in Seq(Group)
    BY SourceWorded, SourceFacts
  <1>2. out = IF none THEN Nothing ELSE IF crop.compact THEN compact_string_table(copy) ELSE copy
    BY <1>1, BlockIs DEF BlockOf
  <1>3. \A e \in ElementsIn(block.groups) : Text(e) = TextIn(block, e)
    BY TextIsThere
  <1>4. /\ Worded(copy)
        /\ \A e \in ElementsIn(copy.groups) : e \in ElementsIn(block.groups) /\ TextIn(copy, e) = TextIn(block, e)
    BY <1>1, CopiedText
  <1> HIDE DEF block, out, copy, none
  <1>5. compact_string_table(copy).groups = copy.groups
    BY <1>4, CompactIs
  <1>6. \A e \in ElementsIn(copy.groups) : TextIn(compact_string_table(copy), e) = TextIn(copy, e)
    BY <1>4, CompactText
  <1>7. UsedStrings(compact_string_table(copy)) = DOMAIN compact_string_table(copy).strings
    BY <1>4, CompactUses
  <1>8. Nothing.groups = <<>> /\ ElementsIn(<<>>) = {}
    BY DEF Nothing, Written, ElementsIn
  <1>9. \A e \in ElementsIn(out.groups) : TextIn(out, e) = Text(e)
    BY <1>2, <1>3, <1>4, <1>5, <1>6, <1>8
  <1>10. crop.compact /\ out.groups # <<>> => UsedStrings(out) = DOMAIN out.strings
    BY <1>2, <1>7, <1>8
  <1> QED
    BY <1>9, <1>10 DEF out

-----------------------------------------------------------------------------
(***************************************************************************)
(* The string table of a block that repack makes.                          *)
(***************************************************************************)
FirstUses(all) == {i \in DOMAIN all : all[i] # Blank /\ \A j \in 1..i - 1 : all[j] # all[i]}

LEMMA FirstUsesAre ==
    ASSUME NEW W, NEW all \in Seq(W)
    PROVE  /\ Places(FirstUses(all)) /\ FirstUses(all) \subseteq DOMAIN all
           /\ \A i, j \in FirstUses(all) : all[i] = all[j] => i = j
           /\ \A s \in Range(all) : s # Blank => \E i \in FirstUses(all) : all[i] = s
  <1> DEFINE n == Len(all)
             F == FirstUses(all)
  <1>1. n \in Nat /\ DOMAIN all = 1..n
    OBVIOUS
  <1>2. F \subseteq 1..n
    BY <1>1 DEF FirstUses
  <1>3. ASSUME NEW i \in F, NEW j \in F, all[i] = all[j] PROVE i = j
    <2>1. i \in Nat /\ j \in Nat /\ 1 <= i /\ 1 <= j
      BY <1>1, <1>2
    <2>2. CASE i < j
      <3>1. i \in 1..j - 1
        BY <2>1, <2>2
      <3> QED
        BY <1>3, <3>1 DEF FirstUses
    <2>3. CASE j < i
      <3>1. j \in 1..i - 1
        BY <2>1, <2>3
      <3> QED
        BY <1>3, <3>1 DEF FirstUses
    <2> QED
      BY <2>1, <2>2, <2>3
  <1>4. ASSUME NEW s \in Range(all), s # Blank PROVE \E i \in F : all[i] = s
    <2> DEFINE T == {i \in 1..n : all[i] = s}
    <2>1. T \in SUBSET Nat /\ T # {}
      BY <1>1 DEF Range
    <2>2. PICK i \in T : \A m \in T : i <= m
      <3> HIDE DEF T
      <3> QED
        BY <2>1, LeastNat
    <2>3. \A j \in 1..i - 1 : all[j] # s
      <3> SUFFICES ASSUME NEW j \in 1..i - 1, all[j] = s PROVE FALSE
        OBVIOUS
      <3>1. i \in 1..n
        OBVIOUS
      <3>2. j \in 1..n /\ ~ (i <= j)
        BY <1>1, <3>1
      <3>3. j \in T
        BY <3>2
      <3> QED
        BY <2>2, <3>2, <3>3
    <2>4. i \in F
      BY <1>1, <1>4, <2>3 DEF FirstUses
    <2> QED
      BY <2>4
  <1>5. Places(F)
    BY <1>1, <1>2 DEF Places
  <1> QED
    BY <1>1, <1>2, <1>3, <1>4, <1>5

\* Every string has one place in the table.
LEMMA InternIs ==
    ASSUME NEW W, NEW texts, NEW all, all = FlattenSeq(texts), all \in Seq(W)
    PROVE  LET table == intern(texts)
               N == Cardinality(FirstUses(all))
           IN  /\ N \in Nat /\ DOMAIN table = 1..N + 1 /\ table[1] = Blank
               /\ \A s \in Range(all) : \E i \in DOMAIN table : table[i] = s
               /\ \A i \in DOMAIN table : i # 1 => table[i] \in Range(all)
               /\ \A i, j \in DOMAIN table : table[i] = table[j] => i = j
  <1> DEFINE table == intern(texts)
             F == FirstUses(all)
             N == Cardinality(F)
             at(k) == CHOOSE i \in F : Upto(F, i) = k
             rest == [k \in 1..N |-> all[at(k)]]
             WB == W \cup {Blank}
  <1>1. /\ Places(F) /\ F \subseteq DOMAIN all
        /\ \A i, j \in F : all[i] = all[j] => i = j
        /\ \A s \in Range(all) : s # Blank => \E i \in F : all[i] = s
    BY FirstUsesAre
  <1>2. table = <<Blank>> \o rest
    BY DEF intern, FirstUses, Upto
  <1>3. N \in Nat
    <2>1. PICK n \in Nat : F \in SUBSET (1..n)
      BY <1>1 DEF Places
    <2>2. IsFiniteSet(1..n)
      BY FS_Interval
    <2> HIDE DEF F
    <2> QED
      BY <2>1, <2>2, FS_Subset, FS_CardinalityType
  <1>4. \A i \in F : all[i] # Blank /\ all[i] \in W /\ i \in DOMAIN all
    BY DEF FirstUses
  <1> HIDE DEF F, table, N
  <1>5. ASSUME NEW k \in 1..N PROVE at(k) \in F /\ Upto(F, at(k)) = k
    <2>1. \E i \in F : Upto(F, i) = k
      BY <1>1, UptoAll DEF N
    <2> QED
      BY <2>1
  <1>6. \A i \in F : Upto(F, i) \in 1..N /\ at(Upto(F, i)) = i
    <2> TAKE i \in F
    <2>1. Upto(F, i) \in 1..N
      BY <1>1, UptoIn DEF N
    <2>2. at(Upto(F, i)) \in F /\ Upto(F, at(Upto(F, i))) = Upto(F, i)
      BY <1>5, <2>1
    <2> HIDE DEF at
    <2> QED
      BY <1>1, <2>1, <2>2, UptoOnce
  <1> HIDE DEF at
  <1>7. /\ rest \in Seq(WB) /\ Len(rest) = N
        /\ \A k \in 1..N : rest[k] = all[at(k)]
    <2>1. \A k \in 1..N : all[at(k)] \in WB
      BY <1>4, <1>5
    <2> QED
      BY <1>3, <2>1
  <1> HIDE DEF rest
  <1>8. /\ Len(table) = N + 1 /\ DOMAIN table = 1..N + 1 /\ table[1] = Blank
        /\ \A k \in 1..N : table[k + 1] = all[at(k)]
    <2>1. Blank \in WB
      OBVIOUS
    <2> HIDE DEF WB
    <2> QED
      BY <1>2, <1>3, <1>7, <2>1, PrependFacts
  <1>9. \A i \in DOMAIN table : i # 1 => i - 1 \in 1..N /\ table[i] = all[at(i - 1)] /\ at(i - 1) \in F
    <2> TAKE i \in DOMAIN table
    <2> HAVE i # 1
    <2>1. i - 1 \in 1..N /\ i = (i - 1) + 1
      BY <1>3, <1>8
    <2> QED
      BY <1>5, <1>8, <2>1
  <1>10. ASSUME NEW s \in Range(all) PROVE \E i \in DOMAIN table : table[i] = s
    <2>1. CASE s = Blank
      BY <1>3, <1>8, <2>1
    <2>2. CASE s # Blank
      <3>1. PICK i \in F : all[i] = s
        BY <1>1, <2>2
      <3>2. Upto(F, i) \in 1..N /\ table[Upto(F, i) + 1] = s
        BY <1>6, <1>8, <3>1
      <3>3. Upto(F, i) + 1 \in DOMAIN table
        BY <1>3, <1>8, <3>2
      <3> QED
        BY <3>2, <3>3
    <2> QED
      BY <2>1, <2>2
  <1>11. \A i \in DOMAIN table : i # 1 => table[i] \in Range(all) /\ table[i] # Blank
    BY <1>4, <1>9 DEF Range
  <1>12. ASSUME NEW i \in DOMAIN table, NEW j \in DOMAIN table, table[i] = table[j] PROVE i = j
    <2>1. (i # 1 /\ j # 1) \/ i = j
      BY <1>8, <1>11, <1>12
    <2>2. CASE i # 1 /\ j # 1
      <3>1. at(i - 1) = at(j - 1)
        BY <1>1, <1>9, <1>12, <2>2
      <3>2. i - 1 = j - 1
        BY <1>5, <1>9, <2>2, <3>1
      <3> QED
        BY <1>3, <1>8, <3>2
    <2> QED
      BY <2>1, <2>2
  <1>13. /\ N \in Nat /\ DOMAIN table = 1..N + 1 /\ table[1] = Blank
         /\ \A s \in Range(all) : \E i \in DOMAIN table : table[i] = s
         /\ \A i \in DOMAIN table : i # 1 => table[i] \in Range(all)
         /\ \A i, j \in DOMAIN table : table[i] = table[j] => i = j
    BY <1>3, <1>8, <1>10, <1>11, <1>12
  <1> QED
    BY <1>13 DEF table, N, F

LEMMA EmitSays ==
    ASSUME NEW g \in Group, \A k \in DOMAIN g.ids : Text(<<g.kind, g.ids[k]>>) \in Seq(Word)
    PROVE  /\ emit_repack_block(g).groups = <<g>>
           /\ \A e \in ElementsIn(<<g>>) : TextIn(emit_repack_block(g), e) = Text(e)
           /\ UsedStrings(emit_repack_block(g)) = DOMAIN emit_repack_block(g).strings
  <1> DEFINE texts == [k \in DOMAIN g.ids |-> Text(<<g.kind, g.ids[k]>>)]
             all == FlattenSeq(texts)
             table == intern(texts)
             index(s) == CHOOSE i \in DOMAIN table : table[i] = s
             els == ElementsIn(<<g>>)
             out == emit_repack_block(g)
  <1>1. g.ids \in Seq(Id)
    BY DEF Group
  <1>2. texts \in Seq(Seq(Word)) /\ DOMAIN texts = DOMAIN g.ids
    <2>1. \A k \in DOMAIN g.ids : texts[k] \in Seq(Word)
      OBVIOUS
    <2>2. DOMAIN g.ids = 1..Len(g.ids) /\ Len(g.ids) \in Nat /\ DOMAIN texts = DOMAIN g.ids
      BY <1>1
    <2>3. texts = [k \in 1..Len(g.ids) |-> texts[k]]
      BY <2>2
    <2> HIDE DEF texts
    <2> QED
      BY <2>1, <2>2, <2>3, MakeSeq
  <1>3. all \in Seq(Word) /\ Range(all) = UNION {Range(texts[i]) : i \in DOMAIN texts}
    <2> HIDE DEF texts
    <2> QED
      BY <1>2, FlattenElements
  <1>4. /\ \A s \in Range(all) : \E i \in DOMAIN table : table[i] = s
        /\ \A i \in DOMAIN table : i # 1 => table[i] \in Range(all)
        /\ \A i, j \in DOMAIN table : table[i] = table[j] => i = j
        /\ 1 \in DOMAIN table
    <2> HIDE DEF texts
    <2>1. /\ Cardinality(FirstUses(all)) \in Nat /\ DOMAIN table = 1..Cardinality(FirstUses(all)) + 1
          /\ \A s \in Range(all) : \E i \in DOMAIN table : table[i] = s
          /\ \A i \in DOMAIN table : i # 1 => table[i] \in Range(all)
          /\ \A i, j \in DOMAIN table : table[i] = table[j] => i = j
      BY <1>3, InternIs
    <2> QED
      BY <2>1
  <1>5. /\ out.groups = <<g>> /\ out.strings = table
        /\ out.words = [e \in els |-> [k \in DOMAIN Text(e) |-> index(Text(e)[k])]]
    BY DEF emit_repack_block, Written
  <1>6. \A e : e \in els <=> \E k \in DOMAIN g.ids : e = <<g.kind, g.ids[k]>>
    BY DEF ElementsIn
  <1>7. ASSUME NEW e \in els, NEW k \in DOMAIN Text(e)
        PROVE  Text(e)[k] \in Range(all)
    <2>1. PICK i \in DOMAIN g.ids : e = <<g.kind, g.ids[i]>>
      BY <1>6
    <2>2. texts[i] = Text(e) /\ i \in DOMAIN texts
      BY <2>1
    <2>3. Text(e)[k] \in Range(texts[i])
      BY <2>2 DEF Range
    <2> HIDE DEF texts, all
    <2> QED
      BY <1>3, <2>2, <2>3
  <1>8. ASSUME NEW s \in Range(all) PROVE \E e \in els : \E k \in DOMAIN Text(e) : s = Text(e)[k]
    <2>1. PICK i \in DOMAIN texts : s \in Range(texts[i])
      <3> HIDE DEF texts, all
      <3> QED
        BY <1>3
    <2>2. PICK e : e = <<g.kind, g.ids[i]>>
      OBVIOUS
    <2>3. e \in els /\ texts[i] = Text(e)
      BY <1>6, <2>2
    <2> HIDE DEF texts, all, els
    <2> QED
      BY <2>1, <2>3 DEF Range
  <1> HIDE DEF texts, all, table, els, out
  <1>9. \A s \in Range(all) : index(s) \in DOMAIN table /\ table[index(s)] = s
    BY <1>4
  <1> HIDE DEF index
  <1>10. \A e \in els : TextIn(out, e) = Text(e)
    <2> TAKE e \in els
    <2>1. out.words[e] = [k \in DOMAIN Text(e) |-> index(Text(e)[k])]
      BY <1>5
    <2>2. TextIn(out, e) = [k \in DOMAIN Text(e) |-> Text(e)[k]]
      BY <1>5, <1>7, <1>9, <2>1 DEF TextIn
    <2>3. PICK i \in DOMAIN g.ids : e = <<g.kind, g.ids[i]>>
      BY <1>6
    <2>4. Text(e) \in Seq(Word)
      BY <2>3
    <2>5. Text(e) = [k \in DOMAIN Text(e) |-> Text(e)[k]]
      BY <2>4
    <2> QED
      BY <2>2, <2>5
  <1>11. UsedStrings(out) = DOMAIN table
    <2>1. \A y : y \in UsedStrings(out) <=> y = 1 \/ \E e \in els : \E k \in DOMAIN Text(e) : y = index(Text(e)[k])
      <3>1. UsedStrings(out) = {1} \cup UNION {{out.words[e][k] : k \in DOMAIN out.words[e]} : e \in els}
        BY <1>5 DEF UsedStrings, els
      <3>2. \A e \in els : out.words[e] = [k \in DOMAIN Text(e) |-> index(Text(e)[k])]
        BY <1>5
      <3>3. \A e \in els : {out.words[e][k] : k \in DOMAIN out.words[e]} = {index(Text(e)[k]) : k \in DOMAIN Text(e)}
        BY <3>2
      <3>4. \A e \in els : \A y : y \in {out.words[e][k] : k \in DOMAIN out.words[e]} <=>
                \E k \in DOMAIN Text(e) : y = index(Text(e)[k])
        BY <3>3
      <3> TAKE y
      <3>5. y \in UsedStrings(out) <=> y = 1 \/ \E e \in els : y \in {out.words[e][k] : k \in DOMAIN out.words[e]}
        BY <3>1
      <3> DEFINE In(e) == y \in {out.words[e][k] : k \in DOMAIN out.words[e]}
                 Has(e) == \E k \in DOMAIN Text(e) : y = index(Text(e)[k])
      <3>6. \A e \in els : In(e) <=> Has(e)
        BY <3>4
      <3>7. y \in UsedStrings(out) <=> y = 1 \/ \E e \in els : In(e)
        BY <3>5
      <3>8. y \in UsedStrings(out) <=> y = 1 \/ \E e \in els : Has(e)
        <4> HIDE DEF In, Has
        <4> QED
          BY <3>6, <3>7
      <3> QED
        BY <3>8
    <2>2. ASSUME NEW y \in UsedStrings(out) PROVE y \in DOMAIN table
      BY <1>4, <1>7, <1>9, <2>1
    <2>3. ASSUME NEW y \in DOMAIN table, y # 1 PROVE y \in UsedStrings(out)
      <3>1. table[y] \in Range(all)
        BY <1>4, <2>3
      <3>2. index(table[y]) = y
        BY <1>4, <1>9, <3>1
      <3>3. PICK e \in els : \E k \in DOMAIN Text(e) : table[y] = Text(e)[k]
        BY <1>8, <3>1
      <3> QED
        BY <2>1, <3>2, <3>3
    <2> QED
      BY <2>1, <2>2, <2>3
  <1> QED
    BY <1>5, <1>10, <1>11 DEF out, els

-----------------------------------------------------------------------------
(***************************************************************************)
(* Full blocks and what remains.                                           *)
(***************************************************************************)
\* Blocks of a kind, of the lists they have.
PartsOf(ids) == [j \in 1..Len(ids) \div MaxGroup |-> SubSeq(ids, (j - 1) * MaxGroup + 1, j * MaxGroup)]

LEMMA PartsAddUp ==
    ASSUME NEW ids \in Seq(Id)
    PROVE  /\ PartsOf(ids) \in Seq(Seq(Id)) /\ DOMAIN PartsOf(ids) = 1..Len(ids) \div MaxGroup
           /\ \A j \in DOMAIN PartsOf(ids) : Len(PartsOf(ids)[j]) = MaxGroup
           /\ Remainder(ids) \in Seq(Id)
           /\ FlattenSeq(PartsOf(ids)) \o Remainder(ids) = ids
  <1> DEFINE n == Len(ids)
             M == MaxGroup
             q == n \div M
             parts == PartsOf(ids)
             g == [j \in 0..q |-> SubSeq(ids, 1, j * M)]
  <1>1. n \in Nat /\ M \in Nat \ {0} /\ \A i \in 1..n : ids[i] \in Id
    BY RepackAssumption
  <1>2. /\ q \in Nat /\ q * M \in 0..n
        /\ \A j \in 0..q : j * M \in 0..n
        /\ \A j \in 1..q : (j - 1) * M \in 0..n /\ j * M = (j - 1) * M + M
    <2> HIDE DEF n, M
    <2> QED
      BY <1>1, SomeTimes
  <1>3. parts = [j \in 1..q |-> SubSeq(ids, (j - 1) * M + 1, j * M)]
    BY DEF PartsOf
  <1> HIDE DEF parts, q
  <1>4. ASSUME NEW j \in 1..q
        PROVE  parts[j] \in Seq(Id) /\ Len(parts[j]) = M /\ SubSeq(ids, 1, (j - 1) * M) \o parts[j] = SubSeq(ids, 1, j * M)
    <2> DEFINE a == (j - 1) * M
               b == j * M
    <2>1. a \in 0..n /\ b \in 0..n /\ b = a + M /\ j \in 0..q
      <3>1. j \in 0..q
        BY <1>2
      <3> QED
        BY <1>2, <3>1
    <2>2. parts[j] = SubSeq(ids, a + 1, b)
      BY <1>3
    <2> HIDE DEF a, b
    <2>3. \A i \in a + 1..b : ids[i] \in Id
      BY <1>1, <2>1
    <2>4. a + 1 \in Int /\ b \in Int /\ a + 1 <= b /\ b - (a + 1) + 1 = M
      BY <1>1, <2>1
    <2>5. SubSeq(ids, a + 1, b) \in Seq(Id) /\ Len(SubSeq(ids, a + 1, b)) = M
      BY <2>3, <2>4, SubSeqProperties
    <2>6. 1 \in 1..n + 1 /\ a \in 1 - 1..n /\ b \in a..n
      BY <1>1, <2>1
    <2>7. SubSeq(ids, 1, a) \o SubSeq(ids, a + 1, b) = SubSeq(ids, 1, b)
      BY <2>6, ConcatAdjacentSubSeq
    <2> QED
      BY <2>2, <2>5, <2>7 DEF a, b
  <1>5. parts \in Seq(Seq(Id)) /\ DOMAIN parts = 1..q /\ Len(parts) = q
    <2>1. DOMAIN parts = 1..q /\ parts = [j \in 1..q |-> parts[j]]
      BY <1>3
    <2>2. parts \in Seq(Seq(Id))
      BY <1>2, <1>4, <2>1, MakeSeq
    <2>3. Len(parts) \in Nat /\ DOMAIN parts = 1..Len(parts)
      BY <2>2
    <2>4. Len(parts) = q
      BY <1>2, <2>1, <2>3
    <2> QED
      BY <2>1, <2>2, <2>4
  <1>6. AddsUp(g, parts)
    <2>1. DOMAIN g = 0..Len(parts)
      BY <1>5
    <2>2. g[0] = <<>>
      <3>1. 0 \in 0..q /\ 0 * M = 0
        BY <1>1, <1>2
      <3>2. SubSeq(ids, 1, 0) = <<>>
        BY SubSeqEmpty
      <3> QED
        BY <3>1, <3>2
    <2>3. ASSUME NEW j \in 1..q PROVE g[j] = g[j - 1] \o parts[j]
      <3>1. j \in 0..q /\ j - 1 \in 0..q
        BY <1>2
      <3>2. g[j] = SubSeq(ids, 1, j * M) /\ g[j - 1] = SubSeq(ids, 1, (j - 1) * M)
        BY <3>1
      <3> HIDE DEF g
      <3> QED
        BY <1>4, <3>2
    <2> HIDE DEF g
    <2> QED
      BY <1>5, <2>1, <2>2, <2>3 DEF AddsUp
  <1>7. FlattenSeq(parts) = SubSeq(ids, 1, q * M)
    <2>1. g[q] = SubSeq(ids, 1, q * M)
      BY <1>2
    <2>2. \A i \in 1..Len(parts) : <<>> \o parts[i] = parts[i]
      <3> TAKE i \in 1..Len(parts)
      <3>1. parts[i] \in Seq(Id)
        BY <1>4, <1>5
      <3> QED
        BY <3>1
    <2>3. Len(parts) \in Nat /\ (Len(parts) = 0 => parts = <<>>)
      BY <1>5
    <2> HIDE DEF g
    <2>4. FlattenSeq(parts) = g[Len(parts)]
      BY <1>6, <2>2, <2>3, FlattenIs
    <2> QED
      BY <1>5, <2>1, <2>4
  <1> DEFINE c == q * M
  <1>8. c \in 0..n /\ Remainder(ids) = SubSeq(ids, c + 1, n)
    BY <1>2 DEF Remainder, q
  <1> HIDE DEF c
  <1>9. Remainder(ids) \in Seq(Id)
    <2>1. \A i \in c + 1..n : ids[i] \in Id
      BY <1>1, <1>8
    <2>2. c + 1 \in Int /\ n \in Int
      BY <1>1, <1>8
    <2> QED
      BY <1>8, <2>1, <2>2, SubSeqProperties
  <1>10. SubSeq(ids, 1, c) \o SubSeq(ids, c + 1, n) = ids
    <2>1. 1 \in 1..n + 1 /\ c \in 1 - 1..n /\ n \in c..n
      BY <1>1, <1>8
    <2>2. SubSeq(ids, 1, c) \o SubSeq(ids, c + 1, n) = SubSeq(ids, 1, n)
      BY <2>1, ConcatAdjacentSubSeq
    <2> QED
      BY <2>2, SubSeqFull
  <1> QED
    BY <1>4, <1>5, <1>7, <1>8, <1>9, <1>10 DEF parts, c, q

LEMMA FullBlocksAre ==
    ASSUME NEW kind \in Kind, NEW ids \in Seq(Id)
    PROVE  /\ FullBlocks(kind, ids) \in Seq(Group) /\ Remainder(ids) \in Seq(Id)
           /\ \A j \in DOMAIN FullBlocks(kind, ids) :
                FullBlocks(kind, ids)[j].kind = kind /\ Len(FullBlocks(kind, ids)[j].ids) = MaxGroup
           /\ IdsOfKind(FullBlocks(kind, ids), kind) \o Remainder(ids) = ids
           /\ \A other : other # kind => IdsOfKind(FullBlocks(kind, ids), other) = <<>>
  <1> DEFINE parts == PartsOf(ids)
             out == FullBlocks(kind, ids)
             q == Len(ids) \div MaxGroup
  <1>1. /\ parts \in Seq(Seq(Id)) /\ DOMAIN parts = 1..q
        /\ \A j \in DOMAIN parts : Len(parts[j]) = MaxGroup
        /\ Remainder(ids) \in Seq(Id)
        /\ FlattenSeq(parts) \o Remainder(ids) = ids
    BY PartsAddUp
  <1>2. out = [j \in 1..q |-> [kind |-> kind, ids |-> parts[j]]]
    BY DEF FullBlocks, PartsOf, Packed
  <1>3. q \in Nat
    BY RepackAssumption
  <1> HIDE DEF parts, out, q
  <1>4. \A j \in 1..q : parts[j] \in Seq(Id)
    <2>1. parts \in Seq(Seq(Id))
      BY <1>1
    <2>2. \A j \in DOMAIN parts : parts[j] \in Seq(Id)
      BY <2>1
    <2> QED
      BY <1>1, <2>2
  <1>5. \A j \in 1..q : out[j] \in Group
    BY <1>2, <1>4 DEF Group
  <1>6. out \in Seq(Group) /\ DOMAIN out = 1..q
    <2>1. DOMAIN out = 1..q /\ out = [j \in 1..q |-> out[j]]
      BY <1>2
    <2> QED
      BY <1>3, <1>5, <2>1, MakeSeq
  <1>7. \A j \in DOMAIN out : out[j].kind = kind /\ out[j].ids = parts[j] /\ Len(out[j].ids) = MaxGroup
    BY <1>1, <1>2, <1>6
  <1>8. IdsOfKind(out, kind) = FlattenSeq(parts)
    <2>1. [i \in DOMAIN out |-> IF out[i].kind = kind THEN out[i].ids ELSE <<>>] = [i \in 1..q |-> parts[i]]
      BY <1>6, <1>7
    <2>2. parts = [i \in 1..q |-> parts[i]]
      BY <1>1
    <2> QED
      BY <2>1, <2>2 DEF IdsOfKind
  <1>9. ASSUME NEW other, other # kind PROVE IdsOfKind(out, other) = <<>>
    <2> DEFINE ss == [i \in DOMAIN out |-> IF out[i].kind = other THEN out[i].ids ELSE <<>>]
    <2>1. ss = [i \in 1..q |-> ss[i]] /\ \A i \in 1..q : ss[i] = <<>>
      BY <1>6, <1>7, <1>9
    <2>2. IdsOfKind(out, other) = FlattenSeq(ss)
      BY DEF IdsOfKind
    <2> HIDE DEF ss
    <2>3. \A i \in 1..q : ss[i] \in Seq(Id)
      <3>1. <<>> \in Seq(Id)
        OBVIOUS
      <3>2. \A i \in 1..q : ss[i] = <<>>
        BY <2>1
      <3> QED
        BY <3>1, <3>2
    <2>4. ss \in Seq(Seq(Id))
      BY <1>3, <2>1, <2>3, MakeSeq
    <2>5. DOMAIN ss = 1..Len(ss) /\ DOMAIN ss = 1..q
      <3>1. DOMAIN ss = 1..Len(ss)
        BY <2>4
      <3>2. DOMAIN ss = 1..q
        BY <2>1
      <3> QED
        BY <3>1, <3>2
    <2>6. \A i \in 1..Len(ss) : ss[i] = <<>>
      BY <2>1, <2>5
    <2> QED
      BY <2>2, <2>4, <2>6, FlattenNothing
  <1> QED
    BY <1>1, <1>6, <1>7, <1>8, <1>9 DEF out

-----------------------------------------------------------------------------
(***************************************************************************)
(* The writer: what it has made blocks of and what waits in it.            *)
(***************************************************************************)
Chunks == [ids : Seq(Id), schema : Schema]
WriterSet ==
    [node_chunks : Seq(Chunks), way_buf : Seq(Id), rel_buf : Seq(Id), out : Seq(Group),
     rejected : BOOLEAN]
Held(w, kind) ==
    IF kind = "node" THEN IdsOfChunks(w.node_chunks) ELSE IF kind = "way" THEN w.way_buf ELSE w.rel_buf
Total(w, kind) == IdsOfKind(w.out, kind) \o Held(w, kind)

\* Nothing is lost, or comes to another place, and added comes after all that is of its kind.
Adds(w, r, kind, added) ==
    /\ r \in WriterSet
    /\ \A k \in Kind : Total(r, k) = IF k = kind THEN Total(w, k) \o added ELSE Total(w, k)
Same(w, r) == r \in WriterSet /\ \A k \in Kind : Total(r, k) = Total(w, k)

\* Blocks are full but for the last of a kind, which is made when nothing waits and
\* nothing is left of the kind.
FullOf(w, kind) == \A b \in DOMAIN w.out : w.out[b].kind = kind => Len(w.out[b].ids) = MaxGroup
PairsFull(w) ==
    \A b, c \in DOMAIN w.out : b < c /\ w.out[b].kind = w.out[c].kind => Len(w.out[b].ids) = MaxGroup
Tidy(w, left) ==
    /\ PairsFull(w)
    /\ \A k \in Kind : FullOf(w, k) \/ (Held(w, k) = <<>> /\ k \notin left)

IdsField == [c \in Chunks |-> c.ids]
LEMMA IdsFieldIn == ToSeqs(IdsField, Chunks, Id)
  BY DEF ToSeqs, IdsField, Chunks

LEMMA IdsOfChunksIs ==
    ASSUME NEW chunks \in Seq(Chunks)
    PROVE  IdsOfChunks(chunks) = FlatEach(IdsField, chunks) /\ IdsOfChunks(chunks) \in Seq(Id)
  <1>1. [i \in DOMAIN chunks |-> chunks[i].ids] = Each(IdsField, chunks)
    BY DEF IdsField, Each
  <1>2. IdsOfChunks(chunks) = FlatEach(IdsField, chunks)
    BY <1>1 DEF IdsOfChunks, FlatEach
  <1> QED
    BY <1>2, IdsFieldIn, FlatEachIn

LEMMA NoChunks == IdsOfChunks(<<>>) = <<>>
  <1>1. <<>> \in Seq(Chunks)
    OBVIOUS
  <1> QED
    BY <1>1, IdsOfChunksIs, FlatEachEmpty

LEMMA ChunkAppended ==
    ASSUME NEW chunks \in Seq(Chunks), NEW c \in Chunks
    PROVE  IdsOfChunks(Append(chunks, c)) = IdsOfChunks(chunks) \o c.ids
  <1>1. Append(chunks, c) \in Seq(Chunks)
    OBVIOUS
  <1>2. IdsField[c] = c.ids
    BY DEF IdsField
  <1>3. FlatEach(IdsField, Append(chunks, c)) = FlatEach(IdsField, chunks) \o IdsField[c]
    BY IdsFieldIn, FlatEachAppend
  <1> QED
    BY <1>1, <1>2, <1>3, IdsOfChunksIs

LEMMA OneChunk ==
    ASSUME NEW c \in Chunks
    PROVE  IdsOfChunks(<<c>>) = c.ids
  <1>1. <<>> \in Seq(Chunks) /\ Append(<<>>, c) = <<c>>
    OBVIOUS
  <1>2. c.ids \in Seq(Id)
    BY DEF Chunks
  <1>3. <<>> \o c.ids = c.ids
    BY <1>2
  <1>4. IdsOfChunks(Append(<<>>, c)) = IdsOfChunks(<<>>) \o c.ids
    BY <1>1, ChunkAppended
  <1> QED
    BY <1>1, <1>3, <1>4, NoChunks

LEMMA HeldIn ==
    ASSUME NEW w \in WriterSet, NEW kind
    PROVE  Held(w, kind) \in Seq(Id) /\ w.out \in Seq(Group) /\ IdsOfKind(w.out, kind) \in Seq(Id)
           /\ Total(w, kind) \in Seq(Id)
  <1>1. /\ w.node_chunks \in Seq(Chunks) /\ w.way_buf \in Seq(Id) /\ w.rel_buf \in Seq(Id)
        /\ w.out \in Seq(Group)
    BY DEF WriterSet
  <1>2. Held(w, kind) \in Seq(Id)
    BY <1>1, IdsOfChunksIs DEF Held
  <1>3. IdsOfKind(w.out, kind) \in Seq(Id)
    BY <1>1, IdsOfKindIn
  <1> QED
    BY <1>1, <1>2, <1>3 DEF Total

LEMMA IdsAssociate == \A a, h, t \in Seq(Id) : a \o (h \o t) = (a \o h) \o t
  BY ConcatAssociates

\* One block of what waits.
LEMMA PutLast ==
    ASSUME NEW w \in WriterSet, NEW r \in WriterSet, NEW kind \in Kind,
           r.out = Append(w.out, Packed(kind, Held(w, kind))),
           Held(r, kind) = <<>>, \A k \in Kind : k # kind => Held(r, k) = Held(w, k)
    PROVE  /\ Same(w, r)
           /\ \A left : Tidy(w, left) /\ kind \notin left /\ Held(w, kind) # <<>> => Tidy(r, left)
  <1> DEFINE g == Packed(kind, Held(w, kind))
             n == Len(w.out)
  <1>1. g \in Group /\ g.kind = kind /\ g.ids = Held(w, kind)
    BY HeldIn DEF Packed, Group
  <1>2. w.out \in Seq(Group) /\ n \in Nat /\ DOMAIN w.out = 1..n
    BY HeldIn
  <1> HIDE DEF g
  <1>3. r.out = Append(w.out, g)
    BY DEF g
  <1>4. DOMAIN r.out = 1..n + 1 /\ (\A b \in 1..n : r.out[b] = w.out[b]) /\ r.out[n + 1] = g
    BY <1>1, <1>2, <1>3, AppendFacts
  <1> HIDE DEF n
  <1>5. ASSUME NEW k \in Kind PROVE Total(r, k) = Total(w, k)
    <2>1. IdsOfKind(r.out, k) = IdsOfKind(w.out, k) \o (IF kind = k THEN Held(w, kind) ELSE <<>>)
      <3>1. IdsOfKind(Append(w.out, g), k) = IdsOfKind(w.out, k) \o (IF g.kind = k THEN g.ids ELSE <<>>)
        BY <1>1, <1>2, IdsOfKindAppend
      <3> QED
        BY <1>1, <1>3, <3>1
    <2>2. IdsOfKind(w.out, k) \in Seq(Id) /\ Held(w, k) \in Seq(Id)
      BY HeldIn
    <2> DEFINE a == IdsOfKind(w.out, k)
               h == Held(w, k)
    <2>3. a \o <<>> = a /\ (a \o h) \o <<>> = a \o h
      <3> HIDE DEF a, h
      <3> QED
        BY <2>2 DEF a, h
    <2>4. CASE k = kind
      BY <2>1, <2>3, <2>4 DEF Total
    <2>5. CASE k # kind
      BY <2>1, <2>3, <2>5 DEF Total
    <2> QED
      BY <2>4, <2>5
  <1>6. ASSUME NEW left, Tidy(w, left), kind \notin left, Held(w, kind) # <<>> PROVE Tidy(r, left)
    <2>1. FullOf(w, kind)
      BY <1>6 DEF Tidy
    <2>2. \A b \in 1..n + 1 : b \in 1..n \/ b = n + 1
      BY <1>2
    <2>3. PairsFull(r)
      <3> SUFFICES ASSUME NEW b \in 1..n + 1, NEW c \in 1..n + 1, b < c, r.out[b].kind = r.out[c].kind
                   PROVE  Len(r.out[b].ids) = MaxGroup
        BY <1>4 DEF PairsFull
      <3>1. b \in 1..n
        BY <1>2
      <3>2. CASE c \in 1..n
        BY <1>2, <1>4, <1>6, <3>1, <3>2 DEF Tidy, PairsFull
      <3>3. CASE c = n + 1
        BY <1>1, <1>2, <1>4, <2>1, <3>1, <3>3 DEF FullOf
      <3> QED
        BY <2>2, <3>2, <3>3
    <2>4. ASSUME NEW k \in Kind, k # kind, FullOf(w, k) PROVE FullOf(r, k)
      BY <1>1, <1>2, <1>4, <2>2, <2>4 DEF FullOf
    <2>5. \A k \in Kind : FullOf(r, k) \/ (Held(r, k) = <<>> /\ k \notin left)
      BY <1>6, <2>4 DEF Tidy
    <2> QED
      BY <2>3, <2>5 DEF Tidy
  <1> QED
    BY <1>5, <1>6 DEF Same

\* The full blocks of what waits and what is added.
LEMMA PutFull ==
    ASSUME NEW w \in WriterSet, NEW r \in WriterSet, NEW kind \in Kind, NEW added \in Seq(Id),
           NEW ids, ids = Held(w, kind) \o added,
           r.out = w.out \o FullBlocks(kind, ids),
           Held(r, kind) = Remainder(ids), \A k \in Kind : k # kind => Held(r, k) = Held(w, k)
    PROVE  /\ Adds(w, r, kind, added)
           /\ \A left : Tidy(w, left) /\ kind \in left => Tidy(r, left)
  <1> DEFINE full == FullBlocks(kind, ids)
             n == Len(w.out)
             m == Len(full)
  <1>1. ids \in Seq(Id) /\ Held(w, kind) \in Seq(Id)
    BY HeldIn
  <1>2. /\ full \in Seq(Group) /\ Remainder(ids) \in Seq(Id)
        /\ \A j \in DOMAIN full : full[j].kind = kind /\ Len(full[j].ids) = MaxGroup
        /\ IdsOfKind(full, kind) \o Remainder(ids) = ids
        /\ \A other : other # kind => IdsOfKind(full, other) = <<>>
    <2> \A l \in Seq(Id) :
          /\ FullBlocks(kind, l) \in Seq(Group) /\ Remainder(l) \in Seq(Id)
          /\ \A j \in DOMAIN FullBlocks(kind, l) :
               FullBlocks(kind, l)[j].kind = kind /\ Len(FullBlocks(kind, l)[j].ids) = MaxGroup
          /\ IdsOfKind(FullBlocks(kind, l), kind) \o Remainder(l) = l
          /\ \A other : other # kind => IdsOfKind(FullBlocks(kind, l), other) = <<>>
      BY FullBlocksAre
    <2> QED
      BY <1>1, Zenon
  <1> HIDE DEF full
  <1>3. w.out \in Seq(Group) /\ n \in Nat /\ DOMAIN w.out = 1..n /\ m \in Nat /\ DOMAIN full = 1..m
        /\ r.out = w.out \o full
    BY <1>2, HeldIn DEF full
  <1>4. /\ DOMAIN r.out = 1..n + m /\ \A b \in 1..n : r.out[b] = w.out[b]
        /\ \A j \in 1..m : r.out[n + j] = full[j]
    <2>1. Len(w.out) = n /\ Len(full) = m
      OBVIOUS
    <2>2. /\ w.out \o full \in Seq(Group) /\ Len(w.out \o full) = n + m
          /\ \A p \in 1..n : (w.out \o full)[p] = w.out[p]
          /\ \A p \in 1..m : (w.out \o full)[n + p] = full[p]
      BY <1>2, <1>3, <2>1, ConcatIs
    <2>3. DOMAIN r.out = 1..Len(r.out)
      BY <1>3, <2>2
    <2> QED
      BY <1>3, <2>2, <2>3
  <1> HIDE DEF n, m
  <1>5. ASSUME NEW k \in Kind
        PROVE  Total(r, k) = IF k = kind THEN Total(w, k) \o added ELSE Total(w, k)
    <2> DEFINE a == IdsOfKind(w.out, k)
               h == Held(w, k)
               f == IdsOfKind(full, k)
               re == Remainder(ids)
    <2>1. IdsOfKind(r.out, k) = a \o f
      BY <1>2, <1>3, IdsOfKindConcat
    <2>2. a \in Seq(Id) /\ h \in Seq(Id) /\ f \in Seq(Id) /\ re \in Seq(Id)
      BY <1>2, HeldIn, IdsOfKindIn
    <2>3. CASE k = kind
      <3>1. f \o re = h \o added
        BY <1>2, <2>3, Zenon
      <3> HIDE DEF a, h, f, re
      <3>2. a \o (f \o re) = (a \o f) \o re
        BY <2>2, IdsAssociate, ZenonT(30)
      <3>3. a \o (h \o added) = (a \o h) \o added
        BY <2>2, IdsAssociate, ZenonT(30)
      <3>4. (a \o f) \o re = (a \o h) \o added
        BY <3>1, <3>2, <3>3, Zenon
      <3> QED
        BY <2>1, <2>3, <3>4 DEF Total, a, h, f, re
    <2>4. CASE k # kind
      <3>1. f = <<>>
        BY <1>2, <2>4
      <3>2. a \o <<>> = a
        <4> HIDE DEF a
        <4> QED
          BY <2>2
      <3> QED
        BY <2>1, <2>4, <3>1, <3>2 DEF Total
    <2> QED
      BY <2>3, <2>4
  <1>6. ASSUME NEW left, Tidy(w, left), kind \in left PROVE Tidy(r, left)
    <2>1. FullOf(w, kind)
      BY <1>6 DEF Tidy
    <2>2. ASSUME NEW b \in 1..n + m
          PROVE  \/ b \in 1..n /\ r.out[b] = w.out[b]
                 \/ b \notin 1..n /\ r.out[b].kind = kind /\ Len(r.out[b].ids) = MaxGroup
      <3>1. CASE b \in 1..n
        BY <1>4, <3>1
      <3>2. CASE b \notin 1..n
        <4>1. b - n \in 1..m /\ b = n + (b - n)
          BY <1>3, <3>2
        <4>2. r.out[b] = full[b - n]
          BY <1>4, <4>1
        <4>3. full[b - n].kind = kind /\ Len(full[b - n].ids) = MaxGroup
          BY <1>2, <1>3, <4>1
        <4> QED
          BY <3>2, <4>2, <4>3
      <3> QED
        BY <3>1, <3>2
    <2>3. PairsFull(r)
      <3> SUFFICES ASSUME NEW b \in 1..n + m, NEW c \in 1..n + m, b < c, r.out[b].kind = r.out[c].kind
                   PROVE  Len(r.out[b].ids) = MaxGroup
        BY <1>4 DEF PairsFull
      <3>1. CASE b \notin 1..n
        BY <2>2, <3>1
      <3>2. CASE b \in 1..n /\ c \in 1..n
        BY <1>3, <1>4, <1>6, <3>2 DEF Tidy, PairsFull
      <3>3. CASE b \in 1..n /\ c \notin 1..n
        BY <1>3, <1>4, <2>1, <2>2, <3>3 DEF FullOf
      <3> QED
        BY <3>1, <3>2, <3>3
    <2>4. ASSUME NEW k \in Kind, FullOf(w, k) PROVE FullOf(r, k)
      BY <1>3, <1>4, <2>2, <2>4 DEF FullOf
    <2>5. \A k \in Kind : FullOf(r, k) \/ (Held(r, k) = <<>> /\ k \notin left)
      BY <1>6, <2>1, <2>4 DEF Tidy
    <2> QED
      BY <2>3, <2>5 DEF Tidy
  <1> QED
    BY <1>5, <1>6 DEF Adds

-----------------------------------------------------------------------------
(***************************************************************************)
(* Each operation of the writer adds what it is given and keeps it tidy.   *)
(***************************************************************************)
LEMMA WriterFields ==
    ASSUME NEW w \in WriterSet
    PROVE  /\ w.node_chunks \in Seq(Chunks) /\ w.way_buf \in Seq(Id) /\ w.rel_buf \in Seq(Id)
           /\ w.out \in Seq(Group) /\ w.rejected \in BOOLEAN
           /\ Held(w, "node") = IdsOfChunks(w.node_chunks) /\ Held(w, "way") = w.way_buf
           /\ Held(w, "relation") = w.rel_buf
  BY DEF WriterSet, Held

LEMMA SameSteps ==
    ASSUME NEW w, NEW v, NEW r, NEW kind, NEW added, Same(w, v), Adds(v, r, kind, added)
    PROVE  Adds(w, r, kind, added)
  BY DEF Same, Adds

LEMMA SameTwice ==
    ASSUME NEW w, NEW v, NEW r, Same(w, v), Same(v, r)
    PROVE  Same(w, r)
  BY DEF Same

\* Flushed leaves nothing of its kind.
Flushed(w, r, kind) ==
    /\ Same(w, r) /\ ~w.rejected /\ ~r.rejected
    /\ Held(r, kind) = <<>>
    /\ \A k \in Kind : k # kind => Held(r, k) = Held(w, k)
    /\ \A left : Tidy(w, left) /\ kind \notin left => Tidy(r, left)

\* Nothing waited: nothing changes but what is there to wait in.
LEMMA NothingToFlush ==
    ASSUME NEW w \in WriterSet, NEW r \in WriterSet, NEW kind \in Kind, r.out = w.out,
           ~w.rejected, ~r.rejected, Held(w, kind) = <<>>, \A k \in Kind : Held(r, k) = Held(w, k)
    PROVE  Flushed(w, r, kind)
  <1>1. \A k \in Kind : Total(r, k) = Total(w, k)
    BY DEF Total
  <1>2. \A left : Tidy(w, left) => Tidy(r, left)
    BY DEF Tidy, PairsFull, FullOf
  <1> QED
    BY <1>1, <1>2 DEF Flushed, Same

LEMMA SomeToFlush ==
    ASSUME NEW w \in WriterSet, NEW r \in WriterSet, NEW kind \in Kind,
           r.out = Append(w.out, Packed(kind, Held(w, kind))),
           ~w.rejected, ~r.rejected, Held(w, kind) # <<>>,
           Held(r, kind) = <<>>, \A k \in Kind : k # kind => Held(r, k) = Held(w, k)
    PROVE  Flushed(w, r, kind)
  <1>1. /\ Same(w, r)
        /\ \A left : Tidy(w, left) /\ kind \notin left /\ Held(w, kind) # <<>> => Tidy(r, left)
    BY PutLast
  <1> QED
    BY <1>1 DEF Flushed

LEMMA FlushNodes ==
    ASSUME NEW w \in WriterSet, NEW r, r = flush_nodes(w), ~r.rejected
    PROVE  Flushed(w, r, "node")
  <1> DEFINE ids == IdsOfChunks(w.node_chunks)
  <1>1. /\ w.node_chunks \in Seq(Chunks) /\ w.way_buf \in Seq(Id) /\ w.rel_buf \in Seq(Id)
        /\ w.out \in Seq(Group) /\ w.rejected \in BOOLEAN /\ Held(w, "node") = ids
    BY WriterFields
  <1>2. "node" \in Kind /\ \A k \in Kind : k = "node" \/ k = "way" \/ k = "relation"
    BY DEF Kind
  <1>3. <<>> \in Seq(Chunks) /\ IdsOfChunks(<<>>) = <<>>
    BY NoChunks
  <1>4. CASE ids = <<>>
    <2>1. r = [w EXCEPT !.node_chunks = <<>>]
      BY <1>4 DEF flush_nodes
    <2>2. r \in WriterSet /\ r.out = w.out /\ ~w.rejected /\ r.node_chunks = <<>>
          /\ r.way_buf = w.way_buf /\ r.rel_buf = w.rel_buf
      BY <1>3, <2>1 DEF WriterSet
    <2>3. \A k \in Kind : Held(r, k) = Held(w, k)
      BY <1>2, <1>3, <1>4, <2>2 DEF Held
    <2> QED
      BY <1>1, <1>2, <1>4, <2>2, <2>3, NothingToFlush
  <1>5. CASE ids # <<>>
    <2>1. ~Mixed(w.node_chunks)
      BY <1>5 DEF flush_nodes, Reject, WriterSet
    <2>2. r = [w EXCEPT !.out = Append(@, Packed("node", ids)), !.node_chunks = <<>>]
      BY <1>5, <2>1 DEF flush_nodes
    <2>3. Packed("node", ids) \in Group
      BY <1>1, <1>2, IdsOfChunksIs DEF Packed, Group
    <2>4. Append(w.out, Packed("node", ids)) \in Seq(Group)
      BY <1>1, <2>3
    <2>5. r \in WriterSet /\ r.out = Append(w.out, Packed("node", ids)) /\ ~w.rejected
          /\ r.node_chunks = <<>> /\ r.way_buf = w.way_buf /\ r.rel_buf = w.rel_buf
      BY <1>3, <2>2, <2>4 DEF WriterSet
    <2>6. Held(r, "node") = <<>> /\ \A k \in Kind : k # "node" => Held(r, k) = Held(w, k)
      BY <1>3, <2>5 DEF Held
    <2> HIDE DEF ids
    <2> QED
      BY <1>1, <1>2, <1>5, <2>5, <2>6, SomeToFlush
  <1> QED
    BY <1>4, <1>5

LEMMA FlushWays ==
    ASSUME NEW w \in WriterSet, NEW r, r = flush_ways(w), ~r.rejected
    PROVE  Flushed(w, r, "way")
  <1>1. /\ w.node_chunks \in Seq(Chunks) /\ w.way_buf \in Seq(Id) /\ w.rel_buf \in Seq(Id)
        /\ w.out \in Seq(Group) /\ w.rejected \in BOOLEAN /\ Held(w, "way") = w.way_buf
    BY WriterFields
  <1>2. "way" \in Kind
    BY DEF Kind
  <1>3. CASE w.rejected \/ w.way_buf = <<>>
    <2>1. r = w /\ w.way_buf = <<>>
      BY <1>3 DEF flush_ways
    <2> QED
      BY <1>1, <1>2, <2>1, NothingToFlush
  <1>4. CASE ~(w.rejected \/ w.way_buf = <<>>)
    <2>1. r = [w EXCEPT !.out = Append(@, Packed("way", w.way_buf)), !.way_buf = <<>>]
      BY <1>4 DEF flush_ways
    <2>2. Packed("way", w.way_buf) \in Group /\ <<>> \in Seq(Id)
      BY <1>1, <1>2 DEF Packed, Group
    <2>3. Append(w.out, Packed("way", w.way_buf)) \in Seq(Group)
      BY <1>1, <2>2
    <2>4. r \in WriterSet /\ r.out = Append(w.out, Packed("way", w.way_buf)) /\ ~w.rejected
          /\ r.node_chunks = w.node_chunks /\ r.way_buf = <<>> /\ r.rel_buf = w.rel_buf
      BY <1>4, <2>1, <2>2, <2>3 DEF WriterSet
    <2>5. Held(r, "way") = <<>> /\ \A k \in Kind : k # "way" => Held(r, k) = Held(w, k)
      BY <2>4 DEF Held
    <2> QED
      BY <1>1, <1>2, <1>4, <2>4, <2>5, SomeToFlush
  <1> QED
    BY <1>3, <1>4

\* The nodes and the ways.
LEMMA FlushBoth ==
    ASSUME NEW w \in WriterSet, NEW r, r = flush_ways(flush_nodes(w)), ~r.rejected
    PROVE  /\ Same(w, r) /\ r \in WriterSet /\ ~w.rejected
           /\ Held(r, "node") = <<>> /\ Held(r, "way") = <<>> /\ Held(r, "relation") = Held(w, "relation")
           /\ \A left : Tidy(w, left) /\ "node" \notin left /\ "way" \notin left => Tidy(r, left)
  <1> DEFINE f == flush_nodes(w)
  <1>1. ~f.rejected
    <2>1. CASE f.rejected
      BY <2>1 DEF flush_ways
    <2> QED
      BY <2>1
  <1>2. Flushed(w, f, "node")
    BY <1>1, FlushNodes
  <1> HIDE DEF f
  <1>3. f \in WriterSet
    BY <1>2 DEF Flushed, Same
  <1>4. Flushed(f, r, "way")
    BY <1>3, FlushWays DEF f
  <1>5. Same(w, r) /\ r \in WriterSet
    BY <1>2, <1>4, SameTwice DEF Flushed, Same
  <1> QED
    BY <1>2, <1>4, <1>5 DEF Flushed, Kind

\* Added comes after what waits; tidy as long as its kind is left.
Added(w, r, kind, ids, earlier) ==
    /\ Adds(w, r, kind, ids) /\ ~w.rejected
    /\ \A left : Tidy(w, left) /\ kind \in left /\ earlier \cap left = {} => Tidy(r, left)

LEMMA AddNodes ==
    ASSUME NEW w \in WriterSet, NEW chunk \in Chunks, NEW r, r = add_nodes(w, chunk), ~r.rejected
    PROVE  Added(w, r, "node", chunk.ids, {})
  <1> DEFINE chunks == Append(w.node_chunks, chunk)
             ids == IdsOfChunks(chunks)
  <1>1. /\ w.node_chunks \in Seq(Chunks) /\ w.way_buf \in Seq(Id) /\ w.rel_buf \in Seq(Id)
        /\ w.out \in Seq(Group) /\ w.rejected \in BOOLEAN /\ Held(w, "node") = IdsOfChunks(w.node_chunks)
    BY WriterFields
  <1>2. "node" \in Kind
    BY DEF Kind
  <1>3. chunk.ids \in Seq(Id) /\ chunk.schema \in Schema
    BY DEF Chunks
  <1>4. chunks \in Seq(Chunks)
    BY <1>1
  <1>5. ids = Held(w, "node") \o chunk.ids
    BY <1>1, ChunkAppended
  <1> HIDE DEF chunks, ids
  <1>6. ids \in Seq(Id)
    BY <1>4, IdsOfChunksIs DEF ids
  <1>7. CASE Len(ids) < MaxGroup
    <2>1. r = [w EXCEPT !.node_chunks = chunks]
      BY <1>7 DEF add_nodes, chunks, ids
    <2>2. r \in WriterSet /\ r.out = w.out /\ ~w.rejected /\ r.node_chunks = chunks
          /\ r.way_buf = w.way_buf /\ r.rel_buf = w.rel_buf
      BY <1>4, <2>1 DEF WriterSet
    <2>3. Held(r, "node") = ids /\ \A k \in Kind : k # "node" => Held(r, k) = Held(w, k)
      BY <2>2 DEF Held, ids
    <2>4. ASSUME NEW k \in Kind
          PROVE  Total(r, k) = IF k = "node" THEN Total(w, k) \o chunk.ids ELSE Total(w, k)
      <3>1. IdsOfKind(w.out, "node") \in Seq(Id) /\ Held(w, "node") \in Seq(Id)
        BY HeldIn
      <3> DEFINE a == IdsOfKind(w.out, "node")
                 h == Held(w, "node")
                 c == chunk.ids
      <3>2. a \o (h \o c) = (a \o h) \o c
        <4>1. a \in Seq(Id) /\ h \in Seq(Id) /\ c \in Seq(Id)
          BY <1>3, <3>1
        <4> HIDE DEF a, h, c
        <4> QED
          BY <4>1, IdsAssociate, Zenon
      <3> QED
        BY <1>5, <2>2, <2>3, <3>2 DEF Total
    <2>5. \A left : Tidy(w, left) /\ "node" \in left => Tidy(r, left)
      <3> SUFFICES ASSUME NEW left, Tidy(w, left), "node" \in left PROVE Tidy(r, left)
        OBVIOUS
      <3>1. PairsFull(r) /\ \A k : FullOf(w, k) => FullOf(r, k)
        BY <2>2 DEF Tidy, PairsFull, FullOf
      <3>2. FullOf(w, "node")
        BY <1>2 DEF Tidy
      <3> QED
        BY <2>3, <3>1, <3>2 DEF Tidy
    <2> QED
      BY <2>2, <2>4, <2>5 DEF Added, Adds
  <1>8. CASE ~(Len(ids) < MaxGroup)
    <2>1. ~Mixed(chunks)
      BY <1>8 DEF add_nodes, Reject, WriterSet, chunks, ids
    <2> DEFINE last == Chunk(Remainder(ids), chunk.schema)
    <2>2. r = [w EXCEPT !.out = @ \o FullBlocks("node", ids), !.node_chunks = <<last>>]
      BY <1>8, <2>1 DEF add_nodes, chunks, ids
    <2>3. FullBlocks("node", ids) \in Seq(Group) /\ Remainder(ids) \in Seq(Id)
      BY <1>2, <1>6, FullBlocksAre
    <2>4. last \in Chunks /\ last.ids = Remainder(ids)
      BY <1>3, <2>3 DEF Chunk, Chunks
    <2> HIDE DEF last
    <2>5. w.out \o FullBlocks("node", ids) \in Seq(Group) /\ <<last>> \in Seq(Chunks)
      BY <1>1, <2>3, <2>4
    <2>6. r \in WriterSet /\ r.out = w.out \o FullBlocks("node", ids) /\ ~w.rejected /\ r.node_chunks = <<last>>
          /\ r.way_buf = w.way_buf /\ r.rel_buf = w.rel_buf
      BY <2>2, <2>5 DEF WriterSet
    <2>7. Held(r, "node") = Remainder(ids) /\ \A k \in Kind : k # "node" => Held(r, k) = Held(w, k)
      BY <2>4, <2>6, OneChunk DEF Held
    <2>8. /\ Adds(w, r, "node", chunk.ids)
          /\ \A left : Tidy(w, left) /\ "node" \in left => Tidy(r, left)
      <3> DEFINE c == chunk.ids
      <3>1. c \in Seq(Id) /\ ids = Held(w, "node") \o c
        BY <1>3, <1>5
      <3> HIDE DEF c
      <3>2. /\ Adds(w, r, "node", c)
            /\ \A left : Tidy(w, left) /\ "node" \in left => Tidy(r, left)
        BY <1>2, <2>6, <2>7, <3>1, PutFull
      <3> QED
        BY <3>2 DEF c
    <2> QED
      BY <2>6, <2>8 DEF Added
  <1> QED
    BY <1>7, <1>8

LEMMA AddWays ==
    ASSUME NEW w \in WriterSet, NEW ids \in Seq(Id), NEW r, r = add_ways(w, ids), ~r.rejected
    PROVE  Added(w, r, "way", ids, {"node"})
  <1> DEFINE f == flush_nodes(w)
             all == f.way_buf \o ids
  <1>1. ~f.rejected
    BY DEF add_ways
  <1>2. Flushed(w, f, "node")
    BY <1>1, FlushNodes
  <1>3. r = [f EXCEPT !.out = @ \o FullBlocks("way", all), !.way_buf = Remainder(all)]
    BY <1>1 DEF add_ways
  <1> HIDE DEF f
  <1>4. f \in WriterSet /\ Same(w, f) /\ ~w.rejected
    BY <1>2 DEF Flushed, Same
  <1>5. "way" \in Kind /\ all = Held(f, "way") \o ids /\ all \in Seq(Id) /\ f.out \in Seq(Group)
    <2>1. f.way_buf \in Seq(Id) /\ f.out \in Seq(Group) /\ Held(f, "way") = f.way_buf
      BY <1>4, WriterFields
    <2>2. f.way_buf \o ids \in Seq(Id)
      BY <2>1
    <2> QED
      BY <2>1, <2>2 DEF Kind
  <1> HIDE DEF all
  <1>6. FullBlocks("way", all) \in Seq(Group) /\ Remainder(all) \in Seq(Id)
    BY <1>5, FullBlocksAre
  <1>7. f.out \o FullBlocks("way", all) \in Seq(Group)
    BY <1>5, <1>6
  <1>8. r \in WriterSet /\ r.out = f.out \o FullBlocks("way", all) /\ r.node_chunks = f.node_chunks
        /\ r.way_buf = Remainder(all) /\ r.rel_buf = f.rel_buf
    BY <1>3, <1>4, <1>6, <1>7 DEF WriterSet
  <1>9. Held(r, "way") = Remainder(all) /\ \A k \in Kind : k # "way" => Held(r, k) = Held(f, k)
    BY <1>8 DEF Held
  <1>10. /\ Adds(f, r, "way", ids)
         /\ \A left : Tidy(f, left) /\ "way" \in left => Tidy(r, left)
    BY <1>4, <1>5, <1>8, <1>9, PutFull
  <1>11. Adds(w, r, "way", ids)
    BY <1>4, <1>10, SameSteps
  <1>12. \A left : Tidy(w, left) /\ "node" \notin left => Tidy(f, left)
    BY <1>2 DEF Flushed
  <1> QED
    BY <1>4, <1>10, <1>11, <1>12 DEF Added

LEMMA AddRelations ==
    ASSUME NEW w \in WriterSet, NEW ids \in Seq(Id), NEW r, r = add_relations(w, ids), ~r.rejected
    PROVE  Added(w, r, "relation", ids, {"node", "way"})
  <1> DEFINE f == flush_ways(flush_nodes(w))
             all == f.rel_buf \o ids
  <1>1. ~f.rejected
    BY DEF add_relations
  <1>2. /\ Same(w, f) /\ f \in WriterSet /\ ~w.rejected
        /\ \A left : Tidy(w, left) /\ "node" \notin left /\ "way" \notin left => Tidy(f, left)
    BY <1>1, FlushBoth
  <1>3. r = [f EXCEPT !.out = @ \o FullBlocks("relation", all), !.rel_buf = Remainder(all)]
    BY <1>1 DEF add_relations
  <1> HIDE DEF f
  <1>5. "relation" \in Kind /\ all = Held(f, "relation") \o ids /\ all \in Seq(Id) /\ f.out \in Seq(Group)
    <2>1. f.rel_buf \in Seq(Id) /\ f.out \in Seq(Group) /\ Held(f, "relation") = f.rel_buf
      BY <1>2, WriterFields
    <2>2. f.rel_buf \o ids \in Seq(Id)
      BY <2>1
    <2> QED
      BY <2>1, <2>2 DEF Kind
  <1> HIDE DEF all
  <1>6. FullBlocks("relation", all) \in Seq(Group) /\ Remainder(all) \in Seq(Id)
    BY <1>5, FullBlocksAre
  <1>7. f.out \o FullBlocks("relation", all) \in Seq(Group)
    BY <1>5, <1>6
  <1>8. r \in WriterSet /\ r.out = f.out \o FullBlocks("relation", all) /\ r.node_chunks = f.node_chunks
        /\ r.rel_buf = Remainder(all) /\ r.way_buf = f.way_buf
    BY <1>2, <1>3, <1>6, <1>7 DEF WriterSet
  <1>9. Held(r, "relation") = Remainder(all) /\ \A k \in Kind : k # "relation" => Held(r, k) = Held(f, k)
    BY <1>8 DEF Held, Kind
  <1>10. /\ Adds(f, r, "relation", ids)
         /\ \A left : Tidy(f, left) /\ "relation" \in left => Tidy(r, left)
    BY <1>2, <1>5, <1>8, <1>9, PutFull
  <1>11. Adds(w, r, "relation", ids)
    BY <1>2, <1>10, SameSteps
  <1> QED
    BY <1>2, <1>10, <1>11 DEF Added

\* Kinds that come before a kind.
Earlier(kind) == IF kind = "node" THEN {} ELSE IF kind = "way" THEN {"node"} ELSE {"node", "way"}

LEMMA RepackGroup ==
    ASSUME crop \in Crops, NEW w \in WriterSet, ~w.rejected, NEW g \in Group, NEW kept,
           NEW r, r = repack_group(w, g, kept), ~r.rejected
    PROVE  Added(w, r, g.kind, KeptIds(g.kind, g.ids, kept), Earlier(g.kind))
  <1> DEFINE ids == KeptIds(g.kind, g.ids, kept)
  <1>1. g.kind \in Kind /\ g.ids \in Seq(Id)
    BY DEF Group
  <1>2. KeptGroup(g, kept).ids = ids /\ ids \in Seq(Id)
    BY <1>1, KeptGroupIn, KeptIdsIn
  <1> HIDE DEF ids
  <1>3. CASE ids = <<>>
    <2>1. r = w
      BY <1>2, <1>3 DEF repack_group
    <2>2. ASSUME NEW k \in Kind PROVE Total(w, k) \o <<>> = Total(w, k)
      <3> DEFINE t == Total(w, k)
      <3>1. t \in Seq(Id)
        BY HeldIn
      <3> HIDE DEF t
      <3>2. t \o <<>> = t
        BY <3>1
      <3> QED
        BY <3>2 DEF t
    <2> QED
      BY <1>3, <2>1, <2>2 DEF Added, Adds, ids
  <1>4. CASE ids # <<>> /\ g.kind = "node"
    <2> DEFINE chunk == Chunk(ids, crop.schema[ids[1]])
    <2>1. r = add_nodes(w, chunk)
      <3> DEFINE mixed == Cardinality({crop.schema[ids[k]] : k \in DOMAIN ids}) > 1
      <3>1. r = IF mixed THEN Reject(w) ELSE add_nodes(w, chunk)
        BY <1>2, <1>4 DEF repack_group
      <3> HIDE DEF mixed, chunk
      <3>2. Reject(w).rejected
        BY DEF Reject, WriterSet
      <3> QED
        BY <3>1, <3>2
    <2>2. chunk \in Chunks /\ chunk.ids = ids
      <3>1. ids[1] \in Id
        BY <1>2, <1>4
      <3>2. crop.schema \in [Id -> Schema]
        BY CropAssumption DEF CropCall
      <3> QED
        BY <1>2, <3>1, <3>2 DEF Chunk, Chunks
    <2> HIDE DEF chunk
    <2>3. Added(w, r, "node", ids, {})
      BY <2>1, <2>2, AddNodes
    <2> QED
      BY <1>4, <2>3 DEF ids, Earlier
  <1>5. CASE ids # <<>> /\ g.kind = "way"
    <2>1. r = add_ways(w, ids)
      BY <1>2, <1>5 DEF repack_group
    <2>2. Added(w, r, "way", ids, {"node"})
      BY <1>2, <2>1, AddWays
    <2> QED
      BY <1>5, <2>2 DEF ids, Earlier
  <1>6. CASE ids # <<>> /\ g.kind = "relation"
    <2>1. r = add_relations(w, ids)
      BY <1>2, <1>6 DEF repack_group
    <2>2. Added(w, r, "relation", ids, {"node", "way"})
      BY <1>2, <2>1, AddRelations
    <2> QED
      BY <1>6, <2>2 DEF ids, Earlier
  <1> QED
    BY <1>1, <1>3, <1>4, <1>5, <1>6 DEF Kind

\* In the end nothing waits.
LEMMA CloseWriter ==
    ASSUME NEW w \in WriterSet, NEW r, r = close(w), ~r.rejected
    PROVE  /\ r \in WriterSet
           /\ \A k \in Kind : IdsOfKind(r.out, k) = Total(w, k)
           /\ Tidy(w, {}) => PairsFull(r)
  <1> DEFINE f == flush_ways(flush_nodes(w))
  <1>1. ~f.rejected
    BY DEF close
  <1>2. /\ Same(w, f) /\ f \in WriterSet
        /\ Held(f, "node") = <<>> /\ Held(f, "way") = <<>>
        /\ \A left : Tidy(w, left) /\ "node" \notin left /\ "way" \notin left => Tidy(f, left)
    BY <1>1, FlushBoth
  <1>3. r = IF f.rel_buf = <<>> THEN f
            ELSE [f EXCEPT !.out = Append(@, Packed("relation", f.rel_buf)), !.rel_buf = <<>>]
    BY <1>1 DEF close
  <1> HIDE DEF f
  <1>4. /\ f.rel_buf \in Seq(Id) /\ f.out \in Seq(Group) /\ Held(f, "relation") = f.rel_buf
    BY <1>2, WriterFields
  <1>5. "relation" \in Kind
    BY DEF Kind
  <1>6. Flushed(f, r, "relation")
    <2>1. CASE f.rel_buf = <<>>
      BY <1>1, <1>2, <1>3, <1>4, <1>5, <2>1, NothingToFlush DEF f
    <2>2. CASE f.rel_buf # <<>>
      <3>1. r = [f EXCEPT !.out = Append(@, Packed("relation", f.rel_buf)), !.rel_buf = <<>>]
        BY <1>3, <2>2
      <3>2. Packed("relation", f.rel_buf) \in Group /\ <<>> \in Seq(Id)
        BY <1>4, <1>5 DEF Packed, Group
      <3>3. Append(f.out, Packed("relation", f.rel_buf)) \in Seq(Group)
        BY <1>4, <3>2
      <3>4. r \in WriterSet /\ r.out = Append(f.out, Packed("relation", f.rel_buf))
            /\ r.node_chunks = f.node_chunks /\ r.way_buf = f.way_buf /\ r.rel_buf = <<>>
            /\ ~f.rejected
        BY <1>2, <3>1, <3>2, <3>3 DEF WriterSet
      <3>5. Held(r, "relation") = <<>> /\ \A k \in Kind : k # "relation" => Held(r, k) = Held(f, k)
        BY <3>4 DEF Held, Kind
      <3> QED
        BY <1>2, <1>4, <1>5, <2>2, <3>4, <3>5, SomeToFlush
    <2> QED
      BY <2>1, <2>2
  <1>7. r \in WriterSet /\ Same(w, r)
    BY <1>2, <1>6, SameTwice DEF Flushed, Same
  <1>8. \A k \in Kind : Held(r, k) = <<>>
    BY <1>2, <1>6 DEF Flushed, Kind
  <1>9. ASSUME NEW k \in Kind PROVE IdsOfKind(r.out, k) = Total(w, k)
    <2> DEFINE a == IdsOfKind(r.out, k)
    <2>1. a \in Seq(Id)
      BY <1>7, HeldIn
    <2>2. a \o <<>> = a
      <3> HIDE DEF a
      <3> QED
        BY <2>1
    <2>3. Total(r, k) = a
      BY <1>8, <2>2 DEF Total
    <2> QED
      BY <1>7, <2>3 DEF Same
  <1>10. Tidy(w, {}) => PairsFull(r)
    <2>1. Tidy(w, {}) => Tidy(f, {})
      BY <1>2
    <2>2. Tidy(f, {}) => Tidy(r, {})
      BY <1>6 DEF Flushed
    <2> QED
      BY <2>1, <2>2 DEF Tidy
  <1> QED
    BY <1>7, <1>9, <1>10

-----------------------------------------------------------------------------
(***************************************************************************)
(* What a sorted source has left.                                          *)
(***************************************************************************)
Rank == [node |-> 1, way |-> 2, relation |-> 3]
KindsOf(b) == [i \in DOMAIN crop.source[b].groups |-> Rank[crop.source[b].groups[i].kind]]

LEMMA SortedRanks ==
    ASSUME crop \in Crops, Sorted, NEW b \in Blocks, NEW c \in Blocks,
           NEW i \in DOMAIN crop.source[b].groups, NEW j \in DOMAIN crop.source[c].groups,
           b < c \/ (b = c /\ i <= j)
    PROVE  crop.source[c].groups[j].kind \notin Earlier(crop.source[b].groups[i].kind)
  <1> DEFINE R == {1, 2, 3}
             ss == [d \in Blocks |-> KindsOf(d)]
             kinds == FlattenSeq(ss)
  <1>1. Len(crop.source) \in Nat /\ Blocks = 1..Len(crop.source)
    BY SourceFacts
  <1>2. ASSUME NEW d \in Blocks
        PROVE  KindsOf(d) \in Seq(R) /\ DOMAIN KindsOf(d) = DOMAIN crop.source[d].groups
    <2> DEFINE groups == crop.source[d].groups
    <2>1. groups \in Seq(Group)
      BY SourceFacts
    <2>2. Len(groups) \in Nat /\ DOMAIN groups = 1..Len(groups) /\ \A k \in DOMAIN groups : groups[k] \in Group
      BY <2>1
    <2>3. \A k \in DOMAIN groups : Rank[groups[k].kind] \in R
      BY <2>2 DEF Group, Kind, Rank
    <2> QED
      BY <2>2, <2>3, MakeSeq DEF KindsOf
  <1>3. ss \in Seq(Seq(R)) /\ Len(ss) = Len(crop.source) /\ \A d \in Blocks : ss[d] = KindsOf(d)
    <2>1. \A d \in 1..Len(crop.source) : ss[d] \in Seq(R)
      BY <1>1, <1>2
    <2>2. ss = [d \in 1..Len(crop.source) |-> ss[d]]
      BY <1>1
    <2> HIDE DEF R
    <2>3. ss \in Seq(Seq(R))
      <3> HIDE DEF ss
      <3> QED
        BY <1>1, <2>1, <2>2, MakeSeq
    <2> QED
      BY <1>1, <2>2, <2>3
  <1>4. Together(ss)
    <2> HIDE DEF ss, R
    <2> QED
      BY <1>3, FlattenOrder
  <1>5. kinds \in Seq(R)
    <2> HIDE DEF ss, R
    <2> QED
      BY <1>3, FlattenElements
  <1>6. Len(kinds) \in Nat /\ DOMAIN kinds = 1..Len(kinds) /\ \A k \in DOMAIN kinds : kinds[k] \in Nat
    <2>1. \A k \in DOMAIN kinds : kinds[k] \in R
      <3> HIDE DEF kinds, R
      <3> QED
        BY <1>5
    <2>2. R \subseteq Nat
      OBVIOUS
    <2>3. Len(kinds) \in Nat /\ DOMAIN kinds = 1..Len(kinds)
      <3> HIDE DEF kinds, R
      <3> QED
        BY <1>5
    <2> HIDE DEF kinds, R
    <2> QED
      BY <2>1, <2>2, <2>3
  <1>7. \A p, q \in DOMAIN kinds : p <= q => kinds[p] <= kinds[q]
    BY DEF Sorted, Rank, KindsOf
  <1>8. /\ b \in 1..Len(ss) /\ c \in 1..Len(ss) /\ i \in 1..Len(ss[b]) /\ j \in 1..Len(ss[c])
        /\ ss[b][i] = Rank[crop.source[b].groups[i].kind] /\ ss[c][j] = Rank[crop.source[c].groups[j].kind]
    <2>1. /\ i \in DOMAIN KindsOf(b) /\ j \in DOMAIN KindsOf(c)
          /\ DOMAIN KindsOf(b) = 1..Len(KindsOf(b)) /\ DOMAIN KindsOf(c) = 1..Len(KindsOf(c))
      <3> HIDE DEF R
      <3> QED
        BY <1>2
    <2>2. /\ KindsOf(b)[i] = Rank[crop.source[b].groups[i].kind]
          /\ KindsOf(c)[j] = Rank[crop.source[c].groups[j].kind]
      BY DEF KindsOf
    <2> HIDE DEF ss
    <2> QED
      BY <1>1, <1>3, <2>1, <2>2
  <1>9. PICK p, q \in 1..Len(kinds) : p <= q /\ kinds[p] = ss[b][i] /\ kinds[q] = ss[c][j]
    <2> HIDE DEF ss
    <2> QED
      BY <1>4, <1>8 DEF Together
  <1>10. Rank[crop.source[b].groups[i].kind] <= Rank[crop.source[c].groups[j].kind]
    <2> HIDE DEF kinds, ss
    <2> QED
      BY <1>6, <1>7, <1>8, <1>9
  <1>11. crop.source[b].groups[i].kind \in Kind /\ crop.source[c].groups[j].kind \in Kind
    <2>1. crop.source[b].groups \in Seq(Group) /\ crop.source[c].groups \in Seq(Group)
      BY SourceFacts
    <2>2. crop.source[b].groups[i] \in Group /\ crop.source[c].groups[j] \in Group
      BY <2>1
    <2> QED
      BY <2>2 DEF Group
  <1> QED
    BY <1>10, <1>11 DEF Rank, Kind, Earlier

\* The kinds of the groups that a writer has yet to be given: those from group i of
\* block n on.
LeftKinds(n, i) ==
    {k \in Kind : \E b \in Blocks : \E j \in DOMAIN crop.source[b].groups :
        (b > n \/ (b = n /\ j >= i)) /\ crop.source[b].groups[j].kind = k}

LEMMA NextIsLeft ==
    ASSUME crop \in Crops, NEW n \in Blocks, NEW i \in DOMAIN crop.source[n].groups
    PROVE  LET kind == crop.source[n].groups[i].kind
           IN  /\ kind \in LeftKinds(n, i)
               /\ LeftKinds(n, i + 1) \subseteq LeftKinds(n, i)
               /\ Sorted => Earlier(kind) \cap LeftKinds(n, i) = {}
  <1>1. Blocks \subseteq Nat /\ crop.source[n].groups \in Seq(Group)
    BY SourceFacts
  <1>2. i \in Nat /\ crop.source[n].groups[i] \in Group
    BY <1>1
  <1>3. crop.source[n].groups[i].kind \in LeftKinds(n, i)
    BY <1>1, <1>2 DEF LeftKinds, Group
  <1>4. LeftKinds(n, i + 1) \subseteq LeftKinds(n, i)
    <2>1. ASSUME NEW b \in Blocks, NEW j \in DOMAIN crop.source[b].groups,
                 b > n \/ (b = n /\ j >= i + 1)
          PROVE  b > n \/ (b = n /\ j >= i)
      <3>1. crop.source[b].groups \in Seq(Group)
        BY SourceFacts
      <3>2. j \in Nat
        BY <3>1
      <3> QED
        BY <1>2, <2>1, <3>2
    <2> QED
      BY <2>1 DEF LeftKinds
  <1>5. ASSUME Sorted, NEW k \in LeftKinds(n, i)
        PROVE  k \notin Earlier(crop.source[n].groups[i].kind)
    <2>1. PICK b \in Blocks : \E j \in DOMAIN crop.source[b].groups :
            (b > n \/ (b = n /\ j >= i)) /\ crop.source[b].groups[j].kind = k
      BY <1>5 DEF LeftKinds
    <2>2. PICK j \in DOMAIN crop.source[b].groups :
            (b > n \/ (b = n /\ j >= i)) /\ crop.source[b].groups[j].kind = k
      BY <2>1
    <2>3. crop.source[b].groups \in Seq(Group)
      BY SourceFacts
    <2>4. j \in Nat /\ n \in Nat /\ b \in Nat
      BY <1>1, <2>3
    <2>5. n < b \/ (n = b /\ i <= j)
      BY <1>2, <2>2, <2>4
    <2> QED
      BY <1>5, <2>2, <2>5, SortedRanks
  <1> QED
    BY <1>3, <1>4, <1>5

\* At the end of a block, what is left is left from the next one on.
LEMMA BlockIsOver ==
    ASSUME crop \in Crops, NEW n \in Blocks, NEW i \in Nat, i \notin DOMAIN crop.source[n].groups, i > 0
    PROVE  LeftKinds(n + 1, 1) \subseteq LeftKinds(n, i)
  <1>1. Blocks \subseteq Nat
    BY SourceFacts
  <1>2. ASSUME NEW b \in Blocks, NEW j \in DOMAIN crop.source[b].groups,
               b > n + 1 \/ (b = n + 1 /\ j >= 1)
        PROVE  b > n \/ (b = n /\ j >= i)
    <2>1. b \in Nat /\ n \in Nat
      BY <1>1
    <2> QED
      BY <1>2, <2>1
  <1> QED
    BY <1>2 DEF LeftKinds

LEMMA NothingLeft ==
    ASSUME crop \in Crops
    PROVE  LeftKinds(Len(crop.source) + 1, 1) = {}
  <1>1. Len(crop.source) \in Nat /\ Blocks = 1..Len(crop.source)
    BY SourceFacts
  <1> QED
    BY <1>1 DEF LeftKinds

-----------------------------------------------------------------------------
(***************************************************************************)
(* The writer on its way through the source: at group i of block n.        *)
(***************************************************************************)
IdsBefore(n, kind) == [b \in 1..n - 1 |-> IdsOfKind(crop.source[b].groups, kind)]
DoneIds(n, i, kind) ==
    FlattenSeq(IdsBefore(n, kind))
      \o (IF n \in Blocks THEN IdsOfKind(SubSeq(crop.source[n].groups, 1, i - 1), kind) ELSE <<>>)
WriterAt(w, n, i) ==
    /\ w \in WriterSet /\ ~w.rejected
    /\ i \in Nat \ {0} /\ (n \in Blocks => i <= Len(crop.source[n].groups) + 1)
    /\ \A k \in Kind : Total(w, k) = KeptIds(k, DoneIds(n, i, k), TheCrop)
    /\ Sorted => Tidy(w, LeftKinds(n, i))

LEMMA IdsBeforeIn ==
    ASSUME crop \in Crops, NEW n \in 1..Len(crop.source) + 1, NEW kind
    PROVE  /\ IdsBefore(n, kind) \in Seq(Seq(Id)) /\ Len(IdsBefore(n, kind)) = n - 1
           /\ FlattenSeq(IdsBefore(n, kind)) \in Seq(Id)
  <1> DEFINE f == IdsBefore(n, kind)
             m == n - 1
  <1>1. m \in Nat /\ Len(crop.source) \in Nat /\ \A b \in 1..m : b \in Blocks
    BY SourceFacts
  <1>2. \A b \in 1..m : f[b] \in Seq(Id)
    BY <1>1, SourceFacts, IdsOfKindIn DEF IdsBefore
  <1>3. f = [b \in 1..m |-> f[b]]
    BY DEF IdsBefore
  <1>4. f \in Seq(Seq(Id))
    <2> HIDE DEF f, m
    <2> QED
      BY <1>1, <1>2, <1>3, MakeSeq
  <1>5. Len(f) = m
    BY <1>1 DEF IdsBefore
  <1>6. FlattenSeq(f) \in Seq(Id)
    <2> HIDE DEF f
    <2> QED
      BY <1>4, FlattenElements
  <1> QED
    BY <1>4, <1>5, <1>6

LEMMA OneMoreBlock ==
    ASSUME crop \in Crops, NEW n \in Blocks, NEW kind
    PROVE  FlattenSeq(IdsBefore(n + 1, kind))
             = FlattenSeq(IdsBefore(n, kind)) \o IdsOfKind(crop.source[n].groups, kind)
  <1> DEFINE f == IdsBefore(n, kind)
             g == IdsBefore(n + 1, kind)
             x == IdsOfKind(crop.source[n].groups, kind)
             Z == Seq(Id)
  <1>1. n \in Nat /\ n > 0 /\ n \in 1..Len(crop.source) + 1 /\ n + 1 \in 1..Len(crop.source) + 1
    BY SourceFacts
  <1>2. f \in Seq(Z) /\ Len(f) = n - 1
    BY <1>1, IdsBeforeIn
  <1>3. g \in Seq(Z) /\ Len(g) = n
    BY <1>1, IdsBeforeIn
  <1>4. x \in Seq(Id)
    BY SourceFacts, IdsOfKindIn
  <1>5. g = Append(f, x)
    <2>1. \A b \in 1..n : g[b] = IF b = n THEN x ELSE f[b]
      BY <1>1 DEF IdsBefore
    <2>2. /\ Append(f, x) \in Seq(Z) /\ Len(Append(f, x)) = n
          /\ \A b \in 1..n : Append(f, x)[b] = IF b = n THEN x ELSE f[b]
      <3> HIDE DEF f, x, Z
      <3>1. x \in Z
        BY <1>4 DEF Z
      <3> QED
        BY <1>1, <1>2, <3>1, AppendFacts
    <2> HIDE DEF f, g, x, Z
    <2> QED
      BY <1>3, <2>1, <2>2
  <1> HIDE DEF f, g, x
  <1>6. FlattenSeq(Append(f, x)) = FlattenSeq(f) \o x
    BY <1>2, <1>4, FlattenAppend
  <1> QED
    BY <1>5, <1>6 DEF f, g, x

LEMMA DoneInBlock ==
    ASSUME crop \in Crops, NEW n \in Blocks, NEW i \in DOMAIN crop.source[n].groups, NEW kind
    PROVE  LET g == crop.source[n].groups[i]
           IN  /\ DoneIds(n, i, kind) \in Seq(Id) /\ g.ids \in Seq(Id) /\ g \in Group
               /\ DoneIds(n, i + 1, kind)
                    = IF g.kind = kind THEN DoneIds(n, i, kind) \o g.ids ELSE DoneIds(n, i, kind)
  <1> DEFINE groups == crop.source[n].groups
             g == groups[i]
             a == FlattenSeq(IdsBefore(n, kind))
             c == IdsOfKind(SubSeq(groups, 1, i - 1), kind)
             d == IdsOfKind(SubSeq(groups, 1, i), kind)
  <1>1. groups \in Seq(Group) /\ n \in 1..Len(crop.source) + 1
    BY SourceFacts
  <1>2. i \in 1..Len(groups) /\ Len(groups) \in Nat /\ g \in Group
    BY <1>1
  <1>3. g.ids \in Seq(Id)
    BY <1>2 DEF Group
  <1>4. a \in Seq(Id)
    BY <1>1, IdsBeforeIn
  <1>5. SubSeq(groups, 1, i - 1) \in Seq(Group)
    BY <1>1, <1>2
  <1>6. c \in Seq(Id)
    BY <1>5, IdsOfKindIn
  <1>7. SubSeq(groups, 1, i) = Append(SubSeq(groups, 1, i - 1), g)
    <2> HIDE DEF groups
    <2>1. 1 \in 1..Len(groups) /\ i \in 1..Len(groups)
      BY <1>2
    <2>2. SubSeq(groups, 1, i) = SubSeq(groups, 1, i - 1) \o <<g>>
      BY <1>1, <2>1, SubSeqRecursiveSecond
    <2> QED
      BY <1>2, <1>5, <2>2, AppendFacts
  <1>8. d = c \o (IF g.kind = kind THEN g.ids ELSE <<>>)
    BY <1>2, <1>5, <1>7, IdsOfKindAppend
  <1>9. DoneIds(n, i, kind) = a \o c
    BY DEF DoneIds
  <1>10. DoneIds(n, i + 1, kind) = a \o d
    <2>1. (i + 1) - 1 = i
      BY <1>2
    <2>3. \A j : DoneIds(n, j, kind) = a \o IdsOfKind(SubSeq(groups, 1, j - 1), kind)
      BY DEF DoneIds
    <2>2. DoneIds(n, i + 1, kind) = a \o IdsOfKind(SubSeq(groups, 1, (i + 1) - 1), kind)
      BY <2>3
    <2> QED
      BY <2>1, <2>2
  <1> HIDE DEF a, c, d, g
  <1>11. a \o c \in Seq(Id) /\ c \o <<>> = c
    BY <1>4, <1>6
  <1>12. CASE g.kind = kind
    <2>1. a \o (c \o g.ids) = (a \o c) \o g.ids
      BY <1>3, <1>4, <1>6, IdsAssociate, Zenon
    <2> QED
      BY <1>2, <1>3, <1>8, <1>9, <1>10, <1>11, <1>12, <2>1, Zenon DEF g
  <1>13. CASE g.kind # kind
    BY <1>2, <1>3, <1>8, <1>9, <1>10, <1>11, <1>13, Zenon DEF g
  <1> QED
    BY <1>12, <1>13

LEMMA DoneAtStart ==
    ASSUME crop \in Crops, NEW n \in 1..Len(crop.source) + 1, NEW kind
    PROVE  DoneIds(n, 1, kind) = FlattenSeq(IdsBefore(n, kind))
  <1>1. FlattenSeq(IdsBefore(n, kind)) \in Seq(Id)
    BY IdsBeforeIn
  <1>2. SubSeq(crop.source[n].groups, 1, 1 - 1) = <<>>
    BY SubSeqEmpty
  <1>3. (IF n \in Blocks THEN IdsOfKind(SubSeq(crop.source[n].groups, 1, 1 - 1), kind) ELSE <<>>) = <<>>
    BY <1>2, IdsOfKindEmpty
  <1>4. FlattenSeq(IdsBefore(n, kind)) \o <<>> = FlattenSeq(IdsBefore(n, kind))
    BY <1>1
  <1> QED
    BY <1>3, <1>4 DEF DoneIds

LEMMA DoneAtEnd ==
    ASSUME crop \in Crops, NEW n \in Blocks, NEW i \in Nat, i = Len(crop.source[n].groups) + 1, NEW kind
    PROVE  DoneIds(n, i, kind) = DoneIds(n + 1, 1, kind)
  <1> DEFINE groups == crop.source[n].groups
  <1>1. groups \in Seq(Group) /\ n + 1 \in 1..Len(crop.source) + 1
    BY SourceFacts
  <1>2. SubSeq(groups, 1, i - 1) = groups
    <2>1. i - 1 = Len(groups)
      BY <1>1
    <2> HIDE DEF groups
    <2> QED
      BY <1>1, <2>1, SubSeqFull
  <1>3. DoneIds(n, i, kind) = FlattenSeq(IdsBefore(n, kind)) \o IdsOfKind(groups, kind)
    BY <1>2 DEF DoneIds
  <1> QED
    BY <1>1, <1>3, OneMoreBlock, DoneAtStart

LEMMA DoneInTheEnd ==
    ASSUME crop \in Crops, NEW i, NEW kind
    PROVE  DoneIds(Len(crop.source) + 1, i, kind) = ElementsOf(crop.source, kind)
  <1> DEFINE n == Len(crop.source) + 1
  <1>1. Len(crop.source) \in Nat /\ Blocks = 1..Len(crop.source) /\ n \notin Blocks /\ n \in 1..n
    BY SourceFacts
  <1>2. FlattenSeq(IdsBefore(n, kind)) \in Seq(Id)
    BY <1>1, IdsBeforeIn
  <1>3. FlattenSeq(IdsBefore(n, kind)) \o <<>> = FlattenSeq(IdsBefore(n, kind))
    BY <1>2
  <1>4. IdsBefore(n, kind) = [b \in DOMAIN crop.source |-> IdsOfKind(crop.source[b].groups, kind)]
    <2>1. 1..n - 1 = DOMAIN crop.source
      BY <1>1 DEF Blocks
    <2> QED
      BY <2>1 DEF IdsBefore
  <1>5. DoneIds(n, i, kind) = FlattenSeq(IdsBefore(n, kind)) \o <<>>
    BY <1>1 DEF DoneIds
  <1> QED
    BY <1>3, <1>4, <1>5 DEF ElementsOf

-----------------------------------------------------------------------------
(***************************************************************************)
(* From the first group to the last.                                       *)
(***************************************************************************)
LEMMA NewWriterIs == NewWriter \in WriterSet /\ ~NewWriter.rejected /\ NewWriter.out = <<>>
  <1>1. <<>> \in Seq(Chunks) /\ <<>> \in Seq(Id) /\ <<>> \in Seq(Group)
    OBVIOUS
  <1> QED
    BY <1>1 DEF NewWriter, WriterSet

LEMMA FirstWriter ==
    ASSUME crop \in Crops
    PROVE  WriterAt(NewWriter, 1, 1)
  <1>1. 1 \in 1..Len(crop.source) + 1 /\ (1 \in Blocks => crop.source[1].groups \in Seq(Group))
    BY SourceFacts
  <1>2. 1 \in Blocks => 1 <= Len(crop.source[1].groups) + 1
    BY <1>1
  <1>3. ASSUME NEW k \in Kind
        PROVE  Total(NewWriter, k) = KeptIds(k, DoneIds(1, 1, k), TheCrop)
    <2>1. IdsBefore(1, k) = <<>>
      BY DEF IdsBefore
    <2>2. DoneIds(1, 1, k) = <<>>
      BY <1>1, <2>1, DoneAtStart, FlattenEmpty
    <2>3. Held(NewWriter, k) = <<>>
      BY NoChunks DEF NewWriter, Held
    <2>4. IdsOfKind(NewWriter.out, k) = <<>>
      BY NewWriterIs, IdsOfKindEmpty
    <2>5. Total(NewWriter, k) = <<>> \o <<>>
      BY <2>3, <2>4 DEF Total
    <2> QED
      BY <2>2, <2>5, KeptIdsEmpty
  <1>4. Tidy(NewWriter, LeftKinds(1, 1))
    BY NewWriterIs DEF Tidy, PairsFull, FullOf
  <1> QED
    BY <1>2, <1>3, <1>4, NewWriterIs DEF WriterAt

LEMMA GroupGiven ==
    ASSUME crop \in Crops, NEW n \in Blocks, NEW i \in DOMAIN crop.source[n].groups,
           NEW w, WriterAt(w, n, i), NEW r, r = repack_group(w, crop.source[n].groups[i], TheCrop),
           ~r.rejected
    PROVE  WriterAt(r, n, i + 1)
  <1> DEFINE g == crop.source[n].groups[i]
             ids == KeptIds(g.kind, g.ids, TheCrop)
  <1>1. crop.source[n].groups \in Seq(Group) /\ g \in Group /\ g.ids \in Seq(Id) /\ g.kind \in Kind
    <2>1. crop.source[n].groups \in Seq(Group)
      BY SourceFacts
    <2>2. g \in Group
      BY <2>1
    <2> QED
      BY <2>1, <2>2 DEF Group
  <1>2. i + 1 \in Nat \ {0} /\ i + 1 <= Len(crop.source[n].groups) + 1
    BY <1>1
  <1>3. w \in WriterSet /\ ~w.rejected
    BY DEF WriterAt
  <1>4. Added(w, r, g.kind, ids, Earlier(g.kind))
    <2> HIDE DEF g
    <2> QED
      BY <1>1, <1>3, RepackGroup DEF g
  <1>5. r \in WriterSet
    BY <1>4 DEF Added, Adds
  <1>6. ASSUME NEW k \in Kind
        PROVE  Total(r, k) = KeptIds(k, DoneIds(n, i + 1, k), TheCrop)
    <2>1. Total(w, k) = KeptIds(k, DoneIds(n, i, k), TheCrop)
      BY DEF WriterAt
    <2>2. Total(r, k) = IF k = g.kind THEN Total(w, k) \o ids ELSE Total(w, k)
      BY <1>4 DEF Added, Adds
    <2>3. /\ DoneIds(n, i, k) \in Seq(Id)
          /\ DoneIds(n, i + 1, k)
               = IF g.kind = k THEN DoneIds(n, i, k) \o g.ids ELSE DoneIds(n, i, k)
      BY DoneInBlock
    <2>4. KeptIds(g.kind, DoneIds(n, i, k) \o g.ids, TheCrop)
            = KeptIds(g.kind, DoneIds(n, i, k), TheCrop) \o ids
      <3>1. DoneIds(n, i, k) \in Seq(Id) /\ g.ids \in Seq(Id)
        BY <1>1, <2>3
      <3>2. \A s, t \in Seq(Id) :
              KeptIds(g.kind, s \o t, TheCrop)
                = KeptIds(g.kind, s, TheCrop) \o KeptIds(g.kind, t, TheCrop)
        BY KeptIdsConcat, ZenonT(30)
      <3> HIDE DEF g
      <3> QED
        BY <3>1, <3>2, Zenon
    <2> HIDE DEF g, ids
    <2> QED
      BY <2>1, <2>2, <2>3, <2>4, Zenon
  <1>7. Sorted => Tidy(r, LeftKinds(n, i + 1))
    <2> SUFFICES ASSUME Sorted PROVE Tidy(r, LeftKinds(n, i + 1))
      OBVIOUS
    <2>1. Tidy(w, LeftKinds(n, i))
      BY DEF WriterAt
    <2>2. /\ g.kind \in LeftKinds(n, i) /\ LeftKinds(n, i + 1) \subseteq LeftKinds(n, i)
          /\ Earlier(g.kind) \cap LeftKinds(n, i) = {}
      BY NextIsLeft
    <2>3. Tidy(r, LeftKinds(n, i))
      <3> HIDE DEF g, ids
      <3> QED
        BY <1>4, <2>1, <2>2 DEF Added
    <2> QED
      BY <2>2, <2>3 DEF Tidy
  <1> QED
    BY <1>2, <1>4, <1>5, <1>6, <1>7 DEF WriterAt

LEMMA BlockGiven ==
    ASSUME crop \in Crops, NEW n \in Blocks, NEW w, NEW i, WriterAt(w, n, i),
           i \notin DOMAIN crop.source[n].groups
    PROVE  WriterAt(w, n + 1, 1)
  <1>1. crop.source[n].groups \in Seq(Group) /\ i \in Nat /\ i > 0
    BY SourceFacts DEF WriterAt
  <1>2. i = Len(crop.source[n].groups) + 1
    BY <1>1 DEF WriterAt
  <1>3. n + 1 \in Blocks => 1 <= Len(crop.source[n + 1].groups) + 1
    <2> SUFFICES ASSUME n + 1 \in Blocks PROVE 1 <= Len(crop.source[n + 1].groups) + 1
      OBVIOUS
    <2>1. crop.source[n + 1].groups \in Seq(Group)
      BY SourceFacts
    <2> QED
      BY <2>1
  <1>4. \A k \in Kind : DoneIds(n, i, k) = DoneIds(n + 1, 1, k)
    BY <1>1, <1>2, DoneAtEnd
  <1>5. Sorted => Tidy(w, LeftKinds(n + 1, 1))
    BY <1>1, BlockIsOver DEF WriterAt, Tidy
  <1> QED
    BY <1>3, <1>4, <1>5 DEF WriterAt

\* All that is kept has come out.
LEMMA AllGiven ==
    ASSUME crop \in Crops, NEW w, NEW i, WriterAt(w, Len(crop.source) + 1, i),
           NEW r, r = close(w), ~r.rejected
    PROVE  /\ r.out \in Seq(Group)
           /\ \A k \in Kind : IdsOfKind(r.out, k) = KeptIds(k, ElementsOf(crop.source, k), TheCrop)
           /\ Sorted => PairsFull(r)
  <1> DEFINE n == Len(crop.source) + 1
  <1>1. w \in WriterSet
    BY DEF WriterAt
  <1>2. /\ r \in WriterSet /\ \A k \in Kind : IdsOfKind(r.out, k) = Total(w, k)
        /\ Tidy(w, {}) => PairsFull(r)
    BY <1>1, CloseWriter
  <1>3. r.out \in Seq(Group)
    BY <1>2, WriterFields
  <1>4. \A k \in Kind : Total(w, k) = KeptIds(k, ElementsOf(crop.source, k), TheCrop)
    <2>1. \A k \in Kind : Total(w, k) = KeptIds(k, DoneIds(n, i, k), TheCrop)
      BY DEF WriterAt
    <2> QED
      BY <2>1, DoneInTheEnd
  <1>5. Sorted => Tidy(w, {})
    <2>1. Sorted => Tidy(w, LeftKinds(n, i))
      BY DEF WriterAt
    <2> QED
      BY <2>1 DEF Tidy
  <1> QED
    BY <1>2, <1>3, <1>4, <1>5

-----------------------------------------------------------------------------
(***************************************************************************)
(* The invariant of the write pass.                                        *)
(***************************************************************************)
Early == {"preflight", "nodes", "ways", "relations"}
Ended == {"join", "end"}

EndOK == outcome = "done" => phase \in Ended
StartOK == phase \in Early => writer = NewWriter /\ group = 1

\* Repacking, the blocks from some n on wait, and the writer is at a group of block n.
RepackOK ==
    phase = "write" /\ crop.repack /\ ~crop.onto_source =>
        \E n \in 1..Len(crop.source) + 1, w \in WriterSet, i \in Nat :
            /\ writer = w /\ group = i
            /\ waiting = n..Len(crop.source)
            /\ WriterAt(w, n, i)

\* What is written are blocks of groups.
GroupsOK(blocks) ==
    /\ \E n \in Nat : DOMAIN blocks = 1..n
    /\ \A b \in DOMAIN blocks : blocks[b].groups \in Seq(Group)
WrittenOK == WritesTheCrop /\ (outcome = "done" /\ ~crop.onto_source => GroupsOK(output))

WriteInv == crop \in Crops /\ EndOK /\ StartOK /\ RepackOK /\ WrittenOK

LEMMA SameSource ==
    ASSUME crop' = crop
    PROVE  /\ TheCrop' = TheCrop /\ Sorted' = Sorted
           /\ \A e : Text(e)' = Text(e)
           /\ \A w, n, i : WriterAt(w, n, i)' = WriterAt(w, n, i)
  <1>1. TheCrop' = TheCrop /\ Blocks' = Blocks
    BY SameCrop
  <1>2. Sorted' = Sorted
    BY <1>1 DEF Sorted
  <1>3. \A e : Text(e)' = Text(e)
    BY <1>1 DEF Text
  <1>4. \A n, i, k : DoneIds(n, i, k)' = DoneIds(n, i, k)
    BY <1>1 DEF DoneIds, IdsBefore
  <1>5. \A n, i : LeftKinds(n, i)' = LeftKinds(n, i)
    BY <1>1 DEF LeftKinds
  <1>6. \A w, n, i : WriterAt(w, n, i)' = WriterAt(w, n, i)
    BY <1>1, <1>2, <1>4, <1>5 DEF WriterAt
  <1> QED
    BY <1>1, <1>2, <1>3, <1>6

LEMMA KeepWritten ==
    ASSUME WrittenOK, UNCHANGED <<crop, output>>, outcome' = "done" => outcome = "done"
    PROVE  WrittenOK'
  <1>1. WritesTheCrop'
    BY SameSource DEF WrittenOK, WritesTheCrop
  <1> QED
    BY <1>1 DEF WrittenOK, GroupsOK

\* What leaves the writer alone.
LEMMA KeepWriting ==
    ASSUME WriteInv, UNCHANGED <<crop, writer, group, output>>, outcome' \in {outcome, "error"},
           phase' = phase \/ phase' \in Ended \/ (phase \in Early /\ phase' \in Early),
           phase' = phase /\ phase = "write" /\ crop.repack => waiting' = waiting
    PROVE  WriteInv'
  <1>1. WrittenOK'
    BY KeepWritten DEF WriteInv
  <1>2. EndOK' /\ StartOK'
    BY DEF WriteInv, EndOK, StartOK, Early, Ended
  <1>3. RepackOK'
    BY SameSource DEF WriteInv, RepackOK, Early, Ended
  <1> QED
    BY <1>1, <1>2, <1>3 DEF WriteInv

\* A crop that fails has written what it has.
LEMMA FailWriting ==
    ASSUME WriteInv, UNCHANGED <<crop, output>>, outcome' = "error", phase' \in Ended
    PROVE  WriteInv'
  <1>1. WrittenOK'
    BY KeepWritten DEF WriteInv
  <1>2. EndOK' /\ StartOK' /\ RepackOK'
    BY DEF EndOK, StartOK, RepackOK, Early, Ended
  <1> QED
    BY <1>1, <1>2 DEF WriteInv

LEMMA InitWriting == CropInit => WriteInv
  BY DEF CropInit, WriteInv, EndOK, StartOK, RepackOK, WrittenOK, WritesTheCrop

LEMMA EarlySteps ==
    ASSUME WriteInv,
           \/ Preflight \/ NodesSelected \/ WaysSelected \/ PassFails \/ Join \/ StreamBlock
           \/ \E w \in Worker : TakeTask(w) \/ FinishTask(w) \/ WorkerDies(w)
           \/ UNCHANGED vars
    PROVE  WriteInv'
  <1>1. CASE Preflight
    BY <1>1, KeepWriting DEF Preflight, Begin, Early, Ended, target
  <1>2. CASE NodesSelected
    BY <1>2, KeepWriting DEF NodesSelected, Begin, Early, target
  <1>3. CASE WaysSelected
    BY <1>3, KeepWriting DEF WaysSelected, Begin, Early, target
  <1>4. CASE PassFails
    BY <1>4, KeepWriting DEF PassFails, Fail, Ended
  <1>5. CASE Join
    BY <1>5, KeepWriting DEF Join, Ended, target
  <1>6. CASE StreamBlock
    BY <1>6, KeepWriting DEF StreamBlock, target
  <1>7. ASSUME NEW w \in Worker, TakeTask(w) PROVE WriteInv'
    BY <1>7, KeepWriting DEF TakeTask, target
  <1>8. ASSUME NEW w \in Worker, FinishTask(w) PROVE WriteInv'
    BY <1>8, KeepWriting DEF FinishTask, target
  <1>9. ASSUME NEW w \in Worker, WorkerDies(w) PROVE WriteInv'
    BY <1>9, KeepWriting DEF WorkerDies, target
  <1>10. CASE UNCHANGED vars
    BY <1>10, KeepWriting DEF vars, control, target
  <1> QED
    BY <1>1, <1>2, <1>3, <1>4, <1>5, <1>6, <1>7, <1>8, <1>9, <1>10

\* The write pass begins with a new writer at the first group of the first block.
LEMMA BeginWriting == WriteInv /\ RelationsSelected => WriteInv'
  <1> SUFFICES ASSUME WriteInv, RelationsSelected PROVE WriteInv'
    OBVIOUS
  <1>1. /\ UNCHANGED <<crop, writer, group, output, outcome>>
        /\ phase = "relations" /\ phase' = "write"
        /\ waiting' = IF crop.onto_source THEN {} ELSE Blocks
    BY DEF RelationsSelected, Begin
  <1>2. writer' = NewWriter /\ group' = 1 /\ outcome' # "done"
    BY <1>1 DEF WriteInv, StartOK, EndOK, Early, Ended
  <1>3. WrittenOK'
    BY <1>2 DEF WrittenOK, WritesTheCrop
  <1>4. EndOK' /\ StartOK'
    BY <1>1, <1>2 DEF EndOK, StartOK, Early
  <1>5. crop \in Crops
    BY DEF WriteInv
  <1>6. WriterAt(NewWriter, 1, 1)' /\ NewWriter \in WriterSet
    BY <1>1, <1>5, FirstWriter, SameSource, NewWriterIs
  <1>7. ASSUME ~crop.onto_source PROVE waiting' = 1..Len(crop'.source) /\ 1 \in 1..Len(crop'.source) + 1
    BY <1>1, <1>5, <1>7, SourceFacts
  <1>8. RepackOK'
    BY <1>1, <1>2, <1>6, <1>7 DEF RepackOK
  <1> QED
    BY <1>1, <1>3, <1>4, <1>5, <1>8 DEF WriteInv

LEMMA OneGroup == CropInv /\ WriteInv /\ RepackNext => WriteInv'
  <1> SUFFICES ASSUME CropInv, WriteInv, RepackNext PROVE WriteInv'
    OBVIOUS
  <1>1. PICK b \in waiting :
          /\ First(b) /\ group \in DOMAIN crop.source[b].groups
          /\ writer' = repack_group(writer, crop.source[b].groups[group], KeptOf(selected))
          /\ group' = group + 1
          /\ IF writer'.rejected THEN Abandon
             ELSE UNCHANGED <<crop, control, sets, output, outfile, outcome>>
    BY DEF RepackNext
  <1>2. CASE writer'.rejected
    BY <1>1, <1>2, FailWriting DEF Abandon, Fail, Ended
  <1>3. CASE ~writer'.rejected
    <2>1. /\ UNCHANGED <<crop, phase, waiting, output, outcome>>
          /\ phase = "write" /\ crop.repack
      BY <1>1, <1>3 DEF RepackNext, control
    <2>2. EndOK' /\ StartOK' /\ WrittenOK'
      BY <2>1, KeepWritten DEF WriteInv, EndOK, StartOK, Early
    <2>3. ASSUME ~crop.onto_source PROVE RepackOK'
      <3>1. PICK n \in 1..Len(crop.source) + 1, w \in WriterSet, i \in Nat :
              writer = w /\ group = i /\ waiting = n..Len(crop.source) /\ WriterAt(w, n, i)
        BY <2>1, <2>3 DEF WriteInv, RepackOK
      <3>2. crop \in Crops /\ Len(crop.source) \in Nat /\ Blocks = 1..Len(crop.source)
        BY SourceFacts DEF WriteInv
      <3>3. b = n /\ n \in Blocks
        <4>1. n \in Nat /\ b \in n..Len(crop.source) /\ \A c \in n..Len(crop.source) : b <= c
          BY <1>1, <3>1, <3>2 DEF First
        <4> QED
          BY <3>2, <4>1
      <3>4. KeptOf(selected) = TheCrop
        BY <2>1 DEF CropInv, SelectedOK, KeptOf, TheCrop
      <3>5. WriterAt(writer', n, i + 1)
        BY <1>1, <1>3, <3>1, <3>2, <3>3, <3>4, GroupGiven
      <3>6. PICK r : r = writer'
        OBVIOUS
      <3>7. r \in WriterSet /\ WriterAt(r, n, i + 1)' /\ i + 1 \in Nat
        BY <2>1, <3>5, <3>6, SameSource DEF WriterAt
      <3> QED
        BY <1>1, <2>1, <3>1, <3>6, <3>7 DEF RepackOK
    <2>4. crop.onto_source => RepackOK'
      BY <2>1 DEF RepackOK
    <2> QED
      BY <2>1, <2>2, <2>3, <2>4 DEF WriteInv
  <1> QED
    BY <1>2, <1>3

LEMMA OneBlock == WriteInv /\ RepackBlockEnds => WriteInv'
  <1> SUFFICES ASSUME WriteInv, RepackBlockEnds PROVE WriteInv'
    OBVIOUS
  <1>1. PICK b \in waiting :
          /\ First(b) /\ group \notin DOMAIN crop.source[b].groups
          /\ waiting' = waiting \ {b}
    BY DEF RepackBlockEnds
  <1>2. /\ UNCHANGED <<crop, phase, writer, output, outcome>> /\ group' = 1
        /\ phase = "write" /\ crop.repack
    BY DEF RepackBlockEnds
  <1>3. EndOK' /\ StartOK' /\ WrittenOK'
    BY <1>2, KeepWritten DEF WriteInv, EndOK, StartOK, Early
  <1>4. ASSUME ~crop.onto_source PROVE RepackOK'
    <2>1. PICK n \in 1..Len(crop.source) + 1, w \in WriterSet, i \in Nat :
            writer = w /\ group = i /\ waiting = n..Len(crop.source) /\ WriterAt(w, n, i)
      BY <1>2, <1>4 DEF WriteInv, RepackOK
    <2>2. crop \in Crops /\ Len(crop.source) \in Nat /\ Blocks = 1..Len(crop.source)
      BY SourceFacts DEF WriteInv
    <2>3. b = n /\ n \in Blocks /\ n + 1 \in 1..Len(crop.source) + 1
      <3>1. n \in Nat /\ b \in n..Len(crop.source) /\ \A c \in n..Len(crop.source) : b <= c
        BY <1>1, <2>1, <2>2 DEF First
      <3> QED
        BY <2>2, <3>1
    <2>4. WriterAt(w, n + 1, 1)'
      BY <1>1, <1>2, <2>1, <2>2, <2>3, BlockGiven, SameSource
    <2>5. waiting' = n + 1..Len(crop.source)
      BY <1>1, <2>1, <2>2, <2>3
    <2> QED
      BY <1>2, <2>1, <2>3, <2>4, <2>5 DEF RepackOK
  <1>5. crop.onto_source => RepackOK'
    BY <1>2 DEF RepackOK
  <1> QED
    BY <1>2, <1>3, <1>4, <1>5 DEF WriteInv

-----------------------------------------------------------------------------
(***************************************************************************)
(* A crop that ends well.                                                  *)
(***************************************************************************)
LEMMA NoSuchOutput ==
    ASSUME crop' = crop, WriteInv, outcome' # "done" \/ crop.onto_source
    PROVE  WrittenOK'
  BY DEF WrittenOK, WritesTheCrop

\* Copied or compacted: each block of the output is what is kept of one of the source.
LEMMA CopiesTheCrop ==
    ASSUME CropInv, WriteInv, phase = "write", ~crop.repack, Len(output) = Len(crop.source)
    PROVE  /\ \A kind \in Kind :
                ElementsOf(output, kind) = KeptIds(kind, ElementsOf(crop.source, kind), TheCrop)
           /\ \A b \in DOMAIN output :
                /\ \A e \in ElementsIn(output[b].groups) : TextIn(output[b], e) = Text(e)
                /\ crop.compact /\ output[b].groups # <<>> =>
                     UsedStrings(output[b]) = DOMAIN output[b].strings
           /\ GroupsOK(output)
  <1>1. /\ crop \in Crops /\ crop.source \in Seq(Block)
        /\ Len(crop.source) \in Nat /\ DOMAIN crop.source = 1..Len(crop.source)
        /\ Blocks = DOMAIN crop.source
        /\ \A b \in Blocks : crop.source[b].groups \in Seq(Group)
    BY SourceFacts DEF WriteInv, Blocks
  <1>2. DOMAIN output = Blocks /\ \A b \in Blocks : output[b] = BlockOf(b)
    <2> DEFINE S == {BlockOf(b) : b \in Blocks}
    <2>1. output \in Seq(S) /\ \A b \in DOMAIN output : output[b] = BlockOf(b)
      BY DEF CropInv, OutputOK
    <2> HIDE DEF S
    <2>2. DOMAIN output = 1..Len(output)
      BY <2>1
    <2> QED
      BY <1>1, <2>1, <2>2
  <1>3. \A b \in Blocks : crop.source[b].legible
    BY DEF CropInv, SpareOK
  <1>4. ASSUME NEW kind \in Kind
        PROVE  ElementsOf(output, kind) = KeptIds(kind, ElementsOf(crop.source, kind), TheCrop)
    <2>1. \A b \in DOMAIN crop.source : output[b].groups = KeptGroups(crop.source[b].groups, TheCrop)
      BY <1>1, <1>2, BlockGroups DEF BlockOf
    <2> QED
      BY <1>1, <1>2, <2>1, BlocksHave
  <1>5. \A b \in DOMAIN output : output[b].groups \in Seq(Group)
    BY <1>1, <1>2, BlockGroups, KeptGroupsIn DEF BlockOf
  <1> QED
    BY <1>1, <1>2, <1>3, <1>4, <1>5, BlockSays DEF GroupsOK

LEMMA StepCopied == CropInv /\ WriteInv /\ WriteEnds => WriteInv'
  <1> SUFFICES ASSUME CropInv, WriteInv, WriteEnds PROVE WriteInv'
    OBVIOUS
  <1>1. /\ UNCHANGED <<crop, output>> /\ phase = "write" /\ ~crop.repack
        /\ phase' \in Ended /\ outcome' = "done"
        /\ Len(output) = Len(crop.source) \/ crop.onto_source
    BY DEF WriteEnds, Finish, Ended
  <1>2. EndOK' /\ StartOK' /\ RepackOK'
    BY <1>1 DEF EndOK, StartOK, RepackOK, Early, Ended
  <1>3. WrittenOK'
    <2>1. CASE crop.onto_source
      BY <1>1, <2>1, NoSuchOutput
    <2>2. CASE ~crop.onto_source
      <3>1. WritesTheCrop'
        BY <1>1, <2>2, CopiesTheCrop, SameSource DEF WritesTheCrop
      <3> QED
        BY <1>1, <2>2, <3>1, CopiesTheCrop DEF WrittenOK, GroupsOK
    <2> QED
      BY <2>1, <2>2
  <1> QED
    BY <1>1, <1>2, <1>3 DEF WriteInv

\* The strings of what is kept are strings of the source.
LEMMA KeptTexts ==
    ASSUME CropInv, WriteInv, phase = "write", NEW kind \in Kind,
           NEW x \in Range(KeptIds(kind, ElementsOf(crop.source, kind), TheCrop))
    PROVE  Text(<<kind, x>>) \in Seq(Word)
  <1>1. /\ crop \in Crops /\ Len(crop.source) \in Nat /\ DOMAIN crop.source = 1..Len(crop.source)
        /\ Blocks = DOMAIN crop.source
        /\ \A b \in Blocks : crop.source[b] \in Block /\ crop.source[b].groups \in Seq(Group)
    BY SourceFacts DEF WriteInv, Blocks
  <1> DEFINE ss == [b \in DOMAIN crop.source |-> IdsOfKind(crop.source[b].groups, kind)]
  <1>2. ss \in Seq(Seq(Id)) /\ DOMAIN ss = Blocks
    <2>1. \A b \in 1..Len(crop.source) : ss[b] \in Seq(Id)
      BY <1>1, IdsOfKindIn
    <2>2. ss = [b \in 1..Len(crop.source) |-> ss[b]]
      BY <1>1
    <2>3. DOMAIN ss = Blocks
      BY <1>1
    <2> HIDE DEF ss
    <2> QED
      BY <1>1, <2>1, <2>2, <2>3, MakeSeq
  <1>3. FlattenSeq(ss) \in Seq(Id) /\ Range(FlattenSeq(ss)) = UNION {Range(ss[b]) : b \in DOMAIN ss}
    <2> HIDE DEF ss
    <2> QED
      BY <1>2, FlattenElements
  <1>4. x \in Range(FlattenSeq(ss))
    <2>1. ElementsOf(crop.source, kind) = FlattenSeq(ss)
      BY DEF ElementsOf
    <2> HIDE DEF ss
    <2>2. Range(KeptIds(kind, FlattenSeq(ss), TheCrop))
            = {y \in Range(FlattenSeq(ss)) : <<kind, y>> \in TheCrop}
      BY <1>3, KeptIdsRange
    <2>3. x \in Range(KeptIds(kind, FlattenSeq(ss), TheCrop))
      BY <2>1
    <2> QED
      BY <2>2, <2>3
  <1>5. PICK b \in Blocks : x \in Range(IdsOfKind(crop.source[b].groups, kind))
    <2>1. PICK b \in Blocks : x \in Range(ss[b])
      <3> HIDE DEF ss
      <3> QED
        BY <1>2, <1>3, <1>4
    <2> QED
      BY <1>1, <2>1
  <1> DEFINE block == crop.source[b]
             e == <<kind, x>>
  <1>6. e \in ElementsIn(block.groups)
    BY <1>1, <1>5, ElementsInHas
  <1>7. block.legible
    BY DEF CropInv, SpareOK
  <1>8. block.words[e] \in Seq(DOMAIN block.strings)
    BY <1>1, <1>6, <1>7, SourceWorded DEF Worded
  <1>9. block.strings \in Seq(Word)
    BY <1>1 DEF Block
  <1>10. Text(e) = TextIn(block, e)
    BY <1>1, <1>6, TextIsThere
  <1> DEFINE q == block.words[e]
             t == TextIn(block, e)
  <1>11. Len(q) \in Nat /\ DOMAIN q = 1..Len(q) /\ \A k \in DOMAIN q : q[k] \in DOMAIN block.strings
    <2> DEFINE D == DOMAIN block.strings
    <2>1. q \in Seq(D)
      BY <1>8
    <2> HIDE DEF q, D
    <2>2. Len(q) \in Nat /\ DOMAIN q = 1..Len(q) /\ \A k \in DOMAIN q : q[k] \in D
      BY <2>1
    <2> QED
      BY <2>2 DEF D
  <1>12. t = [k \in 1..Len(q) |-> t[k]] /\ \A k \in 1..Len(q) : t[k] = block.strings[q[k]]
    BY <1>11 DEF TextIn
  <1>13. \A k \in 1..Len(q) : t[k] \in Word
    <2> HIDE DEF q, t, block
    <2> QED
      BY <1>9, <1>11, <1>12
  <1>14. t \in Seq(Word)
    <2> HIDE DEF q, t
    <2> QED
      BY <1>11, <1>12, <1>13, MakeSeq
  <1> QED
    BY <1>10, <1>14

\* Repacked: what the writer has made blocks of.
LEMMA GroupsSay ==
    ASSUME NEW out \in Seq(Group), NEW blocks,
           blocks = [b \in DOMAIN out |-> emit_repack_block(out[b])],
           \A kind \in Kind : \A x \in Range(IdsOfKind(out, kind)) : Text(<<kind, x>>) \in Seq(Word)
    PROVE  /\ DOMAIN blocks = DOMAIN out
           /\ \A kind \in Kind : ElementsOf(blocks, kind) = IdsOfKind(out, kind)
           /\ \A b \in DOMAIN blocks :
                /\ out[b] \in Group /\ blocks[b].groups = <<out[b]>>
                /\ \A e \in ElementsIn(blocks[b].groups) : TextIn(blocks[b], e) = Text(e)
                /\ UsedStrings(blocks[b]) = DOMAIN blocks[b].strings
  <1>1. DOMAIN blocks = DOMAIN out /\ \A b \in DOMAIN out : blocks[b] = emit_repack_block(out[b])
    OBVIOUS
  <1>2. \A b \in DOMAIN out : out[b] \in Group
    OBVIOUS
  <1>3. ASSUME NEW b \in DOMAIN out
        PROVE  /\ blocks[b].groups = <<out[b]>>
               /\ \A e \in ElementsIn(<<out[b]>>) : TextIn(blocks[b], e) = Text(e)
               /\ UsedStrings(blocks[b]) = DOMAIN blocks[b].strings
    <2> DEFINE g == out[b]
    <2>1. g \in Group /\ g.kind \in Kind
      BY <1>2 DEF Group
    <2>2. ASSUME NEW k \in DOMAIN g.ids PROVE Text(<<g.kind, g.ids[k]>>) \in Seq(Word)
      <3>1. g.ids[k] \in Range(IdsOfKind(out, g.kind))
        BY IdsOfKindRange
      <3> QED
        BY <2>1, <3>1
    <2> HIDE DEF g
    <2>3. /\ emit_repack_block(g).groups = <<g>>
          /\ \A e \in ElementsIn(<<g>>) : TextIn(emit_repack_block(g), e) = Text(e)
          /\ UsedStrings(emit_repack_block(g)) = DOMAIN emit_repack_block(g).strings
      BY <2>1, <2>2, EmitSays
    <2>4. blocks[b] = emit_repack_block(g)
      BY <1>1 DEF g
    <2> QED
      BY <2>3, <2>4 DEF g
  <1>4. ASSUME NEW kind \in Kind PROVE ElementsOf(blocks, kind) = IdsOfKind(out, kind)
    <2>1. \A b \in DOMAIN out :
            IdsOfKind(blocks[b].groups, kind) = IF out[b].kind = kind THEN out[b].ids ELSE <<>>
      BY <1>2, <1>3, IdsOfKindOne
    <2>2. [b \in DOMAIN blocks |-> IdsOfKind(blocks[b].groups, kind)]
            = [b \in DOMAIN out |-> IF out[b].kind = kind THEN out[b].ids ELSE <<>>]
      BY <1>1, <2>1
    <2> QED
      BY <2>2 DEF ElementsOf, IdsOfKind
  <1> QED
    BY <1>1, <1>2, <1>3, <1>4

LEMMA RepacksTheCrop ==
    ASSUME CropInv, WriteInv, phase = "write", crop.repack, ~crop.onto_source, waiting = {},
           NEW r, r = close(writer), ~r.rejected,
           NEW blocks, blocks = [b \in DOMAIN r.out |-> emit_repack_block(r.out[b])]
    PROVE  /\ \A kind \in Kind :
                ElementsOf(blocks, kind) = KeptIds(kind, ElementsOf(crop.source, kind), TheCrop)
           /\ \A b \in DOMAIN blocks :
                /\ \A e \in ElementsIn(blocks[b].groups) : TextIn(blocks[b], e) = Text(e)
                /\ UsedStrings(blocks[b]) = DOMAIN blocks[b].strings
           /\ Sorted => \A b, c \in DOMAIN blocks :
                b < c /\ blocks[b].groups[1].kind = blocks[c].groups[1].kind =>
                    Len(blocks[b].groups[1].ids) = MaxGroup
           /\ GroupsOK(blocks)
  <1>1. PICK n \in 1..Len(crop.source) + 1, w \in WriterSet, i \in Nat :
          writer = w /\ group = i /\ waiting = n..Len(crop.source) /\ WriterAt(w, n, i)
    BY DEF WriteInv, RepackOK
  <1>2. crop \in Crops /\ Len(crop.source) \in Nat
    BY SourceFacts DEF WriteInv
  <1>3. n = Len(crop.source) + 1
    <2>1. n \in Nat /\ n <= Len(crop.source) + 1 /\ n \notin n..Len(crop.source)
      BY <1>1, <1>2
    <2> QED
      BY <1>2, <2>1
  <1>4. /\ r.out \in Seq(Group)
        /\ \A k \in Kind : IdsOfKind(r.out, k) = KeptIds(k, ElementsOf(crop.source, k), TheCrop)
        /\ Sorted => PairsFull(r)
    BY <1>1, <1>2, <1>3, AllGiven
  <1>5. \A kind \in Kind : \A x \in Range(IdsOfKind(r.out, kind)) : Text(<<kind, x>>) \in Seq(Word)
    BY <1>4, KeptTexts
  <1> DEFINE out == r.out
  <1>6. /\ DOMAIN blocks = DOMAIN out
        /\ \A kind \in Kind : ElementsOf(blocks, kind) = IdsOfKind(out, kind)
        /\ \A b \in DOMAIN blocks :
             /\ out[b] \in Group /\ blocks[b].groups = <<out[b]>>
             /\ \A e \in ElementsIn(blocks[b].groups) : TextIn(blocks[b], e) = Text(e)
             /\ UsedStrings(blocks[b]) = DOMAIN blocks[b].strings
    <2>1. /\ out \in Seq(Group) /\ blocks = [b \in DOMAIN out |-> emit_repack_block(out[b])]
          /\ \A kind \in Kind : \A x \in Range(IdsOfKind(out, kind)) : Text(<<kind, x>>) \in Seq(Word)
      BY <1>4, <1>5
    <2> HIDE DEF out
    <2> QED
      BY <2>1, GroupsSay
  <1>7. \A b \in DOMAIN blocks : blocks[b].groups[1] = out[b]
    <2> SUFFICES ASSUME NEW b \in DOMAIN blocks PROVE blocks[b].groups[1] = out[b]
      OBVIOUS
    <2> HIDE DEF out
    <2>1. blocks[b].groups = <<out[b]>>
      BY <1>6
    <2>2. \A g : <<g>>[1] = g
      OBVIOUS
    <2> QED
      BY <2>1, <2>2
  <1>8. Sorted => \A b, c \in DOMAIN blocks :
          b < c /\ blocks[b].groups[1].kind = blocks[c].groups[1].kind =>
              Len(blocks[b].groups[1].ids) = MaxGroup
    <2>1. Sorted => \A b, c \in DOMAIN out :
            b < c /\ out[b].kind = out[c].kind => Len(out[b].ids) = MaxGroup
      BY <1>4 DEF PairsFull
    <2> HIDE DEF out
    <2>2. DOMAIN blocks = DOMAIN out
      BY <1>6
    <2> QED
      BY <1>7, <2>1, <2>2
  <1>9. GroupsOK(blocks)
    <2>1. Len(out) \in Nat /\ DOMAIN out = 1..Len(out)
      BY <1>4
    <2>2. \A b \in DOMAIN blocks : blocks[b].groups \in Seq(Group)
      <3> HIDE DEF out
      <3>1. \A g \in Group : <<g>> \in Seq(Group)
        OBVIOUS
      <3>2. \A b \in DOMAIN blocks : out[b] \in Group /\ blocks[b].groups = <<out[b]>>
        BY <1>6
      <3> QED
        BY <3>1, <3>2, Zenon
    <2> QED
      BY <1>6, <2>1, <2>2 DEF GroupsOK
  <1> QED
    BY <1>4, <1>6, <1>8, <1>9

LEMMA StepRepacked == CropInv /\ WriteInv /\ RepackEnds => WriteInv'
  <1> SUFFICES ASSUME CropInv, WriteInv, RepackEnds PROVE WriteInv'
    OBVIOUS
  <1>1. /\ phase = "write" /\ crop.repack /\ waiting = {} /\ writer' = close(writer)
        /\ IF writer'.rejected THEN Abandon
           ELSE /\ Finish
                /\ output' = [b \in DOMAIN writer'.out |-> emit_repack_block(writer'.out[b])]
                /\ UNCHANGED <<crop, waiting, busy, result, lost, sets>>
    BY DEF RepackEnds
  <1>2. CASE writer'.rejected
    BY <1>1, <1>2, FailWriting DEF Abandon, Fail, Ended
  <1>3. CASE ~writer'.rejected
    <2>1. /\ crop' = crop /\ phase' \in Ended /\ outcome' = "done"
          /\ output' = [b \in DOMAIN writer'.out |-> emit_repack_block(writer'.out[b])]
      BY <1>1, <1>3 DEF Finish, Ended
    <2>2. EndOK' /\ StartOK' /\ RepackOK'
      BY <2>1 DEF EndOK, StartOK, RepackOK, Early, Ended
    <2>3. CASE crop.onto_source
      BY <2>1, <2>2, <2>3, NoSuchOutput DEF WriteInv
    <2>4. CASE ~crop.onto_source
      <3> DEFINE blocks == output'
      <3>1. /\ \A kind \in Kind :
                 ElementsOf(blocks, kind) = KeptIds(kind, ElementsOf(crop.source, kind), TheCrop)
            /\ \A b \in DOMAIN blocks :
                 /\ \A e \in ElementsIn(blocks[b].groups) : TextIn(blocks[b], e) = Text(e)
                 /\ UsedStrings(blocks[b]) = DOMAIN blocks[b].strings
            /\ Sorted => \A b, c \in DOMAIN blocks :
                 b < c /\ blocks[b].groups[1].kind = blocks[c].groups[1].kind =>
                     Len(blocks[b].groups[1].ids) = MaxGroup
            /\ GroupsOK(blocks)
        <4> PICK r : r = writer'
          OBVIOUS
        <4>1. /\ r = close(writer) /\ ~r.rejected
              /\ blocks = [b \in DOMAIN r.out |-> emit_repack_block(r.out[b])]
          BY <1>1, <1>3, <2>1
        <4> HIDE DEF blocks
        <4> QED
          BY <1>1, <2>4, <4>1, RepacksTheCrop
      <3>3. WritesTheCrop'
        BY <2>1, <3>1, SameSource DEF WritesTheCrop
      <3>2. WrittenOK'
        BY <2>1, <3>1, <3>3 DEF WrittenOK, GroupsOK
      <3> QED
        BY <2>1, <2>2, <3>2 DEF WriteInv
    <2> QED
      BY <2>3, <2>4
  <1> QED
    BY <1>2, <1>3

LEMMA StepWritten == CropInv /\ WriteInv /\ [CropNext]_vars => WriteInv'
  <1> SUFFICES ASSUME CropInv, WriteInv, [CropNext]_vars PROVE WriteInv'
    OBVIOUS
  <1>1. CASE WriteNext
    <2>1. /\ UNCHANGED <<crop, phase, outcome>> /\ phase = "write" /\ ~crop.repack
      BY <1>1 DEF WriteNext, control
    <2>2. outcome' # "done"
      BY <2>1 DEF WriteInv, EndOK, Ended
    <2>3. EndOK' /\ StartOK' /\ RepackOK' /\ WrittenOK'
      BY <2>1, <2>2 DEF EndOK, StartOK, RepackOK, WrittenOK, WritesTheCrop, Early
    <2> QED
      BY <2>1, <2>3 DEF WriteInv
  <1>2. CASE RejectGrid
    BY <1>2, FailWriting DEF RejectGrid, Abandon, Fail, Ended
  <1>3. CASE WriteFails
    BY <1>3, FailWriting DEF WriteFails, Fail, Ended
  <1> QED
    BY <1>1, <1>2, <1>3, EarlySteps, BeginWriting, OneGroup, OneBlock, StepCopied, StepRepacked
       DEF CropNext, Progress

\* The invariant of the write pass, of every crop.
THEOREM WriteInvariant == CropSpec => [](CropInv /\ WriteInv)
  <1>1. CropInit => CropInv /\ WriteInv
    BY InitCrop, InitWriting
  <1>2. CropInv /\ WriteInv /\ [CropNext]_vars => (CropInv /\ WriteInv)'
    BY StepCrop, StepWritten
  <1> QED
    BY <1>1, <1>2, PTL DEF CropSpec

\* A crop that ends well has written the elements of the crop, each once, in the order of
\* the source and with its strings, copied, compacted or repacked; no string is left
\* that nothing uses, and of a sorted source only the last block of a kind is not full
\* (pyrosm.py:1252-1260).
THEOREM TheCropIsWritten == CropSpec => []WritesTheCrop
  <1>1. CropInv /\ WriteInv => WritesTheCrop
    BY DEF WriteInv, WrittenOK
  <1> QED
    BY <1>1, WriteInvariant, PTL

-----------------------------------------------------------------------------
(***************************************************************************)
(* A read of the output.                                                   *)
(***************************************************************************)
IdSetGroup == [kind : Kind, ids : SUBSET Id]
AsSets(groups) == [i \in DOMAIN groups |-> [kind |-> groups[i].kind, ids |-> ToSet(groups[i].ids)]]

LEMMA AsSetsIn ==
    ASSUME NEW groups \in Seq(Group)
    PROVE  AsSets(groups) \in Seq(IdSetGroup) /\ DOMAIN AsSets(groups) = DOMAIN groups
  <1> DEFINE f == AsSets(groups)
  <1>1. Len(groups) \in Nat /\ DOMAIN groups = 1..Len(groups) /\ \A i \in DOMAIN groups : groups[i] \in Group
    OBVIOUS
  <1>2. \A i \in 1..Len(groups) : f[i] \in IdSetGroup
    <2> SUFFICES ASSUME NEW i \in 1..Len(groups) PROVE f[i] \in IdSetGroup
      OBVIOUS
    <2>1. groups[i].kind \in Kind /\ groups[i].ids \in Seq(Id)
      BY <1>1 DEF Group
    <2>2. ToSet(groups[i].ids) \subseteq Id
      BY <2>1 DEF ToSet
    <2> QED
      BY <1>1, <2>1, <2>2 DEF AsSets, IdSetGroup
  <1>3. f = [i \in 1..Len(groups) |-> f[i]] /\ DOMAIN f = DOMAIN groups
    BY <1>1 DEF AsSets
  <1>4. f \in Seq(IdSetGroup)
    <2> HIDE DEF f
    <2> QED
      BY <1>1, <1>2, <1>3, MakeSeq
  <1> QED
    BY <1>3, <1>4

\* A read has the ids that the blocks have.
LEMMA ReadHas ==
    ASSUME NEW blocks, GroupsOK(blocks), NEW kind
    PROVE  Reading(ReadOf(blocks))!IdsOf(kind) = Range(ElementsOf(blocks, kind))
  <1> DEFINE ss == [b \in DOMAIN blocks |-> AsSets(blocks[b].groups)]
             file == FlattenSeq(ss)
             tt == [b \in DOMAIN blocks |-> IdsOfKind(blocks[b].groups, kind)]
  <1>1. PICK n \in Nat : DOMAIN blocks = 1..n
    BY DEF GroupsOK
  <1>2. \A b \in DOMAIN blocks : blocks[b].groups \in Seq(Group)
    BY DEF GroupsOK
  <1>3. ss \in Seq(Seq(IdSetGroup)) /\ DOMAIN ss = DOMAIN blocks
    <2>1. \A b \in 1..n : ss[b] \in Seq(IdSetGroup)
      BY <1>1, <1>2, AsSetsIn
    <2>2. ss = [b \in 1..n |-> ss[b]] /\ DOMAIN ss = DOMAIN blocks
      BY <1>1
    <2> HIDE DEF ss
    <2> QED
      BY <2>1, <2>2, MakeSeq
  <1>4. tt \in Seq(Seq(Id)) /\ DOMAIN tt = DOMAIN blocks
    <2>1. \A b \in 1..n : tt[b] \in Seq(Id)
      BY <1>1, <1>2, IdsOfKindIn
    <2>2. tt = [b \in 1..n |-> tt[b]] /\ DOMAIN tt = DOMAIN blocks
      BY <1>1
    <2> HIDE DEF tt
    <2> QED
      BY <2>1, <2>2, MakeSeq
  <1>5. file \in Seq(IdSetGroup) /\ Range(file) = UNION {Range(ss[b]) : b \in DOMAIN ss}
    <2> HIDE DEF ss
    <2> QED
      BY <1>3, FlattenElements
  <1>6. Range(ElementsOf(blocks, kind)) = UNION {Range(tt[b]) : b \in DOMAIN tt}
    <2>1. ElementsOf(blocks, kind) = FlattenSeq(tt)
      BY DEF ElementsOf
    <2> HIDE DEF tt
    <2> QED
      BY <1>4, <2>1, FlattenElements
  <1>7. ReadOf(blocks).file = file
    BY DEF ReadOf, GroupSets, AsSets
  <1> DEFINE Holds(x) == \E b \in DOMAIN blocks : \E i \in DOMAIN blocks[b].groups :
               blocks[b].groups[i].kind = kind /\ \E k \in DOMAIN blocks[b].groups[i].ids : x = blocks[b].groups[i].ids[k]
  <1>8. ASSUME NEW x
        PROVE  x \in Reading(ReadOf(blocks))!IdsOf(kind) <=> Holds(x)
    <2>1. x \in Reading(ReadOf(blocks))!IdsOf(kind) <=> \E g \in Range(file) : g.kind = kind /\ x \in g.ids
      <3> HIDE DEF file
      <3> QED
        BY <1>7 DEF Reading!IdsOf, Range
    <2>2. (\E g \in Range(file) : g.kind = kind /\ x \in g.ids)
            <=> \E b \in DOMAIN blocks : \E g \in Range(ss[b]) : g.kind = kind /\ x \in g.ids
      <3> HIDE DEF file, ss
      <3> QED
        BY <1>3, <1>5
    <2>3. ASSUME NEW b \in DOMAIN blocks
          PROVE  (\E g \in Range(ss[b]) : g.kind = kind /\ x \in g.ids)
                   <=> \E i \in DOMAIN blocks[b].groups :
                         blocks[b].groups[i].kind = kind /\ \E k \in DOMAIN blocks[b].groups[i].ids : x = blocks[b].groups[i].ids[k]
      <3>1. ss[b] = AsSets(blocks[b].groups)
        OBVIOUS
      <3> HIDE DEF ss
      <3>3. \A s : x \in ToSet(s) <=> \E k \in DOMAIN s : x = s[k]
        BY DEF ToSet
      <3>4. DOMAIN AsSets(blocks[b].groups) = DOMAIN blocks[b].groups
        BY DEF AsSets
      <3>5. \A i \in DOMAIN blocks[b].groups :
              /\ AsSets(blocks[b].groups)[i].kind = blocks[b].groups[i].kind
              /\ AsSets(blocks[b].groups)[i].ids = ToSet(blocks[b].groups[i].ids)
        BY DEF AsSets
      <3>6. (\E g \in Range(ss[b]) : g.kind = kind /\ x \in g.ids)
              <=> \E i \in DOMAIN blocks[b].groups :
                    AsSets(blocks[b].groups)[i].kind = kind /\ x \in AsSets(blocks[b].groups)[i].ids
        BY <3>1, <3>4 DEF Range
      <3> QED
        BY <3>3, <3>5, <3>6
    <2> HIDE DEF ss, file
    <2> QED
      BY <2>1, <2>2, <2>3
  <1>9. ASSUME NEW x
        PROVE  x \in Range(ElementsOf(blocks, kind)) <=> Holds(x)
    <2>1. x \in Range(ElementsOf(blocks, kind)) <=> \E b \in DOMAIN blocks : x \in Range(tt[b])
      <3> HIDE DEF tt
      <3> QED
        BY <1>4, <1>6
    <2>2. \A b \in DOMAIN blocks : tt[b] = IdsOfKind(blocks[b].groups, kind)
      OBVIOUS
    <2> HIDE DEF tt
    <2> QED
      BY <1>2, <2>1, <2>2, IdsOfKindRange
  <1> HIDE DEF Holds
  <1> QED
    BY <1>8, <1>9

LEMMA SourceHas ==
    ASSUME crop \in Crops, NEW kind
    PROVE  GroupsOK(crop.source) /\ SourceIds(kind) = Range(ElementsOf(crop.source, kind))
  <1>1. /\ Len(crop.source) \in Nat /\ DOMAIN crop.source = 1..Len(crop.source) /\ Blocks = DOMAIN crop.source
        /\ \A b \in Blocks : crop.source[b].groups \in Seq(Group)
    BY SourceFacts DEF Blocks
  <1>2. GroupsOK(crop.source)
    BY <1>1 DEF GroupsOK
  <1> DEFINE tt == [b \in DOMAIN crop.source |-> IdsOfKind(crop.source[b].groups, kind)]
  <1>3. tt \in Seq(Seq(Id)) /\ DOMAIN tt = DOMAIN crop.source
    <2>1. \A b \in 1..Len(crop.source) : tt[b] \in Seq(Id)
      BY <1>1, IdsOfKindIn
    <2>2. tt = [b \in 1..Len(crop.source) |-> tt[b]] /\ DOMAIN tt = DOMAIN crop.source
      BY <1>1
    <2> HIDE DEF tt
    <2> QED
      BY <1>1, <2>1, <2>2, MakeSeq
  <1>4. Range(ElementsOf(crop.source, kind)) = UNION {Range(tt[b]) : b \in DOMAIN tt}
    <2>1. ElementsOf(crop.source, kind) = FlattenSeq(tt)
      BY DEF ElementsOf
    <2> HIDE DEF tt
    <2> QED
      BY <1>3, <2>1, FlattenElements
  <1>5. ASSUME NEW b \in Blocks
        PROVE  Range(tt[b]) = IdsOf(crop.source[b], kind)
    <2>1. tt[b] = IdsOfKind(crop.source[b].groups, kind)
      BY <1>1
    <2> HIDE DEF tt
    <2>2. ASSUME NEW x
          PROVE  x \in Range(tt[b]) <=> x \in IdsOf(crop.source[b], kind)
      <3>1. x \in Range(tt[b]) <=>
              \E i \in DOMAIN crop.source[b].groups : crop.source[b].groups[i].kind = kind
                /\ \E k \in DOMAIN crop.source[b].groups[i].ids : x = crop.source[b].groups[i].ids[k]
        BY <1>1, <2>1, IdsOfKindRange
      <3> QED
        BY <3>1 DEF IdsOf
    <2> QED
      BY <2>2
  <1>6. SourceIds(kind) = UNION {Range(tt[b]) : b \in DOMAIN tt}
    <2> HIDE DEF tt
    <2> QED
      BY <1>1, <1>3, <1>5 DEF SourceIds
  <1> HIDE DEF tt
  <1> QED
    BY <1>2, <1>4, <1>6

\* What the crop is made of, in the ids of the source.
LEMMA CropHas ==
    ASSUME crop \in Crops, crop.keep_relations
    PROVE  /\ \A x : <<"node", x>> \in TheCrop <=> x \in CropNodes
           /\ \A x : <<"way", x>> \in TheCrop <=> x \in CropWays
           /\ \A x : <<"relation", x>> \in TheCrop <=> x \in CropRelations
           /\ CropWays \subseteq SourceIds("way") /\ NodesInBox = SourceIds("node") \cap crop.inside
           /\ NodesInBox \subseteq CropNodes
           /\ \A w \in CropWays : crop.refs[w] \subseteq CropNodes
           /\ \A w : w \in CropWays <=> w \in SourceIds("way") /\ crop.refs[w] \cap NodesInBox # {}
           /\ \A r : r \in CropRelations <=>
                r \in SourceIds("relation") /\ \E m \in crop.members[r] :
                    \/ m[1] = "node" /\ m[2] \in CropNodes
                    \/ m[1] = "way" /\ m[2] \in CropWays
           /\ \A kind : SourceIds(kind) \subseteq Id
  <1>1. \A x : /\ <<"node", x>> \in TheCrop <=> x \in CropNodes
               /\ <<"way", x>> \in TheCrop <=> x \in CropWays
               /\ <<"relation", x>> \in TheCrop <=> x \in CropRelations
    BY DEF TheCrop, Elements
  <1>2. NodesInBox \subseteq CropNodes /\ \A w \in CropWays : crop.refs[w] \subseteq CropNodes
    BY DEF CropNodes, RefsOf
  <1>3. \A kind : SourceIds(kind) \subseteq Id
    <2> SUFFICES ASSUME NEW kind, NEW b \in Blocks PROVE IdsOf(crop.source[b], kind) \subseteq Id
      BY DEF SourceIds
    <2>1. crop.source[b].groups \in Seq(Group)
      BY SourceFacts
    <2>2. \A i \in DOMAIN crop.source[b].groups : crop.source[b].groups[i].ids \in Seq(Id)
      <3>1. \A i \in DOMAIN crop.source[b].groups : crop.source[b].groups[i] \in Group
        BY <2>1
      <3> QED
        BY <3>1 DEF Group
    <2>3. \A i \in DOMAIN crop.source[b].groups : \A k \in DOMAIN crop.source[b].groups[i].ids :
            crop.source[b].groups[i].ids[k] \in Id
      BY <2>2
    <2> QED
      BY <2>3 DEF IdsOf
  <1> QED
    BY <1>1, <1>2, <1>3 DEF CropWays, NodesInBox, CropRelations

\* What a layer is made of is in the crop.
LEMMA SameLayer ==
    ASSUME CropInv, WriteInv, outcome = "done", crop.keep_relations, ~crop.onto_source
    PROVE  Reading(ReadOf(output))!Layer = Reading(ReadOf(crop.source))!Layer
  <1> DEFINE J == ReadOf(output)
             K == ReadOf(crop.source)
             S(kind) == SourceIds(kind)
  <1>1. crop \in Crops /\ GroupsOK(output)
        /\ \A kind \in Kind : ElementsOf(output, kind) = KeptIds(kind, ElementsOf(crop.source, kind), TheCrop)
    BY DEF WriteInv, WrittenOK, WritesTheCrop
  <1>2. \A kind : Reading(K)!IdsOf(kind) = S(kind)
    BY <1>1, SourceHas, ReadHas
  <1>3. ASSUME NEW kind \in Kind
        PROVE  Reading(J)!IdsOf(kind) = {x \in S(kind) : <<kind, x>> \in TheCrop}
    <2>1. Reading(J)!IdsOf(kind) = Range(KeptIds(kind, ElementsOf(crop.source, kind), TheCrop))
      BY <1>1, ReadHas
    <2>2. ElementsOf(crop.source, kind) \in Seq(Id)
      <3>1. /\ Len(crop.source) \in Nat /\ DOMAIN crop.source = 1..Len(crop.source)
            /\ \A b \in DOMAIN crop.source : crop.source[b].groups \in Seq(Group)
        BY <1>1, SourceFacts DEF Blocks
      <3> DEFINE tt == [b \in DOMAIN crop.source |-> IdsOfKind(crop.source[b].groups, kind)]
      <3>2. \A b \in 1..Len(crop.source) : tt[b] \in Seq(Id)
        BY <3>1, IdsOfKindIn
      <3>3. tt = [b \in 1..Len(crop.source) |-> tt[b]]
        BY <3>1
      <3>4. ElementsOf(crop.source, kind) = FlattenSeq(tt)
        BY DEF ElementsOf
      <3> HIDE DEF tt
      <3>5. tt \in Seq(Seq(Id))
        BY <3>1, <3>2, <3>3, MakeSeq
      <3> QED
        BY <3>4, <3>5, FlattenElements
    <2>3. Range(KeptIds(kind, ElementsOf(crop.source, kind), TheCrop))
            = {x \in Range(ElementsOf(crop.source, kind)) : <<kind, x>> \in TheCrop}
      BY <2>2, KeptIdsRange
    <2> QED
      BY <1>1, <2>1, <2>3, SourceHas
  <1>4. /\ Reading(J)!IdsOf("node") = S("node") \cap CropNodes
        /\ Reading(J)!IdsOf("way") = CropWays
        /\ Reading(J)!IdsOf("relation") = CropRelations
    BY <1>1, <1>3, CropHas DEF Kind
  <1>5. /\ J.refs = crop.refs /\ J.members = crop.members /\ J.inside = crop.inside /\ J.crossing = {}
        /\ J.match = Element /\ J.box = TRUE /\ J.complete = FALSE /\ J.nodes = TRUE /\ J.ways = TRUE
        /\ J.relations = TRUE
        /\ K.refs = crop.refs /\ K.members = crop.members /\ K.inside = crop.inside /\ K.crossing = {}
        /\ K.match = Element /\ K.box = TRUE /\ K.complete = FALSE /\ K.nodes = TRUE /\ K.ways = TRUE
        /\ K.relations = TRUE
    BY DEF ReadOf
  <1> HIDE DEF J, K, S
  <1>6. S("node") \subseteq Id /\ S("way") \subseteq Id /\ S("relation") \subseteq Id
        /\ CropWays \subseteq S("way") /\ NodesInBox = S("node") \cap crop.inside
        /\ NodesInBox \subseteq CropNodes
        /\ (\A w \in CropWays : crop.refs[w] \subseteq CropNodes)
        /\ \A w : w \in CropWays <=> w \in S("way") /\ crop.refs[w] \cap NodesInBox # {}
    BY <1>1, CropHas DEF S
  <1>7. \A r : /\ Reading(J)!MemberWays(r) = {w \in Id : <<"way", w>> \in crop.members[r]}
               /\ Reading(K)!MemberWays(r) = {w \in Id : <<"way", w>> \in crop.members[r]}
    BY <1>5 DEF Reading!MemberWays
  <1>8. Reading(J)!PointNodes = NodesInBox /\ Reading(K)!PointNodes = NodesInBox
    <2>1. \A n \in Id : <<"node", n>> \in Element
      BY DEF Element, Kind
    <2>2. Reading(J)!PointNodes = {n \in S("node") \cap CropNodes : <<"node", n>> \in Element /\ n \in crop.inside}
      BY <1>4, <1>5 DEF Reading!PointNodes, Reading!Matches
    <2>3. Reading(K)!PointNodes = {n \in S("node") : <<"node", n>> \in Element /\ n \in crop.inside}
      BY <1>2, <1>5 DEF Reading!PointNodes, Reading!Matches
    <2> QED
      BY <1>6, <2>1, <2>2, <2>3
  <1>9. \A w : /\ Reading(J)!Touched(w) <=> crop.refs[w] \cap NodesInBox # {}
               /\ Reading(K)!Touched(w) <=> crop.refs[w] \cap NodesInBox # {}
    BY <1>2, <1>4, <1>5, <1>6 DEF Reading!Touched
  <1>10. \A r : /\ Reading(J)!LayerMembers(r) = Reading(J)!MemberWays(r) \cap CropWays
                /\ Reading(K)!LayerMembers(r) = Reading(J)!MemberWays(r) \cap CropWays
    <2>1. \A r : Reading(J)!MemberWays(r) = Reading(K)!MemberWays(r)
      BY <1>7
    <2>2. \A r, w : /\ w \in Reading(J)!LayerMembers(r) <=>
                         w \in Reading(J)!MemberWays(r) /\ w \in CropWays /\ Reading(J)!Touched(w)
                    /\ w \in Reading(K)!LayerMembers(r) <=>
                         w \in Reading(K)!MemberWays(r) /\ w \in S("way") /\ Reading(K)!Touched(w)
      BY <1>2, <1>4, <1>5 DEF Reading!LayerMembers, Reading!PresentMembers
    <2>3. \A w : /\ w \in S("way") /\ Reading(K)!Touched(w) <=> w \in CropWays
                 /\ w \in CropWays => Reading(J)!Touched(w)
      BY <1>6, <1>9
    <2> QED
      BY <2>1, <2>2, <2>3
  <1>11. \A i \in Id : <<"way", i>> \in Element /\ <<"relation", i>> \in Element
    BY DEF Element, Kind
  <1>12. Reading(J)!LayerRelations = Reading(K)!LayerRelations
    <2>1. ASSUME NEW r
          PROVE  r \in Reading(K)!LayerRelations <=>
                   r \in S("relation") /\ \E w \in Reading(J)!MemberWays(r) : w \in CropWays
      BY <1>2, <1>5, <1>6, <1>7, <1>9, <1>11
         DEF Reading!LayerRelations, Reading!PresentMembers, Reading!Matches
    <2>2. ASSUME NEW r
          PROVE  r \in Reading(J)!LayerRelations <=>
                   r \in CropRelations /\ \E w \in Reading(J)!MemberWays(r) : w \in CropWays
      <3>1. CropRelations \subseteq S("relation")
        BY <1>1, CropHas DEF S
      <3> QED
        BY <1>4, <1>5, <1>6, <1>9, <1>11, <3>1
           DEF Reading!LayerRelations, Reading!PresentMembers, Reading!Matches
    <2>3. ASSUME NEW r, NEW w \in Reading(J)!MemberWays(r), w \in CropWays, r \in S("relation")
          PROVE  r \in CropRelations
      <3>1. <<"way", w>> \in crop.members[r]
        BY <1>7, <2>3
      <3> QED
        BY <1>1, <2>3, <3>1, CropHas DEF S
    <2>4. CropRelations \subseteq S("relation")
      BY <1>1, CropHas DEF S
    <2> QED
      BY <2>1, <2>2, <2>3, <2>4
  <1>13. Reading(J)!StandaloneWays = Reading(K)!StandaloneWays
         /\ Reading(J)!StandaloneWays \subseteq CropWays
    BY <1>2, <1>4, <1>5, <1>6, <1>7, <1>9, <1>11, <1>12 DEF Reading!StandaloneWays, Reading!Matches
  <1> DEFINE N == S("node")
             M == S("node") \cap CropNodes
             P == Reading(J)!PointNodes
             W == Reading(J)!StandaloneWays
             R == Reading(J)!LayerRelations
             U == UNION {Reading(J)!LayerMembers(r) : r \in R}
  <1>14. U = UNION {Reading(K)!LayerMembers(r) : r \in R} /\ U \subseteq CropWays
    BY <1>10
  <1>15. \A ways : ways \subseteq CropWays => Reading(J)!Parts(ways, M) = Reading(K)!Parts(ways, N)
    <2>1. \A w \in CropWays : crop.refs[w] \cap M = crop.refs[w] \cap N
      BY <1>6
    <2>2. \A v : Reading(J)!Drawable(v) <=> Reading(K)!Drawable(v)
      BY DEF Reading!Drawable
    <2> SUFFICES ASSUME NEW ways, ways \subseteq CropWays
                 PROVE  Reading(J)!Parts(ways, M) = Reading(K)!Parts(ways, N)
      OBVIOUS
    <2>3. {<<w, crop.refs[w] \cap M>> : w \in ways} = {<<w, crop.refs[w] \cap N>> : w \in ways}
      BY <2>1
    <2> QED
      BY <1>5, <2>2, <2>3 DEF Reading!Parts
  <1>16. Reading(J)!Layer = Reading(J)!prepare_geodataframe(P, W, R, U, M)
    BY <1>4 DEF Reading!Layer
  <1>17. Reading(K)!Layer = Reading(K)!prepare_geodataframe(P, W, R, U, N)
    BY <1>2, <1>8, <1>12, <1>13, <1>14 DEF Reading!Layer
  <1> HIDE DEF N, M, P, W, R, U
  <1>18. Reading(J)!NodeRows(P) = Reading(K)!NodeRows(P)
    BY DEF Reading!NodeRows
  <1>19. Reading(J)!WayRows(W, M) = Reading(K)!WayRows(W, N)
    <2>1. \A w \in W : Reading(J)!Parts({w}, M) = Reading(K)!Parts({w}, N)
      BY <1>13, <1>15 DEF W
    <2> QED
      BY <2>1 DEF Reading!WayRows
  <1>20. Reading(J)!RelationRows(R, U, M) = Reading(K)!RelationRows(R, U, N)
    <2>1. \A r : /\ Reading(J)!get_ways_for_relation(r, U) = Reading(K)!get_ways_for_relation(r, U)
                 /\ Reading(J)!get_ways_for_relation(r, U) \subseteq CropWays
      BY <1>5, <1>14 DEF Reading!get_ways_for_relation, Reading!MemberIds
    <2>2. \A r \in R : Reading(J)!Parts(Reading(J)!get_ways_for_relation(r, U), M)
                         = Reading(K)!Parts(Reading(K)!get_ways_for_relation(r, U), N)
      BY <1>15, <2>1
    <2> QED
      BY <2>2 DEF Reading!RelationRows
  <1>21. \A row : Reading(J)!InBox(row) <=> Reading(K)!InBox(row)
    BY <1>5 DEF Reading!InBox
  <1>22. Reading(J)!prepare_geodataframe(P, W, R, U, M) = Reading(K)!prepare_geodataframe(P, W, R, U, N)
    BY <1>18, <1>19, <1>20, <1>21 DEF Reading!prepare_geodataframe
  <1> QED
    BY <1>16, <1>17, <1>22 DEF J, K

\* What is read of a crop, with the box that it was made with, is what is read of the
\* source (pyrosm.py:1227-1229).
THEOREM CropReadsAsSource == CropSpec => []RereadMatches
  <1>1. CropInv /\ WriteInv => RereadMatches
    BY SameLayer DEF RereadMatches
  <1> QED
    BY <1>1, WriteInvariant, PTL
=============================================================================
