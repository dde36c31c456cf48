-------------------------- MODULE OsmSessionProofs --------------------------
(***************************************************************************)
(* An OSM object reads as a new one would, for every file, script of calls *)
(* and place of a failure.  Then the writer: the subset that writing frames *)
(* back takes from the source, and the output that a refused write spares.  *)
(***************************************************************************)
EXTENDS OsmSession, PbfWriter, DataLemmas

-----------------------------------------------------------------------------
(***************************************************************************)
(* The invariant.  What the object holds is of the moment that it remembers *)
(* unless the flag says otherwise, and a call that is past the flag has the *)
(* moment it asked for in hand.                                            *)
(***************************************************************************)
ScriptOK == osm \in Sessions /\ call \in Call /\ todo \in Seq(Call)

\* Timestamps: only a history file has any, and none is later than the clock.
MomentOK ==
    /\ clock \in Nat /\ clock >= FirstChangeset
    /\ current \in {NoTime} \cup FirstChangeset..clock
    /\ ~osm.osh_file => current = NoTime
    /\ pc = "check" => asked = NoTime
    /\ pc = "parse" => asked = current
    /\ osm.osh_file /\ pc \in {"parse", "extract", "returned"} /\ call.reader # "write_pbf" =>
         asked # NoTime

Fresh == held = parse_osm_data(osm.file, current)
HeldOK ==
    /\ changed \in BOOLEAN
    /\ held # NothingHeld /\ ~changed => Fresh
    /\ pc = "extract" /\ call.reader # "write_pbf" => asked = current /\ Fresh
    /\ pc = "held" => call.reader = "write_pbf"

SessionInv == ScriptOK /\ MomentOK /\ HeldOK /\ HoldsOneMoment /\ ReadsAsFresh

LEMMA InitSession == SessionInit => SessionInv
  <1> SUFFICES ASSUME SessionInit PROVE SessionInv
    OBVIOUS
  <1>1. "get_network" \in Reader
    BY DEF Reader, NoticedFirst
  <1>2. NoCall \in Call
    BY <1>1 DEF NoCall, Call, Flaw, NoTime
  <1>3. osm.script \in Seq(Call)
    BY SessionAssumption DEF SessionInit, Session
  <1>4. ScriptOK
    BY <1>2, <1>3 DEF ScriptOK, SessionInit
  <1>5. MomentOK
    BY SessionAssumption DEF MomentOK, SessionInit, NoTime
  <1>6. HeldOK /\ HoldsOneMoment /\ ReadsAsFresh
    BY DEF HeldOK, HoldsOneMoment, ReadsAsFresh, Reads, SessionInit
  <1> QED
    BY <1>4, <1>5, <1>6 DEF SessionInv

\* As the clock goes on, a moment that was accepted stays one.
LEMMA MomentsStay ==
    ASSUME SessionInv, clock' \in Nat, clock' >= clock, UNCHANGED <<osm, held>>
    PROVE  HoldsOneMoment'
  <1>1. CASE held = NothingHeld
    BY <1>1 DEF HoldsOneMoment, NothingHeld
  <1>2. CASE held # NothingHeld
    <2>1. PICK t \in {NoTime} \cup FirstChangeset..clock : held = parse_osm_data(osm.file, t)
      BY <1>2 DEF SessionInv, HoldsOneMoment
    <2>2. t \in {NoTime} \cup FirstChangeset..clock'
      BY SessionAssumption DEF SessionInv, MomentOK, NoTime
    <2> QED
      BY <2>1, <2>2 DEF HoldsOneMoment
  <1> QED
    BY <1>1, <1>2

\* What the steps inside a call leave alone.
LEMMA InsideCall ==
    ASSUME SessionInv, UNCHANGED <<osm, clock, todo, call>>
    PROVE  ScriptOK' /\ clock' \in Nat /\ clock' >= clock /\ clock' >= FirstChangeset
  BY SessionAssumption DEF SessionInv, ScriptOK, MomentOK

-----------------------------------------------------------------------------
LEMMA StepSession == SessionInv /\ [SessionNext]_vars => SessionInv'
  <1> SUFFICES ASSUME SessionInv, [SessionNext]_vars PROVE SessionInv'
    OBVIOUS
  <1>1. CASE Begin
    <2>1. Head(todo) \in Call /\ Tail(todo) \in Seq(Call)
      BY <1>1 DEF SessionInv, ScriptOK, Begin
    <2>2. ScriptOK'
      BY <1>1, <2>1 DEF SessionInv, ScriptOK, Begin
    <2>3. MomentOK'
      BY <1>1 DEF SessionInv, MomentOK, Begin, NoTime
    <2>4. HeldOK'
      BY <1>1 DEF SessionInv, HeldOK, Fresh, Begin
    <2>5. HoldsOneMoment' /\ ReadsAsFresh'
      BY <1>1, MomentsStay DEF SessionInv, MomentOK, Begin, ReadsAsFresh, Reads
    <2> QED
      BY <2>2, <2>3, <2>4, <2>5 DEF SessionInv
  <1>2. CASE Check
    <2>1. ScriptOK' /\ HoldsOneMoment'
      BY <1>2, InsideCall, MomentsStay DEF Check, Rests
    <2>2. MomentOK' /\ HeldOK'
      BY <1>2 DEF SessionInv, MomentOK, HeldOK, Fresh, Check, Rests, Raise
    <2>3. ReadsAsFresh'
      BY <1>2 DEF ReadsAsFresh, Reads, Check, Raise
    <2> QED
      BY <2>1, <2>2, <2>3 DEF SessionInv
  <1>3. CASE ReadEngine
    <2>1. ScriptOK' /\ HoldsOneMoment'
      BY <1>3, InsideCall, MomentsStay DEF ReadEngine, Rests
    <2>2. MomentOK' /\ HeldOK'
      BY <1>3 DEF SessionInv, MomentOK, HeldOK, Fresh, ReadEngine, UsesEngine, Rests, Raise, Return
    <2>3. ReadsAsFresh'
      \* The other engine is used for reads of no particular moment only.
      BY <1>3 DEF SessionInv, MomentOK, ReadsAsFresh, Reads, ReadEngine, Rests, Raise, Return
    <2> QED
      BY <2>1, <2>2, <2>3 DEF SessionInv
  <1>4. CASE WriteHeld
    <2>1. ScriptOK' /\ HoldsOneMoment'
      BY <1>4, InsideCall, MomentsStay DEF WriteHeld, Rests
    <2>2. MomentOK' /\ HeldOK' /\ ReadsAsFresh'
      BY <1>4 DEF SessionInv, MomentOK, HeldOK, Fresh, WriteHeld, Rests, ReadsAsFresh, Reads
    <2> QED
      BY <2>1, <2>2 DEF SessionInv
  <1>5. CASE SetCurrentTime
    <2> DEFINE unix_time ==
          IF call.timestamp = NoTime /\ osm.osh_file THEN clock ELSE call.timestamp
    <2>1. ScriptOK' /\ HoldsOneMoment'
      BY <1>5, InsideCall, MomentsStay DEF SetCurrentTime
    <2>2. call.timestamp \in Nat
      BY DEF SessionInv, ScriptOK, Call
    <2>3. ReadsAsFresh'
      BY <1>5 DEF ReadsAsFresh, Reads, SetCurrentTime
    <2>4. CASE pc' = "raised"
      <3>1. UNCHANGED <<current, changed, asked, held, osm, clock, call>>
        BY <1>5, <2>4 DEF SetCurrentTime
      <3>2. MomentOK' /\ HeldOK'
        BY <2>4, <3>1 DEF SessionInv, MomentOK, HeldOK, Fresh
      <3> QED
        BY <2>1, <2>3, <3>2 DEF SessionInv
    <2>5. CASE pc' # "raised"
      <3>1. /\ current' = IF unix_time = NoTime THEN current ELSE unix_time
            /\ changed' = (changed \/ (unix_time # NoTime /\ current # unix_time))
            /\ asked' = unix_time
            /\ pc' = "parse"
            /\ UNCHANGED <<osm, clock, call, held>>
        BY <1>5, <2>5 DEF SetCurrentTime
      <3>2. call.timestamp # NoTime =>
              osm.osh_file /\ call.timestamp <= clock /\ call.timestamp >= FirstChangeset
        BY <1>5, <2>2, <2>5, SessionAssumption
           DEF SetCurrentTime, get_unix_time_raises, SessionInv, MomentOK
      <3>3. /\ unix_time = NoTime => ~osm.osh_file
            /\ unix_time # NoTime => osm.osh_file /\ unix_time \in FirstChangeset..clock
        BY <2>2, <3>2, SessionAssumption DEF SessionInv, MomentOK, NoTime
      <3>4. MomentOK'
        BY <3>1, <3>3 DEF SessionInv, MomentOK
      \* A flag that is still down means that the moment is the same as before.
      <3>5. ~changed' => ~changed /\ current' = current
        BY <3>1 DEF SessionInv, HeldOK
      <3>6. changed' \in BOOLEAN
        BY <3>1 DEF SessionInv, HeldOK
      <3>7. HeldOK'
        BY <3>1, <3>5, <3>6 DEF SessionInv, HeldOK, Fresh, NothingHeld
      <3> QED
        BY <2>1, <2>3, <3>4, <3>7 DEF SessionInv
    <2> QED
      BY <2>4, <2>5
  <1>6. CASE ParseFails
    <2>1. ScriptOK' /\ HoldsOneMoment'
      BY <1>6, InsideCall, MomentsStay DEF ParseFails
    <2>2. MomentOK' /\ HeldOK'
      BY <1>6 DEF SessionInv, MomentOK, HeldOK, Fresh, ParseFails, Raise, NothingHeld
    <2>3. ReadsAsFresh'
      BY <1>6 DEF ReadsAsFresh, Reads, ParseFails, Raise
    <2> QED
      BY <2>1, <2>2, <2>3 DEF SessionInv
  <1>7. CASE Parse
    <2>1. ScriptOK'
      BY <1>7, InsideCall DEF Parse
    <2>2. held' = parse_osm_data(osm.file, current)
      BY <1>7 DEF Parse, NeedsParse, SessionInv, HeldOK, Fresh
    <2>3. MomentOK'
      BY <1>7 DEF SessionInv, MomentOK, Parse
    <2>4. HeldOK'
      BY <1>7, <2>2 DEF SessionInv, MomentOK, HeldOK, Fresh, Parse
    <2>5. HoldsOneMoment'
      BY <1>7, <2>2 DEF SessionInv, MomentOK, HoldsOneMoment, Parse
    <2>6. ReadsAsFresh'
      BY <1>7 DEF ReadsAsFresh, Reads, Parse
    <2> QED
      BY <2>1, <2>3, <2>4, <2>5, <2>6 DEF SessionInv
  <1>8. CASE Extract
    <2>1. ScriptOK' /\ HoldsOneMoment'
      BY <1>8, InsideCall, MomentsStay DEF Extract, Rests
    <2>2. MomentOK' /\ HeldOK'
      BY <1>8 DEF SessionInv, MomentOK, HeldOK, Fresh, Extract, Rests, Raise, Return
    <2>3. ReadsAsFresh'
      BY <1>8 DEF SessionInv, HeldOK, Fresh, ReadsAsFresh, Reads, Extract, Rests, Raise, Return
    <2> QED
      BY <2>1, <2>2, <2>3 DEF SessionInv
  <1>9. CASE ExtractFails
    <2>1. ScriptOK' /\ HoldsOneMoment'
      BY <1>9, InsideCall, MomentsStay DEF ExtractFails
    <2>2. MomentOK' /\ HeldOK' /\ ReadsAsFresh'
      BY <1>9 DEF SessionInv, MomentOK, HeldOK, Fresh, ExtractFails, Raise, ReadsAsFresh, Reads
    <2> QED
      BY <2>1, <2>2 DEF SessionInv
  <1>10. CASE Tick
    <2>1. clock' \in Nat /\ clock' >= clock /\ clock' >= FirstChangeset
      BY <1>10, SessionAssumption DEF SessionInv, MomentOK, Tick
    <2>2. ScriptOK' /\ HoldsOneMoment'
      BY <1>10, <2>1, MomentsStay DEF SessionInv, ScriptOK, Tick
    <2>3. MomentOK'
      BY <1>10, <2>1, SessionAssumption DEF SessionInv, MomentOK, Tick
    <2>4. HeldOK' /\ ReadsAsFresh'
      BY <1>10 DEF SessionInv, HeldOK, Fresh, ReadsAsFresh, Reads, Tick
    <2> QED
      BY <2>2, <2>3, <2>4 DEF SessionInv
  <1>11. CASE UNCHANGED vars
    <2>1. ScriptOK' /\ HoldsOneMoment'
      BY <1>11, InsideCall, MomentsStay DEF vars
    <2>2. MomentOK' /\ HeldOK' /\ ReadsAsFresh'
      BY <1>11 DEF SessionInv, MomentOK, HeldOK, Fresh, ReadsAsFresh, Reads, vars
    <2> QED
      BY <2>1, <2>2 DEF SessionInv
  <1> QED
    BY <1>1, <1>2, <1>3, <1>4, <1>5, <1>6, <1>7, <1>8, <1>9, <1>10, <1>11 DEF SessionNext

\* The invariant of every session.
THEOREM SessionInvariant == SessionSpec => []SessionInv
  <1> QED
    BY InitSession, StepSession, PTL DEF SessionSpec

\* A read returns what the same read of a new object would, whatever was asked of
\* this one before and wherever that ended (pyrosm.py:255-271, 297-312).
THEOREM ReadsLikeNew == SessionSpec => []ReadsAsFresh
  <1>1. SessionInv => ReadsAsFresh
    BY DEF SessionInv
  <1> QED
    BY <1>1, SessionInvariant, PTL

\* What the object keeps, and write_pbf writes, is one parse at one accepted moment
\* (pyrosm.py:255-271, 1344).
THEOREM HoldsOneParse == SessionSpec => []HoldsOneMoment
  <1>1. SessionInv => HoldsOneMoment
    BY DEF SessionInv
  <1> QED
    BY <1>1, SessionInvariant, PTL

-----------------------------------------------------------------------------
(***************************************************************************)
(* The versions of an element.  Each record of a frame comes from the      *)
(* places of one group: those of an element, or, when no time is asked     *)
(* for, a single one.                                                      *)
(***************************************************************************)
Groups(versions, places, t) ==
    LET kept == Visible(versions, places)
    IN  IF t = NoTime THEN {{i} : i \in places}
        ELSE {Of(versions, kept, id) : id \in Ids(versions, kept)}

\* The greatest of some places in a list.
LEMMA LastPlace ==
    ASSUME NEW V, NEW versions \in Seq(V), NEW S \in SUBSET DOMAIN versions, S # {}
    PROVE  Max(S) \in S /\ \A i \in S : i <= Max(S)
  <1>1. Len(versions) \in Nat /\ S \in SUBSET (0..Len(versions))
    OBVIOUS
  <1> QED
    BY <1>1, MaxOfPlaces

\* The last known value of a column is one that it has, and its last one if that is known.
LEMMA KnownOf ==
    ASSUME NEW V, NEW versions \in Seq(V), NEW S \in SUBSET DOMAIN versions, S # {},
           NEW column, DOMAIN column = S, NEW null
    PROVE  /\ \E j \in S : LastKnown(column, null) = column[j]
           /\ column[Max(S)] # null => LastKnown(column, null) = column[Max(S)]
  <1> DEFINE known == {i \in S : column[i] # null}
  <1>1. Max(S) \in S /\ \A i \in S : i <= Max(S)
    BY LastPlace
  <1>2. known # {} => Max(known) \in known /\ \A i \in known : i <= Max(known)
    BY LastPlace
  <1>3. LastKnown(column, null) = IF known = {} THEN null ELSE column[Max(known)]
    BY DEF LastKnown
  <1>4. \E j \in S : LastKnown(column, null) = column[j]
    BY <1>1, <1>2, <1>3
  <1>5. ASSUME column[Max(S)] # null PROVE LastKnown(column, null) = column[Max(S)]
    <2>1. Max(S) \in known
      BY <1>1, <1>5
    <2>2. Max(known) \in Nat /\ Max(S) \in Nat /\ Max(known) <= Max(S) /\ Max(S) <= Max(known)
      BY <1>1, <1>2, <2>1
    <2>3. Max(known) = Max(S)
      BY <2>2
    <2> QED
      BY <1>3, <2>1, <2>3
  <1> QED
    BY <1>4, <1>5

\* What a record has of the versions of a node that it is made from.
LEMMA NodeOf ==
    ASSUME NEW versions \in Seq(NodeVersion), NEW S \in SUBSET DOMAIN versions, S # {}
    PROVE  LET v == versions[Max(S)]
               r == latest_node(versions, S)
           IN  /\ r.id = v.id /\ r.place = v.place
               /\ \E j \in S : r.tags = versions[j].tags
               /\ v.tags # NoTags => r.tags = v.tags
               /\ (v.tags = NoTags => \A j \in S : versions[j].tags = NoTags) => r = v
  <1> DEFINE v == versions[Max(S)]
             r == latest_node(versions, S)
             column == [i \in S |-> versions[i].tags]
  <1>1. Max(S) \in S /\ v \in NodeVersion
    BY LastPlace
  <1>2. r = [v EXCEPT !.tags = LastKnown(column, NoTags)]
    BY DEF latest_node
  <1>3. v = [id |-> v.id, time |-> v.time, visible |-> v.visible, place |-> v.place, tags |-> v.tags]
    BY <1>1 DEF NodeVersion
  <1>4. r.id = v.id /\ r.place = v.place /\ r.tags = LastKnown(column, NoTags)
    BY <1>2, <1>3
  <1>5. /\ \E j \in S : LastKnown(column, NoTags) = column[j]
        /\ column[Max(S)] # NoTags => LastKnown(column, NoTags) = column[Max(S)]
    <2>1. DOMAIN column = S
      OBVIOUS
    <2> HIDE DEF column
    <2> QED
      BY <2>1, KnownOf
  <1>6. (\E j \in S : r.tags = versions[j].tags) /\ (v.tags # NoTags => r.tags = v.tags)
    BY <1>1, <1>4, <1>5
  <1>7. ASSUME v.tags = NoTags => \A j \in S : versions[j].tags = NoTags PROVE r = v
    <2>1. r.tags = v.tags
      BY <1>6, <1>7
    <2> QED
      BY <1>2, <1>3, <1>4, <2>1
  <1> QED
    BY <1>4, <1>6, <1>7

\* And of the versions of a way, whose tags are looked at one by one.
LEMMA WayOf ==
    ASSUME NEW versions \in Seq(WayVersion), NEW S \in SUBSET DOMAIN versions, S # {}
    PROVE  LET v == versions[Max(S)]
               r == latest_way(versions, S)
           IN  /\ r.id = v.id /\ r.nodes = v.nodes
               /\ \A k \in Key : \E j \in S : r.tags[k] = versions[j].tags[k]
               /\ \A k \in Key : v.tags[k] # Missing => r.tags[k] = v.tags[k]
               /\ (\A k \in Key : v.tags[k] = Missing => \A j \in S : versions[j].tags[k] = Missing) => r = v
  <1> DEFINE v == versions[Max(S)]
             r == latest_way(versions, S)
             column(k) == [i \in S |-> versions[i].tags[k]]
  <1>1. Max(S) \in S /\ v \in WayVersion
    BY LastPlace
  <1>2. r = [v EXCEPT !.tags = [k \in Key |-> LastKnown(column(k), Missing)]]
    BY DEF latest_way
  <1>3. v = [id |-> v.id, time |-> v.time, visible |-> v.visible, nodes |-> v.nodes, tags |-> v.tags]
    BY <1>1 DEF WayVersion
  <1>4. /\ r.id = v.id /\ r.nodes = v.nodes
        /\ r.tags = [k \in Key |-> LastKnown(column(k), Missing)]
    BY <1>2, <1>3
  <1>5. ASSUME NEW k \in Key
        PROVE  /\ \E j \in S : r.tags[k] = versions[j].tags[k]
               /\ v.tags[k] # Missing => r.tags[k] = v.tags[k]
    <2> DEFINE c == column(k)
    <2>1. DOMAIN c = S /\ r.tags[k] = LastKnown(c, Missing) /\ \A i \in S : c[i] = versions[i].tags[k]
      BY <1>4
    <2> HIDE DEF c
    <2>2. /\ \E j \in S : LastKnown(c, Missing) = c[j]
          /\ c[Max(S)] # Missing => LastKnown(c, Missing) = c[Max(S)]
      BY <2>1, KnownOf
    <2> QED
      BY <1>1, <2>1, <2>2
  <1>6. ASSUME \A k \in Key : v.tags[k] = Missing => \A j \in S : versions[j].tags[k] = Missing
        PROVE  r = v
    <2>1. \A k \in Key : r.tags[k] = v.tags[k]
      BY <1>5, <1>6
    <2>2. v.tags = [k \in Key |-> v.tags[k]]
      BY <1>1 DEF WayVersion, Tags
    <2>3. r.tags = v.tags
      BY <1>4, <2>1, <2>2
    <2> QED
      BY <1>2, <1>3, <1>4, <2>3
  <1> QED
    BY <1>4, <1>5, <1>6
\* The records of a frame are made from its groups.
LEMMA Frames ==
    ASSUME NEW file \in HistoryFile, NEW t
    PROVE  /\ \A P \in SUBSET DOMAIN file.nodes :
                get_latest_version(file.nodes, P, latest_node, t)
                  = {latest_node(file.nodes, S) : S \in Groups(file.nodes, P, t)}
           /\ \A P \in SUBSET DOMAIN file.ways :
                get_latest_version(file.ways, P, latest_way, t)
                  = {latest_way(file.ways, S) : S \in Groups(file.ways, P, t)}
           /\ \A P \in SUBSET DOMAIN file.relations :
                get_latest_version(file.relations, P, latest_relation, t)
                  = {file.relations[Max(S)] : S \in Groups(file.relations, P, t)}
  <1>1. /\ file.nodes \in Seq(NodeVersion) /\ file.ways \in Seq(WayVersion)
        /\ file.relations \in Seq(RelationVersion)
    BY DEF HistoryFile
  <1>2. \A V : \A versions \in Seq(V) : \A i \in DOMAIN versions : Max({i}) = i
    <2> SUFFICES ASSUME NEW V, NEW versions \in Seq(V), NEW i \in DOMAIN versions PROVE Max({i}) = i
      OBVIOUS
    <2> QED
      BY LastPlace
  <1>3. CASE t # NoTime
    BY <1>3 DEF get_latest_version, Groups, latest_relation
  <1>4. CASE t = NoTime
    <2>1. ASSUME NEW i \in DOMAIN file.nodes PROVE latest_node(file.nodes, {i}) = file.nodes[i]
      <3>1. {i} \in SUBSET DOMAIN file.nodes /\ {i} # {} /\ Max({i}) = i
        BY <1>1, <1>2
      <3> QED
        BY <1>1, <3>1, NodeOf, ZenonT(40)
    <2>2. ASSUME NEW i \in DOMAIN file.ways PROVE latest_way(file.ways, {i}) = file.ways[i]
      <3>1. {i} \in SUBSET DOMAIN file.ways /\ {i} # {} /\ Max({i}) = i
        BY <1>1, <1>2
      <3>2. \A k \in Key : file.ways[i].tags[k] = Missing => \A j \in {i} : file.ways[j].tags[k] = Missing
        OBVIOUS
      <3> QED
        BY <1>1, <3>1, <3>2, WayOf, ZenonT(40)
    <2>3. \A i \in DOMAIN file.relations : Max({i}) = i
      BY <1>1, <1>2
    <2>4. \A versions, P : Groups(versions, P, t) = {{i} : i \in P}
      BY <1>4 DEF Groups
    <2>5. ASSUME NEW P \in SUBSET DOMAIN file.nodes
          PROVE  get_latest_version(file.nodes, P, latest_node, t)
                   = {latest_node(file.nodes, S) : S \in Groups(file.nodes, P, t)}
      <3>1. get_latest_version(file.nodes, P, latest_node, t) = {file.nodes[i] : i \in P}
        BY <1>4 DEF get_latest_version
      <3>2. {latest_node(file.nodes, S) : S \in {{i} : i \in P}} = {latest_node(file.nodes, {i}) : i \in P}
        OBVIOUS
      <3> QED
        BY <2>1, <2>4, <3>1, <3>2
    <2>6. ASSUME NEW P \in SUBSET DOMAIN file.ways
          PROVE  get_latest_version(file.ways, P, latest_way, t)
                   = {latest_way(file.ways, S) : S \in Groups(file.ways, P, t)}
      <3>1. get_latest_version(file.ways, P, latest_way, t) = {file.ways[i] : i \in P}
        BY <1>4 DEF get_latest_version
      <3>2. {latest_way(file.ways, S) : S \in {{i} : i \in P}} = {latest_way(file.ways, {i}) : i \in P}
        OBVIOUS
      <3> QED
        BY <2>2, <2>4, <3>1, <3>2
    <2>7. ASSUME NEW P \in SUBSET DOMAIN file.relations
          PROVE  get_latest_version(file.relations, P, latest_relation, t)
                   = {file.relations[Max(S)] : S \in Groups(file.relations, P, t)}
      <3>1. get_latest_version(file.relations, P, latest_relation, t) = {file.relations[i] : i \in P}
        BY <1>4 DEF get_latest_version
      <3>2. {file.relations[Max(S)] : S \in {{i} : i \in P}} = {file.relations[Max({i})] : i \in P}
        OBVIOUS
      <3>3. {file.relations[Max({i})] : i \in P} = {file.relations[i] : i \in P}
        BY <2>3
      <3> QED
        BY <2>4, <3>1, <3>2, <3>3
    <2> QED
      BY <2>5, <2>6, <2>7
  <1> QED
    BY <1>3, <1>4

\* The places of a group are some of those kept, of one element.
LEMMA GroupFacts ==
    ASSUME NEW versions, NEW places, NEW t, NEW S \in Groups(versions, places, t)
    PROVE  /\ S \subseteq places /\ S # {}
           /\ \A i, j \in S : versions[i].id = versions[j].id
  <1>1. CASE t = NoTime
    BY <1>1 DEF Groups
  <1>2. CASE t # NoTime
    BY <1>2 DEF Groups, Of, WithIds, Ids, Visible
  <1> QED
    BY <1>1, <1>2

\* A version that is kept and not deleted is in a group, and its last one there if it
\* is the last of its element.
LEMMA GroupOf ==
    ASSUME NEW V, NEW versions \in Seq(V), NEW places \in SUBSET DOMAIN versions, NEW t,
           NEW i \in places, t = NoTime \/ versions[i].visible
    PROVE  \E S \in Groups(versions, places, t) :
             /\ i \in S
             /\ (\A j \in places : versions[j].id = versions[i].id => j <= i) => Max(S) = i
  <1>1. PICK S \in Groups(versions, places, t) : i \in S
    <2>1. CASE t = NoTime
      BY <2>1 DEF Groups
    <2>2. CASE t # NoTime
      <3>1. i \in Visible(versions, places)
        BY <2>2 DEF Visible
      <3>2. i \in Of(versions, Visible(versions, places), versions[i].id)
        BY <3>1 DEF Of, WithIds
      <3> QED
        BY <2>2, <3>1, <3>2 DEF Groups, Ids
    <2> QED
      BY <2>1, <2>2
  <1>2. ASSUME \A j \in places : versions[j].id = versions[i].id => j <= i
        PROVE  Max(S) = i
    <2>1. S \in SUBSET places /\ S # {} /\ \A j \in S : versions[j].id = versions[i].id
      BY <1>1, GroupFacts
    <2>2. Max(S) \in S /\ \A j \in S : j <= Max(S)
      BY <2>1, LastPlace
    <2>3. Max(S) \in Nat /\ i \in Nat /\ i <= Max(S) /\ Max(S) <= i
      BY <1>1, <1>2, <2>1, <2>2
    <2> QED
      BY <2>3
  <1> QED
    BY <1>1, <1>2
-----------------------------------------------------------------------------
(***************************************************************************)
(* Nothing from the future: every pass starts from versions up to the time, *)
(* also those that fetch by ids.                                           *)
(***************************************************************************)
LEMMA NodePast ==
    ASSUME NEW file \in HistoryFile, NEW t, NEW P \in SUBSET UpTo(file.nodes, t),
           NEW r \in get_latest_version(file.nodes, P, latest_node, t)
    PROVE  FromPast(r, file.nodes, "place", t) /\ FromPast(r, file.nodes, "tags", t)
  <1>1. file.nodes \in Seq(NodeVersion) /\ P \in SUBSET DOMAIN file.nodes
    BY DEF HistoryFile, UpTo
  <1>2. PICK S \in Groups(file.nodes, P, t) : r = latest_node(file.nodes, S)
    <2>1. get_latest_version(file.nodes, P, latest_node, t) = {latest_node(file.nodes, S) : S \in Groups(file.nodes, P, t)}
      BY <1>1, Frames
    <2> QED
      BY <2>1
  <1>3. S \in SUBSET DOMAIN file.nodes /\ S # {} /\ \A i, j \in S : file.nodes[i].id = file.nodes[j].id
    BY <1>1, GroupFacts
  <1>4. \A i \in S : file.nodes[i] \in Range(file.nodes) /\ (t = NoTime \/ file.nodes[i].time <= t)
    BY <1>3, GroupFacts DEF UpTo, Range
  <1>5. Max(S) \in S
    BY <1>1, <1>3, LastPlace
  <1>6. /\ r.id = file.nodes[Max(S)].id /\ r.place = file.nodes[Max(S)].place
        /\ \E j \in S : r.tags = file.nodes[j].tags
    BY <1>1, <1>2, <1>3, NodeOf
  <1> QED
    BY <1>3, <1>4, <1>5, <1>6 DEF FromPast

LEMMA WayPast ==
    ASSUME NEW file \in HistoryFile, NEW t, NEW P \in SUBSET UpTo(file.ways, t),
           NEW r \in get_latest_version(file.ways, P, latest_way, t)
    PROVE  FromPast(r, file.ways, "nodes", t) /\ TagsFromPast(r, file.ways, t)
  <1>1. file.ways \in Seq(WayVersion) /\ P \in SUBSET DOMAIN file.ways
    BY DEF HistoryFile, UpTo
  <1>2. PICK S \in Groups(file.ways, P, t) : r = latest_way(file.ways, S)
    <2>1. get_latest_version(file.ways, P, latest_way, t) = {latest_way(file.ways, S) : S \in Groups(file.ways, P, t)}
      BY <1>1, Frames
    <2> QED
      BY <2>1
  <1>3. S \in SUBSET DOMAIN file.ways /\ S # {} /\ \A i, j \in S : file.ways[i].id = file.ways[j].id
    BY <1>1, GroupFacts
  <1>4. \A i \in S : file.ways[i] \in Range(file.ways) /\ (t = NoTime \/ file.ways[i].time <= t)
    BY <1>3, GroupFacts DEF UpTo, Range
  <1>5. Max(S) \in S
    BY <1>1, <1>3, LastPlace
  <1>6. /\ r.id = file.ways[Max(S)].id /\ r.nodes = file.ways[Max(S)].nodes
        /\ \A k \in Key : \E j \in S : r.tags[k] = file.ways[j].tags[k]
    BY <1>1, <1>2, <1>3, WayOf
  <1>7. FromPast(r, file.ways, "nodes", t)
    BY <1>4, <1>5, <1>6 DEF FromPast
  <1>8. \A k \in Key : \E v \in Range(file.ways) :
          v.id = r.id /\ v.tags[k] = r.tags[k] /\ (t = NoTime \/ v.time <= t)
    BY <1>3, <1>4, <1>5, <1>6
  <1> QED
    BY <1>7, <1>8 DEF TagsFromPast

LEMMA RelationPast ==
    ASSUME NEW file \in HistoryFile, NEW t, NEW P \in SUBSET UpTo(file.relations, t),
           NEW r \in get_latest_version(file.relations, P, latest_relation, t)
    PROVE  FromPast(r, file.relations, "ways", t)
  <1>1. file.relations \in Seq(RelationVersion) /\ P \in SUBSET DOMAIN file.relations
    BY DEF HistoryFile, UpTo
  <1>2. PICK S \in Groups(file.relations, P, t) : r = file.relations[Max(S)]
    <2>1. get_latest_version(file.relations, P, latest_relation, t) = {file.relations[Max(S)] : S \in Groups(file.relations, P, t)}
      BY <1>1, Frames
    <2> QED
      BY <2>1
  <1>3. S \in SUBSET P /\ S # {}
    BY <1>2, GroupFacts
  <1>4. Max(S) \in S
    BY <1>1, <1>3, LastPlace
  <1> QED
    BY <1>2, <1>3, <1>4 DEF FromPast, UpTo, Range

\* A record with the same id and place.
LEMMA LocatedPast ==
    ASSUME NEW versions, NEW t, NEW records, NEW c \in Located(records),
           \A r \in records : FromPast(r, versions, "place", t)
    PROVE  FromPast(c, versions, "place", t)
  <1>1. PICK r \in records : c.id = r.id /\ c.place = r.place
    BY DEF Located
  <1> QED
    BY <1>1 DEF FromPast

\* The places that the passes keep are places of versions up to the time.
LEMMA KeptPlaces ==
    ASSUME NEW file \in HistoryFile, NEW t
    PROVE  /\ parse_nodes(file, t) \in SUBSET UpTo(file.nodes, t)
           /\ parse_ways(file, t) \in SUBSET UpTo(file.ways, t)
           /\ parse_relations(file, t) \in SUBSET UpTo(file.relations, t)
           /\ \A ids : /\ WithIds(file.nodes, UpTo(file.nodes, t), ids) \in SUBSET UpTo(file.nodes, t)
                       /\ WithIds(file.ways, UpTo(file.ways, t), ids) \in SUBSET UpTo(file.ways, t)
  BY DEF parse_nodes, parse_ways, parse_relations, WithIds

\* Everything that a parse returns has been there.
LEMMA ParsedPast ==
    ASSUME NEW file \in HistoryFile, NEW t
    PROVE  LET data == parse_osm_data(file, t)
           IN  /\ \A n \in data.nodes : FromPast(n, file.nodes, "place", t) /\ FromPast(n, file.nodes, "tags", t)
               /\ \A c \in data.coordinates : FromPast(c, file.nodes, "place", t)
               /\ \A w \in data.ways \cup data.member_ways :
                    FromPast(w, file.ways, "nodes", t) /\ TagsFromPast(w, file.ways, t)
               /\ \A r \in data.relations : FromPast(r, file.relations, "ways", t)
  <1> DEFINE data == parse_osm_data(file, t)
  <1>1. \A n \in nodes_df(file, t) : FromPast(n, file.nodes, "place", t) /\ FromPast(n, file.nodes, "tags", t)
    BY KeptPlaces, NodePast DEF nodes_df
  <1>2. \A ids : \A n \in boundary_nodes(file, t, ids) : FromPast(n, file.nodes, "place", t)
    BY KeptPlaces, NodePast DEF boundary_nodes
  <1>3. \A w \in all_ways(file, t) : FromPast(w, file.ways, "nodes", t) /\ TagsFromPast(w, file.ways, t)
    BY KeptPlaces, WayPast DEF all_ways
  <1>4. \A w \in completed_ways(file, t) : FromPast(w, file.ways, "nodes", t) /\ TagsFromPast(w, file.ways, t)
    <2>1. CASE file.complete_relations /\ file.box
      <3> DEFINE P == WithIds(file.ways, UpTo(file.ways, t), missing_way_ids(file, t))
      <3>1. completed_ways(file, t) = get_latest_version(file.ways, P, latest_way, t)
        BY <2>1 DEF completed_ways
      <3>2. P \in SUBSET UpTo(file.ways, t)
        BY KeptPlaces
      <3> QED
        BY <3>1, <3>2, WayPast
    <2>2. CASE ~ (file.complete_relations /\ file.box)
      BY <2>2 DEF completed_ways
    <2> QED
      BY <2>1, <2>2
  <1>5. \A r \in relations_df(file, t) : FromPast(r, file.relations, "ways", t)
    BY KeptPlaces, RelationPast DEF relations_df
  <1>6. \A c \in node_coordinates(file, t) : FromPast(c, file.nodes, "place", t)
    <2> SUFFICES ASSUME NEW c \in node_coordinates(file, t) PROVE FromPast(c, file.nodes, "place", t)
      OBVIOUS
    <2>1. CASE c \in Located(nodes_df(file, t))
      BY <1>1, <2>1, LocatedPast
    <2>2. CASE \E ids : c \in Located(boundary_nodes(file, t, ids))
      BY <1>2, <2>2, LocatedPast
    <2> QED
      BY <2>1, <2>2 DEF node_coordinates
  <1>7. \/ data = Empty
        \/ data = Collections(nodes_df(file, t), all_ways(file, t), relations_df(file, t),
                              node_coordinates(file, t), completed_ways(file, t))
    BY DEF parse_osm_data
  <1>8. \/ data.nodes = {} /\ data.ways = {} /\ data.relations = {} /\ data.coordinates = {}
           /\ data.member_ways = {}
        \/ /\ data.nodes = nodes_df(file, t) /\ data.ways = all_ways(file, t)
           /\ data.relations = relations_df(file, t) /\ data.coordinates = node_coordinates(file, t)
           /\ data.member_ways = completed_ways(file, t)
    BY <1>7 DEF Collections, Empty
  <1> HIDE DEF data
  <1>9. /\ \A n \in data.nodes : FromPast(n, file.nodes, "place", t) /\ FromPast(n, file.nodes, "tags", t)
        /\ \A c \in data.coordinates : FromPast(c, file.nodes, "place", t)
        /\ \A w \in data.ways \cup data.member_ways :
             FromPast(w, file.ways, "nodes", t) /\ TagsFromPast(w, file.ways, t)
        /\ \A r \in data.relations : FromPast(r, file.relations, "ways", t)
    BY <1>1, <1>3, <1>4, <1>5, <1>6, <1>8
  <1> QED
    BY <1>9 DEF data
\* What a method passes on of what was parsed.
LEMMA PassedOn ==
    ASSUME NEW file, NEW t, NEW reader
    PROVE  LET data == parse_osm_data(file, t)
               passed == Passed(reader, data)
               uses == Uses[reader]
           IN  /\ passed.nodes = (IF "nodes" \in uses THEN data.nodes ELSE {})
               /\ passed.ways = (IF "ways" \in uses THEN data.ways ELSE {})
               /\ passed.relations = (IF "relations" \in uses THEN data.relations ELSE {})
               /\ passed.coordinates = (IF "coordinates" \in uses THEN data.coordinates ELSE {})
               /\ passed.member_ways = (IF "member_ways" \in uses THEN data.member_ways ELSE {})
  <1> DEFINE data == parse_osm_data(file, t)
  <1>1. DOMAIN data = {"nodes", "ways", "relations", "coordinates", "member_ways"}
    BY DEF parse_osm_data, Collections, Empty
  <1> HIDE DEF data
  <1>2. Passed(reader, data) = [name \in DOMAIN data |-> IF name \in Uses[reader] THEN data[name] ELSE {}]
    BY DEF Passed
  <1> HIDE DEF Passed
  <1>3. LET passed == Passed(reader, data)
            uses == Uses[reader]
        IN  /\ passed.nodes = (IF "nodes" \in uses THEN data.nodes ELSE {})
            /\ passed.ways = (IF "ways" \in uses THEN data.ways ELSE {})
            /\ passed.relations = (IF "relations" \in uses THEN data.relations ELSE {})
            /\ passed.coordinates = (IF "coordinates" \in uses THEN data.coordinates ELSE {})
            /\ passed.member_ways = (IF "member_ways" \in uses THEN data.member_ways ELSE {})
    BY <1>1, <1>2
  <1> QED
    BY <1>3 DEF data

\* A read of a session: what it returns, of which file and when.
LEMMA ReadOf ==
    ASSUME SessionInv, Reads
    PROVE  /\ osm.file \in HistoryFile /\ call.reader \in Reader \ {"write_pbf"}
           /\ answer = Passed(call.reader, parse_osm_data(osm.file, asked))
  <1>1. osm \in Session /\ call \in Call
    BY SessionAssumption DEF SessionInv, ScriptOK
  <1> QED
    BY <1>1 DEF SessionInv, ReadsAsFresh, Reads, Session, Call

\* No tag, position, vertex or member in an answer comes from a version made after the
\* moment asked for (pbfreader.pyx:341-350, 626-640; data_filter.pyx:340-343).
THEOREM NothingNewer == SessionSpec => []NothingFromTheFuture
  <1>1. SessionInv => NothingFromTheFuture
    <2> SUFFICES ASSUME SessionInv, Reads PROVE NothingFromTheFuture
      BY DEF NothingFromTheFuture
    <2> DEFINE data == parse_osm_data(osm.file, asked)
    <2>1. osm.file \in HistoryFile /\ answer = Passed(call.reader, data)
      BY ReadOf
    <2>2. /\ answer.nodes \subseteq data.nodes /\ answer.ways \subseteq data.ways
          /\ answer.relations \subseteq data.relations /\ answer.coordinates \subseteq data.coordinates
          /\ answer.member_ways \subseteq data.member_ways
      BY <2>1, PassedOn
    <2>3. LET f == osm.file  t == asked
          IN  /\ \A n \in data.nodes : FromPast(n, f.nodes, "place", t) /\ FromPast(n, f.nodes, "tags", t)
              /\ \A c \in data.coordinates : FromPast(c, f.nodes, "place", t)
              /\ \A w \in data.ways \cup data.member_ways :
                   FromPast(w, f.ways, "nodes", t) /\ TagsFromPast(w, f.ways, t)
              /\ \A r \in data.relations : FromPast(r, f.relations, "ways", t)
      BY <2>1, ParsedPast
    <2> HIDE DEF data
    <2> QED
      BY <2>2, <2>3 DEF NothingFromTheFuture
  <1> QED
    BY <1>1, SessionInvariant, PTL
-----------------------------------------------------------------------------
(***************************************************************************)
(* Nothing is lost: the latest version of an element that is there is the  *)
(* last of its group in every pass that keeps it.                          *)
(***************************************************************************)
IsLatest(versions, t, i) ==
    /\ i \in UpTo(versions, t)
    /\ \A j \in UpTo(versions, t) : versions[j].id = versions[i].id => j <= i

LEMMA AsOfIs ==
    ASSUME NEW V, NEW versions \in Seq(V), NEW t
    PROVE  AsOf(versions, t) = {versions[i] : i \in {j \in DOMAIN versions : IsLatest(versions, t, j) /\ versions[j].visible}}
  <1> DEFINE past == {i \in DOMAIN versions : t # NoTime => versions[i].time <= t}
             latest == {Max(Of(versions, past, id)) : id \in Ids(versions, past)}
  <1>1. past = UpTo(versions, t)
    BY DEF UpTo
  <1>2. ASSUME NEW i \in latest PROVE i \in DOMAIN versions /\ IsLatest(versions, t, i)
    <2>1. PICK id \in Ids(versions, past) : i = Max(Of(versions, past, id))
      OBVIOUS
    <2> DEFINE S == Of(versions, past, id)
    <2>2. S \in SUBSET DOMAIN versions /\ S # {}
      BY <2>1 DEF Of, WithIds, Ids
    <2>3. i \in S /\ \A j \in S : j <= i
      BY <2>1, <2>2, LastPlace
    <2> QED
      BY <1>1, <2>3 DEF Of, WithIds, IsLatest
  <1>3. ASSUME NEW i \in DOMAIN versions, IsLatest(versions, t, i) PROVE i \in latest
    <2> DEFINE id == versions[i].id
               S == Of(versions, past, id)
    <2>1. i \in S /\ id \in Ids(versions, past) /\ S \in SUBSET DOMAIN versions
      BY <1>1, <1>3 DEF Of, WithIds, Ids, IsLatest
    <2>2. \A j \in S : j <= i
      BY <1>1, <1>3 DEF Of, WithIds, IsLatest
    <2>3. Max(S) \in S /\ \A j \in S : j <= Max(S)
      BY <2>1, LastPlace
    <2>4. Max(S) \in Nat /\ i \in Nat /\ Max(S) <= i /\ i <= Max(S)
      BY <2>1, <2>2, <2>3
    <2>5. Max(S) = i
      BY <2>4
    <2> QED
      BY <2>1, <2>5
  <1>4. AsOf(versions, t) = {versions[i] : i \in {j \in latest : versions[j].visible}}
    BY DEF AsOf
  <1>5. {j \in latest : versions[j].visible} =
          {j \in DOMAIN versions : IsLatest(versions, t, j) /\ versions[j].visible}
    BY <1>2, <1>3
  <1> QED
    BY <1>4, <1>5

\* The record of a node that is there, in any frame of places that has its latest version.
LEMMA NodeThere ==
    ASSUME NEW file \in HistoryFile, NEW t, NEW P \in SUBSET UpTo(file.nodes, t),
           NEW i \in P, IsLatest(file.nodes, t, i), file.nodes[i].visible
    PROVE  \E r \in get_latest_version(file.nodes, P, latest_node, t) :
             r.id = file.nodes[i].id /\ r.place = file.nodes[i].place /\ HasTags(r, file.nodes[i])
  <1>1. file.nodes \in Seq(NodeVersion) /\ P \in SUBSET DOMAIN file.nodes
    BY DEF HistoryFile, UpTo
  <1>2. PICK S \in Groups(file.nodes, P, t) : i \in S /\ Max(S) = i
    BY <1>1, GroupOf DEF IsLatest
  <1>3. S \in SUBSET DOMAIN file.nodes /\ S # {}
    BY <1>1, GroupFacts
  <1> DEFINE r == latest_node(file.nodes, S)
  <1>4. r.id = file.nodes[i].id /\ r.place = file.nodes[i].place
    BY <1>1, <1>2, <1>3, NodeOf
  <1>5. file.nodes[i].tags # NoTags => r.tags = file.nodes[i].tags
    BY <1>1, <1>2, <1>3, NodeOf
  <1>6. get_latest_version(file.nodes, P, latest_node, t) =
          {latest_node(file.nodes, G) : G \in Groups(file.nodes, P, t)}
    BY <1>1, Frames
  <1> HIDE DEF latest_node
  <1> QED
    BY <1>4, <1>5, <1>6 DEF HasTags

LEMMA WayThere ==
    ASSUME NEW file \in HistoryFile, NEW t, NEW P \in SUBSET UpTo(file.ways, t),
           NEW i \in P, IsLatest(file.ways, t, i), file.ways[i].visible
    PROVE  \E r \in get_latest_version(file.ways, P, latest_way, t) :
             r.id = file.ways[i].id /\ r.nodes = file.ways[i].nodes /\ HasTags(r, file.ways[i])
  <1>1. file.ways \in Seq(WayVersion) /\ P \in SUBSET DOMAIN file.ways
    BY DEF HistoryFile, UpTo
  <1>2. PICK S \in Groups(file.ways, P, t) : i \in S /\ Max(S) = i
    BY <1>1, GroupOf DEF IsLatest
  <1>3. S \in SUBSET DOMAIN file.ways /\ S # {}
    BY <1>1, GroupFacts
  <1> DEFINE r == latest_way(file.ways, S)
  <1>4. r.id = file.ways[i].id /\ r.nodes = file.ways[i].nodes
    BY <1>1, <1>2, <1>3, WayOf
  <1>5. \A k \in Key : file.ways[i].tags[k] # Missing => r.tags[k] = file.ways[i].tags[k]
    BY <1>1, <1>2, <1>3, WayOf
  <1>6. get_latest_version(file.ways, P, latest_way, t) =
          {latest_way(file.ways, G) : G \in Groups(file.ways, P, t)}
    BY <1>1, Frames
  <1> HIDE DEF latest_way
  <1> QED
    BY <1>4, <1>5, <1>6 DEF HasTags

LEMMA RelationThere ==
    ASSUME NEW file \in HistoryFile, NEW t, NEW i \in UpTo(file.relations, t),
           IsLatest(file.relations, t, i), file.relations[i].visible
    PROVE  file.relations[i] \in relations_df(file, t)
  <1> DEFINE P == UpTo(file.relations, t)
  <1>1. file.relations \in Seq(RelationVersion) /\ P \in SUBSET DOMAIN file.relations
    BY DEF HistoryFile, UpTo
  <1>2. PICK S \in Groups(file.relations, P, t) : i \in S /\ Max(S) = i
    BY <1>1, GroupOf DEF IsLatest
  <1>3. get_latest_version(file.relations, P, latest_relation, t) =
          {file.relations[Max(G)] : G \in Groups(file.relations, P, t)}
    BY <1>1, Frames
  <1> QED
    BY <1>2, <1>3 DEF relations_df, parse_relations
\* A node of the map, and a way of it, are kept by their passes.
LEMMA KeptNode ==
    ASSUME NEW file \in HistoryFile, NEW t, NEW v \in NodesAsOf(file, t)
    PROVE  \E i \in parse_nodes(file, t) :
             v = file.nodes[i] /\ IsLatest(file.nodes, t, i) /\ file.nodes[i].visible
  <1>1. file.nodes \in Seq(NodeVersion)
    BY DEF HistoryFile
  <1>2. PICK i \in DOMAIN file.nodes :
          v = file.nodes[i] /\ IsLatest(file.nodes, t, i) /\ file.nodes[i].visible
    BY <1>1, AsOfIs DEF NodesAsOf
  <1>3. file.box => file.nodes[i].place \in InBox
    BY <1>2 DEF NodesAsOf
  <1> QED
    BY <1>2, <1>3 DEF parse_nodes, IsLatest

LEMMA KeptWay ==
    ASSUME NEW file \in HistoryFile, NEW t, NEW v \in WaysAsOf(file, t)
    PROVE  \E i \in parse_ways(file, t) :
             v = file.ways[i] /\ IsLatest(file.ways, t, i) /\ file.ways[i].visible
  <1>1. file.ways \in Seq(WayVersion)
    BY DEF HistoryFile
  <1>2. PICK i \in DOMAIN file.ways :
          v = file.ways[i] /\ IsLatest(file.ways, t, i) /\ file.ways[i].visible
    BY <1>1, AsOfIs DEF WaysAsOf
  <1>3. IdsIn(NodesAsOf(file, t)) \subseteq Ids(file.nodes, parse_nodes(file, t))
    BY KeptNode DEF IdsIn, Ids
  <1>4. file.box => file.ways[i].nodes \cap Ids(file.nodes, parse_nodes(file, t)) # {}
    BY <1>2, <1>3 DEF WaysAsOf
  <1> QED
    BY <1>2, <1>4 DEF parse_ways, IsLatest

\* What the first pass leaves makes the difference between all collections and none.
LEMMA ParsedAll ==
    ASSUME NEW file, NEW t, parse_nodes(file, t) # {}
    PROVE  LET data == parse_osm_data(file, t)
           IN  /\ data.nodes = nodes_df(file, t) /\ data.ways = all_ways(file, t)
               /\ data.relations = relations_df(file, t) /\ data.coordinates = node_coordinates(file, t)
               /\ data.member_ways = completed_ways(file, t)
  BY DEF parse_osm_data, Collections

\* There are ways on the map only if the first pass leaves something, unless there is no
\* node yet.
LEMMA WaysNeedNodes ==
    ASSUME NEW file \in HistoryFile, NEW t, NEW v \in WaysAsOf(file, t), UpTo(file.nodes, t) # {}
    PROVE  parse_nodes(file, t) # {}
  <1>1. CASE file.box
    <2>1. NodesAsOf(file, t) # {}
      BY <1>1 DEF WaysAsOf, IdsIn
    <2> QED
      BY <2>1, KeptNode
  <1>2. CASE ~file.box
    BY <1>2 DEF parse_nodes
  <1> QED
    BY <1>1, <1>2

\* The vertices of a way are located, whichever pass finds them.
LEMMA VertexThere ==
    ASSUME NEW file \in HistoryFile, NEW t, NEW v \in WaysAsOf(file, t),
           NEW n \in AsOf(file.nodes, t), n.id \in v.nodes
    PROVE  n.id \in IdsIn(node_coordinates(file, t))
  <1>1. file.nodes \in Seq(NodeVersion)
    BY DEF HistoryFile
  <1>2. PICK i \in DOMAIN file.nodes :
          n = file.nodes[i] /\ IsLatest(file.nodes, t, i) /\ file.nodes[i].visible
    BY <1>1, AsOfIs
  <1>3. \A records : \A r \in records : r.id \in IdsIn(Located(records))
    <2> SUFFICES ASSUME NEW records, NEW r \in records PROVE r.id \in IdsIn(Located(records))
      OBVIOUS
    <2>1. [id |-> r.id, place |-> r.place] \in Located(records)
      BY DEF Located
    <2>2. [id |-> r.id, place |-> r.place].id = r.id
      OBVIOUS
    <2> QED
      BY <2>1, <2>2 DEF IdsIn
  <1>4. Located(nodes_df(file, t)) \subseteq node_coordinates(file, t)
    BY DEF node_coordinates
  <1>5. CASE n.id \in IdsIn(nodes_df(file, t))
    <2>1. PICK r \in nodes_df(file, t) : r.id = n.id
      BY <1>5 DEF IdsIn
    <2> QED
      BY <2>1, <1>3, <1>4 DEF IdsIn
  <1>6. CASE n.id \notin IdsIn(nodes_df(file, t))
    <2>1. i \notin parse_nodes(file, t)
      <3>1. SUFFICES ASSUME i \in parse_nodes(file, t) PROVE FALSE
        OBVIOUS
      <3>2. \E r \in nodes_df(file, t) : r.id = n.id
        BY <1>2, <3>1, KeptPlaces, NodeThere DEF nodes_df
      <3> QED
        BY <1>6, <3>2 DEF IdsIn
    <2>2. file.box
      BY <1>2, <2>1 DEF parse_nodes, IsLatest
    <2>3. PICK w \in all_ways(file, t) : w.nodes = v.nodes
      <3>1. PICK k \in parse_ways(file, t) :
              v = file.ways[k] /\ IsLatest(file.ways, t, k) /\ file.ways[k].visible
        BY KeptWay
      <3> QED
        BY <3>1, KeptPlaces, WayThere DEF all_ways
    <2> DEFINE needed == UNION {w1.nodes : w1 \in all_ways(file, t) \cup completed_ways(file, t)}
               ids == needed \ IdsIn(nodes_df(file, t))
               P == WithIds(file.nodes, UpTo(file.nodes, t), ids)
    <2>4. n.id \in ids
      BY <1>6, <2>3
    <2>5. i \in P /\ P \in SUBSET UpTo(file.nodes, t)
      BY <1>2, <2>4 DEF WithIds, IsLatest
    <2>6. \E r \in boundary_nodes(file, t, ids) : r.id = n.id
      BY <1>2, <2>5, NodeThere DEF boundary_nodes
    <2>7. Located(boundary_nodes(file, t, ids)) \subseteq node_coordinates(file, t)
      BY <2>2, <2>3 DEF node_coordinates
    <2> QED
      BY <1>3, <2>6, <2>7 DEF IdsIn
  <1> QED
    BY <1>5, <1>6

\* All that is on the map is in a parse.
LEMMA ParsedThere ==
    ASSUME NEW file \in HistoryFile, NEW t
    PROVE  LET data == parse_osm_data(file, t)
           IN  /\ \A v \in NodesAsOf(file, t) : \E n \in data.nodes :
                    n.id = v.id /\ n.place = v.place /\ HasTags(n, v)
               /\ UpTo(file.nodes, t) # {} => \A v \in WaysAsOf(file, t) : \E w \in data.ways :
                    w.id = v.id /\ w.nodes = v.nodes /\ HasTags(w, v)
               /\ NodesAsOf(file, t) # {} => AsOf(file.relations, t) \subseteq data.relations
               /\ \A v \in WaysAsOf(file, t) : \A n \in AsOf(file.nodes, t) :
                    n.id \in v.nodes => n.id \in IdsIn(data.coordinates)
  <1> DEFINE data == parse_osm_data(file, t)
  <1>1. ASSUME NEW v \in NodesAsOf(file, t)
        PROVE  \E n \in data.nodes : n.id = v.id /\ n.place = v.place /\ HasTags(n, v)
    <2>1. PICK i \in parse_nodes(file, t) :
            v = file.nodes[i] /\ IsLatest(file.nodes, t, i) /\ file.nodes[i].visible
      BY KeptNode
    <2>2. data.nodes = nodes_df(file, t)
      BY <2>1, ParsedAll
    <2>3. \E n \in nodes_df(file, t) : n.id = v.id /\ n.place = v.place /\ HasTags(n, v)
      BY <2>1, KeptPlaces, NodeThere DEF nodes_df
    <2> QED
      BY <2>2, <2>3
  <1>2. ASSUME UpTo(file.nodes, t) # {}, NEW v \in WaysAsOf(file, t)
        PROVE  \E w \in data.ways : w.id = v.id /\ w.nodes = v.nodes /\ HasTags(w, v)
    <2>1. PICK i \in parse_ways(file, t) :
            v = file.ways[i] /\ IsLatest(file.ways, t, i) /\ file.ways[i].visible
      BY KeptWay
    <2>2. data.ways = all_ways(file, t)
      BY <1>2, WaysNeedNodes, ParsedAll
    <2>3. \E w \in all_ways(file, t) : w.id = v.id /\ w.nodes = v.nodes /\ HasTags(w, v)
      BY <2>1, KeptPlaces, WayThere DEF all_ways
    <2> QED
      BY <2>2, <2>3
  <1>3. ASSUME NodesAsOf(file, t) # {}, NEW v \in AsOf(file.relations, t)
        PROVE  v \in data.relations
    <2>1. file.relations \in Seq(RelationVersion)
      BY DEF HistoryFile
    <2>2. PICK i \in DOMAIN file.relations :
            v = file.relations[i] /\ IsLatest(file.relations, t, i) /\ file.relations[i].visible
      BY <2>1, AsOfIs
    <2>3. data.relations = relations_df(file, t)
      BY <1>3, KeptNode, ParsedAll
    <2> QED
      BY <2>2, <2>3, RelationThere DEF IsLatest
  <1>4. ASSUME NEW v \in WaysAsOf(file, t), NEW n \in AsOf(file.nodes, t), n.id \in v.nodes
        PROVE  n.id \in IdsIn(data.coordinates)
    <2>1. UpTo(file.nodes, t) # {}
      <3>1. file.nodes \in Seq(NodeVersion)
        BY DEF HistoryFile
      <3> QED
        BY <3>1, AsOfIs DEF IsLatest
    <2>2. data.coordinates = node_coordinates(file, t)
      BY <2>1, WaysNeedNodes, ParsedAll
    <2> QED
      BY <1>4, <2>2, VertexThere
  <1> HIDE DEF data
  <1>5. /\ \A v \in NodesAsOf(file, t) : \E n \in data.nodes :
             n.id = v.id /\ n.place = v.place /\ HasTags(n, v)
        /\ UpTo(file.nodes, t) # {} => \A v \in WaysAsOf(file, t) : \E w \in data.ways :
             w.id = v.id /\ w.nodes = v.nodes /\ HasTags(w, v)
        /\ NodesAsOf(file, t) # {} => AsOf(file.relations, t) \subseteq data.relations
        /\ \A v \in WaysAsOf(file, t) : \A n \in AsOf(file.nodes, t) :
             n.id \in v.nodes => n.id \in IdsIn(data.coordinates)
    BY <1>1, <1>2, <1>3, <1>4
  <1> QED
    BY <1>5 DEF data

\* An element that exists at the moment asked for is in the answer, with its latest nodes
\* or members and each of its tags, and its vertices are located (pbfreader.pyx:527-545,
\* 601-649).
THEOREM NothingLost == SessionSpec => []NeverLoses
  <1>1. SessionInv => NeverLoses
    <2> SUFFICES ASSUME SessionInv, Reads PROVE NeverLoses
      BY DEF NeverLoses
    <2> DEFINE f == osm.file
               t == asked
               data == parse_osm_data(f, t)
               uses == Uses[call.reader]
               there == Collections(NodesAsOf(f, t), WaysAsOf(f, t), AsOf(f.relations, t), {}, {})
               kinds == Passed(call.reader, there)
    <2>1. /\ f \in HistoryFile /\ answer = Passed(call.reader, data)
          /\ call.reader \in Reader \ {"write_pbf"}
      BY ReadOf
    <2>2. /\ answer.nodes = (IF "nodes" \in uses THEN data.nodes ELSE {})
          /\ answer.ways = (IF "ways" \in uses THEN data.ways ELSE {})
          /\ answer.relations = (IF "relations" \in uses THEN data.relations ELSE {})
          /\ answer.coordinates = (IF "coordinates" \in uses THEN data.coordinates ELSE {})
      BY <2>1, PassedOn
    <2>3. /\ kinds.nodes = (IF "nodes" \in uses THEN NodesAsOf(f, t) ELSE {})
          /\ kinds.ways = (IF "ways" \in uses THEN WaysAsOf(f, t) ELSE {})
          /\ kinds.relations = (IF "relations" \in uses THEN AsOf(f.relations, t) ELSE {})
      BY DEF Passed, Collections
    <2>4. "ways" \in uses /\ "coordinates" \in uses
      BY <2>1 DEF Reader, NoticedFirst, Uses, get_network_data, get_building_data,
                  get_boundary_data, get_landuse_data, get_natural_data, get_poi_data,
                  get_user_defined_data
    <2>5. /\ \A v \in NodesAsOf(f, t) : \E n \in data.nodes :
               n.id = v.id /\ n.place = v.place /\ HasTags(n, v)
          /\ UpTo(f.nodes, t) # {} => \A v \in WaysAsOf(f, t) : \E w \in data.ways :
               w.id = v.id /\ w.nodes = v.nodes /\ HasTags(w, v)
          /\ NodesAsOf(f, t) # {} => AsOf(f.relations, t) \subseteq data.relations
          /\ \A v \in WaysAsOf(f, t) : \A n \in AsOf(f.nodes, t) :
               n.id \in v.nodes => n.id \in IdsIn(data.coordinates)
      BY <2>1, ParsedThere
    <2> HIDE DEF data, kinds, uses
    <2>6. /\ \A v \in kinds.nodes : \E n \in answer.nodes :
               n.id = v.id /\ n.place = v.place /\ HasTags(n, v)
          /\ UpTo(f.nodes, t) # {} => \A v \in kinds.ways : \E w \in answer.ways :
               w.id = v.id /\ w.nodes = v.nodes /\ HasTags(w, v)
          /\ \A v \in kinds.relations : NodesAsOf(f, t) # {} => v \in answer.relations
          /\ \A v \in kinds.ways : \A n \in AsOf(f.nodes, t) :
               n.id \in v.nodes => n.id \in IdsIn(answer.coordinates)
      BY <2>2, <2>3, <2>4, <2>5
    <2> QED
      BY <2>6 DEF NeverLoses, kinds
  <1> QED
    BY <1>1, SessionInvariant, PTL
-----------------------------------------------------------------------------
(***************************************************************************)
(* Files in which elements only gain: then the record of an element is its *)
(* latest version.                                                         *)
(***************************************************************************)
LEMMA GrownFacts ==
    ASSUME NEW file, OnlyGrown(file)
    PROVE  /\ \A i \in DOMAIN file.nodes : file.nodes[i].visible
           /\ \A i \in DOMAIN file.ways : file.ways[i].visible
           /\ \A i \in DOMAIN file.relations : file.relations[i].visible
           /\ \A i, j \in DOMAIN file.nodes : file.nodes[i].id = file.nodes[j].id /\ i < j =>
                /\ file.nodes[i].place \in InBox <=> file.nodes[j].place \in InBox
                /\ file.nodes[j].tags = NoTags => file.nodes[i].tags = NoTags
           /\ \A i, j \in DOMAIN file.ways : file.ways[i].id = file.ways[j].id /\ i < j =>
                /\ file.ways[i].nodes \subseteq file.ways[j].nodes
                /\ \A k \in Key : file.ways[j].tags[k] = Missing => file.ways[i].tags[k] = Missing
  BY DEF OnlyGrown

\* The places kept of an element go on to its last one.
Onwards(versions, t, P) ==
    /\ P \in SUBSET UpTo(versions, t)
    /\ \A i \in P : \A j \in UpTo(versions, t) : versions[i].id = versions[j].id /\ i < j => j \in P

\* So a group ends in the latest version, unless a file without time has several.
LEMMA GroupEnds ==
    ASSUME NEW V, NEW versions \in Seq(V), NEW t, NEW P, Onwards(versions, t, P),
           \A i \in DOMAIN versions : versions[i].visible,
           t = NoTime => OneVersionEach(versions)
    PROVE  /\ \A S \in Groups(versions, P, t) :
                /\ S \in SUBSET DOMAIN versions /\ S # {} /\ Max(S) \in P /\ IsLatest(versions, t, Max(S))
                /\ \A j \in S : j = Max(S) \/ (versions[j].id = versions[Max(S)].id /\ j < Max(S))
           /\ \A i \in P : IsLatest(versions, t, i) => \E S \in Groups(versions, P, t) : Max(S) = i
  <1>1. P \in SUBSET DOMAIN versions
    BY DEF Onwards, UpTo
  <1>2. ASSUME NEW S \in Groups(versions, P, t)
        PROVE  /\ S \in SUBSET DOMAIN versions /\ S # {} /\ Max(S) \in P /\ IsLatest(versions, t, Max(S))
               /\ \A j \in S : j = Max(S) \/ (versions[j].id = versions[Max(S)].id /\ j < Max(S))
    <2>1. S \in SUBSET P /\ S # {} /\ \A i, j \in S : versions[i].id = versions[j].id
      BY GroupFacts
    <2>2. Max(S) \in S /\ \A i \in S : i <= Max(S)
      BY <1>1, <2>1, LastPlace
    <2>3. ASSUME NEW j \in UpTo(versions, t), versions[j].id = versions[Max(S)].id PROVE j <= Max(S)
      <3>1. j \in DOMAIN versions /\ Max(S) \in DOMAIN versions /\ j \in Nat /\ Max(S) \in Nat
        BY <1>1, <2>1, <2>2 DEF UpTo
      <3>2. CASE t = NoTime
        BY <2>3, <3>1, <3>2 DEF OneVersionEach
      <3>3. CASE t # NoTime
        <4>1. SUFFICES ASSUME Max(S) < j PROVE FALSE
          BY <3>1
        <4>2. j \in P
          BY <2>1, <2>2, <2>3, <4>1 DEF Onwards
        <4>3. PICK id : S = Of(versions, Visible(versions, P), id)
          BY <3>3 DEF Groups
        <4>4. j \in S
          BY <2>2, <2>3, <3>1, <4>2, <4>3 DEF Of, WithIds, Visible
        <4> QED
          BY <2>2, <3>1, <4>1, <4>4
      <3> QED
        BY <3>2, <3>3
    <2>4. IsLatest(versions, t, Max(S))
      BY <2>1, <2>2, <2>3 DEF IsLatest, Onwards
    <2>5. \A j \in S : j \in Nat /\ Max(S) \in Nat
      BY <1>1, <2>1, <2>2
    <2> QED
      BY <1>1, <2>1, <2>2, <2>4, <2>5
  <1>3. ASSUME NEW i \in P, IsLatest(versions, t, i)
        PROVE  \E S \in Groups(versions, P, t) : Max(S) = i
    <2>1. versions[i].visible
      BY <1>1
    <2>2. \A j \in P : versions[j].id = versions[i].id => j <= i
      BY <1>3 DEF IsLatest, Onwards
    <2> QED
      BY <1>1, <2>1, <2>2, GroupOf
  <1> QED
    BY <1>2, <1>3

\* The records of a frame are then the latest versions among those kept.
LEMMA GrownFrames ==
    ASSUME NEW file \in HistoryFile, NEW t, OnlyGrown(file),
           t = NoTime => /\ OneVersionEach(file.nodes) /\ OneVersionEach(file.ways)
                         /\ OneVersionEach(file.relations)
    PROVE  /\ \A P : Onwards(file.nodes, t, P) =>
                get_latest_version(file.nodes, P, latest_node, t)
                  = {file.nodes[i] : i \in {j \in P : IsLatest(file.nodes, t, j)}}
           /\ \A P : Onwards(file.ways, t, P) =>
                get_latest_version(file.ways, P, latest_way, t)
                  = {file.ways[i] : i \in {j \in P : IsLatest(file.ways, t, j)}}
           /\ \A P : Onwards(file.relations, t, P) =>
                get_latest_version(file.relations, P, latest_relation, t)
                  = {file.relations[i] : i \in {j \in P : IsLatest(file.relations, t, j)}}
  <1>1. /\ file.nodes \in Seq(NodeVersion) /\ file.ways \in Seq(WayVersion)
        /\ file.relations \in Seq(RelationVersion)
    BY DEF HistoryFile
  <1>2. ASSUME NEW versions, NEW P, Onwards(versions, t, P) PROVE P \in SUBSET DOMAIN versions
    BY <1>2 DEF Onwards, UpTo
  <1>3. ASSUME NEW P, Onwards(file.nodes, t, P)
        PROVE  get_latest_version(file.nodes, P, latest_node, t)
                 = {file.nodes[i] : i \in {j \in P : IsLatest(file.nodes, t, j)}}
    <2>1. get_latest_version(file.nodes, P, latest_node, t)
            = {latest_node(file.nodes, S) : S \in Groups(file.nodes, P, t)}
      BY <1>2, <1>3, Frames
    <2>2. /\ \A S \in Groups(file.nodes, P, t) :
               /\ S \in SUBSET DOMAIN file.nodes /\ S # {} /\ Max(S) \in P /\ IsLatest(file.nodes, t, Max(S))
               /\ \A j \in S : j = Max(S) \/ (file.nodes[j].id = file.nodes[Max(S)].id /\ j < Max(S))
          /\ \A i \in P : IsLatest(file.nodes, t, i) => \E S \in Groups(file.nodes, P, t) : Max(S) = i
      BY <1>1, <1>3, GrownFacts, GroupEnds
    <2>3. ASSUME NEW S \in Groups(file.nodes, P, t)
          PROVE  latest_node(file.nodes, S) = file.nodes[Max(S)]
      <3>1. file.nodes[Max(S)].tags = NoTags => \A j \in S : file.nodes[j].tags = NoTags
        BY <1>2, <1>3, <2>2, GrownFacts
      <3> QED
        BY <1>1, <2>2, <3>1, NodeOf
    <2> QED
      BY <2>1, <2>2, <2>3
  <1>4. ASSUME NEW P, Onwards(file.ways, t, P)
        PROVE  get_latest_version(file.ways, P, latest_way, t)
                 = {file.ways[i] : i \in {j \in P : IsLatest(file.ways, t, j)}}
    <2>1. get_latest_version(file.ways, P, latest_way, t)
            = {latest_way(file.ways, S) : S \in Groups(file.ways, P, t)}
      BY <1>2, <1>4, Frames
    <2>2. /\ \A S \in Groups(file.ways, P, t) :
               /\ S \in SUBSET DOMAIN file.ways /\ S # {} /\ Max(S) \in P /\ IsLatest(file.ways, t, Max(S))
               /\ \A j \in S : j = Max(S) \/ (file.ways[j].id = file.ways[Max(S)].id /\ j < Max(S))
          /\ \A i \in P : IsLatest(file.ways, t, i) => \E S \in Groups(file.ways, P, t) : Max(S) = i
      BY <1>1, <1>4, GrownFacts, GroupEnds
    <2>3. ASSUME NEW S \in Groups(file.ways, P, t)
          PROVE  latest_way(file.ways, S) = file.ways[Max(S)]
      <3>1. \A k \in Key : file.ways[Max(S)].tags[k] = Missing => \A j \in S : file.ways[j].tags[k] = Missing
        BY <1>2, <1>4, <2>2, GrownFacts
      <3> QED
        BY <1>1, <2>2, <3>1, WayOf
    <2> QED
      BY <2>1, <2>2, <2>3
  <1>5. ASSUME NEW P, Onwards(file.relations, t, P)
        PROVE  get_latest_version(file.relations, P, latest_relation, t)
                 = {file.relations[i] : i \in {j \in P : IsLatest(file.relations, t, j)}}
    <2>1. get_latest_version(file.relations, P, latest_relation, t)
            = {file.relations[Max(S)] : S \in Groups(file.relations, P, t)}
      BY <1>2, <1>5, Frames
    <2>2. /\ \A S \in Groups(file.relations, P, t) : Max(S) \in P /\ IsLatest(file.relations, t, Max(S))
          /\ \A i \in P : IsLatest(file.relations, t, i) =>
               \E S \in Groups(file.relations, P, t) : Max(S) = i
      BY <1>1, <1>5, GrownFacts, GroupEnds
    <2> QED
      BY <2>1, <2>2
  <1> QED
    BY <1>3, <1>4, <1>5
\* Then every pass goes on to the last version of what it keeps.
LEMMA GrownPasses ==
    ASSUME NEW file \in HistoryFile, NEW t, OnlyGrown(file)
    PROVE  /\ Onwards(file.nodes, t, parse_nodes(file, t))
           /\ Onwards(file.ways, t, parse_ways(file, t))
           /\ Onwards(file.relations, t, parse_relations(file, t))
           /\ \A ids : Onwards(file.nodes, t, WithIds(file.nodes, UpTo(file.nodes, t), ids))
           /\ \A ids : Onwards(file.ways, t, WithIds(file.ways, UpTo(file.ways, t), ids))
  <1>1. \A versions : UpTo(versions, t) \subseteq DOMAIN versions
    BY DEF UpTo
  <1>2. Onwards(file.nodes, t, parse_nodes(file, t))
    BY <1>1, GrownFacts DEF Onwards, parse_nodes
  <1>3. Onwards(file.ways, t, parse_ways(file, t))
    <2>1. parse_ways(file, t) \in SUBSET UpTo(file.ways, t)
      BY KeptPlaces
    <2>2. ASSUME NEW i \in parse_ways(file, t), NEW j \in UpTo(file.ways, t),
                 file.ways[i].id = file.ways[j].id, i < j
          PROVE  j \in parse_ways(file, t)
      <3>1. file.ways[i].nodes \subseteq file.ways[j].nodes
        BY <1>1, <2>1, <2>2, GrownFacts
      <3> QED
        BY <3>1 DEF parse_ways
    <2> QED
      BY <2>1, <2>2 DEF Onwards
  <1> QED
    BY <1>2, <1>3 DEF Onwards, parse_relations, WithIds

\* And what is parsed is the map of that time.
LEMMA ParsedGrown ==
    ASSUME NEW file \in HistoryFile, NEW t, OnlyGrown(file),
           t = NoTime => /\ OneVersionEach(file.nodes) /\ OneVersionEach(file.ways)
                         /\ OneVersionEach(file.relations)
    PROVE  /\ nodes_df(file, t) \subseteq NodesAsOf(file, t)
           /\ all_ways(file, t) = WaysAsOf(file, t)
           /\ relations_df(file, t) \subseteq AsOf(file.relations, t)
           /\ completed_ways(file, t) \subseteq AsOf(file.ways, t)
           /\ node_coordinates(file, t) \subseteq Located(AsOf(file.nodes, t))
  <1>1. /\ file.nodes \in Seq(NodeVersion) /\ file.ways \in Seq(WayVersion)
        /\ file.relations \in Seq(RelationVersion)
    BY DEF HistoryFile
  <1>2. /\ \A i \in DOMAIN file.nodes : IsLatest(file.nodes, t, i) => file.nodes[i] \in AsOf(file.nodes, t)
        /\ \A i \in DOMAIN file.ways : IsLatest(file.ways, t, i) => file.ways[i] \in AsOf(file.ways, t)
        /\ \A i \in DOMAIN file.relations :
             IsLatest(file.relations, t, i) => file.relations[i] \in AsOf(file.relations, t)
    <2>1. /\ \A i \in DOMAIN file.nodes : file.nodes[i].visible
          /\ \A i \in DOMAIN file.ways : file.ways[i].visible
          /\ \A i \in DOMAIN file.relations : file.relations[i].visible
      BY GrownFacts
    <2>2. AsOf(file.nodes, t) =
            {file.nodes[i] : i \in {j \in DOMAIN file.nodes : IsLatest(file.nodes, t, j) /\ file.nodes[j].visible}}
      BY <1>1, AsOfIs
    <2>3. AsOf(file.ways, t) =
            {file.ways[i] : i \in {j \in DOMAIN file.ways : IsLatest(file.ways, t, j) /\ file.ways[j].visible}}
      BY <1>1, AsOfIs
    <2>4. AsOf(file.relations, t) =
            {file.relations[i] : i \in {j \in DOMAIN file.relations :
                IsLatest(file.relations, t, j) /\ file.relations[j].visible}}
      BY <1>1, AsOfIs
    <2> QED
      BY <2>1, <2>2, <2>3, <2>4
  <1>3. \A versions, P : Onwards(versions, t, P) => P \subseteq DOMAIN versions
    BY DEF Onwards, UpTo
  <1>4. ASSUME NEW P, Onwards(file.nodes, t, P)
        PROVE  get_latest_version(file.nodes, P, latest_node, t) \subseteq AsOf(file.nodes, t)
    <2>1. get_latest_version(file.nodes, P, latest_node, t)
            = {file.nodes[i] : i \in {j \in P : IsLatest(file.nodes, t, j)}}
      BY <1>4, GrownFrames
    <2> QED
      BY <1>2, <1>3, <1>4, <2>1
  <1>5. ASSUME NEW P, Onwards(file.ways, t, P)
        PROVE  get_latest_version(file.ways, P, latest_way, t) \subseteq AsOf(file.ways, t)
    <2>1. get_latest_version(file.ways, P, latest_way, t)
            = {file.ways[i] : i \in {j \in P : IsLatest(file.ways, t, j)}}
      BY <1>5, GrownFrames
    <2> QED
      BY <1>2, <1>3, <1>5, <2>1
  <1>6. /\ nodes_df(file, t) = {file.nodes[i] : i \in {j \in parse_nodes(file, t) : IsLatest(file.nodes, t, j)}}
        /\ all_ways(file, t) = {file.ways[i] : i \in {j \in parse_ways(file, t) : IsLatest(file.ways, t, j)}}
        /\ relations_df(file, t) =
             {file.relations[i] : i \in {j \in parse_relations(file, t) : IsLatest(file.relations, t, j)}}
    BY GrownPasses, GrownFrames DEF nodes_df, all_ways, relations_df
  <1>7. nodes_df(file, t) \subseteq NodesAsOf(file, t)
    <2>1. \A i \in parse_nodes(file, t) : i \in DOMAIN file.nodes /\ (file.box => file.nodes[i].place \in InBox)
      BY DEF parse_nodes, UpTo
    <2> QED
      BY <1>2, <1>6, <2>1 DEF NodesAsOf
  <1>8. relations_df(file, t) \subseteq AsOf(file.relations, t)
    BY <1>2, <1>3, <1>6, GrownPasses
  <1>9. completed_ways(file, t) \subseteq AsOf(file.ways, t)
    BY <1>5, GrownPasses DEF completed_ways
  <1>10. node_coordinates(file, t) \subseteq Located(AsOf(file.nodes, t))
    <2>1. \A ids : boundary_nodes(file, t, ids) \subseteq AsOf(file.nodes, t)
      BY <1>4, GrownPasses DEF boundary_nodes
    <2>2. nodes_df(file, t) \subseteq AsOf(file.nodes, t)
      BY <1>7 DEF NodesAsOf
    <2> QED
      BY <2>1, <2>2 DEF node_coordinates, Located
  \* A node that has been in the box is still there.
  <1>11. Ids(file.nodes, parse_nodes(file, t)) \subseteq IdsIn(NodesAsOf(file, t))
    <2> SUFFICES ASSUME NEW i \in parse_nodes(file, t)
                 PROVE  file.nodes[i].id \in IdsIn(NodesAsOf(file, t))
      BY DEF Ids
    <2> DEFINE P == parse_nodes(file, t)
    <2>1. P \in SUBSET DOMAIN file.nodes /\ file.nodes[i].visible
      BY <1>3, GrownPasses, GrownFacts
    <2>2. PICK S \in Groups(file.nodes, P, t) : i \in S
      BY <1>1, <2>1, GroupOf
    <2>3. /\ Max(S) \in P /\ IsLatest(file.nodes, t, Max(S))
          /\ file.nodes[Max(S)].id = file.nodes[i].id
      <3>1. Onwards(file.nodes, t, P)
        BY GrownPasses
      <3>2. \A j \in DOMAIN file.nodes : file.nodes[j].visible
        BY GrownFacts
      <3> HIDE DEF P
      <3> QED
        BY <1>1, <2>2, <3>1, <3>2, GroupEnds
    <2>4. file.nodes[Max(S)] \in nodes_df(file, t)
      BY <1>6, <2>3
    <2> QED
      BY <1>7, <2>3, <2>4 DEF IdsIn
  <1>12. all_ways(file, t) \subseteq WaysAsOf(file, t)
    <2>1. \A i \in parse_ways(file, t) :
            i \in DOMAIN file.ways
              /\ (file.box => file.ways[i].nodes \cap Ids(file.nodes, parse_nodes(file, t)) # {})
      BY DEF parse_ways, UpTo
    <2> QED
      BY <1>2, <1>6, <1>11, <2>1 DEF WaysAsOf
  <1>13. WaysAsOf(file, t) \subseteq all_ways(file, t)
    BY <1>6, KeptWay
  <1> QED
    BY <1>7, <1>8, <1>9, <1>10, <1>12, <1>13

\* "the most up-to-date version is selected" (pyrosm.py:388-390): of files in which
\* elements only gain, for every time and every place of the box.
THEOREM LatestIsRead == SessionSpec => []LatestIfOnlyGrown
  <1>1. SessionInv => LatestIfOnlyGrown
    <2> SUFFICES ASSUME SessionInv, Reads, OnlyGrown(osm.file), NodesAsOf(osm.file, asked) # {}
                 PROVE  LatestIfOnlyGrown
      BY DEF LatestIfOnlyGrown
    <2> DEFINE f == osm.file
               t == asked
               data == parse_osm_data(f, t)
               uses == Uses[call.reader]
    <2>1. /\ f \in HistoryFile /\ answer = Passed(call.reader, data)
          /\ call.reader \in Reader \ {"write_pbf"}
      BY ReadOf
    <2>2. t = NoTime => /\ OneVersionEach(f.nodes) /\ OneVersionEach(f.ways)
                        /\ OneVersionEach(f.relations)
      BY <2>1, SessionAssumption DEF SessionInv, ScriptOK, MomentOK, Reads
    <2>3. /\ answer.nodes \subseteq data.nodes /\ answer.relations \subseteq data.relations
          /\ answer.coordinates \subseteq data.coordinates /\ answer.member_ways \subseteq data.member_ways
          /\ answer.ways = (IF "ways" \in uses THEN data.ways ELSE {})
      BY <2>1, PassedOn
    <2>4. "ways" \in uses
      BY <2>1 DEF Reader, NoticedFirst, Uses, get_network_data, get_building_data,
                  get_boundary_data, get_landuse_data, get_natural_data, get_poi_data,
                  get_user_defined_data
    <2>5. /\ data.nodes = nodes_df(f, t) /\ data.ways = all_ways(f, t)
          /\ data.relations = relations_df(f, t) /\ data.coordinates = node_coordinates(f, t)
          /\ data.member_ways = completed_ways(f, t)
      <3>1. parse_nodes(f, t) # {}
        BY <2>1, KeptNode
      <3> QED
        BY <3>1, ParsedAll
    <2>6. /\ nodes_df(f, t) \subseteq NodesAsOf(f, t)
          /\ all_ways(f, t) = WaysAsOf(f, t)
          /\ relations_df(f, t) \subseteq AsOf(f.relations, t)
          /\ completed_ways(f, t) \subseteq AsOf(f.ways, t)
          /\ node_coordinates(f, t) \subseteq Located(AsOf(f.nodes, t))
      BY <2>1, <2>2, ParsedGrown
    <2> HIDE DEF data, uses
    <2> QED
      BY <2>3, <2>4, <2>5, <2>6 DEF LatestIfOnlyGrown
  <1> QED
    BY <1>1, SessionInvariant, PTL

-----------------------------------------------------------------------------
(***************************************************************************)
(* PbfWriter: the output.                                                  *)
(***************************************************************************)
OutputInv ==
    /\ faults \in Nat
    /\ stage \notin {"write", "done"} /\ faults = 0 => ~output.written

LEMMA OutputStep == OutputInv /\ [Next]_writer_vars => OutputInv'
  <1> SUFFICES ASSUME OutputInv, [Next]_writer_vars PROVE OutputInv'
    OBVIOUS
  <1>1. CASE _as_frames
    BY <1>1 DEF OutputInv, _as_frames
  <1>2. CASE _collect_edits
    BY <1>2 DEF OutputInv, _collect_edits
  <1>3. CASE BeginClosure
    BY <1>3 DEF OutputInv, BeginClosure
  <1>4. CASE TakeRelation
    BY <1>4 DEF OutputInv, TakeRelation
  <1>5. CASE BuildRecords
    BY <1>5 DEF OutputInv, BuildRecords, OutputWhileBuilding
  <1>6. CASE Synthesize
    BY <1>6 DEF OutputInv, Synthesize
  <1>7. CASE Open
    BY <1>7 DEF OutputInv, Open
  <1>8. CASE WriteBlock
    BY <1>8 DEF OutputInv, WriteBlock
  <1>9. CASE WriteFails
    BY <1>9 DEF OutputInv, WriteFails
  <1>10. CASE UNCHANGED writer_vars
    BY <1>10 DEF OutputInv, writer_vars
  <1> QED
    BY <1>1, <1>2, <1>3, <1>4, <1>5, <1>6, <1>7, <1>8, <1>9, <1>10 DEF Next, Progress

\* A call that a row or an argument ends leaves the file that was there.
THEOREM OutputIsSpared == Spec => []RejectedLeavesOutput
  <1>1. Init => OutputInv
    BY DEF Init, OutputInv
  <1>2. OutputInv => RejectedLeavesOutput
    BY DEF OutputInv, RejectedLeavesOutput
  <1> QED
    BY <1>1, <1>2, OutputStep, PTL DEF Spec

-----------------------------------------------------------------------------
(***************************************************************************)
(* The closure of a subset: what is taken so far is needed, and has what   *)
(* it refers to but for the relations that are pending.                    *)
(***************************************************************************)
EditsUpto(n) ==
    \A k \in Kinds : DOMAIN edits[k] = {id \in DOMAIN Held(k) : \E i \in 1..n : /\ job.rows[i].id = id
                                                                             /\ TypeOf(job.rows[i]) = k}
\* No closed set does without.
Needed == \A S : Closed(S) => \A k \in Kinds : \A id \in keep[k] \cap DOMAIN Held(k) : <<k, id>> \in S
\* The closure while relations are pending.
Closing ==
    /\ \A k \in Kinds : DOMAIN edits[k] \subseteq keep[k]
    /\ pending \subseteq keep["relation"] /\ keep["relation"] \subseteq DOMAIN job.relations
    /\ \A rid \in keep["relation"] \ pending :
         /\ MemberIds(rid, "way") \subseteq keep["way"]
         /\ MemberIds(rid, "node") \subseteq keep["node"]
         /\ MemberIds(rid, "relation") \cap DOMAIN job.relations \subseteq keep["relation"]
    /\ Needed

ClosureInv ==
    /\ job \in Jobs /\ row \in Nat \ {0}
    /\ DOMAIN keep = Kinds /\ DOMAIN edits = Kinds
    /\ stage \in {"collect", "closure", "synthesize", "write", "done", "raised"}
    /\ stage = "collect" => row - 1 <= Len(job.rows) /\ EditsUpto(row - 1)
    /\ stage = "closure" => EditsUpto(Len(job.rows))
    /\ stage = "closure" /\ job.subset_only => Closing
    /\ stage \in {"synthesize", "write", "done"} /\ job.subset_only => Closed(Kept) /\ Needed

LEMMA JobIs ==
    ASSUME job \in Jobs
    PROVE  /\ Len(job.rows) \in Nat /\ DOMAIN job.rows = 1..Len(job.rows)
           /\ \A k \in Kinds : 0 \notin DOMAIN Held(k)
           /\ Held("node") = job.nodes /\ Held("way") = job.ways /\ Held("relation") = job.relations
  <1>1. Held("node") = job.nodes /\ Held("way") = job.ways /\ Held("relation") = job.relations
    BY DEF Held
  <1> QED
    BY <1>1, JobsAssumption DEF JobsAssumption, Kinds

LEMMA SameHeld ==
    ASSUME UNCHANGED job
    PROVE  /\ \A k \in Kinds : Held(k)' = Held(k)
           /\ Elements' = Elements
           /\ \A S : Closed(S)' <=> Closed(S)
  <1>1. /\ Held("node")' = Held("node") /\ Held("way")' = Held("way")
        /\ Held("relation")' = Held("relation")
    BY DEF Held
  <1>2. \A k \in Kinds : Held(k)' = Held(k)
    BY <1>1 DEF Kinds
  <1>3. Elements' = Elements
    BY <1>2 DEF Elements
  <1>4. ASSUME NEW k, NEW id
        PROVE  RowsAbout(k, id)' = RowsAbout(k, id)
    BY DEF RowsAbout
  <1>5. ASSUME NEW e
        PROVE  RefersTo(e)' = RefersTo(e)
    BY DEF RefersTo
  <1>6. \A S : Closed(S)' <=> Closed(S)
    BY <1>3, <1>4, <1>5 DEF Closed
  <1> QED
    BY <1>2, <1>3, <1>6

LEMMA ElementIs ==
    ASSUME NEW e
    PROVE  e \in Elements <=> \E k \in Kinds : \E id \in DOMAIN Held(k) : e = <<k, id>>
  BY DEF Elements

\* A relation refers to its members.
LEMMA MembersAre ==
    ASSUME NEW rid, NEW k, NEW id
    PROVE  <<k, id>> \in RefersTo(<<"relation", rid>>) <=> id \in MemberIds(rid, k)
  <1>1. RefersTo(<<"relation", rid>>) = {<<m[1], m[2]>> : m \in ToSet(job.relations[rid].members)}
    BY DEF RefersTo
  <1> QED
    BY <1>1 DEF MemberIds

LEMMA NodesOfWay ==
    ASSUME NEW w
    PROVE  RefersTo(<<"way", w>>) = {<<"node", n>> : n \in ToSet(job.ways[w].nodes)}
  BY DEF RefersTo

LEMMA NoNodeRefers ==
    ASSUME NEW n
    PROVE  RefersTo(<<"node", n>>) = {}
  BY DEF RefersTo

\* The rows that edit an element are those that are about it.
LEMMA EditsAreRows ==
    ASSUME job \in Jobs, EditsUpto(Len(job.rows)), NEW k \in Kinds, NEW id \in DOMAIN Held(k)
    PROVE  id \in DOMAIN edits[k] <=> RowsAbout(k, id) # {}
  BY JobIs DEF EditsUpto, RowsAbout

LEMMA ClosureInit == Init => ClosureInv
  <1> SUFFICES ASSUME Init PROVE ClosureInv
    OBVIOUS
  <1>1. /\ job \in Jobs /\ stage = "collect" /\ row = 1
        /\ edits = [k \in Kinds |-> <<>>] /\ keep = [k \in Kinds |-> {}]
    BY DEF Init
  <1>2. EditsUpto(row - 1)
    BY <1>1 DEF EditsUpto
  <1>3. row - 1 <= Len(job.rows)
    BY <1>1, JobIs
  <1> QED
    BY <1>1, <1>2, <1>3 DEF ClosureInv

LEMMA StepCollectEdits ==
    ASSUME ClosureInv, _collect_edits
    PROVE  ClosureInv'
  <1> DEFINE r == job.rows[row]
  <1>1. /\ stage = "collect" /\ row <= Len(job.rows) /\ row' = row + 1 /\ UNCHANGED <<job, stage, keep>>
        /\ job \in Jobs /\ row \in Nat \ {0} /\ DOMAIN keep = Kinds /\ DOMAIN edits = Kinds
        /\ EditsUpto(row - 1) /\ Len(job.rows) \in Nat
    BY JobIs DEF _collect_edits, ClosureInv
  <1>2. DOMAIN edits' = Kinds /\ EditsUpto(row - 1)'
    <2>1. \A i \in 1..row : i \in 1..(row - 1) \/ i = row
      BY <1>1
    <2>2. \A i \in 1..(row - 1) : i \in 1..row
      BY <1>1
    <2>a. row \in 1..row
      BY <1>1
    <2>b. row' - 1 = row
      BY <1>1
    <2>3. CASE IsEdit(r)
      <3> DEFINE k0 == TypeOf(r)
                 d == edits[k0]
                 new == Assign(d, r.id, _row_tags(r))
      <3>1. edits' = [edits EXCEPT ![k0] = new]
        BY <2>3 DEF _collect_edits
      <3>2. k0 \in Kinds /\ r.id \in DOMAIN Held(k0)
        BY <2>3 DEF IsEdit
      <3>3. DOMAIN new = {r.id} \cup DOMAIN d
        BY DEF Assign
      <3> HIDE DEF new, k0, d
      <3>4. DOMAIN edits' = Kinds /\ edits'[k0] = new /\ \A k \in Kinds \ {k0} : edits'[k] = edits[k]
        BY <1>1, <3>1, <3>2
      <3>5. ASSUME NEW k \in Kinds
            PROVE  DOMAIN edits'[k] = {id \in DOMAIN Held(k) : \E i \in 1..row : /\ job.rows[i].id = id
                                                                              /\ TypeOf(job.rows[i]) = k}
        <4>1. CASE k = k0
          <5>1. DOMAIN edits'[k] = {r.id} \cup {id \in DOMAIN Held(k) : \E i \in 1..(row - 1) :
                                       job.rows[i].id = id /\ TypeOf(job.rows[i]) = k}
            BY <1>1, <3>3, <3>4, <4>1 DEF EditsUpto, d
          <5> QED
            BY <2>1, <2>2, <2>a, <3>2, <4>1, <5>1 DEF k0
        <4>2. CASE k # k0
          <5>1. DOMAIN edits'[k] = {id \in DOMAIN Held(k) : \E i \in 1..(row - 1) :
                                       job.rows[i].id = id /\ TypeOf(job.rows[i]) = k}
            BY <1>1, <3>4, <4>2 DEF EditsUpto
          <5> QED
            BY <2>1, <2>2, <4>2, <5>1 DEF k0
        <4> QED
          BY <4>1, <4>2
      <3>6. EditsUpto(row - 1)'
        BY <1>1, <2>b, <3>5, SameHeld DEF EditsUpto, TypeOf
      <3> QED
        BY <3>4, <3>6
    <2>4. CASE ~IsEdit(r)
      <3>1. edits' = edits
        BY <2>4 DEF _collect_edits
      <3>2. \A k \in Kinds : \A id \in DOMAIN Held(k) : ~(r.id = id /\ TypeOf(r) = k)
        BY <1>1, <2>4, JobIs DEF IsEdit
      <3>3. ASSUME NEW k \in Kinds
            PROVE  DOMAIN edits[k] = {id \in DOMAIN Held(k) : \E i \in 1..row : /\ job.rows[i].id = id
                                                                             /\ TypeOf(job.rows[i]) = k}
        <4>1. DOMAIN edits[k] = {id \in DOMAIN Held(k) : \E i \in 1..(row - 1) :
                                    job.rows[i].id = id /\ TypeOf(job.rows[i]) = k}
          BY <1>1 DEF EditsUpto
        <4> QED
          BY <2>1, <2>2, <3>2, <4>1
      <3>4. EditsUpto(row - 1)'
        BY <1>1, <2>b, <3>1, <3>3, SameHeld DEF EditsUpto, TypeOf
      <3> QED
        BY <1>1, <3>1, <3>4
    <2> QED
      BY <2>3, <2>4
  <1>3. row' - 1 <= Len(job'.rows)
    BY <1>1
  <1> QED
    BY <1>1, <1>2, <1>3 DEF ClosureInv

LEMMA StepBeginClosure ==
    ASSUME ClosureInv, BeginClosure
    PROVE  ClosureInv'
  <1>1. /\ stage = "collect" /\ row > Len(job.rows) /\ stage' = "closure"
        /\ keep' = [k \in Kinds |-> IF job.subset_only THEN DOMAIN edits[k] ELSE DOMAIN Held(k)]
        /\ pending' = IF job.subset_only THEN keep'["relation"] ELSE {}
        /\ UNCHANGED <<job, row, edits>>
        /\ job \in Jobs /\ row \in Nat \ {0} /\ DOMAIN edits = Kinds
        /\ row - 1 <= Len(job.rows) /\ EditsUpto(row - 1) /\ Len(job.rows) \in Nat
    BY JobIs DEF BeginClosure, ClosureInv
  <1>2. row - 1 = Len(job.rows)
    BY <1>1
  <1>3. EditsUpto(Len(job.rows))
    BY <1>1, <1>2
  <1>4. EditsUpto(Len(job.rows))'
    BY <1>1, <1>3, SameHeld DEF EditsUpto, TypeOf
  <1>5. ASSUME job.subset_only
        PROVE  /\ \A k \in Kinds : keep'[k] = DOMAIN edits[k]
               /\ pending' = keep'["relation"] /\ keep'["relation"] \subseteq DOMAIN job.relations
               /\ Needed'
    <2>1. \A k \in Kinds : keep'[k] = DOMAIN edits[k]
      BY <1>1, <1>5
    <2>2. pending' = keep'["relation"]
      BY <1>1, <1>5
    <2>3. keep'["relation"] \subseteq DOMAIN job.relations
      BY <1>1, <1>3, <2>1, JobIs DEF EditsUpto, Kinds
    <2>4. ASSUME NEW S, Closed(S), NEW k \in Kinds, NEW id \in keep'[k], id \in DOMAIN Held(k)
          PROVE  <<k, id>> \in S
      <3>1. RowsAbout(k, id) # {}
        BY <1>1, <1>3, <2>1, <2>4, EditsAreRows
      <3>2. <<k, id>> \in Elements
        BY <2>4, ElementIs
      <3>3. <<k, id>> \in {e \in Elements : RowsAbout(e[1], e[2]) # {}}
        BY <3>1, <3>2
      <3> QED
        BY <2>4, <3>3 DEF Closed
    <2>5. Needed'
      BY <1>1, <2>4, SameHeld DEF Needed
    <2> QED
      BY <2>1, <2>2, <2>3, <2>5
  <1>6. DOMAIN keep' = Kinds
    BY <1>1
  <1>7. (stage = "closure" /\ job.subset_only => Closing)'
    BY <1>1, <1>5 DEF Closing
  <1> QED
    BY <1>1, <1>4, <1>6, <1>7 DEF ClosureInv

LEMMA StepTakeRelation ==
    ASSUME ClosureInv, TakeRelation
    PROVE  ClosureInv'
  <1>1. PICK rid \in pending :
          /\ keep' = [keep EXCEPT !["way"] = @ \cup MemberIds(rid, "way"),
                                  !["node"] = @ \cup MemberIds(rid, "node"),
                                  !["relation"] = @ \cup NewRelations(rid)]
          /\ pending' = (pending \ {rid}) \cup NewRelations(rid)
    BY DEF TakeRelation
  <1>2. /\ stage = "closure" /\ UNCHANGED <<job, stage, row, edits>>
        /\ job \in Jobs /\ row \in Nat \ {0} /\ DOMAIN keep = Kinds /\ DOMAIN edits = Kinds
        /\ EditsUpto(Len(job.rows)) /\ (job.subset_only => Closing)
    BY DEF TakeRelation, ClosureInv, Closing
  <1>3. EditsUpto(Len(job.rows))'
    BY <1>2, SameHeld DEF EditsUpto, TypeOf
  <1> DEFINE ways == MemberIds(rid, "way")
             nodes == MemberIds(rid, "node")
             members == MemberIds(rid, "relation") \cap DOMAIN job.relations
  <1>4. /\ DOMAIN keep' = Kinds
        /\ keep'["way"] = keep["way"] \cup ways /\ keep'["node"] = keep["node"] \cup nodes
        /\ keep'["relation"] = keep["relation"] \cup NewRelations(rid)
    BY <1>1, <1>2 DEF Kinds
  <1>5. NewRelations(rid) = members \ keep["relation"]
    BY DEF NewRelations
  <1>6. \A r, k : MemberIds(r, k)' = MemberIds(r, k)
    BY <1>2 DEF MemberIds
  <1>7. ASSUME job.subset_only
        PROVE  Closing'
    <2>1. Closing /\ rid \in keep["relation"] /\ rid \in DOMAIN job.relations
      BY <1>2, <1>7 DEF Closing
    <2>2. \A k \in Kinds : keep[k] \subseteq keep'[k]
      BY <1>4 DEF Kinds
    <2>3. \A k \in Kinds : DOMAIN edits'[k] \subseteq keep'[k]
      BY <1>2, <2>1, <2>2 DEF Closing
    <2>4. pending' \subseteq keep'["relation"] /\ keep'["relation"] \subseteq DOMAIN job.relations
      BY <1>1, <1>4, <1>5, <2>1 DEF Closing
    <2>5. ASSUME NEW r \in keep'["relation"] \ pending'
          PROVE  /\ MemberIds(r, "way") \subseteq keep'["way"]
                 /\ MemberIds(r, "node") \subseteq keep'["node"]
                 /\ MemberIds(r, "relation") \cap DOMAIN job.relations \subseteq keep'["relation"]
      <3>1. CASE r = rid
        BY <1>4, <1>5, <3>1
      <3>2. CASE r # rid
        <4>1. r \in keep["relation"] \ pending
          BY <1>1, <1>4, <2>5, <3>2
        <4> QED
          BY <1>4, <2>1, <4>1 DEF Closing
      <3> QED
        BY <3>1, <3>2
    <2>6. ASSUME NEW S, Closed(S), NEW k \in Kinds, NEW id \in keep'[k], id \in DOMAIN Held(k)
          PROVE  <<k, id>> \in S
      <3>1. CASE id \in keep[k]
        BY <2>1, <2>6, <3>1 DEF Closing, Needed
      <3>2. CASE id \notin keep[k]
        <4>1. id \in MemberIds(rid, k)
          BY <1>4, <1>5, <3>2 DEF Kinds
        <4>2. <<"relation", rid>> \in S
          BY <2>1, <2>6, <1>2, JobIs DEF Closing, Needed, Kinds
        <4>3. <<k, id>> \in RefersTo(<<"relation", rid>>) \cap Elements
          BY <2>6, <4>1, MembersAre, ElementIs
        <4> QED
          BY <2>6, <4>2, <4>3 DEF Closed
      <3> QED
        BY <3>1, <3>2
    <2>7. Needed'
      BY <1>2, <2>6, SameHeld DEF Needed
    <2>8. \A r \in keep'["relation"] \ pending' :
            /\ MemberIds(r, "way")' \subseteq keep'["way"]
            /\ MemberIds(r, "node")' \subseteq keep'["node"]
            /\ MemberIds(r, "relation")' \cap DOMAIN job'.relations \subseteq keep'["relation"]
      BY <1>2, <1>6, <2>5
    <2> QED
      BY <1>2, <2>3, <2>4, <2>7, <2>8 DEF Closing
  <1>8. (stage = "closure" /\ job.subset_only => Closing)'
    BY <1>2, <1>7
  <1> QED
    BY <1>2, <1>3, <1>4, <1>8 DEF ClosureInv, Closing

LEMMA StepBuildRecords ==
    ASSUME ClosureInv, BuildRecords
    PROVE  ClosureInv'
  <1>1. /\ stage = "closure" /\ pending = {} /\ keep' = _subset_keep_sets /\ stage' = "synthesize" /\ row' = 1
        /\ UNCHANGED <<job, edits>>
        /\ job \in Jobs /\ DOMAIN keep = Kinds /\ DOMAIN edits = Kinds
        /\ EditsUpto(Len(job.rows)) /\ (job.subset_only => Closing)
    BY DEF BuildRecords, ClosureInv, Closing
  <1>2. CASE ~job.subset_only
    <2>1. keep' = keep
      BY <1>1, <1>2 DEF _subset_keep_sets
    <2> QED
      BY <1>1, <1>2, <2>1 DEF ClosureInv
  <1>3. CASE job.subset_only
    <2>1. /\ DOMAIN keep' = Kinds /\ keep'["node"] = keep["node"] \cup NodeRefs
          /\ keep'["way"] = keep["way"] /\ keep'["relation"] = keep["relation"]
      BY <1>1, <1>3 DEF _subset_keep_sets, Kinds
    <2>2. Closing
      BY <1>1, <1>3
    <2> DEFINE kept == {e \in Elements : e[2] \in keep'[e[1]]}
    <2>3. \A k \in Kinds : \A id : <<k, id>> \in kept <=> id \in DOMAIN Held(k) /\ id \in keep'[k]
      BY ElementIs
    <2>4. {e \in Elements : RowsAbout(e[1], e[2]) # {}} \subseteq kept
      <3> SUFFICES ASSUME NEW e \in Elements, RowsAbout(e[1], e[2]) # {}
                   PROVE  e \in kept
        BY Zenon
      <3>1. PICK k \in Kinds : \E i \in DOMAIN Held(k) : e = <<k, i>>
        BY ElementIs
      <3>2. PICK id \in DOMAIN Held(k) : e = <<k, id>>
        BY <3>1
      <3>3. id \in DOMAIN edits[k]
        BY <1>1, <3>2, EditsAreRows
      <3>4. id \in keep'[k]
        BY <2>1, <2>2, <3>3 DEF Closing, Kinds
      <3> QED
        BY <2>3, <3>2, <3>4
    <2>5. ASSUME NEW e \in kept, NEW o \in RefersTo(e), o \in Elements
          PROVE  o \in kept
      <3>1. PICK k \in Kinds : \E i \in DOMAIN Held(k) : e = <<k, i>>
        BY ElementIs
      <3>2. PICK id \in DOMAIN Held(k) : e = <<k, id>>
        BY <3>1
      <3>3. PICK ok \in Kinds : \E i \in DOMAIN Held(ok) : o = <<ok, i>>
        BY <2>5, ElementIs
      <3>4. PICK oid \in DOMAIN Held(ok) : o = <<ok, oid>>
        BY <3>3
      <3>5. id \in keep'[k]
        BY <3>2
      <3>6. CASE k = "node"
        BY <2>5, <3>2, <3>6, NoNodeRefers
      <3>7. CASE k = "way"
        <4>1. id \in WaysToComplete
          BY <1>1, <2>1, <3>2, <3>5, <3>7, JobIs DEF WaysToComplete
        <4>2. ok = "node" /\ oid \in ToSet(job.ways[id].nodes)
          BY <2>5, <3>2, <3>4, <3>7, NodesOfWay
        <4>3. oid \in NodeRefs
          BY <4>1, <4>2 DEF NodeRefs
        <4> QED
          BY <2>1, <2>3, <3>4, <4>2, <4>3
      <3>8. CASE k = "relation"
        <4>1. oid \in MemberIds(id, ok)
          BY <2>5, <3>2, <3>4, <3>8, MembersAre
        <4>2. id \in keep["relation"] \ pending
          BY <1>1, <2>1, <3>5, <3>8
        <4>3. ok = "relation" => oid \in DOMAIN job.relations
          BY <1>1, <3>4, JobIs
        <4>4. oid \in keep'[ok]
          BY <2>1, <2>2, <4>1, <4>2, <4>3 DEF Closing, Kinds
        <4> QED
          BY <2>3, <3>4, <4>4
      <3> QED
        BY <3>6, <3>7, <3>8 DEF Kinds
    <2>6. Closed(kept)
      BY <2>4, <2>5 DEF Closed
    <2>7. ASSUME NEW S, Closed(S), NEW k \in Kinds, NEW id \in keep'[k], id \in DOMAIN Held(k)
          PROVE  <<k, id>> \in S
      <3>1. CASE id \in keep[k]
        BY <2>2, <2>7, <3>1 DEF Closing, Needed
      <3>2. CASE id \notin keep[k]
        <4>1. k = "node" /\ id \in NodeRefs
          BY <2>1, <3>2 DEF Kinds
        <4>2. PICK w \in WaysToComplete : id \in ToSet(job.ways[w].nodes)
          BY <4>1 DEF NodeRefs
        <4>3. w \in keep["way"] /\ w \in DOMAIN Held("way")
          BY <1>1, <4>2, JobIs DEF WaysToComplete
        <4>4. <<"way", w>> \in S
          BY <2>2, <2>7, <4>3 DEF Closing, Needed, Kinds
        <4>5. <<k, id>> \in RefersTo(<<"way", w>>) \cap Elements
          BY <2>7, <4>1, <4>2, NodesOfWay, ElementIs
        <4> QED
          BY <2>7, <4>4, <4>5 DEF Closed
      <3> QED
        BY <3>1, <3>2
    <2>8. Needed'
      BY <1>1, <2>7, SameHeld DEF Needed
    <2>9. Kept' = kept
      BY <1>1, SameHeld DEF Kept
    <2> HIDE DEF kept
    <2>10. Closed(Kept)'
      <3>1. /\ {e \in Elements : RowsAbout(e[1], e[2]) # {}} \subseteq kept
            /\ \A e \in kept : RefersTo(e) \cap Elements \subseteq kept
        BY <2>6 DEF Closed
      <3>2. /\ \A e : RowsAbout(e[1], e[2])' = RowsAbout(e[1], e[2])
            /\ \A e : RefersTo(e)' = RefersTo(e)
        BY <1>1 DEF RowsAbout, RefersTo, TypeOf
      <3> QED
        BY <1>1, <2>9, <3>1, <3>2, SameHeld DEF Closed
    <2> QED
      BY <1>1, <2>1, <2>8, <2>10 DEF ClosureInv
  <1> QED
    BY <1>2, <1>3

\* The steps that leave the closure alone.
LEMMA StepElsewhere ==
    ASSUME ClosureInv, UNCHANGED <<job, edits, keep>>, row' \in Nat \ {0},
           \/ stage' = "raised"
           \/ stage' = stage /\ stage \in {"synthesize", "write", "done"}
           \/ stage = "synthesize" /\ stage' = "write"
           \/ stage = "write" /\ stage' = "done"
           \/ UNCHANGED writer_vars
    PROVE  ClosureInv'
  <1>1. Needed' <=> Needed
    BY SameHeld DEF Needed
  <1>2. Closed(Kept)' <=> Closed(Kept)
    <2>1. Kept' = Kept
      BY SameHeld DEF Kept
    <2>2. /\ \A e : RowsAbout(e[1], e[2])' = RowsAbout(e[1], e[2])
          /\ \A e : RefersTo(e)' = RefersTo(e)
      BY DEF RowsAbout, RefersTo, TypeOf
    <2> QED
      BY <2>1, <2>2, SameHeld DEF Closed
  <1>3. CASE UNCHANGED writer_vars
    <2>1. (EditsUpto(row - 1)' <=> EditsUpto(row - 1)) /\ (EditsUpto(Len(job.rows))' <=> EditsUpto(Len(job.rows)))
      BY <1>3, SameHeld DEF EditsUpto, TypeOf, writer_vars
    <2>2. Closing' <=> Closing
      BY <1>1, <1>3 DEF Closing, MemberIds, writer_vars
    <2> QED
      BY <1>1, <1>2, <1>3, <2>1, <2>2 DEF ClosureInv, writer_vars
  <1> QED
    BY <1>1, <1>2, <1>3 DEF ClosureInv

LEMMA ClosureStep == ClosureInv /\ [Next]_writer_vars => ClosureInv'
  <1> SUFFICES ASSUME ClosureInv, [Next]_writer_vars PROVE ClosureInv'
    OBVIOUS
  <1>0. row \in Nat \ {0}
    BY DEF ClosureInv
  <1>1. CASE _as_frames
    BY <1>0, <1>1, StepElsewhere DEF _as_frames
  <1>2. CASE Synthesize
    <2>1. /\ UNCHANGED <<job, edits, keep>> /\ row' \in Nat \ {0} /\ stage = "synthesize"
          /\ stage' \in {"synthesize", "raised"}
      BY <1>0, <1>2 DEF Synthesize
    <2> QED
      BY <2>1, StepElsewhere
  <1>3. CASE Open
    BY <1>0, <1>3, StepElsewhere DEF Open
  <1>4. CASE WriteBlock
    <2>1. /\ UNCHANGED <<job, edits, keep, row>> /\ stage = "write" /\ stage' \in {"write", "done"}
      BY <1>4 DEF WriteBlock
    <2> QED
      BY <1>0, <2>1, StepElsewhere
  <1>5. CASE WriteFails
    BY <1>0, <1>5, StepElsewhere DEF WriteFails
  <1>6. CASE UNCHANGED writer_vars
    BY <1>0, <1>6, StepElsewhere DEF writer_vars
  <1> QED
    BY <1>1, <1>2, <1>3, <1>4, <1>5, <1>6, StepCollectEdits, StepBeginClosure, StepTakeRelation, StepBuildRecords
       DEF Next, Progress

\* What is taken so far is needed by every closed set, and refers to nothing else
\* but through the relations that are pending.
THEOREM ClosureInvariant == Spec => []ClosureInv
  BY ClosureInit, ClosureStep, PTL DEF Spec

\* A subset is the smallest set of elements that has those the rows are about
\* and what these refer to.
THEOREM SubsetIsSmallest == Spec => []Smallest
  <1>1. ClosureInv => Smallest
    <2> SUFFICES ASSUME ClosureInv, stage \in {"synthesize", "write", "done"}, job.subset_only
                 PROVE  Closed(Kept) /\ \A S \in SUBSET Kept : Closed(S) => S = Kept
      BY DEF Smallest
    <2>1. Closed(Kept) /\ Needed
      BY DEF ClosureInv
    <2>2. ASSUME NEW S, Closed(S), NEW e \in Kept
          PROVE  e \in S
      <3>1. e \in Elements
        BY DEF Kept
      <3>2. PICK k \in Kinds : \E i \in DOMAIN Held(k) : e = <<k, i>>
        BY <3>1, ElementIs
      <3>3. PICK id \in DOMAIN Held(k) : e = <<k, id>>
        BY <3>2
      <3>4. id \in keep[k]
        BY <3>3 DEF Kept
      <3> QED
        BY <2>1, <2>2, <3>3, <3>4 DEF Needed
    <2> QED
      BY <2>1, <2>2
  <1> QED
    BY <1>1, ClosureInvariant, PTL
=============================================================================
