----------------------------- MODULE OsmSession -----------------------------
(***************************************************************************)
(* An OSM object between the calls of its user (pyrosm.py): the file is    *)
(* parsed by the first in-memory read, kept, and parsed again when another *)
(* moment of its history is asked for.  A call may be rejected, or raise   *)
(* at any step, and the object is used again afterwards.                   *)
(***************************************************************************)
EXTENDS History

CONSTANTS
    Sessions,        \* the objects and what is done with them
    FirstChangeset,  \* the earliest timestamp that is accepted
    MaxClock,        \* bound of the clock
    MaxFaults        \* bound: calls that run out of memory or are interrupted

\* The methods, with the flaws in their arguments that each notices before the file
\* is read; those that the functions below find come to light after it.
get_network == {"tags", "filter"}
get_buildings == {"tags"}
get_landuse == {}
get_natural == {}
get_boundaries == {}
get_pois == {"filter"}
get_data_by_custom_criteria == {"tags", "filter"}
NoticedFirst ==
    [get_network |-> get_network, get_buildings |-> get_buildings, get_landuse |-> get_landuse,
     get_natural |-> get_natural, get_boundaries |-> get_boundaries, get_pois |-> get_pois,
     get_data_by_custom_criteria |-> get_data_by_custom_criteria]
Reader == DOMAIN NoticedFirst \cup {"write_pbf"}

\* The collections that the functions behind the methods look at.
get_network_data == {"ways", "coordinates"}
get_building_data == {"ways", "relations", "coordinates", "member_ways"}
get_boundary_data == {"ways", "relations", "coordinates", "member_ways"}
get_landuse_data == {"nodes", "ways", "relations", "coordinates", "member_ways"}
get_natural_data == {"nodes", "ways", "relations", "coordinates", "member_ways"}
get_poi_data == {"nodes", "ways", "relations", "coordinates", "member_ways"}
get_user_defined_data == {"nodes", "ways", "relations", "coordinates", "member_ways"}
write_geodataframe_to_pbf == {"nodes", "ways", "relations", "coordinates"}
Uses ==
    [get_network |-> get_network_data, get_buildings |-> get_building_data,
     get_boundaries |-> get_boundary_data, get_landuse |-> get_landuse_data,
     get_natural |-> get_natural_data, get_pois |-> get_poi_data,
     get_data_by_custom_criteria |-> get_user_defined_data,
     write_pbf |-> write_geodataframe_to_pbf]

\* What is wrong with the other arguments: a list of tags or a filter.
Flaw == {"none", "tags", "filter"}
Call == [reader : Reader, timestamp : Nat, flaw : Flaw]
Session == [file : HistoryFile, osh_file : BOOLEAN, engine : {"in_memory", "out_of_core"},
            script : Seq(Call)]

\* Only a history file has several versions of an element.
OneVersionEach(versions) ==
    \A i, j \in DOMAIN versions : versions[i].id = versions[j].id => i = j

ASSUME SessionAssumption ==
    /\ Sessions \subseteq Session
    /\ \A s \in Sessions : ~s.osh_file =>
         OneVersionEach(s.file.nodes) /\ OneVersionEach(s.file.ways) /\ OneVersionEach(s.file.relations)
    /\ FirstChangeset \in Nat \ {NoTime} /\ MaxClock \in Nat /\ MaxFaults \in Nat

VARIABLES
    osm,        \* the object
    clock,      \* the time of day
    todo,       \* the calls still to be made
    call,       \* the call in progress or made last
    pc,         \* where it is
    held,       \* the collections of the object, or NothingHeld
    current,    \* _current_timestamp
    changed,    \* _timestamp_changed
    answer,     \* what the call returned, or NoAnswer
    asked,      \* the moment it asked for
    nfaults

vars == <<osm, clock, todo, call, pc, held, current, changed, answer, asked, nfaults>>

NothingHeld == [none |-> TRUE]
NoAnswer == [none |-> TRUE]
NoCall == [reader |-> "get_network", timestamp |-> NoTime, flaw |-> "none"]

SessionInit ==
    /\ osm \in Sessions
    /\ clock = FirstChangeset
    /\ todo = osm.script
    /\ call = NoCall /\ pc = "idle"
    /\ held = NothingHeld /\ current = NoTime /\ changed = FALSE
    /\ answer = NoAnswer /\ asked = NoTime
    /\ nfaults = 0

-----------------------------------------------------------------------------
UsesEngine(c) == osm.engine = "out_of_core" /\ c.timestamp = NoTime /\ ~osm.osh_file

Passed(reader, collections) ==
    [name \in DOMAIN collections |-> IF name \in Uses[reader] THEN collections[name] ELSE {}]

Rests == UNCHANGED <<osm, clock, todo, call, held, current, changed, asked, nfaults>>
Raise == pc' = "raised" /\ UNCHANGED answer
Return(data) == pc' = "returned" /\ answer' = data

Begin ==
    /\ pc \in {"idle", "returned", "raised"} /\ todo # <<>>
    /\ call' = Head(todo) /\ todo' = Tail(todo)
    /\ answer' = NoAnswer /\ asked' = NoTime
    /\ pc' = IF Head(todo).reader = "write_pbf" THEN "held" ELSE "check"
    /\ UNCHANGED <<osm, clock, held, current, changed, nfaults>>

Check ==
    /\ pc = "check" /\ ~UsesEngine(call)
    /\ IF call.flaw \in NoticedFirst[call.reader] THEN Raise
       ELSE pc' = "time" /\ UNCHANGED answer
    /\ Rests

\* The other engine keeps nothing in the object.
ReadEngine ==
    /\ pc = "check" /\ UsesEngine(call)
    /\ IF call.flaw # "none" THEN Raise
       ELSE Return(Passed(call.reader, parse_osm_data(osm.file, NoTime)))
    /\ Rests

\* write_pbf takes what the object holds, whatever was asked for since.
WriteHeld ==
    /\ pc = "held"
    /\ pc' = IF held = NothingHeld THEN "time" ELSE "extract"
    /\ UNCHANGED answer
    /\ Rests

-----------------------------------------------------------------------------
get_unix_time_raises(timestamp) ==
    ~osm.osh_file \/ timestamp > clock \/ timestamp < FirstChangeset
\* A history file is read as of now when no time is given.
SetCurrentTime ==
    /\ pc = "time"
    /\ LET unix_time == IF call.timestamp = NoTime /\ osm.osh_file THEN clock ELSE call.timestamp
       IN  IF call.timestamp # NoTime /\ get_unix_time_raises(call.timestamp)
           THEN pc' = "raised" /\ UNCHANGED <<current, changed, asked>>
           ELSE /\ current' = IF unix_time = NoTime THEN current ELSE unix_time
                /\ changed' = (changed \/ (unix_time # NoTime /\ current # unix_time))
                /\ asked' = unix_time
                /\ pc' = "parse"
    /\ UNCHANGED <<osm, clock, todo, call, held, answer, nfaults>>

NeedsParse == held = NothingHeld \/ changed

\* Mutant of ParseFails: the flag is reset although nothing was read.
ParseFailsAndResets ==
    /\ pc = "parse" /\ NeedsParse
    /\ \/ ParseRaises(osm.file, current) /\ UNCHANGED nfaults
       \/ nfaults < MaxFaults /\ nfaults' = nfaults + 1
    /\ pc' = "raised" /\ changed' = FALSE
    /\ UNCHANGED <<osm, clock, todo, call, held, current, answer, asked>>

\* A frame without rows, no memory, or the user's interrupt.
ParseFails ==
    /\ pc = "parse" /\ NeedsParse
    /\ \/ ParseRaises(osm.file, current) /\ UNCHANGED nfaults
       \/ nfaults < MaxFaults /\ nfaults' = nfaults + 1
    /\ Raise
    /\ UNCHANGED <<osm, clock, todo, call, held, current, changed, asked>>

Parse ==
    /\ pc = "parse"
    /\ IF NeedsParse
       THEN ~ParseRaises(osm.file, current) /\ held' = parse_osm_data(osm.file, current)
       ELSE UNCHANGED held
    /\ changed' = FALSE
    /\ pc' = "extract"
    /\ UNCHANGED <<osm, clock, todo, call, current, answer, asked, nfaults>>

Extract ==
    /\ pc = "extract"
    /\ IF call.flaw # "none" THEN Raise ELSE Return(Passed(call.reader, held))
    /\ Rests

ExtractFails ==
    /\ pc = "extract" /\ nfaults < MaxFaults
    /\ nfaults' = nfaults + 1
    /\ Raise
    /\ UNCHANGED <<osm, clock, todo, call, held, current, changed, asked>>

Tick ==
    /\ clock < MaxClock /\ osm.osh_file
    /\ clock' = clock + 1
    /\ UNCHANGED <<osm, todo, call, pc, held, current, changed, answer, asked, nfaults>>

SessionNext ==
    \/ Begin \/ Check \/ ReadEngine \/ WriteHeld \/ SetCurrentTime \/ ParseFails \/ Parse
    \/ Extract \/ ExtractFails \/ Tick
SessionSpec == SessionInit /\ [][SessionNext]_vars

-----------------------------------------------------------------------------
Reads == pc = "returned" /\ call.reader # "write_pbf"

\* Whatever was asked before, and however it ended, a read returns what the same
\* read of a new object would: nothing of an earlier moment, of a rejected time or
\* of a parse that failed is left over (pyrosm.py:255-271, 297-312).
ReadsAsFresh == Reads => answer = Passed(call.reader, parse_osm_data(osm.file, asked))

\* What an object holds is one whole parse, of one moment that was accepted: also
\* write_pbf, which takes it as it is (pyrosm.py:1344), never writes a mixture.
HoldsOneMoment ==
    held # NothingHeld =>
        \E t \in {NoTime} \cup FirstChangeset..clock : held = parse_osm_data(osm.file, t)

-----------------------------------------------------------------------------
\* A value of a record is one that a version of its element had by the time t.
FromPast(record, versions, field, t) ==
    \E v \in Range(versions) :
        v.id = record.id /\ v[field] = record[field] /\ (t = NoTime \/ v.time <= t)
TagsFromPast(record, versions, t) ==
    \A k \in Key : \E v \in Range(versions) :
        v.id = record.id /\ v.tags[k] = record.tags[k] /\ (t = NoTime \/ v.time <= t)

\* "not newer" (pyrosm.py:388-391): no tag, position, vertex or member in an answer
\* comes from a version made after the moment asked for, also not the vertices and
\* member ways that later passes fetch by their ids.
NothingFromTheFuture ==
    Reads =>
        LET f == osm.file  t == asked
        IN  /\ \A n \in answer.nodes : FromPast(n, f.nodes, "place", t) /\ FromPast(n, f.nodes, "tags", t)
            /\ \A c \in answer.coordinates : FromPast(c, f.nodes, "place", t)
            /\ \A w \in answer.ways \cup answer.member_ways :
                 FromPast(w, f.ways, "nodes", t) /\ TagsFromPast(w, f.ways, t)
            /\ \A r \in answer.relations : FromPast(r, f.relations, "ways", t)

HasTags(record, version) ==
    version.tags = NoTags \/ \A k \in Key : version.tags[k] \in {Missing, record.tags[k]}

\* An element that exists at the moment asked for is in the answer, with its latest
\* nodes or members and with each of its tags, and all vertices that exist are
\* located: unless there is no node yet, when nothing is read.  What a history read
\* gets wrong is too much, never too little.
NeverLoses ==
    Reads =>
        LET f == osm.file  t == asked
            kinds == Passed(call.reader, Collections(NodesAsOf(f, t), WaysAsOf(f, t), AsOf(f.relations, t), {}, {}))
        IN  /\ \A v \in kinds.nodes : \E n \in answer.nodes :
                 n.id = v.id /\ n.place = v.place /\ HasTags(n, v)
            /\ UpTo(f.nodes, t) # {} => \A v \in kinds.ways : \E w \in answer.ways :
                 w.id = v.id /\ w.nodes = v.nodes /\ HasTags(w, v)
            /\ \A v \in kinds.relations : NodesAsOf(f, t) # {} => v \in answer.relations
            /\ \A v \in kinds.ways : \A n \in AsOf(f.nodes, t) :
                 n.id \in v.nodes => n.id \in IdsIn(answer.coordinates)

\* "the most up-to-date version is selected" (pyrosm.py:388-390), of files in which
\* elements only gain: nothing is deleted, loses a tag or a node, or crosses the edge
\* of the box.
LatestIfOnlyGrown ==
    Reads /\ OnlyGrown(osm.file) /\ NodesAsOf(osm.file, asked) # {} =>
        LET f == osm.file  t == asked
        IN  /\ answer.ways = WaysAsOf(f, t)
            /\ answer.nodes \subseteq NodesAsOf(f, t)
            /\ answer.relations \cup answer.member_ways \subseteq AsOf(f.relations, t) \cup AsOf(f.ways, t)
            /\ answer.coordinates \subseteq Located(AsOf(f.nodes, t))

\* The same of every file.
MostUpToDate ==
    Reads => answer.ways = WaysAsOf(osm.file, asked) /\ answer.nodes \subseteq NodesAsOf(osm.file, asked)
=============================================================================
