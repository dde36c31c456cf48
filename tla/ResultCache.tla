---------------------------- MODULE ResultCache ----------------------------
(***************************************************************************)
(* The persistent result cache of the out-of-core engine                   *)
(* (pyrosm/engine/cache.py) together with the caching branch of the layer  *)
(* and network readers (pyrosm/engine/readers.py).                         *)
(*                                                                         *)
(* Readers and clearers are separate threads or operating system processes *)
(* that share nothing but one cache directory and one source PBF; neither  *)
(* is locked.  A step is one file system call: every other process can act *)
(* between any two of them.  A reader may be killed at any step.           *)
(*                                                                         *)
(* A read asks for one file (materialize) or, for get_network(nodes=True), *)
(* for two (materialize_pair): part 1 holds the edges, part 2 the nodes.   *)
(* The decoded data is abstracted to the set of source versions it was     *)
(* decoded from; a version stands for the (mtime, size) pair of the source *)
(* and the bytes that go with it.                                          *)
(***************************************************************************)
EXTENDS Naturals, FiniteSets, Sequences

CONSTANTS
    Reader,       \* the processes that call get_buildings, get_network, ...
    Clearer,      \* the processes that call OSM.clear_cache
    Version,      \* the states the source file can be in
    Read,         \* the distinct reads (readers.py: key_params)
    PairRead,     \* the reads that cache two files: get_network(nodes=True)
    EmptyRead,    \* the <<version, read>> pairs whose result has no rows
    MaxReads,     \* bound: reads that one reader starts
    MaxFaults,    \* bound: kills and disk-full errors
    MaxReplaced   \* bound: replacements of the source file

ASSUME CacheAssumption ==
    /\ Reader # {} /\ Version # {} /\ Read # {}
    /\ PairRead \subseteq Read
    /\ EmptyRead \subseteq Version \X Read
    /\ MaxReads \in Nat /\ MaxFaults \in Nat /\ MaxReplaced \in Nat

Part == 1..2
NumParts(r) == IF r \in PairRead THEN 2 ELSE 1

\* The name of a cache file: cache.result_path hashes the source version, the
\* read's parameters and, for a pair, which half of it the file holds.
File == [ver : Version, read : Read, part : Part]
result_path(v, r, i) == [ver |-> v, read |-> r, part |-> i]

\* What a path holds: nothing, a freshly created or half-written temporary, or
\* a complete frame: which half of which read, and decoded from which versions.
Absent == [st |-> "absent"]
Partial == [st |-> "partial"]
Full(vs, r, i) == [st |-> "full", from |-> vs, read |-> r, part |-> i]
Content == {Absent, Partial}
             \cup {Full(vs, r, i) : vs \in SUBSET Version, r \in Read, i \in Part}

Phase == {"idle", "stat", "marker", "exists", "mktemp", "index", "decode",
          "touch", "open", "close", "replace", "check", "unlink", "load"}
Outcome == {"none", "frames", "empty", "error", "killed"}

VARIABLES
    src,        \* the version of the source PBF now on disk
    result,     \* cache file -> content
    marker,     \* the cache files that have an ".empty" marker beside them
    temp,       \* reader -> part -> content of its own temporary file
    orphan,     \* temporaries <<reader, read number, part>> an ended read left
    pc,         \* reader -> where it is in the read
    at,         \* reader -> the part its loop is at
    req,        \* reader -> the read it performs
    key,        \* reader -> the version each result_path call saw
    seen,       \* reader -> the source versions its build has read
    out,        \* reader -> how its last read ended, or is about to end
    got,        \* reader -> the frames read back, by part
    cpc,        \* clearer -> "idle", "scan", "unlink", "done", "failed"
    todo,       \* clearer -> directory entries still to be visited
    cur,        \* clearer -> the entry found to be a file, about to be removed
    nreads, nfaults, nreplaced,  \* spent bounds
    \* history variables, read by properties only
    dirty,      \* readers whose source was replaced since their first stat
    misled,     \* readers that used a tainted entry
    cleared,    \* readers one of whose own paths a clear() removed
    faulted,    \* readers that met a disk error
    tainted     \* results and markers that a dirty reader published

cacheVars == <<result, marker, temp, orphan>>
readVars == <<pc, at, req, key, seen, out, got>>
clearVars == <<cpc, todo, cur>>
boundVars == <<nreads, nfaults, nreplaced>>
historyVars == <<dirty, misled, cleared, faulted, tainted>>
vars == <<src, cacheVars, readVars, clearVars, boundVars, historyVars>>
\* What the steps of a read leave alone, and all a step that only moves on does.
world == <<src, clearVars, boundVars>>
allButPc == <<world, cacheVars, req, key, seen, out, got, historyVars>>

\* Directory entries as clear() sees them.  A temporary carries the number of
\* the read that made it: mkstemp never hands out the same name twice.
ResultEntry(f) == <<"result", f>>
MarkerEntry(f) == <<"empty", f>>
TempEntry(p, n, i) == <<"tmp", p, n, i>>

OnDisk ==
    {ResultEntry(f) : f \in {g \in File : result[g] # Absent}}
      \cup {MarkerEntry(f) : f \in marker}
      \cup {TempEntry(q[1], nreads[q[1]], q[2]) :
              q \in {s \in Reader \X Part : temp[s[1]][s[2]] # Absent}}
      \cup {TempEntry(q[1], q[2], q[3]) : q \in orphan}

NoTemps == [i \in Part |-> Absent]

Init ==
    /\ src \in Version
    /\ result = [f \in File |-> Absent]
    /\ marker = {}
    /\ temp = [p \in Reader |-> NoTemps]
    /\ orphan = {}
    /\ pc = [p \in Reader |-> "idle"]
    /\ at = [p \in Reader |-> 1]
    /\ req = [p \in Reader |-> CHOOSE r \in Read : TRUE]
    /\ key = [p \in Reader |-> <<>>]
    /\ seen = [p \in Reader |-> {}]
    /\ out = [p \in Reader |-> "none"]
    /\ got = [p \in Reader |-> NoTemps]
    /\ cpc = [c \in Clearer |-> "idle"]
    /\ todo = [c \in Clearer |-> {}]
    /\ cur = [c \in Clearer |-> <<>>]
    /\ nreads = [p \in Reader |-> 0]
    /\ nfaults = 0
    /\ nreplaced = 0
    /\ dirty = {}
    /\ misled = {}
    /\ cleared = {}
    /\ faulted = {}
    /\ tainted = {}

-----------------------------------------------------------------------------
(***************************************************************************)
(* A read: readers.get_network / readers._get_layer, result_path,          *)
(* materialize or materialize_pair, read_result.                           *)
(***************************************************************************)
Last(p) == at[p] = NumParts(req[p])
FileOf(p, i) == result_path(key[p][i], req[p], i)

\* Reader p goes to phase ph, its loop at part i.
GoTo(p, ph, i) ==
    /\ pc' = [pc EXCEPT ![p] = ph]
    /\ at' = [at EXCEPT ![p] = i]

\* The loop of p goes on with the next part, or p leaves it for phase ph.
Advance(p, loop, ph, i) ==
    \/ ~Last(p) /\ GoTo(p, loop, at[p] + 1)
    \/ Last(p) /\ GoTo(p, ph, i)

\* p bases its answer on entry e.
Use(p, e) ==
    /\ misled' = IF e \in tainted THEN misled \cup {p} ELSE misled
    /\ UNCHANGED <<dirty, cleared, faulted, tainted>>

\* The environment harms p: a full disk, or the death of the process.
Fault(p) ==
    /\ nfaults < MaxFaults
    /\ nfaults' = nfaults + 1
    /\ faulted' = faulted \cup {p}
    /\ UNCHANGED <<src, clearVars, nreads, nreplaced, dirty, misled, cleared, tainted>>

\* p publishes entry e, which may differ from what its name says if p is dirty.
Publish(p, e) ==
    /\ tainted' = IF p \in dirty THEN tainted \cup {e} ELSE tainted \ {e}
    /\ UNCHANGED <<dirty, misled, cleared, faulted>>

\* The read of p ends.  Temporaries it has not removed stay on disk.
End(p, how) ==
    /\ GoTo(p, "idle", 1)
    /\ out' = [out EXCEPT ![p] = how]
    /\ seen' = [seen EXCEPT ![p] = {}]
    /\ temp' = [temp EXCEPT ![p] = NoTemps]
    /\ orphan' = orphan \cup
           {<<p, nreads[p], i>> : i \in {j \in Part : temp[p][j] # Absent}}

Start(p, r) ==
    /\ pc[p] = "idle" /\ nreads[p] < MaxReads
    /\ nreads' = [nreads EXCEPT ![p] = @ + 1]
    /\ GoTo(p, "stat", 1)
    /\ req' = [req EXCEPT ![p] = r]
    /\ key' = [key EXCEPT ![p] = <<>>]
    /\ out' = [out EXCEPT ![p] = "none"]
    /\ got' = [got EXCEPT ![p] = NoTemps]
    /\ dirty' = dirty \ {p}
    /\ misled' = misled \ {p}
    /\ cleared' = cleared \ {p}
    /\ faulted' = faulted \ {p}
    /\ UNCHANGED <<src, cacheVars, seen, clearVars, nfaults, nreplaced, tainted>>

\* Mutant of Stat: the key leaves the source's modification time and size out.
StatPathOnly(p) ==
    /\ pc[p] = "stat"
    /\ key' = [key EXCEPT ![p] = Append(@, CHOOSE v \in Version : TRUE)]
    /\ Advance(p, "stat", "marker", 1)
    /\ UNCHANGED <<world, cacheVars, req, seen, out, got, historyVars>>

\* result_path stats the source: once per cached file.
Stat(p) ==
    /\ pc[p] = "stat"
    /\ key' = [key EXCEPT ![p] = Append(@, src)]
    /\ Advance(p, "stat", "marker", 1)
    /\ UNCHANGED <<world, cacheVars, req, seen, out, got, historyVars>>

\* empty_marker.exists()
MarkerFound(p) ==
    /\ pc[p] = "marker" /\ FileOf(p, 1) \in marker
    /\ End(p, "empty")
    /\ Use(p, MarkerEntry(FileOf(p, 1)))
    /\ UNCHANGED <<world, result, marker, req, key, got>>

MarkerMissing(p) ==
    /\ pc[p] = "marker" /\ FileOf(p, 1) \notin marker
    /\ GoTo(p, "exists", 1)
    /\ UNCHANGED allButPc

\* Mutant of CheckExists: one half of a pair is taken for both.
CheckExistsFirst(p) ==
    /\ pc[p] = "exists"
    /\ \/ result[FileOf(p, at[p])] = Absent /\ GoTo(p, "mktemp", 1)
       \/ result[FileOf(p, at[p])] # Absent /\ GoTo(p, "load", NumParts(req[p]))
    /\ UNCHANGED allButPc

\* cache_path.exists(), or edges_path.exists() and nodes_path.exists()
CheckExists(p) ==
    /\ pc[p] = "exists"
    /\ \/ result[FileOf(p, at[p])] = Absent /\ GoTo(p, "mktemp", 1)
       \/ /\ result[FileOf(p, at[p])] # Absent
          /\ Advance(p, "exists", "load", at[p])
    /\ UNCHANGED allButPc

\* _temp_in: mkstemp creates an empty file under a name of its own.
MkTemp(p) ==
    /\ pc[p] = "mktemp"
    /\ temp' = [temp EXCEPT ![p][at[p]] = Partial]
    /\ Advance(p, "mktemp", "index", 1)
    /\ UNCHANGED <<world, result, marker, orphan, req, key, seen, out, got,
                   historyVars>>

\* mkstemp raises before the try block is entered: nothing is cleaned up.
MkTempFails(p) ==
    /\ pc[p] = "mktemp"
    /\ Fault(p)
    /\ End(p, "error")
    /\ UNCHANGED <<result, marker, req, key, got>>

\* build(tmp) opens the source file by its path when it indexes the blobs and
\* again when the workers decode them (pool._decode_and_run).
Index(p) ==
    /\ pc[p] = "index"
    /\ seen' = [seen EXCEPT ![p] = {src}]
    /\ GoTo(p, "decode", 1)
    /\ UNCHANGED <<world, cacheVars, req, key, out, got, historyVars>>

\* The decoded layer has no rows, or has some.  Blobs of two versions may give
\* either, or raise (DecodeFails).
DecodeTo(p, ph) ==
    /\ seen' = [seen EXCEPT ![p] = @ \cup {src}]
    /\ GoTo(p, ph, 1)
    /\ UNCHANGED <<world, cacheVars, req, key, out, got, historyVars>>

DecodeEmpty(p) ==
    /\ pc[p] = "decode"
    /\ \E v \in seen[p] \cup {src} : <<v, req[p]>> \in EmptyRead
    /\ DecodeTo(p, "touch")

DecodeRows(p) ==
    /\ pc[p] = "decode"
    /\ \E v \in seen[p] \cup {src} : <<v, req[p]>> \notin EmptyRead
    /\ DecodeTo(p, "open")

DecodeFails(p) ==
    /\ pc[p] = "decode" /\ src \notin seen[p]
    /\ out' = [out EXCEPT ![p] = "error"]
    /\ GoTo(p, "check", 1)
    /\ UNCHANGED <<world, cacheVars, req, key, seen, got, historyVars>>

\* Mutant of BuildFails: a build that raised counts as a build without rows.
BuildFailsAsEmpty(p) ==
    /\ pc[p] \in {"index", "decode", "open", "close"}
    /\ Fault(p)
    /\ GoTo(p, "touch", 1)
    /\ UNCHANGED <<cacheVars, req, key, seen, out, got>>

\* The build raises (no space left for the shards or for the temporary).
BuildFails(p) ==
    /\ pc[p] \in {"index", "decode", "open", "close"}
    /\ Fault(p)
    /\ out' = [out EXCEPT ![p] = "error"]
    /\ GoTo(p, "check", 1)
    /\ UNCHANGED <<cacheVars, req, key, seen, got>>

\* empty_marker.touch()
Touch(p) ==
    /\ pc[p] = "touch"
    /\ marker' = marker \cup {FileOf(p, 1)}
    /\ Publish(p, MarkerEntry(FileOf(p, 1)))
    /\ out' = [out EXCEPT ![p] = "empty"]
    /\ GoTo(p, "check", 1)
    /\ UNCHANGED <<world, result, temp, orphan, req, key, seen, got>>

\* Mutant of OpenTemp: the build writes the cache file in place.
OpenInPlace(p) ==
    /\ pc[p] = "open"
    /\ temp' = [temp EXCEPT ![p][at[p]] = Partial]
    /\ result' = [result EXCEPT ![FileOf(p, at[p])] = Partial]
    /\ GoTo(p, "close", at[p])
    /\ UNCHANGED <<world, marker, orphan, req, key, seen, out, got, historyVars>>

\* The Parquet writer opens the temporary by its path, creating it again if a
\* clear removed it, and completes it; edges before nodes.
OpenTemp(p) ==
    /\ pc[p] = "open"
    /\ temp' = [temp EXCEPT ![p][at[p]] = Partial]
    /\ GoTo(p, "close", at[p])
    /\ UNCHANGED <<world, result, marker, orphan, req, key, seen, out, got,
                   historyVars>>

\* What is written to a file that was removed meanwhile is lost.
CloseTemp(p) ==
    /\ pc[p] = "close"
    /\ temp' = IF temp[p][at[p]] = Absent THEN temp
               ELSE [temp EXCEPT ![p][at[p]] = Full(seen[p], req[p], at[p])]
    /\ Advance(p, "open", "replace", 1)
    /\ UNCHANGED <<world, result, marker, orphan, req, key, seen, out, got,
                   historyVars>>

\* tmp_path.replace(cache_path): one atomic rename for each part.
Replace(p) ==
    /\ pc[p] = "replace" /\ temp[p][at[p]] # Absent
    /\ result' = [result EXCEPT ![FileOf(p, at[p])] = temp[p][at[p]]]
    /\ temp' = [temp EXCEPT ![p][at[p]] = Absent]
    /\ Publish(p, ResultEntry(FileOf(p, at[p])))
    /\ \/ ~Last(p) /\ GoTo(p, "replace", at[p] + 1) /\ UNCHANGED out
       \/ /\ Last(p) /\ GoTo(p, "check", 1)
          /\ out' = [out EXCEPT ![p] = "frames"]
    /\ UNCHANGED <<world, marker, orphan, req, key, seen, got>>

ReplaceFails(p) ==
    /\ pc[p] = "replace" /\ temp[p][at[p]] = Absent
    /\ out' = [out EXCEPT ![p] = "error"]
    /\ GoTo(p, "check", 1)
    /\ UNCHANGED <<world, cacheVars, req, key, seen, got, historyVars>>

\* The finally clause: for each temporary, exists() and then unlink().
\* After the last one the read loads its files, returns None or raises on.
TempThere(p) ==
    /\ pc[p] = "check" /\ temp[p][at[p]] # Absent
    /\ GoTo(p, "unlink", at[p])
    /\ UNCHANGED allButPc

TempGone(p) ==
    /\ pc[p] = "check" /\ temp[p][at[p]] = Absent
    /\ \/ ~Last(p) /\ GoTo(p, "check", at[p] + 1)
          /\ UNCHANGED <<temp, orphan, seen, out>>
       \/ Last(p) /\ out[p] = "frames" /\ GoTo(p, "load", at[p])
          /\ UNCHANGED <<temp, orphan, seen, out>>
       \/ Last(p) /\ out[p] # "frames" /\ End(p, out[p])
    /\ UNCHANGED <<world, result, marker, req, key, got, historyVars>>

\* Mutant of Unlink: the finally clause of a pair removes one temporary.
UnlinkOne(p) ==
    /\ pc[p] = "unlink" /\ temp[p][at[p]] # Absent
    /\ temp' = [temp EXCEPT ![p][at[p]] = Absent]
    /\ orphan' = orphan \cup {<<p, nreads[p], i>> : i \in at[p] + 1..NumParts(req[p])}
    /\ GoTo(p, "idle", 1)
    /\ UNCHANGED <<world, result, marker, req, key, seen, out, got, historyVars>>

Unlink(p) ==
    /\ pc[p] = "unlink" /\ temp[p][at[p]] # Absent
    /\ temp' = [temp EXCEPT ![p][at[p]] = Absent]
    /\ GoTo(p, "check", at[p])
    /\ UNCHANGED <<world, result, marker, orphan, req, key, seen, out, got,
                   historyVars>>

\* A clear removed the file after exists(): unlink raises out of the finally
\* clause, and the other temporary of a pair is not visited.
UnlinkFails(p) ==
    /\ pc[p] = "unlink" /\ temp[p][at[p]] = Absent
    /\ End(p, "error")
    /\ UNCHANGED <<world, result, marker, req, key, got, historyVars>>

\* Mutant of Load: both frames of a pair are read from the file at hand.
LoadOneFile(p) ==
    /\ pc[p] = "load" /\ result[FileOf(p, at[p])] # Absent
    /\ got' = [got EXCEPT ![p] = [i \in Part |-> result[FileOf(p, at[p])]]]
    /\ Use(p, ResultEntry(FileOf(p, at[p])))
    /\ End(p, "frames")
    /\ UNCHANGED <<world, result, marker, req, key>>

\* read_result, nodes before edges.
Load(p) ==
    /\ pc[p] = "load" /\ result[FileOf(p, at[p])] # Absent
    /\ got' = [got EXCEPT ![p][at[p]] = result[FileOf(p, at[p])]]
    /\ Use(p, ResultEntry(FileOf(p, at[p])))
    /\ \/ at[p] = 1 /\ End(p, "frames")
       \/ at[p] > 1 /\ GoTo(p, "load", at[p] - 1)
          /\ UNCHANGED <<temp, orphan, seen, out>>
    /\ UNCHANGED <<world, result, marker, req, key>>

\* Mutant of LoadFails: a file that has gone is built again.
LoadRetries(p) ==
    /\ pc[p] = "load" /\ result[FileOf(p, at[p])] = Absent
    /\ GoTo(p, "marker", 1)
    /\ UNCHANGED allButPc

\* A clear removed the file meanwhile: reading it raises.
LoadFails(p) ==
    /\ pc[p] = "load" /\ result[FileOf(p, at[p])] = Absent
    /\ End(p, "error")
    /\ UNCHANGED <<world, result, marker, req, key, got, historyVars>>

\* The process is killed: no finally clause runs.
Kill(p) ==
    /\ pc[p] # "idle"
    /\ Fault(p)
    /\ End(p, "killed")
    /\ UNCHANGED <<result, marker, req, key, got>>

ReadStep(p) ==
    \/ Stat(p) \/ MarkerFound(p) \/ MarkerMissing(p) \/ CheckExists(p)
    \/ MkTemp(p) \/ Index(p) \/ DecodeEmpty(p) \/ DecodeRows(p) \/ DecodeFails(p)
    \/ Touch(p) \/ OpenTemp(p) \/ CloseTemp(p) \/ Replace(p) \/ ReplaceFails(p)
    \/ TempThere(p) \/ TempGone(p) \/ Unlink(p) \/ UnlinkFails(p)
    \/ Load(p) \/ LoadFails(p)

-----------------------------------------------------------------------------
(***************************************************************************)
(* cache.clear: the directory is listed once, then each entry is tested    *)
(* with is_file() and removed, in any order.                               *)
(***************************************************************************)
ClearStart(c) ==
    /\ cpc[c] \notin {"scan", "unlink"}
    /\ cpc' = [cpc EXCEPT ![c] = "scan"]
    /\ todo' = [todo EXCEPT ![c] = OnDisk]
    /\ UNCHANGED <<src, cacheVars, readVars, cur, boundVars, historyVars>>

\* An entry that has gone since the listing is skipped.
ClearVisit(c, e) ==
    /\ cpc[c] = "scan" /\ e \in todo[c]
    /\ todo' = [todo EXCEPT ![c] = @ \ {e}]
    /\ \/ /\ e \in OnDisk
          /\ cur' = [cur EXCEPT ![c] = e]
          /\ cpc' = [cpc EXCEPT ![c] = "unlink"]
       \/ e \notin OnDisk /\ UNCHANGED <<cpc, cur>>
    /\ UNCHANGED <<src, cacheVars, readVars, boundVars, historyVars>>

\* The readers in flight that e belongs to.
UsersOf(e) ==
    {p \in Reader : /\ pc[p] # "idle"
                    /\ \/ \E i \in Part : e = TempEntry(p, nreads[p], i)
                       \/ \E i \in DOMAIN key[p] : e = ResultEntry(FileOf(p, i))}

ClearUnlink(c) ==
    LET e == cur[c] IN
    /\ cpc[c] = "unlink" /\ e \in OnDisk
    /\ result' = [f \in File |-> IF e = ResultEntry(f) THEN Absent ELSE result[f]]
    /\ marker' = {f \in marker : e # MarkerEntry(f)}
    /\ temp' = [p \in Reader |-> [i \in Part |->
                   IF e = TempEntry(p, nreads[p], i) THEN Absent ELSE temp[p][i]]]
    /\ orphan' = {q \in orphan : e # TempEntry(q[1], q[2], q[3])}
    /\ cleared' = cleared \cup UsersOf(e)
    /\ tainted' = tainted \ {e}
    /\ cur' = [cur EXCEPT ![c] = <<>>]
    /\ cpc' = [cpc EXCEPT ![c] = "scan"]
    /\ UNCHANGED <<src, readVars, todo, boundVars, dirty, misled, faulted>>

\* Removed by a reader or by another clear after is_file(): clear raises and
\* leaves the rest of the listing in place.
ClearFails(c) ==
    /\ cpc[c] = "unlink" /\ cur[c] \notin OnDisk
    /\ cpc' = [cpc EXCEPT ![c] = "failed"]
    /\ todo' = [todo EXCEPT ![c] = {}]
    /\ cur' = [cur EXCEPT ![c] = <<>>]
    /\ UNCHANGED <<src, cacheVars, readVars, boundVars, historyVars>>

ClearDone(c) ==
    /\ cpc[c] = "scan" /\ todo[c] = {}
    /\ cpc' = [cpc EXCEPT ![c] = "done"]
    /\ UNCHANGED <<src, cacheVars, readVars, todo, cur, boundVars, historyVars>>

ClearStep(c) ==
    \/ \E e \in todo[c] : ClearVisit(c, e)
    \/ ClearUnlink(c) \/ ClearFails(c) \/ ClearDone(c)

\* The user's environment: the source is replaced by another version, or by an
\* earlier one restored with its time stamp.
ReplaceSource(v) ==
    /\ v # src /\ nreplaced < MaxReplaced
    /\ src' = v
    /\ nreplaced' = nreplaced + 1
    /\ dirty' = dirty \cup {p \in Reader : pc[p] # "idle" /\ key[p] # <<>>}
    /\ UNCHANGED <<cacheVars, readVars, clearVars, nreads, nfaults>>
    /\ UNCHANGED <<misled, cleared, faulted, tainted>>

Next ==
    \/ \E p \in Reader : \/ \E r \in Read : Start(p, r)
                         \/ ReadStep(p)
                         \/ MkTempFails(p) \/ BuildFails(p) \/ Kill(p)
    \/ \E c \in Clearer : ClearStart(c) \/ ClearStep(c)
    \/ \E v \in Version : ReplaceSource(v)

Spec == Init /\ [][Next]_vars

\* A process that is not killed runs on: no step of a read or of a clear waits
\* for another process.
FairSpec ==
    /\ Spec
    /\ \A p \in Reader : WF_vars(ReadStep(p))
    /\ \A c \in Clearer : WF_vars(ClearStep(c))

-----------------------------------------------------------------------------
(***************************************************************************)
(* Properties                                                              *)
(***************************************************************************)
Entry == {ResultEntry(f) : f \in File} \cup {MarkerEntry(f) : f \in File}
           \cup {TempEntry(p, n, i) : p \in Reader, n \in 0..MaxReads, i \in Part}

DiskTypeOK ==
    /\ src \in Version
    /\ result \in [File -> Content]
    /\ marker \subseteq File
    /\ temp \in [Reader -> [Part -> Content]]
    /\ orphan \subseteq Reader \X (0..MaxReads) \X Part

ReaderTypeOK ==
    /\ pc \in [Reader -> Phase]
    /\ at \in [Reader -> Part] /\ \A p \in Reader : at[p] <= NumParts(req[p])
    /\ req \in [Reader -> Read]
    /\ key \in [Reader -> Seq(Version)]
    /\ seen \in [Reader -> SUBSET Version]
    /\ out \in [Reader -> Outcome]
    /\ got \in [Reader -> [Part -> Content]]

ClearerTypeOK ==
    /\ cpc \in [Clearer -> {"idle", "scan", "unlink", "done", "failed"}]
    /\ todo \in [Clearer -> SUBSET Entry]
    /\ cur \in [Clearer -> Entry \cup {<<>>}]

CountTypeOK ==
    /\ nreads \in [Reader -> 0..MaxReads]
    /\ nfaults \in 0..MaxFaults
    /\ nreplaced \in 0..MaxReplaced
    /\ dirty \subseteq Reader /\ misled \subseteq Reader
    /\ cleared \subseteq Reader /\ faulted \subseteq Reader

\* Every variable holds a value of the kind its declaration names, and a loop
\* over the parts of a read never runs past the parts that read has.
TypeOK == DiskTypeOK /\ ReaderTypeOK /\ ClearerTypeOK /\ CountTypeOK

\* A file under its final name is complete, whoever writes it, whoever is
\* killed while writing it and whatever a clear removes in between: no reader
\* "observes a half-written cache" (cache.py, _temp_in).
NeverHalfWritten == \A f \in File : result[f] # Partial

\* A cached frame was decoded from the version its name is keyed on, unless the
\* reader that published it had its source replaced after it took the key.
KeyedOnSource ==
    \A f \in File :
        result[f] # Absent /\ ResultEntry(f) \notin tainted
            => result[f] = Full({f.ver}, f.read, f.part)

\* The permanent empty marker stands only beside a read that has no rows.
MarkerSound ==
    \A f \in marker : MarkerEntry(f) \notin tainted => <<f.ver, f.read>> \in EmptyRead

Returned(p) == pc[p] = "idle" =>
    /\ out[p] = "frames" =>
          \A i \in 1..NumParts(req[p]) : got[p][i] = Full({key[p][1]}, req[p], i)
    /\ out[p] = "empty" => <<key[p][1], req[p]>> \in EmptyRead

\* The frames of a finished read, both halves of a pair included, come from the
\* source version it asked for, and None is returned only for an empty read;
\* other readers that build, publish or are killed never show through.
ReadReturnsItsVersion ==
    \A p \in Reader : p \notin dirty \cup misled => Returned(p)

\* A read raises only if a clear removed one of its own files while it ran, its
\* source changed under it, or it met a disk error: readers that race only with
\* each other, some of them killed, always succeed.
ErrorsAreExplained ==
    \A p \in Reader : pc[p] = "idle" /\ out[p] = "error"
        => p \in dirty \cup cleared \cup faulted

\* Only a kill leaves the temporary of a single-file read behind.  A pair read
\* can also leave one when its second mkstemp fails or when a clear makes the
\* finally clause raise at its first temporary.
LeftoversAreExplained ==
    \A p \in Reader, i \in Part :
        pc[p] = "idle" /\ <<p, nreads[p], i>> \in orphan
            => \/ out[p] = "killed"
               \/ /\ req[p] \in PairRead /\ out[p] = "error"
                  /\ p \in cleared \cup faulted

\* Every read ends, however often a clear removes its files: it builds at most
\* once and never waits for another process.
ReadsEnd == \A p \in Reader : pc[p] # "idle" ~> pc[p] = "idle"

-----------------------------------------------------------------------------
(***************************************************************************)
(* The inductive invariant behind TypeOK, NeverHalfWritten, KeyedOnSource, *)
(* MarkerSound and ReadReturnsItsVersion (proved in ResultCacheProofs).    *)
(***************************************************************************)
\* Between the stats and the end a read holds one version for each part.
KeysOK == \A p \in Reader :
    /\ pc[p] = "stat" => Len(key[p]) = at[p] - 1
    /\ pc[p] \notin {"idle", "stat"} => Len(key[p]) = NumParts(req[p])

\* While its source is left alone a read takes every key from, and decodes,
\* the version on disk.
CleanOK == \A p \in Reader : p \notin dirty =>
    /\ \A i, j \in DOMAIN key[p] : key[p][i] = key[p][j]
    /\ pc[p] # "idle" => \A i \in DOMAIN key[p] : key[p][i] = src
    /\ pc[p] \in {"decode", "touch", "open", "close", "replace"} => seen[p] = {src}
    /\ pc[p] = "touch" => <<src, req[p]>> \in EmptyRead

\* A temporary that is about to be renamed is complete, or has been cleared.
TempOK == \A p \in Reader : \A i \in 1..NumParts(req[p]) :
    \/ pc[p] \in {"open", "close"} /\ i < at[p]
    \/ pc[p] = "replace" /\ i >= at[p]
    => temp[p][i] \in {Absent, Full(seen[p], req[p], i)}

\* What the rest of a read will answer with.
Answered(p) ==
    /\ pc[p] = "load" => \A i \in at[p] + 1..NumParts(req[p]) :
                            got[p][i] = Full({key[p][1]}, req[p], i)
    /\ pc[p] \in {"check", "unlink"} /\ out[p] = "empty"
         => <<key[p][1], req[p]>> \in EmptyRead
AnswerOK == \A p \in Reader : p \notin dirty \cup misled => Answered(p)

CacheInv ==
    /\ TypeOK /\ KeysOK /\ CleanOK /\ TempOK /\ AnswerOK
    /\ NeverHalfWritten /\ KeyedOnSource /\ MarkerSound /\ ReadReturnsItsVersion

(***************************************************************************)
(* What ErrorsAreExplained and LeftoversAreExplained need besides.         *)
(***************************************************************************)
Excused(p) == p \in dirty \cup cleared \cup faulted

\* What p wrote, found or published is there when it goes on to use it.
Secure(p) ==
    /\ out[p] # "error"
    /\ \A i \in 1..NumParts(req[p]) :
        /\ \/ pc[p] = "open" /\ i < at[p]
           \/ pc[p] = "close" /\ i <= at[p]
           \/ pc[p] = "replace" /\ i >= at[p]
           => temp[p][i] # Absent
        /\ \/ pc[p] \in {"exists", "replace"} /\ i < at[p]
           \/ pc[p] \in {"check", "unlink"} /\ out[p] = "frames"
           \/ pc[p] = "load" /\ i <= at[p]
           => result[FileOf(p, i)] # Absent

\* Outside its try block a read has the temporaries its loop has made, and
\* inside the finally clause those it has yet to visit.
NoTempAt(p, i) ==
    \/ i > NumParts(req[p])
    \/ pc[p] \in {"idle", "stat", "marker", "exists", "load"}
    \/ pc[p] = "mktemp" /\ i >= at[p]
    \/ pc[p] \in {"check", "unlink"} /\ i < at[p]
Tidy(p) ==
    /\ \A i \in Part : NoTempAt(p, i) => temp[p][i] = Absent
    /\ pc[p] = "unlink" /\ p \notin cleared => temp[p][at[p]] # Absent

\* Only an ended read has left temporaries.
LeftByEnded(p) ==
    \A i \in Part :
        /\ \A n \in 0..MaxReads : <<p, n, i>> \in orphan => n <= nreads[p]
        /\ pc[p] # "idle" => <<p, nreads[p], i>> \notin orphan

Accounted ==
    \A p \in Reader : (~Excused(p) => Secure(p)) /\ Tidy(p) /\ LeftByEnded(p)

ExcuseInv == CacheInv /\ Accounted /\ LeftoversAreExplained
=============================================================================
