-------------------------- MODULE ResultCacheProofs --------------------------
(***************************************************************************)
(* Safety of the result cache for any number of readers, clearers, reads,  *)
(* source versions, kills and disk errors.  One lemma per part of CacheInv *)
(* shows that every step keeps it; CacheInvariant puts them together.      *)
(***************************************************************************)
EXTENDS ResultCache, SequenceTheorems, TLAPS

\* A read has one part or two, and its loops stay within them.
LEMMA NumPartsFacts == \A r : NumParts(r) \in 1..2 /\ NumParts(r) # 0
  BY DEF NumParts

LEMMA LoopFacts ==
    ASSUME TypeOK, NEW p \in Reader
    PROVE  /\ at[p] \in Part /\ at[p] \in 1..NumParts(req[p])
           /\ 1 \in 1..NumParts(req[p])
           /\ ~Last(p) => at[p] + 1 \in 1..NumParts(req[p])
           /\ at[p] > 1 => at[p] - 1 \in 1..NumParts(req[p])
  <1>1. NumParts(req[p]) \in 1..2
    BY NumPartsFacts
  <1>2. at[p] \in 1..2 /\ at[p] <= NumParts(req[p])
    BY DEF TypeOK, ReaderTypeOK, Part
  <1> QED
    BY <1>1, <1>2 DEF Last, Part

LEMMA ContentFacts ==
    /\ Absent \in Content /\ Partial \in Content /\ Absent # Partial
    /\ \A vs \in SUBSET Version, r \in Read, i \in Part :
          /\ Full(vs, r, i) \in Content
          /\ Full(vs, r, i) # Absent /\ Full(vs, r, i) # Partial
  <1>1. Absent \in Content /\ Partial \in Content
    BY DEF Content
  <1>2. Absent # Partial
    <2>1. Absent.st # Partial.st
      BY DEF Absent, Partial
    <2> QED
      BY <2>1
  <1>3. ASSUME NEW vs \in SUBSET Version, NEW r \in Read, NEW i \in Part
        PROVE  /\ Full(vs, r, i) \in Content
               /\ Full(vs, r, i) # Absent /\ Full(vs, r, i) # Partial
    <2>1. Full(vs, r, i) \in Content
      BY DEF Content
    <2>2. Full(vs, r, i).st # Absent.st /\ Full(vs, r, i).st # Partial.st
      BY DEF Full, Absent, Partial
    <2> QED
      BY <2>1, <2>2
  <1> QED
    BY <1>1, <1>2, <1>3

\* An active reader's keys name cache files.
LEMMA FileFacts ==
    ASSUME TypeOK, KeysOK, NEW p \in Reader, pc[p] \notin {"idle", "stat"},
           NEW i \in 1..NumParts(req[p])
    PROVE  /\ i \in DOMAIN key[p] /\ key[p][i] \in Version
           /\ 1 \in DOMAIN key[p]
           /\ FileOf(p, i) \in File
           /\ FileOf(p, i).ver = key[p][i]
           /\ FileOf(p, i).read = req[p] /\ FileOf(p, i).part = i
  <1>1. Len(key[p]) = NumParts(req[p]) /\ key[p] \in Seq(Version)
    BY DEF KeysOK, TypeOK, ReaderTypeOK
  <1>2. NumParts(req[p]) \in 1..2
    BY NumPartsFacts
  <1>3. i \in 1..2 /\ i \in DOMAIN key[p] /\ 1 \in DOMAIN key[p]
    BY <1>1, <1>2
  <1>4. key[p][i] \in Version /\ req[p] \in Read
    BY <1>1, <1>3 DEF TypeOK, ReaderTypeOK
  <1> QED
    BY <1>3, <1>4 DEF FileOf, result_path, File, Part


\* Moving on keeps a reader's control state in its types.
LEMMA Moves ==
    ASSUME TypeOK, NEW p \in Reader,
           \E ph \in Phase, i \in 1..NumParts(req[p]) : GoTo(p, ph, i),
           UNCHANGED req,
           key' \in [Reader -> Seq(Version)],
           seen' \in [Reader -> SUBSET Version],
           out' \in [Reader -> Outcome],
           got' \in [Reader -> [Part -> Content]]
    PROVE  ReaderTypeOK'
  <1>1. PICK ph \in Phase, i \in 1..NumParts(req[p]) : GoTo(p, ph, i)
    OBVIOUS
  <1>2. pc' \in [Reader -> Phase]
    BY <1>1 DEF GoTo, TypeOK, ReaderTypeOK
  <1>3. i \in Part /\ i <= NumParts(req[p])
    BY NumPartsFacts DEF Part
  <1>4. at' \in [Reader -> Part]
    BY <1>1, <1>3 DEF GoTo, TypeOK, ReaderTypeOK
  <1>5. \A q \in Reader : at'[q] <= NumParts(req'[q])
    BY <1>1, <1>3 DEF GoTo, TypeOK, ReaderTypeOK
  <1>6. req' \in [Reader -> Read]
    BY DEF TypeOK, ReaderTypeOK
  <1> QED
    BY <1>2, <1>4, <1>5, <1>6 DEF ReaderTypeOK

\* So does the end of a read; what it leaves behind has a name of its own.
LEMMA EndType ==
    ASSUME TypeOK, NEW p \in Reader, NEW how \in Outcome, End(p, how)
    PROVE  /\ temp' \in [Reader -> [Part -> Content]]
           /\ orphan' \subseteq Reader \X (0..MaxReads) \X Part
           /\ seen' \in [Reader -> SUBSET Version]
           /\ out' \in [Reader -> Outcome]
           /\ \E ph \in Phase, i \in 1..NumParts(req[p]) : GoTo(p, ph, i)
  <1>1. temp' \in [Reader -> [Part -> Content]]
    <2>1. NoTemps \in [Part -> Content]
      BY ContentFacts DEF NoTemps
    <2> QED
      BY <2>1 DEF End, TypeOK, DiskTypeOK
  <1>2. orphan' \subseteq Reader \X (0..MaxReads) \X Part
    <2>1. nreads[p] \in 0..MaxReads
      BY DEF TypeOK, CountTypeOK
    <2>2. ASSUME NEW i \in Part
          PROVE  <<p, nreads[p], i>> \in Reader \X (0..MaxReads) \X Part
      BY <2>1
    <2>3. orphan' = orphan \cup
             {<<p, nreads[p], i>> : i \in {j \in Part : temp[p][j] # Absent}}
      BY DEF End
    <2>4. orphan \subseteq Reader \X (0..MaxReads) \X Part
      BY DEF TypeOK, DiskTypeOK
    <2> QED
      BY <2>2, <2>3, <2>4
  <1>3. seen' \in [Reader -> SUBSET Version] /\ out' \in [Reader -> Outcome]
    BY DEF End, TypeOK, ReaderTypeOK
  <1>4. "idle" \in Phase /\ 1 \in 1..NumParts(req[p]) /\ GoTo(p, "idle", 1)
    BY LoopFacts DEF Phase, End
  <1> QED
    BY <1>1, <1>2, <1>3, <1>4

\* A step of reader p shows other readers neither a new answer nor a new excuse.
Moved(p) ==
    /\ UNCHANGED <<req, dirty>>
    /\ misled' = misled \/ misled' = misled \cup {p}
    /\ \A q \in Reader : q # p =>
          /\ pc'[q] = pc[q] /\ at'[q] = at[q] /\ key'[q] = key[q]
          /\ got'[q] = got[q] /\ out'[q] = out[q]

LEMMA OthersAnswer ==
    ASSUME AnswerOK, ReadReturnsItsVersion, NEW p \in Reader, Moved(p),
           NEW q \in Reader, q # p, q \notin dirty' \cup misled'
    PROVE  Answered(q)' /\ Returned(q)'
  <1>1. q \notin dirty \cup misled
    BY DEF Moved
  <1>2. Answered(q) /\ Returned(q)
    BY <1>1 DEF AnswerOK, ReadReturnsItsVersion
  <1>3. /\ pc'[q] = pc[q] /\ at'[q] = at[q] /\ key'[q] = key[q]
        /\ got'[q] = got[q] /\ out'[q] = out[q] /\ req'[q] = req[q]
    BY DEF Moved
  <1>4. Answered(q)'
    BY <1>2, <1>3 DEF Answered
  <1>5. Returned(q)'
    BY <1>2, <1>3 DEF Returned
  <1> QED
    BY <1>4, <1>5

\* The disk and the temporaries keep their types.
LEMMA DiskTypeStep ==
    ASSUME TypeOK, KeysOK, [Next]_vars
    PROVE  DiskTypeOK'
  <1> USE DEF DiskTypeOK
  <1>0. DiskTypeOK
    BY DEF TypeOK
  <1>1. ASSUME NEW p \in Reader, NEW r \in Read, Start(p, r)
       PROVE  DiskTypeOK'
    BY <1>0, <1>1 DEF Start, GoTo, cacheVars
  <1>2. ASSUME NEW p \in Reader, Stat(p)
       PROVE  DiskTypeOK'
    BY <1>0, <1>2 DEF Stat, Advance, GoTo, world, cacheVars
  <1>3. ASSUME NEW p \in Reader, MarkerFound(p)
       PROVE  DiskTypeOK'
    <2>1. "empty" \in Outcome /\ End(p, "empty")
      BY <1>3 DEF MarkerFound, Outcome
    <2>2. UNCHANGED <<src, result, marker>>
      BY <1>3 DEF MarkerFound, Fault, world
    <2> QED
      BY <2>1, <2>2, EndType DEF TypeOK
  <1>4. ASSUME NEW p \in Reader, MarkerMissing(p)
       PROVE  DiskTypeOK'
    BY <1>0, <1>4 DEF MarkerMissing, GoTo, world, allButPc, cacheVars
  <1>5. ASSUME NEW p \in Reader, CheckExists(p)
       PROVE  DiskTypeOK'
    BY <1>0, <1>5 DEF CheckExists, Advance, GoTo, world, allButPc, cacheVars
  <1>6. ASSUME NEW p \in Reader, MkTemp(p)
       PROVE  DiskTypeOK'
    <2>1. UNCHANGED <<src, result, marker, orphan>>
      BY <1>6 DEF MkTemp, world
    <2>2. temp' \in [Reader -> [Part -> Content]]
      BY <1>6, ContentFacts DEF MkTemp, TypeOK, ReaderTypeOK
    <2> QED
      BY <2>1, <2>2 DEF TypeOK
  <1>7. ASSUME NEW p \in Reader, Index(p)
       PROVE  DiskTypeOK'
    BY <1>0, <1>7 DEF Index, GoTo, world, cacheVars
  <1>8. ASSUME NEW p \in Reader, DecodeEmpty(p)
       PROVE  DiskTypeOK'
    BY <1>0, <1>8 DEF DecodeEmpty, DecodeTo, GoTo, world, cacheVars
  <1>9. ASSUME NEW p \in Reader, DecodeRows(p)
       PROVE  DiskTypeOK'
    BY <1>0, <1>9 DEF DecodeRows, DecodeTo, GoTo, world, cacheVars
  <1>10. ASSUME NEW p \in Reader, DecodeFails(p)
       PROVE  DiskTypeOK'
    BY <1>0, <1>10 DEF DecodeFails, GoTo, world, cacheVars
  <1>11. ASSUME NEW p \in Reader, Touch(p)
       PROVE  DiskTypeOK'
    <2>1. UNCHANGED <<src, result, temp, orphan>>
      BY <1>11 DEF Touch, world
    <2>2. FileOf(p, 1) \in File
      BY <1>11, FileFacts, LoopFacts DEF Touch
    <2>3. marker' = marker \cup {FileOf(p, 1)}
      BY <1>11 DEF Touch
    <2> QED
      BY <2>1, <2>2, <2>3 DEF TypeOK
  <1>12. ASSUME NEW p \in Reader, OpenTemp(p)
       PROVE  DiskTypeOK'
    <2>1. UNCHANGED <<src, result, marker, orphan>>
      BY <1>12 DEF OpenTemp, world
    <2>2. temp' \in [Reader -> [Part -> Content]]
      BY <1>12, ContentFacts DEF OpenTemp, TypeOK, ReaderTypeOK
    <2> QED
      BY <2>1, <2>2 DEF TypeOK
  <1>13. ASSUME NEW p \in Reader, CloseTemp(p)
       PROVE  DiskTypeOK'
    <2>1. UNCHANGED <<src, result, marker, orphan>>
      BY <1>13 DEF CloseTemp, world
    <2>2. temp' \in [Reader -> [Part -> Content]]
      BY <1>13, ContentFacts DEF CloseTemp, TypeOK, ReaderTypeOK
    <2> QED
      BY <2>1, <2>2 DEF TypeOK
  <1>14. ASSUME NEW p \in Reader, Replace(p)
       PROVE  DiskTypeOK'
    <2>1. UNCHANGED <<src, marker, orphan>>
      BY <1>14 DEF Replace, world
    <2>2. temp[p][at[p]] \in Content /\ Absent \in Content
      BY ContentFacts DEF TypeOK, ReaderTypeOK
    <2>3. temp' \in [Reader -> [Part -> Content]]
      BY <1>14, <2>2 DEF Replace, TypeOK
    <2>4. result' \in [File -> Content]
      BY <1>14, <2>2 DEF Replace, TypeOK
    <2> QED
      BY <2>1, <2>3, <2>4 DEF TypeOK
  <1>15. ASSUME NEW p \in Reader, ReplaceFails(p)
       PROVE  DiskTypeOK'
    BY <1>0, <1>15 DEF ReplaceFails, GoTo, world, cacheVars
  <1>16. ASSUME NEW p \in Reader, TempThere(p)
       PROVE  DiskTypeOK'
    BY <1>0, <1>16 DEF TempThere, GoTo, world, allButPc, cacheVars
  <1>17. ASSUME NEW p \in Reader, TempGone(p)
       PROVE  DiskTypeOK'
    <2>1. UNCHANGED <<src, result, marker>>
      BY <1>17 DEF TempGone, world
    <2>2. CASE Last(p) /\ out[p] # "frames"
      <3>1. End(p, out[p]) /\ out[p] \in Outcome
        BY <1>17, <2>2 DEF TempGone, Outcome, TypeOK, ReaderTypeOK
      <3> QED
        BY <3>1, <2>1, EndType DEF TypeOK
    <2>3. CASE ~(Last(p) /\ out[p] # "frames")
      <3>1. UNCHANGED <<temp, orphan>>
        BY <1>17, <2>3, LoopFacts DEF TempGone, Part
      <3> QED
        BY <3>1, <2>1 DEF TypeOK
    <2> QED
      BY <2>2, <2>3
  <1>18. ASSUME NEW p \in Reader, Unlink(p)
       PROVE  DiskTypeOK'
    <2>1. UNCHANGED <<src, result, marker, orphan>>
      BY <1>18 DEF Unlink, world
    <2>2. temp' \in [Reader -> [Part -> Content]]
      BY <1>18, ContentFacts DEF Unlink, TypeOK, ReaderTypeOK
    <2> QED
      BY <2>1, <2>2 DEF TypeOK
  <1>19. ASSUME NEW p \in Reader, UnlinkFails(p)
       PROVE  DiskTypeOK'
    <2>1. "error" \in Outcome /\ End(p, "error")
      BY <1>19 DEF UnlinkFails, Outcome
    <2>2. UNCHANGED <<src, result, marker>>
      BY <1>19 DEF UnlinkFails, Fault, world
    <2> QED
      BY <2>1, <2>2, EndType DEF TypeOK
  <1>20. ASSUME NEW p \in Reader, Load(p)
       PROVE  DiskTypeOK'
    <2>1. UNCHANGED <<src, result, marker>>
      BY <1>20 DEF Load, world
    <2>2. CASE at[p] = 1
      <3>1. End(p, "frames") /\ "frames" \in Outcome
        BY <1>20, <2>2 DEF Load, Outcome, TypeOK, ReaderTypeOK
      <3> QED
        BY <3>1, <2>1, EndType DEF TypeOK
    <2>3. CASE ~(at[p] = 1)
      <3>1. UNCHANGED <<temp, orphan>>
        BY <1>20, <2>3, LoopFacts DEF Load, Part
      <3> QED
        BY <3>1, <2>1 DEF TypeOK
    <2> QED
      BY <2>2, <2>3
  <1>21. ASSUME NEW p \in Reader, LoadFails(p)
       PROVE  DiskTypeOK'
    <2>1. "error" \in Outcome /\ End(p, "error")
      BY <1>21 DEF LoadFails, Outcome
    <2>2. UNCHANGED <<src, result, marker>>
      BY <1>21 DEF LoadFails, Fault, world
    <2> QED
      BY <2>1, <2>2, EndType DEF TypeOK
  <1>22. ASSUME NEW p \in Reader, MkTempFails(p)
       PROVE  DiskTypeOK'
    <2>1. "error" \in Outcome /\ End(p, "error")
      BY <1>22 DEF MkTempFails, Outcome
    <2>2. UNCHANGED <<src, result, marker>>
      BY <1>22 DEF MkTempFails, Fault, world
    <2> QED
      BY <2>1, <2>2, EndType DEF TypeOK
  <1>23. ASSUME NEW p \in Reader, BuildFails(p)
       PROVE  DiskTypeOK'
    BY <1>0, <1>23 DEF BuildFails, Fault, GoTo, cacheVars
  <1>24. ASSUME NEW p \in Reader, Kill(p)
       PROVE  DiskTypeOK'
    <2>1. "killed" \in Outcome /\ End(p, "killed")
      BY <1>24 DEF Kill, Outcome
    <2>2. UNCHANGED <<src, result, marker>>
      BY <1>24 DEF Kill, Fault, world
    <2> QED
      BY <2>1, <2>2, EndType DEF TypeOK
  <1>25. ASSUME NEW c \in Clearer, NEW e \in todo[c], ClearVisit(c, e)
       PROVE  DiskTypeOK'
    BY <1>0, <1>25 DEF ClearVisit, cacheVars
  <1>26. ASSUME NEW c \in Clearer, ClearStart(c)
       PROVE  DiskTypeOK'
    BY <1>0, <1>26 DEF ClearStart, cacheVars
  <1>27. ASSUME NEW c \in Clearer, ClearUnlink(c)
       PROVE  DiskTypeOK'
    <2>1. src' = src /\ marker' \subseteq File /\ orphan' \subseteq orphan
      BY <1>27 DEF ClearUnlink, TypeOK

           <2>2. result' = [f \in File |-> IF cur[c] = ResultEntry(f) THEN Absent ELSE result[f]]
      BY <1>27 DEF ClearUnlink
    <2>3. result' \in [File -> Content]
      BY <2>2, ContentFacts DEF TypeOK
    <2>4. temp' = [p \in Reader |-> [i \in Part |->
                     IF cur[c] = TempEntry(p, nreads[p],
                        i) THEN Absent ELSE temp[p][i]]]
      BY <1>27 DEF ClearUnlink
    <2>5. \A p \in Reader, i \in Part : temp[p][i] \in Content
      BY DEF TypeOK
    <2>6. temp' \in [Reader -> [Part -> Content]]
      BY <2>4, <2>5, ContentFacts
    <2> QED
      BY <2>1, <2>3, <2>6 DEF TypeOK
  <1>28. ASSUME NEW c \in Clearer, ClearFails(c)
       PROVE  DiskTypeOK'
    BY <1>0, <1>28 DEF ClearFails, cacheVars
  <1>29. ASSUME NEW c \in Clearer, ClearDone(c)
       PROVE  DiskTypeOK'
    BY <1>0, <1>29 DEF ClearDone, cacheVars
  <1>30. ASSUME NEW v \in Version, ReplaceSource(v)
       PROVE  DiskTypeOK'
    BY <1>0, <1>30 DEF ReplaceSource, cacheVars
  <1>31. CASE UNCHANGED vars
    BY <1>0, <1>31 DEF vars, cacheVars
  <1> QED
    BY <1>1, <1>2, <1>3, <1>4, <1>5, <1>6, <1>7, <1>8, <1>9, <1>10, <1>11, <1>12,
       <1>13, <1>14, <1>15, <1>16, <1>17, <1>18, <1>19, <1>20, <1>21, <1>22, <1>23,
       <1>24, <1>25, <1>26, <1>27, <1>28, <1>29, <1>30, <1>31
    DEF Next, ReadStep, ClearStep

\* The readers keep their types, and their loops stay within the read's parts.
LEMMA ReaderTypeStep ==
    ASSUME TypeOK, KeysOK, [Next]_vars
    PROVE  ReaderTypeOK'
  <1> USE DEF ReaderTypeOK
  <1>0. ReaderTypeOK
    BY DEF TypeOK
  <1>1. ASSUME NEW p \in Reader, NEW r \in Read, Start(p, r)
       PROVE  ReaderTypeOK'
    <2>1. /\ pc' = [pc EXCEPT ![p] = "stat"] /\ at' = [at EXCEPT ![p] = 1]
          /\ req' = [req EXCEPT ![p] = r] /\ key' = [key EXCEPT ![p] = <<>>]
          /\ seen' = seen /\ out' = [out EXCEPT ![p] = "none"]
          /\ got' = [got EXCEPT ![p] = NoTemps]
      BY <1>1 DEF Start, GoTo
    <2>2. /\ "stat" \in Phase /\ "none" \in Outcome /\ <<>> \in Seq(Version)
          /\ NoTemps \in [Part -> Content] /\ 1 \in Part /\ NumParts(r) >= 1
      BY ContentFacts, NumPartsFacts DEF Phase, Outcome, NoTemps, Part
    <2>3. /\ pc' \in [Reader -> Phase] /\ req' \in [Reader -> Read]
          /\ seen' \in [Reader -> SUBSET Version] /\ out' \in [Reader -> Outcome]
      BY <2>1, <2>2 DEF TypeOK, ReaderTypeOK
    <2>4. /\ key' \in [Reader -> Seq(Version)] /\ got' \in [Reader -> [Part -> Content]]
          /\ at' \in [Reader -> Part]
      BY <2>1, <2>2 DEF TypeOK, ReaderTypeOK
    <2>5. \A q \in Reader : at'[q] <= NumParts(req'[q])
      BY <2>1, <2>2 DEF TypeOK, ReaderTypeOK
    <2> QED
      BY <2>3, <2>4, <2>5
  <1>2. ASSUME NEW p \in Reader, Stat(p)
       PROVE  ReaderTypeOK'
    <2>1. \E ph \in Phase, i \in 1..NumParts(req[p]) : GoTo(p, ph, i)
      BY <1>2, LoopFacts DEF Stat, Advance, Phase
    <2>2. /\ UNCHANGED req /\ key' \in [Reader -> Seq(Version)]
          /\ seen' \in [Reader -> SUBSET Version] /\ out' \in [Reader -> Outcome]
          /\ got' \in [Reader -> [Part -> Content]]
      BY <1>2 DEF Stat, DiskTypeOK, TypeOK, ReaderTypeOK
    <2> QED
      BY <2>1, <2>2, Moves
  <1>3. ASSUME NEW p \in Reader, MarkerFound(p)
       PROVE  ReaderTypeOK'
    <2>1. "empty" \in Outcome /\ End(p, "empty")
      BY <1>3 DEF MarkerFound, Outcome, TypeOK, ReaderTypeOK
    <2>2. UNCHANGED <<req, key, got>>
      BY <1>3 DEF MarkerFound
    <2>3. key' \in [Reader -> Seq(Version)] /\ got' \in [Reader -> [Part -> Content]]
      BY <2>2 DEF TypeOK, ReaderTypeOK
    <2> QED
      BY <2>1, <2>2, <2>3, EndType, Moves
  <1>4. ASSUME NEW p \in Reader, MarkerMissing(p)
       PROVE  ReaderTypeOK'
    <2>1. \E ph \in Phase, i \in 1..NumParts(req[p]) : GoTo(p, ph, i)
      BY <1>4, LoopFacts DEF MarkerMissing, Phase, Phase
    <2>2. /\ UNCHANGED req /\ key' \in [Reader -> Seq(Version)]
          /\ seen' \in [Reader -> SUBSET Version] /\ out' \in [Reader -> Outcome]
          /\ got' \in [Reader -> [Part -> Content]]
      BY <1>4 DEF MarkerMissing, allButPc, TypeOK, ReaderTypeOK
    <2> QED
      BY <2>1, <2>2, Moves
  <1>5. ASSUME NEW p \in Reader, CheckExists(p)
       PROVE  ReaderTypeOK'
    <2>1. \E ph \in Phase, i \in 1..NumParts(req[p]) : GoTo(p, ph, i)
      BY <1>5, LoopFacts DEF CheckExists, Advance, Phase
    <2>2. /\ UNCHANGED req /\ key' \in [Reader -> Seq(Version)]
          /\ seen' \in [Reader -> SUBSET Version] /\ out' \in [Reader -> Outcome]
          /\ got' \in [Reader -> [Part -> Content]]
      BY <1>5 DEF CheckExists, allButPc, TypeOK, ReaderTypeOK
    <2> QED
      BY <2>1, <2>2, Moves
  <1>6. ASSUME NEW p \in Reader, MkTemp(p)
       PROVE  ReaderTypeOK'
    <2>1. \E ph \in Phase, i \in 1..NumParts(req[p]) : GoTo(p, ph, i)
      BY <1>6, LoopFacts DEF MkTemp, Advance, Phase
    <2>2. /\ UNCHANGED req /\ key' \in [Reader -> Seq(Version)]
          /\ seen' \in [Reader -> SUBSET Version] /\ out' \in [Reader -> Outcome]
          /\ got' \in [Reader -> [Part -> Content]]
      BY <1>6 DEF MkTemp, allButPc, TypeOK, ReaderTypeOK
    <2> QED
      BY <2>1, <2>2, Moves
  <1>7. ASSUME NEW p \in Reader, Index(p)
       PROVE  ReaderTypeOK'
    <2>1. \E ph \in Phase, i \in 1..NumParts(req[p]) : GoTo(p, ph, i)
      BY <1>7, LoopFacts DEF Index, Phase, Phase
    <2>2. /\ UNCHANGED req /\ key' \in [Reader -> Seq(Version)]
          /\ seen' \in [Reader -> SUBSET Version] /\ out' \in [Reader -> Outcome]
          /\ got' \in [Reader -> [Part -> Content]]
      BY <1>7 DEF Index, DiskTypeOK, TypeOK, ReaderTypeOK
    <2> QED
      BY <2>1, <2>2, Moves
  <1>8. ASSUME NEW p \in Reader, DecodeEmpty(p)
       PROVE  ReaderTypeOK'
    <2>1. \E ph \in Phase, i \in 1..NumParts(req[p]) : GoTo(p, ph, i)
      BY <1>8, LoopFacts DEF DecodeEmpty, DecodeTo, Phase
    <2>2. /\ UNCHANGED req /\ key' \in [Reader -> Seq(Version)]
          /\ seen' \in [Reader -> SUBSET Version] /\ out' \in [Reader -> Outcome]
          /\ got' \in [Reader -> [Part -> Content]]
      BY <1>8 DEF DecodeEmpty, DecodeTo, DiskTypeOK, TypeOK, ReaderTypeOK
    <2> QED
      BY <2>1, <2>2, Moves
  <1>9. ASSUME NEW p \in Reader, DecodeRows(p)
       PROVE  ReaderTypeOK'
    <2>1. \E ph \in Phase, i \in 1..NumParts(req[p]) : GoTo(p, ph, i)
      BY <1>9, LoopFacts DEF DecodeRows, DecodeTo, Phase
    <2>2. /\ UNCHANGED req /\ key' \in [Reader -> Seq(Version)]
          /\ seen' \in [Reader -> SUBSET Version] /\ out' \in [Reader -> Outcome]
          /\ got' \in [Reader -> [Part -> Content]]
      BY <1>9 DEF DecodeRows, DecodeTo, DiskTypeOK, TypeOK, ReaderTypeOK
    <2> QED
      BY <2>1, <2>2, Moves
  <1>10. ASSUME NEW p \in Reader, DecodeFails(p)
       PROVE  ReaderTypeOK'
    <2>1. \E ph \in Phase, i \in 1..NumParts(req[p]) : GoTo(p, ph, i)
      BY <1>10, LoopFacts DEF DecodeFails, Phase, Phase
    <2>2. /\ UNCHANGED req /\ key' \in [Reader -> Seq(Version)]
          /\ seen' \in [Reader -> SUBSET Version] /\ out' \in [Reader -> Outcome]
          /\ got' \in [Reader -> [Part -> Content]]
      BY <1>10 DEF DecodeFails, Outcome, TypeOK, ReaderTypeOK
    <2> QED
      BY <2>1, <2>2, Moves
  <1>11. ASSUME NEW p \in Reader, Touch(p)
       PROVE  ReaderTypeOK'
    <2>1. \E ph \in Phase, i \in 1..NumParts(req[p]) : GoTo(p, ph, i)
      BY <1>11, LoopFacts DEF Touch, Publish, Phase
    <2>2. /\ UNCHANGED req /\ key' \in [Reader -> Seq(Version)]
          /\ seen' \in [Reader -> SUBSET Version] /\ out' \in [Reader -> Outcome]
          /\ got' \in [Reader -> [Part -> Content]]
      BY <1>11 DEF Touch, Outcome, TypeOK, ReaderTypeOK
    <2> QED
      BY <2>1, <2>2, Moves
  <1>12. ASSUME NEW p \in Reader, OpenTemp(p)
       PROVE  ReaderTypeOK'
    <2>1. \E ph \in Phase, i \in 1..NumParts(req[p]) : GoTo(p, ph, i)
      BY <1>12, LoopFacts DEF OpenTemp, Phase, Phase
    <2>2. /\ UNCHANGED req /\ key' \in [Reader -> Seq(Version)]
          /\ seen' \in [Reader -> SUBSET Version] /\ out' \in [Reader -> Outcome]
          /\ got' \in [Reader -> [Part -> Content]]
      BY <1>12 DEF OpenTemp, allButPc, TypeOK, ReaderTypeOK
    <2> QED
      BY <2>1, <2>2, Moves
  <1>13. ASSUME NEW p \in Reader, CloseTemp(p)
       PROVE  ReaderTypeOK'
    <2>1. \E ph \in Phase, i \in 1..NumParts(req[p]) : GoTo(p, ph, i)
      BY <1>13, LoopFacts DEF CloseTemp, Advance, Phase
    <2>2. /\ UNCHANGED req /\ key' \in [Reader -> Seq(Version)]
          /\ seen' \in [Reader -> SUBSET Version] /\ out' \in [Reader -> Outcome]
          /\ got' \in [Reader -> [Part -> Content]]
      BY <1>13 DEF CloseTemp, allButPc, TypeOK, ReaderTypeOK
    <2> QED
      BY <2>1, <2>2, Moves
  <1>14. ASSUME NEW p \in Reader, Replace(p)
       PROVE  ReaderTypeOK'
    <2>1. \E ph \in Phase, i \in 1..NumParts(req[p]) : GoTo(p, ph, i)
      BY <1>14, LoopFacts DEF Replace, Publish, Phase
    <2>2. /\ UNCHANGED req /\ key' \in [Reader -> Seq(Version)]
          /\ seen' \in [Reader -> SUBSET Version] /\ out' \in [Reader -> Outcome]
          /\ got' \in [Reader -> [Part -> Content]]
      BY <1>14 DEF Replace, Outcome, TypeOK, ReaderTypeOK
    <2> QED
      BY <2>1, <2>2, Moves
  <1>15. ASSUME NEW p \in Reader, ReplaceFails(p)
       PROVE  ReaderTypeOK'
    <2>1. \E ph \in Phase, i \in 1..NumParts(req[p]) : GoTo(p, ph, i)
      BY <1>15, LoopFacts DEF ReplaceFails, Phase, Phase
    <2>2. /\ UNCHANGED req /\ key' \in [Reader -> Seq(Version)]
          /\ seen' \in [Reader -> SUBSET Version] /\ out' \in [Reader -> Outcome]
          /\ got' \in [Reader -> [Part -> Content]]
      BY <1>15 DEF ReplaceFails, Outcome, TypeOK, ReaderTypeOK
    <2> QED
      BY <2>1, <2>2, Moves
  <1>16. ASSUME NEW p \in Reader, TempThere(p)
       PROVE  ReaderTypeOK'
    <2>1. \E ph \in Phase, i \in 1..NumParts(req[p]) : GoTo(p, ph, i)
      BY <1>16, LoopFacts DEF TempThere, Phase, Phase
    <2>2. /\ UNCHANGED req /\ key' \in [Reader -> Seq(Version)]
          /\ seen' \in [Reader -> SUBSET Version] /\ out' \in [Reader -> Outcome]
          /\ got' \in [Reader -> [Part -> Content]]
      BY <1>16 DEF TempThere, allButPc, TypeOK, ReaderTypeOK
    <2> QED
      BY <2>1, <2>2, Moves
  <1>17. ASSUME NEW p \in Reader, TempGone(p)
       PROVE  ReaderTypeOK'
    <2>1. UNCHANGED <<req, key, got>>
      BY <1>17 DEF TempGone
    <2>2. key' \in [Reader -> Seq(Version)] /\ got' \in [Reader -> [Part -> Content]]
      BY <2>1 DEF TypeOK, ReaderTypeOK
    <2>3. CASE Last(p) /\ out[p] # "frames"
      <3>1. End(p, out[p]) /\ out[p] \in Outcome
        BY <1>17, <2>3 DEF TempGone, TypeOK, ReaderTypeOK
      <3> QED
        BY <3>1, <2>1, <2>2, EndType, Moves
    <2>4. CASE ~(Last(p) /\ out[p] # "frames")
      <3>1. \E ph \in Phase, i \in 1..NumParts(req[p]) : GoTo(p, ph, i)
        BY <1>17, <2>4, LoopFacts DEF TempGone, Phase
      <3>2. UNCHANGED <<seen, out>>
        BY <1>17, <2>4 DEF TempGone
      <3>3. seen' \in [Reader -> SUBSET Version] /\ out' \in [Reader -> Outcome]
        BY <3>2 DEF TypeOK, ReaderTypeOK
      <3> QED
        BY <3>1, <3>3, <2>1, <2>2, Moves
    <2> QED
      BY <2>3, <2>4
  <1>18. ASSUME NEW p \in Reader, Unlink(p)
       PROVE  ReaderTypeOK'
    <2>1. \E ph \in Phase, i \in 1..NumParts(req[p]) : GoTo(p, ph, i)
      BY <1>18, LoopFacts DEF Unlink, Phase, Phase
    <2>2. /\ UNCHANGED req /\ key' \in [Reader -> Seq(Version)]
          /\ seen' \in [Reader -> SUBSET Version] /\ out' \in [Reader -> Outcome]
          /\ got' \in [Reader -> [Part -> Content]]
      BY <1>18 DEF Unlink, allButPc, TypeOK, ReaderTypeOK
    <2> QED
      BY <2>1, <2>2, Moves
  <1>19. ASSUME NEW p \in Reader, UnlinkFails(p)
       PROVE  ReaderTypeOK'
    <2>1. "error" \in Outcome /\ End(p, "error")
      BY <1>19 DEF UnlinkFails, Outcome, TypeOK, ReaderTypeOK
    <2>2. UNCHANGED <<req, key, got>>
      BY <1>19 DEF UnlinkFails
    <2>3. key' \in [Reader -> Seq(Version)] /\ got' \in [Reader -> [Part -> Content]]
      BY <2>2 DEF TypeOK, ReaderTypeOK
    <2> QED
      BY <2>1, <2>2, <2>3, EndType, Moves
  <1>20. ASSUME NEW p \in Reader, Load(p)
       PROVE  ReaderTypeOK'
    <2>1. UNCHANGED <<req, key>>
      BY <1>20 DEF Load
    <2>2. key' \in [Reader -> Seq(Version)]
      BY <2>1 DEF TypeOK, ReaderTypeOK
    <2>3. result[FileOf(p, at[p])] \in Content
      BY <1>20, LoopFacts, FileFacts DEF Load, TypeOK, DiskTypeOK
    <2>4. got' \in [Reader -> [Part -> Content]]
      BY <1>20, <2>3, LoopFacts DEF Load, TypeOK, ReaderTypeOK
    <2>5. CASE at[p] = 1
      <3>1. End(p, "frames") /\ "frames" \in Outcome
        BY <1>20, <2>5 DEF Load, Outcome
      <3> QED
        BY <3>1, <2>1, <2>2, <2>4, EndType, Moves
    <2>6. CASE at[p] # 1
      <3>1. \E ph \in Phase, i \in 1..NumParts(req[p]) : GoTo(p, ph, i)
        BY <1>20, <2>6, LoopFacts DEF Load, Phase
      <3>2. UNCHANGED <<seen, out>>
        BY <1>20, <2>6 DEF Load
      <3>3. seen' \in [Reader -> SUBSET Version] /\ out' \in [Reader -> Outcome]
        BY <3>2 DEF TypeOK, ReaderTypeOK
      <3> QED
        BY <3>1, <3>3, <2>1, <2>2, <2>4, Moves
    <2> QED
      BY <2>5, <2>6
  <1>21. ASSUME NEW p \in Reader, LoadFails(p)
       PROVE  ReaderTypeOK'
    <2>1. "error" \in Outcome /\ End(p, "error")
      BY <1>21 DEF LoadFails, Outcome, TypeOK, ReaderTypeOK
    <2>2. UNCHANGED <<req, key, got>>
      BY <1>21 DEF LoadFails
    <2>3. key' \in [Reader -> Seq(Version)] /\ got' \in [Reader -> [Part -> Content]]
      BY <2>2 DEF TypeOK, ReaderTypeOK
    <2> QED
      BY <2>1, <2>2, <2>3, EndType, Moves
  <1>22. ASSUME NEW p \in Reader, MkTempFails(p)
       PROVE  ReaderTypeOK'
    <2>1. "error" \in Outcome /\ End(p, "error")
      BY <1>22 DEF MkTempFails, Outcome, TypeOK, ReaderTypeOK
    <2>2. UNCHANGED <<req, key, got>>
      BY <1>22 DEF MkTempFails
    <2>3. key' \in [Reader -> Seq(Version)] /\ got' \in [Reader -> [Part -> Content]]
      BY <2>2 DEF TypeOK, ReaderTypeOK
    <2> QED
      BY <2>1, <2>2, <2>3, EndType, Moves
  <1>23. ASSUME NEW p \in Reader, BuildFails(p)
       PROVE  ReaderTypeOK'
    <2>1. \E ph \in Phase, i \in 1..NumParts(req[p]) : GoTo(p, ph, i)
      BY <1>23, LoopFacts DEF BuildFails, Fault, Phase
    <2>2. /\ UNCHANGED req /\ key' \in [Reader -> Seq(Version)]
          /\ seen' \in [Reader -> SUBSET Version] /\ out' \in [Reader -> Outcome]
          /\ got' \in [Reader -> [Part -> Content]]
      BY <1>23 DEF BuildFails, Outcome, TypeOK, ReaderTypeOK
    <2> QED
      BY <2>1, <2>2, Moves
  <1>24. ASSUME NEW p \in Reader, Kill(p)
       PROVE  ReaderTypeOK'
    <2>1. "killed" \in Outcome /\ End(p, "killed")
      BY <1>24 DEF Kill, Outcome, TypeOK, ReaderTypeOK
    <2>2. UNCHANGED <<req, key, got>>
      BY <1>24 DEF Kill
    <2>3. key' \in [Reader -> Seq(Version)] /\ got' \in [Reader -> [Part -> Content]]
      BY <2>2 DEF TypeOK, ReaderTypeOK
    <2> QED
      BY <2>1, <2>2, <2>3, EndType, Moves
  <1>25. ASSUME NEW c \in Clearer, NEW e \in todo[c], ClearVisit(c, e)
       PROVE  ReaderTypeOK'
    BY <1>0, <1>25 DEF ClearVisit, cacheVars, readVars, boundVars, historyVars
  <1>26. ASSUME NEW c \in Clearer, ClearStart(c)
       PROVE  ReaderTypeOK'
    BY <1>0, <1>26 DEF ClearStart, cacheVars, readVars, boundVars, historyVars
  <1>27. ASSUME NEW c \in Clearer, ClearUnlink(c)
       PROVE  ReaderTypeOK'
    BY <1>0, <1>27 DEF ClearUnlink, readVars, boundVars
  <1>28. ASSUME NEW c \in Clearer, ClearFails(c)
       PROVE  ReaderTypeOK'
    BY <1>0, <1>28 DEF ClearFails, cacheVars, readVars, boundVars, historyVars
  <1>29. ASSUME NEW c \in Clearer, ClearDone(c)
       PROVE  ReaderTypeOK'
    BY <1>0, <1>29 DEF ClearDone, cacheVars, readVars, boundVars, historyVars
  <1>30. ASSUME NEW v \in Version, ReplaceSource(v)
       PROVE  ReaderTypeOK'
    BY <1>0, <1>30 DEF ReplaceSource, cacheVars, readVars, clearVars
  <1>31. CASE UNCHANGED vars
    BY <1>0, <1>31 DEF vars, cacheVars, readVars, clearVars, boundVars, historyVars
  <1> QED
    BY <1>1, <1>2, <1>3, <1>4, <1>5, <1>6, <1>7, <1>8, <1>9, <1>10, <1>11, <1>12,
       <1>13, <1>14, <1>15, <1>16, <1>17, <1>18, <1>19, <1>20, <1>21, <1>22, <1>23,
       <1>24, <1>25, <1>26, <1>27, <1>28, <1>29, <1>30, <1>31
    DEF Next, ReadStep, ClearStep

\* The clearers keep their types: a listing holds entries of this cache only.
LEMMA ClearerTypeStep ==
    ASSUME TypeOK, [Next]_vars
    PROVE  ClearerTypeOK'
  <1> USE DEF ClearerTypeOK
  <1>0. ClearerTypeOK
    BY DEF TypeOK
  <1>1. ASSUME NEW p \in Reader, NEW r \in Read, Start(p, r)
       PROVE  ClearerTypeOK'
    BY <1>0, <1>1 DEF Start, GoTo, cacheVars, clearVars
  <1>2. ASSUME NEW p \in Reader, Stat(p)
       PROVE  ClearerTypeOK'
    BY <1>0, <1>2 DEF Stat, Advance, GoTo, world, cacheVars, clearVars
  <1>3. ASSUME NEW p \in Reader, MarkerFound(p)
       PROVE  ClearerTypeOK'
    BY <1>0, <1>3 DEF MarkerFound, Use, End, GoTo, world, clearVars
  <1>4. ASSUME NEW p \in Reader, MarkerMissing(p)
       PROVE  ClearerTypeOK'
    BY <1>0, <1>4 DEF MarkerMissing, GoTo, world, allButPc, cacheVars, clearVars
  <1>5. ASSUME NEW p \in Reader, CheckExists(p)
       PROVE  ClearerTypeOK'
    BY <1>0, <1>5 DEF CheckExists, Advance, GoTo, world, allButPc, cacheVars, clearVars
  <1>6. ASSUME NEW p \in Reader, MkTemp(p)
       PROVE  ClearerTypeOK'
    BY <1>0, <1>6 DEF MkTemp, Advance, GoTo, world, clearVars
  <1>7. ASSUME NEW p \in Reader, Index(p)
       PROVE  ClearerTypeOK'
    BY <1>0, <1>7 DEF Index, GoTo, world, cacheVars, clearVars
  <1>8. ASSUME NEW p \in Reader, DecodeEmpty(p)
       PROVE  ClearerTypeOK'
    BY <1>0, <1>8 DEF DecodeEmpty, DecodeTo, GoTo, world, cacheVars, clearVars
  <1>9. ASSUME NEW p \in Reader, DecodeRows(p)
       PROVE  ClearerTypeOK'
    BY <1>0, <1>9 DEF DecodeRows, DecodeTo, GoTo, world, cacheVars, clearVars
  <1>10. ASSUME NEW p \in Reader, DecodeFails(p)
       PROVE  ClearerTypeOK'
    BY <1>0, <1>10 DEF DecodeFails, GoTo, world, cacheVars, clearVars
  <1>11. ASSUME NEW p \in Reader, Touch(p)
       PROVE  ClearerTypeOK'
    BY <1>0, <1>11 DEF Touch, Publish, GoTo, world, clearVars
  <1>12. ASSUME NEW p \in Reader, OpenTemp(p)
       PROVE  ClearerTypeOK'
    BY <1>0, <1>12 DEF OpenTemp, GoTo, world, clearVars
  <1>13. ASSUME NEW p \in Reader, CloseTemp(p)
       PROVE  ClearerTypeOK'
    BY <1>0, <1>13 DEF CloseTemp, Advance, GoTo, world, clearVars
  <1>14. ASSUME NEW p \in Reader, Replace(p)
       PROVE  ClearerTypeOK'
    BY <1>0, <1>14 DEF Replace, Publish, GoTo, world, clearVars
  <1>15. ASSUME NEW p \in Reader, ReplaceFails(p)
       PROVE  ClearerTypeOK'
    BY <1>0, <1>15 DEF ReplaceFails, GoTo, world, cacheVars, clearVars
  <1>16. ASSUME NEW p \in Reader, TempThere(p)
       PROVE  ClearerTypeOK'
    BY <1>0, <1>16 DEF TempThere, GoTo, world, allButPc, cacheVars, clearVars
  <1>17. ASSUME NEW p \in Reader, TempGone(p)
       PROVE  ClearerTypeOK'
    BY <1>0, <1>17 DEF TempGone, End, GoTo, world, clearVars
  <1>18. ASSUME NEW p \in Reader, Unlink(p)
       PROVE  ClearerTypeOK'
    BY <1>0, <1>18 DEF Unlink, GoTo, world, clearVars
  <1>19. ASSUME NEW p \in Reader, UnlinkFails(p)
       PROVE  ClearerTypeOK'
    BY <1>0, <1>19 DEF UnlinkFails, End, GoTo, world, clearVars
  <1>20. ASSUME NEW p \in Reader, Load(p)
       PROVE  ClearerTypeOK'
    BY <1>0, <1>20 DEF Load, Use, End, GoTo, world, clearVars
  <1>21. ASSUME NEW p \in Reader, LoadFails(p)
       PROVE  ClearerTypeOK'
    BY <1>0, <1>21 DEF LoadFails, End, GoTo, world, clearVars
  <1>22. ASSUME NEW p \in Reader, MkTempFails(p)
       PROVE  ClearerTypeOK'
    BY <1>0, <1>22 DEF MkTempFails, Fault, End, GoTo, clearVars
  <1>23. ASSUME NEW p \in Reader, BuildFails(p)
       PROVE  ClearerTypeOK'
    BY <1>0, <1>23 DEF BuildFails, Fault, GoTo, cacheVars, clearVars
  <1>24. ASSUME NEW p \in Reader, Kill(p)
       PROVE  ClearerTypeOK'
    BY <1>0, <1>24 DEF Kill, Fault, End, GoTo, clearVars
  <1>25. ASSUME NEW c \in Clearer, NEW e \in todo[c], ClearVisit(c, e)
       PROVE  ClearerTypeOK'
    <2>1. e \in Entry
      BY DEF TypeOK
    <2> QED
      BY <1>0, <2>1, <1>25 DEF ClearVisit
  <1>26. ASSUME NEW c \in Clearer, ClearStart(c)
       PROVE  ClearerTypeOK'
    <2>1. \A f \in File : ResultEntry(f) \in Entry /\ MarkerEntry(f) \in Entry
      BY DEF Entry
    <2>2. \A q \in Reader, n \in 0..MaxReads, i \in Part : TempEntry(q, n, i) \in Entry
      BY DEF Entry
    <2>3. /\ marker \subseteq File /\ orphan \subseteq Reader \X (0..MaxReads) \X Part
          /\ \A q \in Reader : nreads[q] \in 0..MaxReads
      BY DEF TypeOK, DiskTypeOK, CountTypeOK
    <2>4. \A q \in orphan : q[1] \in Reader /\ q[2] \in 0..MaxReads /\ q[3] \in Part
      BY <2>3
    <2>5. {TempEntry(q[1], q[2], q[3]) : q \in orphan} \subseteq Entry
      BY <2>2, <2>4
    <2>6. \A q \in Reader \X Part : TempEntry(q[1], nreads[q[1]], q[2]) \in Entry
      BY <2>2, <2>3
    <2>7. OnDisk \subseteq Entry
      BY <2>1, <2>3, <2>5, <2>6 DEF OnDisk
    <2> QED
      BY <1>0, <2>7, <1>26 DEF ClearStart
  <1>27. ASSUME NEW c \in Clearer, ClearUnlink(c)
       PROVE  ClearerTypeOK'
    BY <1>0, <1>27 DEF ClearUnlink
  <1>28. ASSUME NEW c \in Clearer, ClearFails(c)
       PROVE  ClearerTypeOK'
    BY <1>0, <1>28 DEF ClearFails, cacheVars
  <1>29. ASSUME NEW c \in Clearer, ClearDone(c)
       PROVE  ClearerTypeOK'
    BY <1>0, <1>29 DEF ClearDone, cacheVars
  <1>30. ASSUME NEW v \in Version, ReplaceSource(v)
       PROVE  ClearerTypeOK'
    BY <1>0, <1>30 DEF ReplaceSource, cacheVars, clearVars
  <1>31. CASE UNCHANGED vars
    BY <1>0, <1>31 DEF vars, cacheVars, clearVars
  <1> QED
    BY <1>1, <1>2, <1>3, <1>4, <1>5, <1>6, <1>7, <1>8, <1>9, <1>10, <1>11, <1>12,
       <1>13, <1>14, <1>15, <1>16, <1>17, <1>18, <1>19, <1>20, <1>21, <1>22, <1>23,
       <1>24, <1>25, <1>26, <1>27, <1>28, <1>29, <1>30, <1>31
    DEF Next, ReadStep, ClearStep

\* The spent bounds and the history variables keep their types.
LEMMA CountTypeStep ==
    ASSUME TypeOK, [Next]_vars
    PROVE  CountTypeOK'
  <1> USE CacheAssumption DEF CountTypeOK
  <1>0. CountTypeOK
    BY DEF TypeOK
  <1>1. ASSUME NEW p \in Reader, NEW r \in Read, Start(p, r)
       PROVE  CountTypeOK'
    BY <1>0, <1>1 DEF Start, GoTo
  <1>2. ASSUME NEW p \in Reader, Stat(p)
       PROVE  CountTypeOK'
    BY <1>0, <1>2 DEF Stat, Advance, GoTo, world, boundVars, historyVars
  <1>3. ASSUME NEW p \in Reader, MarkerFound(p)
       PROVE  CountTypeOK'
    BY <1>0, <1>3 DEF MarkerFound, Use, End, GoTo, world, boundVars
  <1>4. ASSUME NEW p \in Reader, MarkerMissing(p)
       PROVE  CountTypeOK'
    BY <1>0, <1>4 DEF MarkerMissing, GoTo, world, allButPc, boundVars, historyVars
  <1>5. ASSUME NEW p \in Reader, CheckExists(p)
       PROVE  CountTypeOK'
    BY <1>0, <1>5 DEF CheckExists, Advance, GoTo, world, allButPc, boundVars,
       historyVars
  <1>6. ASSUME NEW p \in Reader, MkTemp(p)
       PROVE  CountTypeOK'
    BY <1>0, <1>6 DEF MkTemp, Advance, GoTo, world, boundVars, historyVars
  <1>7. ASSUME NEW p \in Reader, Index(p)
       PROVE  CountTypeOK'
    BY <1>0, <1>7 DEF Index, GoTo, world, boundVars, historyVars
  <1>8. ASSUME NEW p \in Reader, DecodeEmpty(p)
       PROVE  CountTypeOK'
    BY <1>0, <1>8 DEF DecodeEmpty, DecodeTo, GoTo, world, boundVars, historyVars
  <1>9. ASSUME NEW p \in Reader, DecodeRows(p)
       PROVE  CountTypeOK'
    BY <1>0, <1>9 DEF DecodeRows, DecodeTo, GoTo, world, boundVars, historyVars
  <1>10. ASSUME NEW p \in Reader, DecodeFails(p)
       PROVE  CountTypeOK'
    BY <1>0, <1>10 DEF DecodeFails, GoTo, world, boundVars, historyVars
  <1>11. ASSUME NEW p \in Reader, Touch(p)
       PROVE  CountTypeOK'
    BY <1>0, <1>11 DEF Touch, Publish, GoTo, world, boundVars
  <1>12. ASSUME NEW p \in Reader, OpenTemp(p)
       PROVE  CountTypeOK'
    BY <1>0, <1>12 DEF OpenTemp, GoTo, world, boundVars, historyVars
  <1>13. ASSUME NEW p \in Reader, CloseTemp(p)
       PROVE  CountTypeOK'
    BY <1>0, <1>13 DEF CloseTemp, Advance, GoTo, world, boundVars, historyVars
  <1>14. ASSUME NEW p \in Reader, Replace(p)
       PROVE  CountTypeOK'
    BY <1>0, <1>14 DEF Replace, Publish, GoTo, world, boundVars
  <1>15. ASSUME NEW p \in Reader, ReplaceFails(p)
       PROVE  CountTypeOK'
    BY <1>0, <1>15 DEF ReplaceFails, GoTo, world, boundVars, historyVars
  <1>16. ASSUME NEW p \in Reader, TempThere(p)
       PROVE  CountTypeOK'
    BY <1>0, <1>16 DEF TempThere, GoTo, world, allButPc, boundVars, historyVars
  <1>17. ASSUME NEW p \in Reader, TempGone(p)
       PROVE  CountTypeOK'
    BY <1>0, <1>17 DEF TempGone, End, GoTo, world, boundVars, historyVars
  <1>18. ASSUME NEW p \in Reader, Unlink(p)
       PROVE  CountTypeOK'
    BY <1>0, <1>18 DEF Unlink, GoTo, world, boundVars, historyVars
  <1>19. ASSUME NEW p \in Reader, UnlinkFails(p)
       PROVE  CountTypeOK'
    BY <1>0, <1>19 DEF UnlinkFails, End, GoTo, world, boundVars, historyVars
  <1>20. ASSUME NEW p \in Reader, Load(p)
       PROVE  CountTypeOK'
    BY <1>0, <1>20 DEF Load, Use, End, GoTo, world, boundVars
  <1>21. ASSUME NEW p \in Reader, LoadFails(p)
       PROVE  CountTypeOK'
    BY <1>0, <1>21 DEF LoadFails, End, GoTo, world, boundVars, historyVars
  <1>22. ASSUME NEW p \in Reader, MkTempFails(p)
       PROVE  CountTypeOK'
    BY <1>0, <1>22 DEF MkTempFails, Fault, End, GoTo
  <1>23. ASSUME NEW p \in Reader, BuildFails(p)
       PROVE  CountTypeOK'
    BY <1>0, <1>23 DEF BuildFails, Fault, GoTo
  <1>24. ASSUME NEW p \in Reader, Kill(p)
       PROVE  CountTypeOK'
    BY <1>0, <1>24 DEF Kill, Fault, End, GoTo
  <1>25. ASSUME NEW c \in Clearer, NEW e \in todo[c], ClearVisit(c, e)
       PROVE  CountTypeOK'
    BY <1>0, <1>25 DEF ClearVisit, boundVars, historyVars
  <1>26. ASSUME NEW c \in Clearer, ClearStart(c)
       PROVE  CountTypeOK'
    BY <1>0, <1>26 DEF ClearStart, boundVars, historyVars
  <1>27. ASSUME NEW c \in Clearer, ClearUnlink(c)
       PROVE  CountTypeOK'
    <2>1. cleared' \subseteq Reader
      BY <1>27 DEF ClearUnlink, UsersOf, TypeOK
    <2>2. UNCHANGED <<boundVars, dirty, misled, faulted>>
      BY <1>27 DEF ClearUnlink
    <2> QED
      BY <1>0, <2>1, <2>2 DEF boundVars
  <1>28. ASSUME NEW c \in Clearer, ClearFails(c)
       PROVE  CountTypeOK'
    BY <1>0, <1>28 DEF ClearFails, boundVars, historyVars
  <1>29. ASSUME NEW c \in Clearer, ClearDone(c)
       PROVE  CountTypeOK'
    BY <1>0, <1>29 DEF ClearDone, boundVars, historyVars
  <1>30. ASSUME NEW v \in Version, ReplaceSource(v)
       PROVE  CountTypeOK'
    BY <1>0, <1>30 DEF ReplaceSource
  <1>31. CASE UNCHANGED vars
    BY <1>0, <1>31 DEF vars, boundVars, historyVars
  <1> QED
    BY <1>1, <1>2, <1>3, <1>4, <1>5, <1>6, <1>7, <1>8, <1>9, <1>10, <1>11, <1>12,
       <1>13, <1>14, <1>15, <1>16, <1>17, <1>18, <1>19, <1>20, <1>21, <1>22, <1>23,
       <1>24, <1>25, <1>26, <1>27, <1>28, <1>29, <1>30, <1>31
    DEF Next, ReadStep, ClearStep

\* A read past its stats holds one key for each of its files.
LEMMA KeysStep ==
    ASSUME TypeOK, KeysOK, [Next]_vars
    PROVE  KeysOK'
  <1> USE NumPartsFacts, LoopFacts DEF KeysOK, TypeOK, ReaderTypeOK, DiskTypeOK,
     CountTypeOK, Part
  <1>1. ASSUME NEW p \in Reader, NEW r \in Read, Start(p, r)
       PROVE  KeysOK'
    BY <1>1 DEF Start, GoTo
  <1>2. ASSUME NEW p \in Reader, Stat(p)
       PROVE  KeysOK'
    <2>1. UNCHANGED req /\ key' = [key EXCEPT ![p] = Append(@, src)] /\ src \in Version
      BY <1>2 DEF Stat, DiskTypeOK
    <2>2. key'[p] = Append(key[p], src) /\ Len(key'[p]) = at[p]
      BY <1>2, <2>1 DEF Stat

           <2>3. \A q \in Reader : q # p => key'[q] = key[q] /\ pc'[q] = pc[q] /\ at'[q] = at[q]
      BY <1>2, <2>1 DEF Stat, Advance, GoTo
    <2>4. CASE Last(p)
      BY <1>2, <2>1, <2>2, <2>3, <2>4 DEF Stat, Advance, GoTo, Last
    <2>5. CASE ~Last(p)
      BY <1>2, <2>1, <2>2, <2>3, <2>5 DEF Stat, Advance, GoTo
    <2> QED
      BY <2>4, <2>5
  <1>3. ASSUME NEW p \in Reader, MarkerFound(p)
       PROVE  KeysOK'
    BY <1>3 DEF MarkerFound, Use, End, GoTo
  <1>4. ASSUME NEW p \in Reader, MarkerMissing(p)
       PROVE  KeysOK'
    BY <1>4 DEF MarkerMissing, GoTo, allButPc
  <1>5. ASSUME NEW p \in Reader, CheckExists(p)
       PROVE  KeysOK'
    BY <1>5 DEF CheckExists, Advance, GoTo, allButPc
  <1>6. ASSUME NEW p \in Reader, MkTemp(p)
       PROVE  KeysOK'
    BY <1>6 DEF MkTemp, Advance, GoTo
  <1>7. ASSUME NEW p \in Reader, Index(p)
       PROVE  KeysOK'
    BY <1>7 DEF Index, GoTo
  <1>8. ASSUME NEW p \in Reader, DecodeEmpty(p)
       PROVE  KeysOK'
    BY <1>8 DEF DecodeEmpty, DecodeTo, GoTo
  <1>9. ASSUME NEW p \in Reader, DecodeRows(p)
       PROVE  KeysOK'
    BY <1>9 DEF DecodeRows, DecodeTo, GoTo
  <1>10. ASSUME NEW p \in Reader, DecodeFails(p)
       PROVE  KeysOK'
    BY <1>10 DEF DecodeFails, GoTo
  <1>11. ASSUME NEW p \in Reader, Touch(p)
       PROVE  KeysOK'
    BY <1>11 DEF Touch, Publish, GoTo
  <1>12. ASSUME NEW p \in Reader, OpenTemp(p)
       PROVE  KeysOK'
    BY <1>12 DEF OpenTemp, GoTo
  <1>13. ASSUME NEW p \in Reader, CloseTemp(p)
       PROVE  KeysOK'
    BY <1>13 DEF CloseTemp, Advance, GoTo
  <1>14. ASSUME NEW p \in Reader, Replace(p)
       PROVE  KeysOK'
    BY <1>14 DEF Replace, Publish, GoTo
  <1>15. ASSUME NEW p \in Reader, ReplaceFails(p)
       PROVE  KeysOK'
    BY <1>15 DEF ReplaceFails, GoTo
  <1>16. ASSUME NEW p \in Reader, TempThere(p)
       PROVE  KeysOK'
    BY <1>16 DEF TempThere, GoTo, allButPc
  <1>17. ASSUME NEW p \in Reader, TempGone(p)
       PROVE  KeysOK'
    BY <1>17 DEF TempGone, End, GoTo
  <1>18. ASSUME NEW p \in Reader, Unlink(p)
       PROVE  KeysOK'
    BY <1>18 DEF Unlink, GoTo
  <1>19. ASSUME NEW p \in Reader, UnlinkFails(p)
       PROVE  KeysOK'
    BY <1>19 DEF UnlinkFails, End, GoTo
  <1>20. ASSUME NEW p \in Reader, Load(p)
       PROVE  KeysOK'
    BY <1>20 DEF Load, Use, End, GoTo
  <1>21. ASSUME NEW p \in Reader, LoadFails(p)
       PROVE  KeysOK'
    BY <1>21 DEF LoadFails, End, GoTo
  <1>22. ASSUME NEW p \in Reader, MkTempFails(p)
       PROVE  KeysOK'
    BY <1>22 DEF MkTempFails, Fault, End, GoTo
  <1>23. ASSUME NEW p \in Reader, BuildFails(p)
       PROVE  KeysOK'
    BY <1>23 DEF BuildFails, Fault, GoTo
  <1>24. ASSUME NEW p \in Reader, Kill(p)
       PROVE  KeysOK'
    BY <1>24 DEF Kill, Fault, End, GoTo
  <1>25. ASSUME NEW c \in Clearer, NEW e \in todo[c], ClearVisit(c, e)
       PROVE  KeysOK'
    BY <1>25 DEF ClearVisit, readVars
  <1>26. ASSUME NEW c \in Clearer, ClearStart(c)
       PROVE  KeysOK'
    BY <1>26 DEF ClearStart, readVars
  <1>27. ASSUME NEW c \in Clearer, ClearUnlink(c)
       PROVE  KeysOK'
    BY <1>27 DEF ClearUnlink, readVars
  <1>28. ASSUME NEW c \in Clearer, ClearFails(c)
       PROVE  KeysOK'
    BY <1>28 DEF ClearFails, readVars
  <1>29. ASSUME NEW c \in Clearer, ClearDone(c)
       PROVE  KeysOK'
    BY <1>29 DEF ClearDone, readVars
  <1>30. ASSUME NEW v \in Version, ReplaceSource(v)
       PROVE  KeysOK'
    BY <1>30 DEF ReplaceSource, readVars
  <1>31. CASE UNCHANGED vars
    BY <1>31 DEF vars, readVars
  <1> QED
    BY <1>1, <1>2, <1>3, <1>4, <1>5, <1>6, <1>7, <1>8, <1>9, <1>10, <1>11, <1>12,
       <1>13, <1>14, <1>15, <1>16, <1>17, <1>18, <1>19, <1>20, <1>21, <1>22, <1>23,
       <1>24, <1>25, <1>26, <1>27, <1>28, <1>29, <1>30, <1>31
    DEF Next, ReadStep, ClearStep

\* An undisturbed read works on one source version, the one on disk.
LEMMA CleanStep ==
    ASSUME TypeOK, KeysOK, CleanOK, [Next]_vars
    PROVE  CleanOK'
  <1> USE DEF CleanOK, TypeOK, ReaderTypeOK
  <1>1. ASSUME NEW p \in Reader, NEW r \in Read, Start(p, r)
       PROVE  CleanOK'
    BY <1>1 DEF Start, GoTo
  <1>2. ASSUME NEW p \in Reader, Stat(p)
       PROVE  CleanOK'
    BY <1>2 DEF Stat, Advance, GoTo, world, historyVars
  <1>3. ASSUME NEW p \in Reader, MarkerFound(p)
       PROVE  CleanOK'
    BY <1>3 DEF MarkerFound, Use, End, GoTo, world
  <1>4. ASSUME NEW p \in Reader, MarkerMissing(p)
       PROVE  CleanOK'
    BY <1>4 DEF MarkerMissing, GoTo, world, allButPc, historyVars
  <1>5. ASSUME NEW p \in Reader, CheckExists(p)
       PROVE  CleanOK'
    <2>1. UNCHANGED <<key, req, src, dirty, seen>>
      BY <1>5 DEF CheckExists, world, allButPc, historyVars
    <2>2. \E ph \in {"exists", "mktemp", "load"} : pc' = [pc EXCEPT ![p] = ph]
      BY <1>5 DEF CheckExists, Advance, GoTo
    <2> QED
      BY <2>1, <2>2, <1>5 DEF CheckExists
  <1>6. ASSUME NEW p \in Reader, MkTemp(p)
       PROVE  CleanOK'
    <2>1. UNCHANGED <<key, req, src, dirty, seen>>
      BY <1>6 DEF MkTemp, world, historyVars
    <2>2. \E ph \in {"mktemp", "index"} : pc' = [pc EXCEPT ![p] = ph]
      BY <1>6 DEF MkTemp, Advance, GoTo
    <2> QED
      BY <2>1, <2>2, <1>6 DEF MkTemp
  <1>7. ASSUME NEW p \in Reader, Index(p)
       PROVE  CleanOK'
    BY <1>7 DEF Index, GoTo, world, historyVars
  <1>8. ASSUME NEW p \in Reader, DecodeEmpty(p)
       PROVE  CleanOK'
    <2>1. UNCHANGED <<key, req, src, dirty>> /\ pc' = [pc EXCEPT ![p] = "touch"]
      BY <1>8 DEF DecodeEmpty, DecodeTo, GoTo, world, historyVars
    <2>2. seen' = [seen EXCEPT ![p] = @ \cup {src}] /\ pc[p] = "decode"
      BY <1>8 DEF DecodeEmpty, DecodeTo
    <2>3. p \notin dirty => seen'[p] = {src} /\ <<src, req[p]>> \in EmptyRead
      <3>1. SUFFICES ASSUME p \notin dirty PROVE seen'[p] = {src} /\ <<src,
         req[p]>> \in EmptyRead
        OBVIOUS
      <3>2. seen[p] = {src}
        BY <2>2, <3>1
      <3>3. \E v \in seen[p] \cup {src} : <<v, req[p]>> \in EmptyRead
        BY <1>8 DEF DecodeEmpty
      <3>4. <<src, req[p]>> \in EmptyRead
        BY <3>2, <3>3
      <3> QED
        BY <2>2, <3>2, <3>4
    <2>4. ASSUME NEW q \in Reader, q # p
          PROVE  pc'[q] = pc[q] /\ seen'[q] = seen[q]
      BY <2>1, <2>2, <2>4
    <2>5. pc'[p] = "touch" /\ pc[p] # "idle"
      BY <2>1, <2>2
    <2> HIDE DEF TypeOK, ReaderTypeOK
    <2> QED
      BY <2>1, <2>3, <2>4, <2>5
  <1>9. ASSUME NEW p \in Reader, DecodeRows(p)
       PROVE  CleanOK'
    BY <1>9 DEF DecodeRows, DecodeTo, GoTo, world, historyVars
  <1>10. ASSUME NEW p \in Reader, DecodeFails(p)
       PROVE  CleanOK'
    <2>1. UNCHANGED <<key, req, src, dirty, seen>>
      BY <1>10 DEF DecodeFails, world, historyVars
    <2>2. \E ph \in {"check"} : pc' = [pc EXCEPT ![p] = ph]
      BY <1>10 DEF DecodeFails, GoTo
    <2> QED
      BY <2>1, <2>2, <1>10 DEF DecodeFails
  <1>11. ASSUME NEW p \in Reader, Touch(p)
       PROVE  CleanOK'
    BY <1>11 DEF Touch, Publish, GoTo, world
  <1>12. ASSUME NEW p \in Reader, OpenTemp(p)
       PROVE  CleanOK'
    BY <1>12 DEF OpenTemp, GoTo, world, historyVars
  <1>13. ASSUME NEW p \in Reader, CloseTemp(p)
       PROVE  CleanOK'
    <2>1. UNCHANGED <<key, req, src, dirty, seen>>
      BY <1>13 DEF CloseTemp, world, historyVars
    <2>2. \E ph \in {"open", "replace"} : pc' = [pc EXCEPT ![p] = ph]
      BY <1>13 DEF CloseTemp, Advance, GoTo
    <2> QED
      BY <2>1, <2>2, <1>13 DEF CloseTemp
  <1>14. ASSUME NEW p \in Reader, Replace(p)
       PROVE  CleanOK'
    <2>1. UNCHANGED <<key, req, src, dirty, seen>>
      BY <1>14 DEF Replace, Publish, world
    <2>2. \E ph \in {"replace", "check"} : pc' = [pc EXCEPT ![p] = ph]
      BY <1>14 DEF Replace, Publish, GoTo
    <2> QED
      BY <2>1, <2>2, <1>14 DEF Replace
  <1>15. ASSUME NEW p \in Reader, ReplaceFails(p)
       PROVE  CleanOK'
    BY <1>15 DEF ReplaceFails, GoTo, world, historyVars
  <1>16. ASSUME NEW p \in Reader, TempThere(p)
       PROVE  CleanOK'
    BY <1>16 DEF TempThere, GoTo, world, allButPc, historyVars
  <1>17. ASSUME NEW p \in Reader, TempGone(p)
       PROVE  CleanOK'
    <2>1. UNCHANGED <<key, req, src,
       dirty>> /\ \A q \in Reader : q # p => seen'[q] = seen[q]
      BY <1>17 DEF TempGone, End, world, historyVars
    <2>2. \E ph \in {"check", "load", "idle"} : pc' = [pc EXCEPT ![p] = ph]
      BY <1>17 DEF TempGone, End, GoTo
    <2> QED
      BY <2>1, <2>2, <1>17 DEF TempGone
  <1>18. ASSUME NEW p \in Reader, Unlink(p)
       PROVE  CleanOK'
    BY <1>18 DEF Unlink, GoTo, world, historyVars
  <1>19. ASSUME NEW p \in Reader, UnlinkFails(p)
       PROVE  CleanOK'
    BY <1>19 DEF UnlinkFails, End, GoTo, world, historyVars
  <1>20. ASSUME NEW p \in Reader, Load(p)
       PROVE  CleanOK'
    <2>1. UNCHANGED <<key, req, src,
       dirty>> /\ \A q \in Reader : q # p => seen'[q] = seen[q]
      BY <1>20 DEF Load, End, Use, world
    <2>2. \E ph \in {"load", "idle"} : pc' = [pc EXCEPT ![p] = ph]
      BY <1>20 DEF Load, End, GoTo
    <2> QED
      BY <2>1, <2>2, <1>20 DEF Load
  <1>21. ASSUME NEW p \in Reader, LoadFails(p)
       PROVE  CleanOK'
    BY <1>21 DEF LoadFails, End, GoTo, world, historyVars
  <1>22. ASSUME NEW p \in Reader, MkTempFails(p)
       PROVE  CleanOK'
    BY <1>22 DEF MkTempFails, Fault, End, GoTo
  <1>23. ASSUME NEW p \in Reader, BuildFails(p)
       PROVE  CleanOK'
    BY <1>23 DEF BuildFails, Fault, GoTo
  <1>24. ASSUME NEW p \in Reader, Kill(p)
       PROVE  CleanOK'
    BY <1>24 DEF Kill, Fault, End, GoTo
  <1>25. ASSUME NEW c \in Clearer, NEW e \in todo[c], ClearVisit(c, e)
       PROVE  CleanOK'
    BY <1>25 DEF ClearVisit, readVars, historyVars
  <1>26. ASSUME NEW c \in Clearer, ClearStart(c)
       PROVE  CleanOK'
    BY <1>26 DEF ClearStart, readVars, historyVars
  <1>27. ASSUME NEW c \in Clearer, ClearUnlink(c)
       PROVE  CleanOK'
    BY <1>27 DEF ClearUnlink, readVars
  <1>28. ASSUME NEW c \in Clearer, ClearFails(c)
       PROVE  CleanOK'
    BY <1>28 DEF ClearFails, readVars, historyVars
  <1>29. ASSUME NEW c \in Clearer, ClearDone(c)
       PROVE  CleanOK'
    BY <1>29 DEF ClearDone, readVars, historyVars
  <1>30. ASSUME NEW v \in Version, ReplaceSource(v)
       PROVE  CleanOK'
    <2>1. UNCHANGED <<key, req, pc, seen>> /\ dirty \subseteq dirty'
      BY <1>30 DEF ReplaceSource, readVars
    <2>2. ASSUME NEW q \in Reader, q \notin dirty', pc[q] # "idle"
          PROVE  DOMAIN key[q] = {} /\ pc[q] = "stat"
      <3>1. key[q] = <<>>
        BY <1>30, <2>2 DEF ReplaceSource
      <3>2. NumParts(req[q]) # 0
        BY NumPartsFacts
      <3>3. Len(key[q]) = 0
        BY <3>1
      <3> QED
        BY <2>2, <3>1, <3>2, <3>3 DEF KeysOK
    <2> HIDE DEF TypeOK, ReaderTypeOK
    <2>3. ASSUME NEW q \in Reader, q \notin dirty'
          PROVE  q \notin dirty /\ pc'[q] = pc[q] /\ key'[q] = key[q]
      BY <2>1, <2>3
    <2>4. ASSUME NEW q \in Reader, q \notin dirty'
          PROVE  pc'[q] # "idle" => DOMAIN key'[q] = {} /\ pc'[q] = "stat"
      BY <2>2, <2>3, <2>4
    <2>5. ASSUME NEW q \in Reader, q \notin dirty'
          PROVE  \A i, j \in DOMAIN key'[q] : key'[q][i] = key'[q][j]
      <3>1. \A i, j \in DOMAIN key[q] : key[q][i] = key[q][j]
        BY <2>3, <2>5
      <3>2. key'[q] = key[q]
        BY <2>3, <2>5
      <3> QED
        BY <3>1, <3>2
    <2> QED
      BY <2>4, <2>5
  <1>31. CASE UNCHANGED vars
    BY <1>31 DEF vars, readVars, historyVars
  <1> QED
    BY <1>1, <1>2, <1>3, <1>4, <1>5, <1>6, <1>7, <1>8, <1>9, <1>10, <1>11, <1>12,
       <1>13, <1>14, <1>15, <1>16, <1>17, <1>18, <1>19, <1>20, <1>21, <1>22, <1>23,
       <1>24, <1>25, <1>26, <1>27, <1>28, <1>29, <1>30, <1>31
    DEF Next, ReadStep, ClearStep

\* What is about to be renamed is complete or gone.
LEMMA TempStep ==
    ASSUME TypeOK, TempOK, [Next]_vars
    PROVE  TempOK'
  <1> USE NumPartsFacts, LoopFacts DEF TempOK, TypeOK, ReaderTypeOK, DiskTypeOK,
     CountTypeOK, Part
  <1>1. ASSUME NEW p \in Reader, NEW r \in Read, Start(p, r)
       PROVE  TempOK'
    BY <1>1 DEF Start, GoTo, cacheVars
  <1>2. ASSUME NEW p \in Reader, Stat(p)
       PROVE  TempOK'
    <2>1. /\ UNCHANGED req
          /\ \A q \in Reader : q # p => /\ temp'[q] = temp[q] /\ seen'[q] = seen[q]
                                       /\ pc'[q] = pc[q] /\ at'[q] = at[q]
      BY <1>2 DEF Stat, Advance, End, GoTo, cacheVars
    <2>2. pc'[p] \in {"stat", "marker"}
      BY <1>2 DEF Stat, Advance, End, GoTo, TypeOK, ReaderTypeOK
    <2> QED
      BY <2>1, <2>2
  <1>3. ASSUME NEW p \in Reader, MarkerFound(p)
       PROVE  TempOK'
    BY <1>3 DEF MarkerFound, Use, End, GoTo
  <1>4. ASSUME NEW p \in Reader, MarkerMissing(p)
       PROVE  TempOK'
    BY <1>4 DEF MarkerMissing, GoTo, allButPc, cacheVars
  <1>5. ASSUME NEW p \in Reader, CheckExists(p)
       PROVE  TempOK'
    <2>1. /\ UNCHANGED req
          /\ \A q \in Reader : q # p => /\ temp'[q] = temp[q] /\ seen'[q] = seen[q]
                                       /\ pc'[q] = pc[q] /\ at'[q] = at[q]
      BY <1>5 DEF CheckExists, Advance, End, GoTo, allButPc, cacheVars
    <2>2. pc'[p] \in {"mktemp", "exists", "load"}
      BY <1>5 DEF CheckExists, Advance, End, GoTo, TypeOK, ReaderTypeOK
    <2> QED
      BY <2>1, <2>2
  <1>6. ASSUME NEW p \in Reader, MkTemp(p)
       PROVE  TempOK'
    BY <1>6 DEF MkTemp, Advance, GoTo
  <1>7. ASSUME NEW p \in Reader, Index(p)
       PROVE  TempOK'
    BY <1>7 DEF Index, GoTo, cacheVars
  <1>8. ASSUME NEW p \in Reader, DecodeEmpty(p)
       PROVE  TempOK'
    BY <1>8 DEF DecodeEmpty, DecodeTo, GoTo, cacheVars
  <1>9. ASSUME NEW p \in Reader, DecodeRows(p)
       PROVE  TempOK'
    BY <1>9 DEF DecodeRows, DecodeTo, GoTo, cacheVars
  <1>10. ASSUME NEW p \in Reader, DecodeFails(p)
       PROVE  TempOK'
    BY <1>10 DEF DecodeFails, GoTo, cacheVars
  <1>11. ASSUME NEW p \in Reader, Touch(p)
       PROVE  TempOK'
    BY <1>11 DEF Touch, Publish, GoTo
  <1>12. ASSUME NEW p \in Reader, OpenTemp(p)
       PROVE  TempOK'
    BY <1>12 DEF OpenTemp, GoTo
  <1>13. ASSUME NEW p \in Reader, CloseTemp(p)
       PROVE  TempOK'
    <2> HIDE DEF TypeOK, DiskTypeOK, CountTypeOK
    <2>1. UNCHANGED <<req, seen>> /\ pc[p] = "close" /\ at[p] \in Part
      BY <1>13 DEF CloseTemp, TypeOK

           <2>2. \A q \in Reader : q # p => temp'[q] = temp[q] /\ pc'[q] = pc[q] /\ at'[q] = at[q]
      BY <1>13 DEF CloseTemp, Advance, GoTo, TypeOK, DiskTypeOK
    <2>3. \A i \in Part : i # at[p] => temp'[p][i] = temp[p][i]
      BY <1>13 DEF CloseTemp
    <2>4. temp'[p][at[p]] \in {Absent, Full(seen[p], req[p], at[p])}
      BY <1>13 DEF CloseTemp, TypeOK, DiskTypeOK
    <2>5. /\ pc'[p] \in {"open", "replace"}
          /\ pc'[p] = "open" => at'[p] = at[p] + 1
          /\ pc'[p] = "replace" => at'[p] = 1 /\ at[p] = NumParts(req[p])
      BY <1>13 DEF CloseTemp, Advance, GoTo, Last, TypeOK
    <2>6. NumParts(req[p]) \in 1..2
      OBVIOUS
    <2>7. ASSUME NEW i \in 1..NumParts(req[p]),
                 pc'[p] = "open" => i < at'[p]
          PROVE  temp'[p][i] \in {Absent, Full(seen[p], req[p], i)}
      <3>1. CASE i = at[p]
        BY <2>4, <3>1
      <3>2. CASE i # at[p]
        <4>1. i \in Part /\ i < at[p]
          BY <2>1, <2>5, <2>6, <2>7, <3>2
        <4>2. temp[p][i] \in {Absent, Full(seen[p], req[p], i)}
          BY <2>1, <2>7, <4>1
        <4> QED
          BY <2>3, <3>2, <4>1, <4>2
      <3> QED
        BY <3>1, <3>2
    <2> QED
      BY <2>1, <2>2, <2>5, <2>7
  <1>14. ASSUME NEW p \in Reader, Replace(p)
       PROVE  TempOK'
    BY <1>14 DEF Replace, Publish, GoTo
  <1>15. ASSUME NEW p \in Reader, ReplaceFails(p)
       PROVE  TempOK'
    BY <1>15 DEF ReplaceFails, GoTo, cacheVars
  <1>16. ASSUME NEW p \in Reader, TempThere(p)
       PROVE  TempOK'
    BY <1>16 DEF TempThere, GoTo, allButPc, cacheVars
  <1>17. ASSUME NEW p \in Reader, TempGone(p)
       PROVE  TempOK'
    <2>1. /\ UNCHANGED req
          /\ \A q \in Reader : q # p => /\ temp'[q] = temp[q] /\ seen'[q] = seen[q]
                                       /\ pc'[q] = pc[q] /\ at'[q] = at[q]
      BY <1>17 DEF TempGone, Advance, End, GoTo
    <2>2. pc'[p] \in {"check", "load", "idle"}
      BY <1>17 DEF TempGone, Advance, End, GoTo, TypeOK, ReaderTypeOK
    <2> QED
      BY <2>1, <2>2
  <1>18. ASSUME NEW p \in Reader, Unlink(p)
       PROVE  TempOK'
    BY <1>18 DEF Unlink, GoTo
  <1>19. ASSUME NEW p \in Reader, UnlinkFails(p)
       PROVE  TempOK'
    BY <1>19 DEF UnlinkFails, End, GoTo
  <1>20. ASSUME NEW p \in Reader, Load(p)
       PROVE  TempOK'
    <2>1. /\ UNCHANGED req
          /\ \A q \in Reader : q # p => /\ temp'[q] = temp[q] /\ seen'[q] = seen[q]
                                       /\ pc'[q] = pc[q] /\ at'[q] = at[q]
      BY <1>20 DEF Load, Advance, End, GoTo
    <2>2. pc'[p] \in {"load", "idle"}
      BY <1>20 DEF Load, Advance, End, GoTo, TypeOK, ReaderTypeOK
    <2> QED
      BY <2>1, <2>2
  <1>21. ASSUME NEW p \in Reader, LoadFails(p)
       PROVE  TempOK'
    BY <1>21 DEF LoadFails, End, GoTo
  <1>22. ASSUME NEW p \in Reader, MkTempFails(p)
       PROVE  TempOK'
    BY <1>22 DEF MkTempFails, Fault, End, GoTo
  <1>23. ASSUME NEW p \in Reader, BuildFails(p)
       PROVE  TempOK'
    BY <1>23 DEF BuildFails, Fault, GoTo, cacheVars
  <1>24. ASSUME NEW p \in Reader, Kill(p)
       PROVE  TempOK'
    BY <1>24 DEF Kill, Fault, End, GoTo
  <1>25. ASSUME NEW c \in Clearer, NEW e \in todo[c], ClearVisit(c, e)
       PROVE  TempOK'
    BY <1>25 DEF ClearVisit, cacheVars, readVars
  <1>26. ASSUME NEW c \in Clearer, ClearStart(c)
       PROVE  TempOK'
    BY <1>26 DEF ClearStart, cacheVars, readVars
  <1>27. ASSUME NEW c \in Clearer, ClearUnlink(c)
       PROVE  TempOK'
    <2>1. UNCHANGED <<pc, at, req, seen>>
      BY <1>27 DEF ClearUnlink, readVars
    <2>2. ASSUME NEW q \in Reader, NEW i \in 1..NumParts(req[q])
          PROVE  temp'[q][i] \in {Absent, temp[q][i]}
      <3>1. i \in Part
        <4>1. NumParts(req[q]) \in 1..2
          BY NumPartsFacts
        <4> HIDE DEF TypeOK, ReaderTypeOK, DiskTypeOK, CountTypeOK
        <4> QED
          BY <2>2, <4>1 DEF Part
      <3> QED
        BY <1>27, <3>1 DEF ClearUnlink
    <2> QED
      BY <2>1, <2>2
  <1>28. ASSUME NEW c \in Clearer, ClearFails(c)
       PROVE  TempOK'
    BY <1>28 DEF ClearFails, cacheVars, readVars
  <1>29. ASSUME NEW c \in Clearer, ClearDone(c)
       PROVE  TempOK'
    BY <1>29 DEF ClearDone, cacheVars, readVars
  <1>30. ASSUME NEW v \in Version, ReplaceSource(v)
       PROVE  TempOK'
    BY <1>30 DEF ReplaceSource, cacheVars, readVars
  <1>31. CASE UNCHANGED vars
    BY <1>31 DEF vars, cacheVars, readVars
  <1> QED
    BY <1>1, <1>2, <1>3, <1>4, <1>5, <1>6, <1>7, <1>8, <1>9, <1>10, <1>11, <1>12,
       <1>13, <1>14, <1>15, <1>16, <1>17, <1>18, <1>19, <1>20, <1>21, <1>22, <1>23,
       <1>24, <1>25, <1>26, <1>27, <1>28, <1>29, <1>30, <1>31
    DEF Next, ReadStep, ClearStep

\* No step leaves a half-written file under a final name.
LEMMA NeverHalfStep ==
    ASSUME TypeOK, TempOK, NeverHalfWritten, [Next]_vars
    PROVE  NeverHalfWritten'
  <1> USE DEF NeverHalfWritten, TypeOK, DiskTypeOK
  <1>1. ASSUME NEW p \in Reader, NEW r \in Read, Start(p, r)
       PROVE  NeverHalfWritten'
    BY <1>1 DEF Start, GoTo, cacheVars
  <1>2. ASSUME NEW p \in Reader, Stat(p)
       PROVE  NeverHalfWritten'
    BY <1>2 DEF Stat, Advance, GoTo, cacheVars
  <1>3. ASSUME NEW p \in Reader, MarkerFound(p)
       PROVE  NeverHalfWritten'
    BY <1>3 DEF MarkerFound, Use, End, GoTo
  <1>4. ASSUME NEW p \in Reader, MarkerMissing(p)
       PROVE  NeverHalfWritten'
    BY <1>4 DEF MarkerMissing, GoTo, allButPc, cacheVars
  <1>5. ASSUME NEW p \in Reader, CheckExists(p)
       PROVE  NeverHalfWritten'
    BY <1>5 DEF CheckExists, Advance, GoTo, allButPc, cacheVars
  <1>6. ASSUME NEW p \in Reader, MkTemp(p)
       PROVE  NeverHalfWritten'
    BY <1>6 DEF MkTemp, Advance, GoTo
  <1>7. ASSUME NEW p \in Reader, Index(p)
       PROVE  NeverHalfWritten'
    BY <1>7 DEF Index, GoTo, cacheVars
  <1>8. ASSUME NEW p \in Reader, DecodeEmpty(p)
       PROVE  NeverHalfWritten'
    BY <1>8 DEF DecodeEmpty, DecodeTo, GoTo, cacheVars
  <1>9. ASSUME NEW p \in Reader, DecodeRows(p)
       PROVE  NeverHalfWritten'
    BY <1>9 DEF DecodeRows, DecodeTo, GoTo, cacheVars
  <1>10. ASSUME NEW p \in Reader, DecodeFails(p)
       PROVE  NeverHalfWritten'
    BY <1>10 DEF DecodeFails, GoTo, cacheVars
  <1>11. ASSUME NEW p \in Reader, Touch(p)
       PROVE  NeverHalfWritten'
    BY <1>11 DEF Touch, Publish, GoTo
  <1>12. ASSUME NEW p \in Reader, OpenTemp(p)
       PROVE  NeverHalfWritten'
    BY <1>12 DEF OpenTemp, GoTo
  <1>13. ASSUME NEW p \in Reader, CloseTemp(p)
       PROVE  NeverHalfWritten'
    BY <1>13 DEF CloseTemp, Advance, GoTo
  <1>14. ASSUME NEW p \in Reader, Replace(p)
       PROVE  NeverHalfWritten'
    <2>1. temp[p][at[p]] # Partial
      <3>1. temp[p][at[p]] \in {Absent, Full(seen[p], req[p], at[p])}
        BY <1>14, LoopFacts DEF Replace, TempOK
      <3>2. seen[p] \in SUBSET Version /\ req[p] \in Read /\ at[p] \in Part
        BY DEF TypeOK, ReaderTypeOK
      <3> QED
        BY <3>1, <3>2, ContentFacts
    <2>2. \A f \in File : result'[f] \in {result[f], temp[p][at[p]]}
      BY <1>14 DEF Replace, TypeOK, DiskTypeOK
    <2> QED
      BY <2>1, <2>2
  <1>15. ASSUME NEW p \in Reader, ReplaceFails(p)
       PROVE  NeverHalfWritten'
    BY <1>15 DEF ReplaceFails, GoTo, cacheVars
  <1>16. ASSUME NEW p \in Reader, TempThere(p)
       PROVE  NeverHalfWritten'
    BY <1>16 DEF TempThere, GoTo, allButPc, cacheVars
  <1>17. ASSUME NEW p \in Reader, TempGone(p)
       PROVE  NeverHalfWritten'
    BY <1>17 DEF TempGone, End, GoTo
  <1>18. ASSUME NEW p \in Reader, Unlink(p)
       PROVE  NeverHalfWritten'
    BY <1>18 DEF Unlink, GoTo
  <1>19. ASSUME NEW p \in Reader, UnlinkFails(p)
       PROVE  NeverHalfWritten'
    BY <1>19 DEF UnlinkFails, End, GoTo
  <1>20. ASSUME NEW p \in Reader, Load(p)
       PROVE  NeverHalfWritten'
    BY <1>20 DEF Load, Use, End, GoTo
  <1>21. ASSUME NEW p \in Reader, LoadFails(p)
       PROVE  NeverHalfWritten'
    BY <1>21 DEF LoadFails, End, GoTo
  <1>22. ASSUME NEW p \in Reader, MkTempFails(p)
       PROVE  NeverHalfWritten'
    BY <1>22 DEF MkTempFails, Fault, End, GoTo
  <1>23. ASSUME NEW p \in Reader, BuildFails(p)
       PROVE  NeverHalfWritten'
    BY <1>23 DEF BuildFails, Fault, GoTo, cacheVars
  <1>24. ASSUME NEW p \in Reader, Kill(p)
       PROVE  NeverHalfWritten'
    BY <1>24 DEF Kill, Fault, End, GoTo
  <1>25. ASSUME NEW c \in Clearer, NEW e \in todo[c], ClearVisit(c, e)
       PROVE  NeverHalfWritten'
    BY <1>25 DEF ClearVisit, cacheVars
  <1>26. ASSUME NEW c \in Clearer, ClearStart(c)
       PROVE  NeverHalfWritten'
    BY <1>26 DEF ClearStart, cacheVars
  <1>27. ASSUME NEW c \in Clearer, ClearUnlink(c)
       PROVE  NeverHalfWritten'
    <2>1. \A f \in File : result'[f] \in {Absent, result[f]}
      BY <1>27 DEF ClearUnlink
    <2> QED
      BY <2>1, ContentFacts
  <1>28. ASSUME NEW c \in Clearer, ClearFails(c)
       PROVE  NeverHalfWritten'
    BY <1>28 DEF ClearFails, cacheVars
  <1>29. ASSUME NEW c \in Clearer, ClearDone(c)
       PROVE  NeverHalfWritten'
    BY <1>29 DEF ClearDone, cacheVars
  <1>30. ASSUME NEW v \in Version, ReplaceSource(v)
       PROVE  NeverHalfWritten'
    BY <1>30 DEF ReplaceSource, cacheVars
  <1>31. CASE UNCHANGED vars
    BY <1>31 DEF vars, cacheVars
  <1> QED
    BY <1>1, <1>2, <1>3, <1>4, <1>5, <1>6, <1>7, <1>8, <1>9, <1>10, <1>11, <1>12,
       <1>13, <1>14, <1>15, <1>16, <1>17, <1>18, <1>19, <1>20, <1>21, <1>22, <1>23,
       <1>24, <1>25, <1>26, <1>27, <1>28, <1>29, <1>30, <1>31
    DEF Next, ReadStep, ClearStep

\* Only a dirty reader can publish frames that do not match their name.
LEMMA KeyedStep ==
    ASSUME TypeOK, KeysOK, CleanOK, TempOK, KeyedOnSource, [Next]_vars
    PROVE  KeyedOnSource'
  <1> USE DEF KeyedOnSource, TypeOK, DiskTypeOK, ResultEntry, MarkerEntry, TempEntry
  <1>1. ASSUME NEW p \in Reader, NEW r \in Read, Start(p, r)
       PROVE  KeyedOnSource'
    BY <1>1 DEF Start, GoTo, cacheVars
  <1>2. ASSUME NEW p \in Reader, Stat(p)
       PROVE  KeyedOnSource'
    BY <1>2 DEF Stat, Advance, GoTo, cacheVars, historyVars
  <1>3. ASSUME NEW p \in Reader, MarkerFound(p)
       PROVE  KeyedOnSource'
    BY <1>3 DEF MarkerFound, Use, End, GoTo
  <1>4. ASSUME NEW p \in Reader, MarkerMissing(p)
       PROVE  KeyedOnSource'
    BY <1>4 DEF MarkerMissing, GoTo, allButPc, cacheVars, historyVars
  <1>5. ASSUME NEW p \in Reader, CheckExists(p)
       PROVE  KeyedOnSource'
    BY <1>5 DEF CheckExists, Advance, GoTo, allButPc, cacheVars, historyVars
  <1>6. ASSUME NEW p \in Reader, MkTemp(p)
       PROVE  KeyedOnSource'
    BY <1>6 DEF MkTemp, Advance, GoTo, historyVars
  <1>7. ASSUME NEW p \in Reader, Index(p)
       PROVE  KeyedOnSource'
    BY <1>7 DEF Index, GoTo, cacheVars, historyVars
  <1>8. ASSUME NEW p \in Reader, DecodeEmpty(p)
       PROVE  KeyedOnSource'
    BY <1>8 DEF DecodeEmpty, DecodeTo, GoTo, cacheVars, historyVars
  <1>9. ASSUME NEW p \in Reader, DecodeRows(p)
       PROVE  KeyedOnSource'
    BY <1>9 DEF DecodeRows, DecodeTo, GoTo, cacheVars, historyVars
  <1>10. ASSUME NEW p \in Reader, DecodeFails(p)
       PROVE  KeyedOnSource'
    BY <1>10 DEF DecodeFails, GoTo, cacheVars, historyVars
  <1>11. ASSUME NEW p \in Reader, Touch(p)
       PROVE  KeyedOnSource'
    BY <1>11 DEF Touch, Publish, GoTo
  <1>12. ASSUME NEW p \in Reader, OpenTemp(p)
       PROVE  KeyedOnSource'
    BY <1>12 DEF OpenTemp, GoTo, historyVars
  <1>13. ASSUME NEW p \in Reader, CloseTemp(p)
       PROVE  KeyedOnSource'
    BY <1>13 DEF CloseTemp, Advance, GoTo, historyVars
  <1>14. ASSUME NEW p \in Reader, Replace(p)
       PROVE  KeyedOnSource'
    <2> DEFINE F == FileOf(p, at[p])
    <2>1. /\ F \in File /\ F.ver = key[p][at[p]] /\ F.read = req[p] /\ F.part = at[p]
          /\ at[p] \in DOMAIN key[p]
      BY <1>14, FileFacts, LoopFacts DEF Replace
    <2>2. temp[p][at[p]] = Full(seen[p], req[p], at[p])
      BY <1>14, LoopFacts DEF Replace, TempOK
    <2>3. result' = [result EXCEPT ![F] = Full(seen[p], req[p], at[p])]
      BY <1>14, <2>2 DEF Replace
    <2>4. tainted' = IF p \in dirty THEN tainted \cup {ResultEntry(F)}
                     ELSE tainted \ {ResultEntry(F)}
      BY <1>14 DEF Replace, Publish
    <2>5. ASSUME p \notin dirty
          PROVE  Full(seen[p], req[p], at[p]) = Full({F.ver}, F.read, F.part)
      <3>1. seen[p] = {src} /\ key[p][at[p]] = src
        BY <1>14, <2>1, <2>5 DEF CleanOK, Replace
      <3> QED
        BY <2>1, <3>1
    <2>6. \A f \in File : f # F => ResultEntry(f) # ResultEntry(F)
      BY DEF ResultEntry
    <2>7. result \in [File -> Content]
      BY DEF TypeOK, DiskTypeOK
    <2> HIDE DEF F
    <2>8. ASSUME NEW f \in File, result'[f] # Absent, ResultEntry(f) \notin tainted'
          PROVE  result'[f] = Full({f.ver}, f.read, f.part)
      <3>1. CASE f = F
        BY <2>1, <2>3, <2>4, <2>5, <2>7, <2>8, <3>1
      <3>2. CASE f # F
        <4>1. result'[f] = result[f]
          BY <2>3, <2>7, <3>2
        <4>2. ResultEntry(f) \notin tainted
          BY <2>4, <2>6, <2>8, <3>2
        <4> QED
          BY <2>8, <4>1, <4>2
      <3> QED
        BY <3>1, <3>2
    <2> QED
      BY <2>8
  <1>15. ASSUME NEW p \in Reader, ReplaceFails(p)
       PROVE  KeyedOnSource'
    BY <1>15 DEF ReplaceFails, GoTo, cacheVars, historyVars
  <1>16. ASSUME NEW p \in Reader, TempThere(p)
       PROVE  KeyedOnSource'
    BY <1>16 DEF TempThere, GoTo, allButPc, cacheVars, historyVars
  <1>17. ASSUME NEW p \in Reader, TempGone(p)
       PROVE  KeyedOnSource'
    BY <1>17 DEF TempGone, End, GoTo, historyVars
  <1>18. ASSUME NEW p \in Reader, Unlink(p)
       PROVE  KeyedOnSource'
    BY <1>18 DEF Unlink, GoTo, historyVars
  <1>19. ASSUME NEW p \in Reader, UnlinkFails(p)
       PROVE  KeyedOnSource'
    BY <1>19 DEF UnlinkFails, End, GoTo, historyVars
  <1>20. ASSUME NEW p \in Reader, Load(p)
       PROVE  KeyedOnSource'
    BY <1>20 DEF Load, Use, End, GoTo
  <1>21. ASSUME NEW p \in Reader, LoadFails(p)
       PROVE  KeyedOnSource'
    BY <1>21 DEF LoadFails, End, GoTo, historyVars
  <1>22. ASSUME NEW p \in Reader, MkTempFails(p)
       PROVE  KeyedOnSource'
    BY <1>22 DEF MkTempFails, Fault, End, GoTo
  <1>23. ASSUME NEW p \in Reader, BuildFails(p)
       PROVE  KeyedOnSource'
    BY <1>23 DEF BuildFails, Fault, GoTo, cacheVars
  <1>24. ASSUME NEW p \in Reader, Kill(p)
       PROVE  KeyedOnSource'
    BY <1>24 DEF Kill, Fault, End, GoTo
  <1>25. ASSUME NEW c \in Clearer, NEW e \in todo[c], ClearVisit(c, e)
       PROVE  KeyedOnSource'
    BY <1>25 DEF ClearVisit, cacheVars, historyVars
  <1>26. ASSUME NEW c \in Clearer, ClearStart(c)
       PROVE  KeyedOnSource'
    BY <1>26 DEF ClearStart, cacheVars, historyVars
  <1>27. ASSUME NEW c \in Clearer, ClearUnlink(c)
       PROVE  KeyedOnSource'
    BY <1>27 DEF ClearUnlink
  <1>28. ASSUME NEW c \in Clearer, ClearFails(c)
       PROVE  KeyedOnSource'
    BY <1>28 DEF ClearFails, cacheVars, historyVars
  <1>29. ASSUME NEW c \in Clearer, ClearDone(c)
       PROVE  KeyedOnSource'
    BY <1>29 DEF ClearDone, cacheVars, historyVars
  <1>30. ASSUME NEW v \in Version, ReplaceSource(v)
       PROVE  KeyedOnSource'
    BY <1>30 DEF ReplaceSource, cacheVars
  <1>31. CASE UNCHANGED vars
    BY <1>31 DEF vars, cacheVars, historyVars
  <1> QED
    BY <1>1, <1>2, <1>3, <1>4, <1>5, <1>6, <1>7, <1>8, <1>9, <1>10, <1>11, <1>12,
       <1>13, <1>14, <1>15, <1>16, <1>17, <1>18, <1>19, <1>20, <1>21, <1>22, <1>23,
       <1>24, <1>25, <1>26, <1>27, <1>28, <1>29, <1>30, <1>31
    DEF Next, ReadStep, ClearStep

\* Only a dirty reader can mark a read empty that has rows.
LEMMA MarkerStep ==
    ASSUME TypeOK, KeysOK, CleanOK, MarkerSound, [Next]_vars
    PROVE  MarkerSound'
  <1> USE DEF MarkerSound, ResultEntry, MarkerEntry, TempEntry
  <1>1. ASSUME NEW p \in Reader, NEW r \in Read, Start(p, r)
       PROVE  MarkerSound'
    BY <1>1 DEF Start, GoTo, cacheVars
  <1>2. ASSUME NEW p \in Reader, Stat(p)
       PROVE  MarkerSound'
    BY <1>2 DEF Stat, Advance, GoTo, cacheVars, historyVars
  <1>3. ASSUME NEW p \in Reader, MarkerFound(p)
       PROVE  MarkerSound'
    BY <1>3 DEF MarkerFound, Use, End, GoTo
  <1>4. ASSUME NEW p \in Reader, MarkerMissing(p)
       PROVE  MarkerSound'
    BY <1>4 DEF MarkerMissing, GoTo, allButPc, cacheVars, historyVars
  <1>5. ASSUME NEW p \in Reader, CheckExists(p)
       PROVE  MarkerSound'
    BY <1>5 DEF CheckExists, Advance, GoTo, allButPc, cacheVars, historyVars
  <1>6. ASSUME NEW p \in Reader, MkTemp(p)
       PROVE  MarkerSound'
    BY <1>6 DEF MkTemp, Advance, GoTo, historyVars
  <1>7. ASSUME NEW p \in Reader, Index(p)
       PROVE  MarkerSound'
    BY <1>7 DEF Index, GoTo, cacheVars, historyVars
  <1>8. ASSUME NEW p \in Reader, DecodeEmpty(p)
       PROVE  MarkerSound'
    BY <1>8 DEF DecodeEmpty, DecodeTo, GoTo, cacheVars, historyVars
  <1>9. ASSUME NEW p \in Reader, DecodeRows(p)
       PROVE  MarkerSound'
    BY <1>9 DEF DecodeRows, DecodeTo, GoTo, cacheVars, historyVars
  <1>10. ASSUME NEW p \in Reader, DecodeFails(p)
       PROVE  MarkerSound'
    BY <1>10 DEF DecodeFails, GoTo, cacheVars, historyVars
  <1>11. ASSUME NEW p \in Reader, Touch(p)
       PROVE  MarkerSound'
    <2> DEFINE F == FileOf(p, 1)
    <2>1. F \in File /\ F.ver = key[p][1] /\ F.read = req[p] /\ 1 \in DOMAIN key[p]
      BY <1>11, FileFacts, LoopFacts DEF Touch
    <2>2. marker' = marker \cup {F}
      BY <1>11 DEF Touch
    <2>3. tainted' = IF p \in dirty THEN tainted \cup {MarkerEntry(F)}
                     ELSE tainted \ {MarkerEntry(F)}
      BY <1>11 DEF Touch, Publish
    <2>4. p \notin dirty => <<F.ver, F.read>> \in EmptyRead
      <3>1. p \notin dirty => key[p][1] = src /\ <<src, req[p]>> \in EmptyRead
        BY <1>11, <2>1 DEF CleanOK, Touch
      <3> QED
        BY <2>1, <3>1
    <2>5. \A f \in File : f # F => MarkerEntry(f) # MarkerEntry(F)
      BY DEF MarkerEntry
    <2> HIDE DEF F
    <2> QED
      BY <2>2, <2>3, <2>4, <2>5
  <1>12. ASSUME NEW p \in Reader, OpenTemp(p)
       PROVE  MarkerSound'
    BY <1>12 DEF OpenTemp, GoTo, historyVars
  <1>13. ASSUME NEW p \in Reader, CloseTemp(p)
       PROVE  MarkerSound'
    BY <1>13 DEF CloseTemp, Advance, GoTo, historyVars
  <1>14. ASSUME NEW p \in Reader, Replace(p)
       PROVE  MarkerSound'
    BY <1>14 DEF Replace, Publish, GoTo
  <1>15. ASSUME NEW p \in Reader, ReplaceFails(p)
       PROVE  MarkerSound'
    BY <1>15 DEF ReplaceFails, GoTo, cacheVars, historyVars
  <1>16. ASSUME NEW p \in Reader, TempThere(p)
       PROVE  MarkerSound'
    BY <1>16 DEF TempThere, GoTo, allButPc, cacheVars, historyVars
  <1>17. ASSUME NEW p \in Reader, TempGone(p)
       PROVE  MarkerSound'
    BY <1>17 DEF TempGone, End, GoTo, historyVars
  <1>18. ASSUME NEW p \in Reader, Unlink(p)
       PROVE  MarkerSound'
    BY <1>18 DEF Unlink, GoTo, historyVars
  <1>19. ASSUME NEW p \in Reader, UnlinkFails(p)
       PROVE  MarkerSound'
    BY <1>19 DEF UnlinkFails, End, GoTo, historyVars
  <1>20. ASSUME NEW p \in Reader, Load(p)
       PROVE  MarkerSound'
    BY <1>20 DEF Load, Use, End, GoTo
  <1>21. ASSUME NEW p \in Reader, LoadFails(p)
       PROVE  MarkerSound'
    BY <1>21 DEF LoadFails, End, GoTo, historyVars
  <1>22. ASSUME NEW p \in Reader, MkTempFails(p)
       PROVE  MarkerSound'
    BY <1>22 DEF MkTempFails, Fault, End, GoTo
  <1>23. ASSUME NEW p \in Reader, BuildFails(p)
       PROVE  MarkerSound'
    BY <1>23 DEF BuildFails, Fault, GoTo, cacheVars
  <1>24. ASSUME NEW p \in Reader, Kill(p)
       PROVE  MarkerSound'
    BY <1>24 DEF Kill, Fault, End, GoTo
  <1>25. ASSUME NEW c \in Clearer, NEW e \in todo[c], ClearVisit(c, e)
       PROVE  MarkerSound'
    BY <1>25 DEF ClearVisit, cacheVars, historyVars
  <1>26. ASSUME NEW c \in Clearer, ClearStart(c)
       PROVE  MarkerSound'
    BY <1>26 DEF ClearStart, cacheVars, historyVars
  <1>27. ASSUME NEW c \in Clearer, ClearUnlink(c)
       PROVE  MarkerSound'
    BY <1>27 DEF ClearUnlink
  <1>28. ASSUME NEW c \in Clearer, ClearFails(c)
       PROVE  MarkerSound'
    BY <1>28 DEF ClearFails, cacheVars, historyVars
  <1>29. ASSUME NEW c \in Clearer, ClearDone(c)
       PROVE  MarkerSound'
    BY <1>29 DEF ClearDone, cacheVars, historyVars
  <1>30. ASSUME NEW v \in Version, ReplaceSource(v)
       PROVE  MarkerSound'
    BY <1>30 DEF ReplaceSource, cacheVars
  <1>31. CASE UNCHANGED vars
    BY <1>31 DEF vars, cacheVars, historyVars
  <1> QED
    BY <1>1, <1>2, <1>3, <1>4, <1>5, <1>6, <1>7, <1>8, <1>9, <1>10, <1>11, <1>12,
       <1>13, <1>14, <1>15, <1>16, <1>17, <1>18, <1>19, <1>20, <1>21, <1>22, <1>23,
       <1>24, <1>25, <1>26, <1>27, <1>28, <1>29, <1>30, <1>31
    DEF Next, ReadStep, ClearStep

\* What a read has gathered so far, and what it returns, is of its own version.
LEMMA AnswerStep ==
    ASSUME TypeOK, KeysOK, CleanOK, KeyedOnSource, MarkerSound, AnswerOK,
       ReadReturnsItsVersion, [Next]_vars
    PROVE  AnswerOK' /\ ReadReturnsItsVersion'
  <1>1. ASSUME NEW p \in Reader, NEW r \in Read, Start(p, r)
       PROVE  AnswerOK' /\ ReadReturnsItsVersion'
    <2>1. /\ req' = [req EXCEPT ![p] = r] /\ UNCHANGED seen
          /\ pc'[p] = "stat" /\ dirty' = dirty \ {p} /\ misled' = misled \ {p}
          /\ \A q \in Reader : q # p =>
                /\ pc'[q] = pc[q] /\ at'[q] = at[q] /\ key'[q] = key[q]
                /\ req'[q] = req[q] /\ got'[q] = got[q] /\ out'[q] = out[q]
      BY <1>1 DEF Start, GoTo, TypeOK, ReaderTypeOK
    <2>2. Answered(p)' /\ Returned(p)'
      BY <2>1 DEF Answered, Returned
    <2>3. ASSUME NEW q \in Reader, q # p, q \notin dirty' \cup misled'
          PROVE  Answered(q)' /\ Returned(q)'
      <3>1. Answered(q) /\ Returned(q)
        BY <2>1, <2>3 DEF AnswerOK, ReadReturnsItsVersion
      <3> QED
        BY <2>1, <2>3, <3>1 DEF Answered, Returned
    <2> QED
      BY <2>2, <2>3 DEF AnswerOK, ReadReturnsItsVersion
  <1>2. ASSUME NEW p \in Reader, Stat(p)
       PROVE  AnswerOK' /\ ReadReturnsItsVersion'
    <2>1. Moved(p)
      BY <1>2 DEF Moved, Stat, Advance, GoTo, world, historyVars, TypeOK, ReaderTypeOK
    <2>2. p \notin dirty' \cup misled' => Answered(p)' /\ Returned(p)'
      <3>1. pc'[p] \in {"stat", "marker"}
        BY <1>2 DEF Stat, Advance, GoTo, TypeOK, ReaderTypeOK
      <3> QED
        BY <3>1 DEF Answered, Returned
    <2> QED
      BY <2>1, <2>2, OthersAnswer DEF AnswerOK, ReadReturnsItsVersion
  <1>3. ASSUME NEW p \in Reader, MarkerFound(p)
       PROVE  AnswerOK' /\ ReadReturnsItsVersion'
    <2>1. Moved(p)
      BY <1>3 DEF Moved, MarkerFound, Use, End, GoTo, world, historyVars, TypeOK,
         ReaderTypeOK
    <2>2. p \notin dirty' \cup misled' => Answered(p)' /\ Returned(p)'
      <3>1. /\ pc'[p] = "idle" /\ out'[p] = "empty" /\ UNCHANGED <<key, req>>
            /\ FileOf(p, 1) \in marker
            /\ p \notin misled' => MarkerEntry(FileOf(p, 1)) \notin tainted
        BY <1>3 DEF MarkerFound, Use, End, GoTo, TypeOK, ReaderTypeOK
      <3>2. FileOf(p, 1).ver = key[p][1] /\ FileOf(p, 1).read = req[p]
        BY <1>3, FileFacts, LoopFacts DEF MarkerFound
      <3>3. p \notin misled' => <<key[p][1], req[p]>> \in EmptyRead
        BY <3>1, <3>2 DEF MarkerSound
      <3> QED
        BY <3>1, <3>3 DEF Answered, Returned
    <2> QED
      BY <2>1, <2>2, OthersAnswer DEF AnswerOK, ReadReturnsItsVersion
  <1>4. ASSUME NEW p \in Reader, MarkerMissing(p)
       PROVE  AnswerOK' /\ ReadReturnsItsVersion'
    <2>1. Moved(p)
      BY <1>4 DEF Moved, MarkerMissing, GoTo, TypeOK, ReaderTypeOK, allButPc,
         historyVars
    <2>2. p \notin dirty' \cup misled' => Answered(p)' /\ Returned(p)'
      <3>1. pc'[p] \in {"exists"}
        BY <1>4 DEF MarkerMissing, GoTo, TypeOK, ReaderTypeOK
      <3> QED
        BY <3>1 DEF Answered, Returned
    <2> QED
      BY <2>1, <2>2, OthersAnswer DEF AnswerOK, ReadReturnsItsVersion
  <1>5. ASSUME NEW p \in Reader, CheckExists(p)
       PROVE  AnswerOK' /\ ReadReturnsItsVersion'
    <2>1. Moved(p)
      BY <1>5 DEF Moved, CheckExists, Advance, GoTo, TypeOK, ReaderTypeOK, allButPc,
         historyVars
    <2>2. p \notin dirty' \cup misled' => Answered(p)' /\ Returned(p)'
      <3>1. \/ pc'[p] \in {"exists", "mktemp"}
            \/ pc'[p] = "load" /\ at'[p] = NumParts(req[p]) /\ req' = req
        BY <1>5 DEF CheckExists, Advance, GoTo, Last, allButPc, TypeOK, ReaderTypeOK
      <3>2. NumParts(req[p]) \in 1..2
        BY NumPartsFacts
      <3> QED
        BY <3>1, <3>2 DEF Answered, Returned
    <2> QED
      BY <2>1, <2>2, OthersAnswer DEF AnswerOK, ReadReturnsItsVersion
  <1>6. ASSUME NEW p \in Reader, MkTemp(p)
       PROVE  AnswerOK' /\ ReadReturnsItsVersion'
    <2>1. Moved(p)
      BY <1>6 DEF Moved, MkTemp, Advance, GoTo, world, historyVars, TypeOK, ReaderTypeOK
    <2>2. p \notin dirty' \cup misled' => Answered(p)' /\ Returned(p)'
      <3>1. pc'[p] \in {"mktemp", "index"}
        BY <1>6 DEF MkTemp, Advance, GoTo, TypeOK, ReaderTypeOK
      <3> QED
        BY <3>1 DEF Answered, Returned
    <2> QED
      BY <2>1, <2>2, OthersAnswer DEF AnswerOK, ReadReturnsItsVersion
  <1>7. ASSUME NEW p \in Reader, Index(p)
       PROVE  AnswerOK' /\ ReadReturnsItsVersion'
    <2>1. Moved(p)
      BY <1>7 DEF Moved, Index, GoTo, world, historyVars, TypeOK, ReaderTypeOK
    <2>2. p \notin dirty' \cup misled' => Answered(p)' /\ Returned(p)'
      <3>1. pc'[p] \in {"decode"}
        BY <1>7 DEF Index, GoTo, TypeOK, ReaderTypeOK
      <3> QED
        BY <3>1 DEF Answered, Returned
    <2> QED
      BY <2>1, <2>2, OthersAnswer DEF AnswerOK, ReadReturnsItsVersion
  <1>8. ASSUME NEW p \in Reader, DecodeEmpty(p)
       PROVE  AnswerOK' /\ ReadReturnsItsVersion'
    <2>1. Moved(p)
      BY <1>8 DEF Moved, DecodeEmpty, DecodeTo, GoTo, world, historyVars, TypeOK,
         ReaderTypeOK
    <2>2. p \notin dirty' \cup misled' => Answered(p)' /\ Returned(p)'
      <3>1. pc'[p] \in {"touch"}
        BY <1>8 DEF DecodeEmpty, DecodeTo, GoTo, TypeOK, ReaderTypeOK
      <3> QED
        BY <3>1 DEF Answered, Returned
    <2> QED
      BY <2>1, <2>2, OthersAnswer DEF AnswerOK, ReadReturnsItsVersion
  <1>9. ASSUME NEW p \in Reader, DecodeRows(p)
       PROVE  AnswerOK' /\ ReadReturnsItsVersion'
    <2>1. Moved(p)
      BY <1>9 DEF Moved, DecodeRows, DecodeTo, GoTo, world, historyVars, TypeOK,
         ReaderTypeOK
    <2>2. p \notin dirty' \cup misled' => Answered(p)' /\ Returned(p)'
      <3>1. pc'[p] \in {"open"}
        BY <1>9 DEF DecodeRows, DecodeTo, GoTo, TypeOK, ReaderTypeOK
      <3> QED
        BY <3>1 DEF Answered, Returned
    <2> QED
      BY <2>1, <2>2, OthersAnswer DEF AnswerOK, ReadReturnsItsVersion
  <1>10. ASSUME NEW p \in Reader, DecodeFails(p)
       PROVE  AnswerOK' /\ ReadReturnsItsVersion'
    <2>1. Moved(p)
      BY <1>10 DEF Moved, DecodeFails, GoTo, world, historyVars, TypeOK, ReaderTypeOK
    <2>2. p \notin dirty' \cup misled' => Answered(p)' /\ Returned(p)'
      <3>1. pc'[p] = "check" /\ out'[p] = "error"
        BY <1>10 DEF DecodeFails, GoTo, TypeOK, ReaderTypeOK
      <3> QED
        BY <3>1 DEF Answered, Returned
    <2> QED
      BY <2>1, <2>2, OthersAnswer DEF AnswerOK, ReadReturnsItsVersion
  <1>11. ASSUME NEW p \in Reader, Touch(p)
       PROVE  AnswerOK' /\ ReadReturnsItsVersion'
    <2>1. Moved(p)
      BY <1>11 DEF Moved, Touch, Publish, GoTo, world, historyVars, TypeOK, ReaderTypeOK
    <2>2. p \notin dirty' \cup misled' => Answered(p)' /\ Returned(p)'
      <3>1. pc'[p] = "check" /\ UNCHANGED <<key, req, dirty>> /\ pc[p] = "touch"
        BY <1>11 DEF Touch, GoTo, Publish, TypeOK, ReaderTypeOK
      <3>2. 1 \in DOMAIN key[p]
        BY <1>11, FileFacts, LoopFacts DEF Touch
      <3>3. p \notin dirty => <<key[p][1], req[p]>> \in EmptyRead
        BY <3>1, <3>2 DEF CleanOK
      <3> QED
        BY <3>1, <3>3 DEF Answered, Returned
    <2> QED
      BY <2>1, <2>2, OthersAnswer DEF AnswerOK, ReadReturnsItsVersion
  <1>12. ASSUME NEW p \in Reader, OpenTemp(p)
       PROVE  AnswerOK' /\ ReadReturnsItsVersion'
    <2>1. Moved(p)
      BY <1>12 DEF Moved, OpenTemp, GoTo, world, historyVars, TypeOK, ReaderTypeOK
    <2>2. p \notin dirty' \cup misled' => Answered(p)' /\ Returned(p)'
      <3>1. pc'[p] \in {"close"}
        BY <1>12 DEF OpenTemp, GoTo, TypeOK, ReaderTypeOK
      <3> QED
        BY <3>1 DEF Answered, Returned
    <2> QED
      BY <2>1, <2>2, OthersAnswer DEF AnswerOK, ReadReturnsItsVersion
  <1>13. ASSUME NEW p \in Reader, CloseTemp(p)
       PROVE  AnswerOK' /\ ReadReturnsItsVersion'
    <2>1. Moved(p)
      BY <1>13 DEF Moved, CloseTemp, Advance, GoTo, world, historyVars, TypeOK,
         ReaderTypeOK
    <2>2. p \notin dirty' \cup misled' => Answered(p)' /\ Returned(p)'
      <3>1. pc'[p] \in {"open", "replace"}
        BY <1>13 DEF CloseTemp, Advance, GoTo, TypeOK, ReaderTypeOK
      <3> QED
        BY <3>1 DEF Answered, Returned
    <2> QED
      BY <2>1, <2>2, OthersAnswer DEF AnswerOK, ReadReturnsItsVersion
  <1>14. ASSUME NEW p \in Reader, Replace(p)
       PROVE  AnswerOK' /\ ReadReturnsItsVersion'
    <2>1. Moved(p)
      BY <1>14 DEF Moved, Replace, Publish, GoTo, world, historyVars, TypeOK,
         ReaderTypeOK
    <2>2. p \notin dirty' \cup misled' => Answered(p)' /\ Returned(p)'
      <3>1. \/ pc'[p] = "replace"
            \/ pc'[p] = "check" /\ out'[p] = "frames"
        BY <1>14 DEF Replace, GoTo, TypeOK, ReaderTypeOK
      <3> QED
        BY <3>1 DEF Answered, Returned
    <2> QED
      BY <2>1, <2>2, OthersAnswer DEF AnswerOK, ReadReturnsItsVersion
  <1>15. ASSUME NEW p \in Reader, ReplaceFails(p)
       PROVE  AnswerOK' /\ ReadReturnsItsVersion'
    <2>1. Moved(p)
      BY <1>15 DEF Moved, ReplaceFails, GoTo, world, historyVars, TypeOK, ReaderTypeOK
    <2>2. p \notin dirty' \cup misled' => Answered(p)' /\ Returned(p)'
      <3>1. pc'[p] = "check" /\ out'[p] = "error"
        BY <1>15 DEF ReplaceFails, GoTo, TypeOK, ReaderTypeOK
      <3> QED
        BY <3>1 DEF Answered, Returned
    <2> QED
      BY <2>1, <2>2, OthersAnswer DEF AnswerOK, ReadReturnsItsVersion
  <1>16. ASSUME NEW p \in Reader, TempThere(p)
       PROVE  AnswerOK' /\ ReadReturnsItsVersion'
    <2>1. Moved(p)
      BY <1>16 DEF Moved, TempThere, GoTo, TypeOK, ReaderTypeOK, allButPc, historyVars
    <2>2. p \notin dirty' \cup misled' => Answered(p)' /\ Returned(p)'
      <3>1. pc'[p] \in {"unlink"} /\ pc[p] \in {"check", "unlink"} /\ out'[p] = out[p]
        BY <1>16 DEF TempThere, GoTo, TypeOK, ReaderTypeOK, allButPc
      <3>2. UNCHANGED <<key, req, dirty, misled>>
        BY <1>16 DEF TempThere, historyVars, allButPc
      <3> QED
        BY <3>1, <3>2 DEF AnswerOK, Answered, Returned
    <2> QED
      BY <2>1, <2>2, OthersAnswer DEF AnswerOK, ReadReturnsItsVersion
  <1>17. ASSUME NEW p \in Reader, TempGone(p)
       PROVE  AnswerOK' /\ ReadReturnsItsVersion'
    <2>1. Moved(p)
      BY <1>17 DEF Moved, TempGone, End, GoTo, world, historyVars, TypeOK, ReaderTypeOK
    <2>2. p \notin dirty' \cup misled' => Answered(p)' /\ Returned(p)'
      <3>1. UNCHANGED <<key, req, dirty, misled>> /\ pc[p] = "check"
        BY <1>17 DEF TempGone, historyVars
      <3>2. \/ pc'[p] = "check" /\ out'[p] = out[p]
            \/ pc'[p] = "load" /\ at'[p] = NumParts(req[p])
            \/ pc'[p] = "idle" /\ out'[p] = out[p] /\ out[p] # "frames"
        BY <1>17 DEF TempGone, End, GoTo, Last, TypeOK, ReaderTypeOK
      <3>3. NumParts(req[p]) \in 1..2
        BY NumPartsFacts
      <3>4. p \notin dirty \cup misled => Answered(p)
        BY DEF AnswerOK
      <3> QED
        BY <3>1, <3>2, <3>3, <3>4 DEF Answered, Returned
    <2> QED
      BY <2>1, <2>2, OthersAnswer DEF AnswerOK, ReadReturnsItsVersion
  <1>18. ASSUME NEW p \in Reader, Unlink(p)
       PROVE  AnswerOK' /\ ReadReturnsItsVersion'
    <2>1. Moved(p)
      BY <1>18 DEF Moved, Unlink, GoTo, world, historyVars, TypeOK, ReaderTypeOK
    <2>2. p \notin dirty' \cup misled' => Answered(p)' /\ Returned(p)'
      <3>1. pc'[p] \in {"check"} /\ pc[p] \in {"check", "unlink"} /\ out'[p] = out[p]
        BY <1>18 DEF Unlink, GoTo, TypeOK, ReaderTypeOK
      <3>2. UNCHANGED <<key, req, dirty, misled>>
        BY <1>18 DEF Unlink, historyVars
      <3> QED
        BY <3>1, <3>2 DEF AnswerOK, Answered, Returned
    <2> QED
      BY <2>1, <2>2, OthersAnswer DEF AnswerOK, ReadReturnsItsVersion
  <1>19. ASSUME NEW p \in Reader, UnlinkFails(p)
       PROVE  AnswerOK' /\ ReadReturnsItsVersion'
    <2>1. Moved(p)
      BY <1>19 DEF Moved, UnlinkFails, End, GoTo, world, historyVars, TypeOK,
         ReaderTypeOK
    <2>2. p \notin dirty' \cup misled' => Answered(p)' /\ Returned(p)'
      <3>1. pc'[p] = "idle" /\ out'[p] = "error"
        BY <1>19 DEF UnlinkFails, End, GoTo, TypeOK, ReaderTypeOK
      <3> QED
        BY <3>1 DEF Answered, Returned
    <2> QED
      BY <2>1, <2>2, OthersAnswer DEF AnswerOK, ReadReturnsItsVersion
  <1>20. ASSUME NEW p \in Reader, Load(p)
       PROVE  AnswerOK' /\ ReadReturnsItsVersion'
    <2>1. Moved(p)
      BY <1>20 DEF Moved, Load, Use, End, GoTo, world, historyVars, TypeOK, ReaderTypeOK
    <2>2. /\ pc[p] = "load" /\ UNCHANGED <<key, req, dirty>>
          /\ got'[p][at[p]] = result[FileOf(p, at[p])]
          /\ \A i \in Part : i # at[p] => got'[p][i] = got[p][i]
      BY <1>20 DEF Load, Use, TypeOK, ReaderTypeOK
    <2>3. at[p] \in 1..NumParts(req[p]) /\ NumParts(req[p]) \in 1..2
      BY LoopFacts, NumPartsFacts
    <2>4. ASSUME p \notin dirty' \cup misled'
          PROVE  /\ p \notin dirty \cup misled
                 /\ ResultEntry(FileOf(p, at[p])) \notin tainted
      BY <1>20, <2>4 DEF Load, Use
    <2>5. ASSUME p \notin dirty' \cup misled'
          PROVE  got'[p][at[p]] = Full({key[p][1]}, req[p], at[p])
      <3> DEFINE F == FileOf(p, at[p])
      <3>1. /\ F \in File /\ F.ver = key[p][at[p]] /\ F.read = req[p] /\ F.part = at[p]
            /\ at[p] \in DOMAIN key[p] /\ 1 \in DOMAIN key[p]
        BY <1>20, FileFacts, LoopFacts DEF Load
      <3>2. result[F] # Absent
        BY <1>20 DEF Load
      <3>3. key[p][at[p]] = key[p][1]
        <4>1. p \notin dirty
          BY <2>4, <2>5
        <4>2. \A i, j \in DOMAIN key[p] : key[p][i] = key[p][j]
          BY <4>1 DEF CleanOK
        <4> QED
          BY <3>1, <4>2
      <3>4. result[F] = Full({F.ver}, F.read, F.part)
        BY <2>4, <2>5, <3>1, <3>2 DEF KeyedOnSource
      <3> QED
        BY <2>2, <3>1, <3>3, <3>4
    <2>6. ASSUME p \notin dirty' \cup misled', NEW i \in at[p] .. NumParts(req[p])
          PROVE  got'[p][i] = Full({key'[p][1]}, req'[p], i)
      <3>1. CASE i = at[p]
        BY <2>2, <2>5, <2>6, <3>1
      <3>2. CASE i # at[p]
        <4>1. i \in at[p] + 1 .. NumParts(req[p]) /\ i \in Part
          BY <2>3, <3>2 DEF Part
        <4>2. Answered(p)
          BY <2>4, <2>6 DEF AnswerOK
        <4>3. got[p][i] = Full({key[p][1]}, req[p], i)
          BY <2>2, <4>1, <4>2 DEF Answered
        <4> QED
          BY <2>2, <3>2, <4>1, <4>3
      <3> QED
        BY <3>1, <3>2
    <2>7. \/ pc'[p] = "idle" /\ at[p] = 1 /\ out'[p] = "frames"
          \/ pc'[p] = "load" /\ at'[p] = at[p] - 1
      BY <1>20 DEF Load, End, GoTo, TypeOK, ReaderTypeOK
    <2>8. p \notin dirty' \cup misled' => Answered(p)' /\ Returned(p)'
      <3>1. SUFFICES ASSUME p \notin dirty' \cup misled'
                     PROVE  Answered(p)' /\ Returned(p)'
        OBVIOUS
      <3>2. CASE pc'[p] = "idle"
        <4>1. \A i \in 1..NumParts(req'[p]) : got'[p][i] = Full({key'[p][1]}, req'[p],
           i)
          BY <2>2, <2>6, <2>7, <3>1, <3>2
        <4> QED
          BY <2>7, <3>2, <4>1 DEF Answered, Returned
      <3>3. CASE pc'[p] = "load"
        <4>1. at'[p] + 1 = at[p]
          BY <2>3, <2>7, <3>3
        <4>2. \A i \in at'[p] + 1..NumParts(req'[p]) :
                 got'[p][i] = Full({key'[p][1]}, req'[p], i)
          BY <2>2, <2>6, <3>1, <4>1
        <4> QED
          BY <3>3, <4>2 DEF Answered, Returned
      <3> QED
        BY <2>7, <3>2, <3>3
    <2> QED
      BY <2>1, <2>8, OthersAnswer DEF AnswerOK, ReadReturnsItsVersion
  <1>21. ASSUME NEW p \in Reader, LoadFails(p)
       PROVE  AnswerOK' /\ ReadReturnsItsVersion'
    <2>1. Moved(p)
      BY <1>21 DEF Moved, LoadFails, End, GoTo, world, historyVars, TypeOK, ReaderTypeOK
    <2>2. p \notin dirty' \cup misled' => Answered(p)' /\ Returned(p)'
      <3>1. pc'[p] = "idle" /\ out'[p] = "error"
        BY <1>21 DEF LoadFails, End, GoTo, TypeOK, ReaderTypeOK
      <3> QED
        BY <3>1 DEF Answered, Returned
    <2> QED
      BY <2>1, <2>2, OthersAnswer DEF AnswerOK, ReadReturnsItsVersion
  <1>22. ASSUME NEW p \in Reader, MkTempFails(p)
       PROVE  AnswerOK' /\ ReadReturnsItsVersion'
    <2>1. Moved(p)
      BY <1>22 DEF Moved, MkTempFails, Fault, End, GoTo, world, historyVars, TypeOK,
         ReaderTypeOK
    <2>2. p \notin dirty' \cup misled' => Answered(p)' /\ Returned(p)'
      <3>1. pc'[p] = "idle" /\ out'[p] = "error"
        BY <1>22 DEF MkTempFails, End, GoTo, TypeOK, ReaderTypeOK
      <3> QED
        BY <3>1 DEF Answered, Returned
    <2> QED
      BY <2>1, <2>2, OthersAnswer DEF AnswerOK, ReadReturnsItsVersion
  <1>23. ASSUME NEW p \in Reader, BuildFails(p)
       PROVE  AnswerOK' /\ ReadReturnsItsVersion'
    <2>1. Moved(p)
      BY <1>23 DEF Moved, BuildFails, Fault, GoTo, world, historyVars, TypeOK,
         ReaderTypeOK
    <2>2. p \notin dirty' \cup misled' => Answered(p)' /\ Returned(p)'
      <3>1. pc'[p] = "check" /\ out'[p] = "error"
        BY <1>23 DEF BuildFails, GoTo, TypeOK, ReaderTypeOK
      <3> QED
        BY <3>1 DEF Answered, Returned
    <2> QED
      BY <2>1, <2>2, OthersAnswer DEF AnswerOK, ReadReturnsItsVersion
  <1>24. ASSUME NEW p \in Reader, Kill(p)
       PROVE  AnswerOK' /\ ReadReturnsItsVersion'
    <2>1. Moved(p)
      BY <1>24 DEF Moved, Kill, Fault, End, GoTo, world, historyVars, TypeOK,
         ReaderTypeOK
    <2>2. p \notin dirty' \cup misled' => Answered(p)' /\ Returned(p)'
      <3>1. pc'[p] = "idle" /\ out'[p] = "killed"
        BY <1>24 DEF Kill, End, GoTo, TypeOK, ReaderTypeOK
      <3> QED
        BY <3>1 DEF Answered, Returned
    <2> QED
      BY <2>1, <2>2, OthersAnswer DEF AnswerOK, ReadReturnsItsVersion
  <1>25. ASSUME NEW c \in Clearer, NEW e \in todo[c], ClearVisit(c, e)
       PROVE  AnswerOK' /\ ReadReturnsItsVersion'
    <2>1. UNCHANGED <<pc, at, key, req, got, out, misled>> /\ dirty \subseteq dirty'
      BY <1>25 DEF ClearVisit, readVars, historyVars
    <2>2. ASSUME NEW q \in Reader, q \notin dirty' \cup misled'
          PROVE  Answered(q)' /\ Returned(q)'
      <3>1. Answered(q) /\ Returned(q)
        BY <2>1, <2>2 DEF AnswerOK, ReadReturnsItsVersion
      <3> QED
        BY <2>1, <3>1 DEF Answered, Returned
    <2> QED
      BY <2>2 DEF AnswerOK, ReadReturnsItsVersion
  <1>26. ASSUME NEW c \in Clearer, ClearStart(c)
       PROVE  AnswerOK' /\ ReadReturnsItsVersion'
    <2>1. UNCHANGED <<pc, at, key, req, got, out, misled>> /\ dirty \subseteq dirty'
      BY <1>26 DEF ClearStart, readVars, historyVars
    <2>2. ASSUME NEW q \in Reader, q \notin dirty' \cup misled'
          PROVE  Answered(q)' /\ Returned(q)'
      <3>1. Answered(q) /\ Returned(q)
        BY <2>1, <2>2 DEF AnswerOK, ReadReturnsItsVersion
      <3> QED
        BY <2>1, <3>1 DEF Answered, Returned
    <2> QED
      BY <2>2 DEF AnswerOK, ReadReturnsItsVersion
  <1>27. ASSUME NEW c \in Clearer, ClearUnlink(c)
       PROVE  AnswerOK' /\ ReadReturnsItsVersion'
    <2>1. UNCHANGED <<pc, at, key, req, got, out, misled>> /\ dirty \subseteq dirty'
      BY <1>27 DEF ClearUnlink, readVars
    <2>2. ASSUME NEW q \in Reader, q \notin dirty' \cup misled'
          PROVE  Answered(q)' /\ Returned(q)'
      <3>1. Answered(q) /\ Returned(q)
        BY <2>1, <2>2 DEF AnswerOK, ReadReturnsItsVersion
      <3> QED
        BY <2>1, <3>1 DEF Answered, Returned
    <2> QED
      BY <2>2 DEF AnswerOK, ReadReturnsItsVersion
  <1>28. ASSUME NEW c \in Clearer, ClearFails(c)
       PROVE  AnswerOK' /\ ReadReturnsItsVersion'
    <2>1. UNCHANGED <<pc, at, key, req, got, out, misled>> /\ dirty \subseteq dirty'
      BY <1>28 DEF ClearFails, readVars, historyVars
    <2>2. ASSUME NEW q \in Reader, q \notin dirty' \cup misled'
          PROVE  Answered(q)' /\ Returned(q)'
      <3>1. Answered(q) /\ Returned(q)
        BY <2>1, <2>2 DEF AnswerOK, ReadReturnsItsVersion
      <3> QED
        BY <2>1, <3>1 DEF Answered, Returned
    <2> QED
      BY <2>2 DEF AnswerOK, ReadReturnsItsVersion
  <1>29. ASSUME NEW c \in Clearer, ClearDone(c)
       PROVE  AnswerOK' /\ ReadReturnsItsVersion'
    <2>1. UNCHANGED <<pc, at, key, req, got, out, misled>> /\ dirty \subseteq dirty'
      BY <1>29 DEF ClearDone, readVars, historyVars
    <2>2. ASSUME NEW q \in Reader, q \notin dirty' \cup misled'
          PROVE  Answered(q)' /\ Returned(q)'
      <3>1. Answered(q) /\ Returned(q)
        BY <2>1, <2>2 DEF AnswerOK, ReadReturnsItsVersion
      <3> QED
        BY <2>1, <3>1 DEF Answered, Returned
    <2> QED
      BY <2>2 DEF AnswerOK, ReadReturnsItsVersion
  <1>30. ASSUME NEW v \in Version, ReplaceSource(v)
       PROVE  AnswerOK' /\ ReadReturnsItsVersion'
    <2>1. UNCHANGED <<pc, at, key, req, got, out, misled>> /\ dirty \subseteq dirty'
      BY <1>30 DEF ReplaceSource, readVars
    <2>2. ASSUME NEW q \in Reader, q \notin dirty' \cup misled'
          PROVE  Answered(q)' /\ Returned(q)'
      <3>1. Answered(q) /\ Returned(q)
        BY <2>1, <2>2 DEF AnswerOK, ReadReturnsItsVersion
      <3> QED
        BY <2>1, <3>1 DEF Answered, Returned
    <2> QED
      BY <2>2 DEF AnswerOK, ReadReturnsItsVersion
  <1>31. CASE UNCHANGED vars
    <2>1. UNCHANGED <<pc, at, key, req, got, out, misled>> /\ dirty \subseteq dirty'
      BY <1>31 DEF vars, readVars, historyVars
    <2>2. ASSUME NEW q \in Reader, q \notin dirty' \cup misled'
          PROVE  Answered(q)' /\ Returned(q)'
      <3>1. Answered(q) /\ Returned(q)
        BY <2>1, <2>2 DEF AnswerOK, ReadReturnsItsVersion
      <3> QED
        BY <2>1, <3>1 DEF Answered, Returned
    <2> QED
      BY <2>2 DEF AnswerOK, ReadReturnsItsVersion
  <1> QED
    BY <1>1, <1>2, <1>3, <1>4, <1>5, <1>6, <1>7, <1>8, <1>9, <1>10, <1>11, <1>12,
       <1>13, <1>14, <1>15, <1>16, <1>17, <1>18, <1>19, <1>20, <1>21, <1>22, <1>23,
       <1>24, <1>25, <1>26, <1>27, <1>28, <1>29, <1>30, <1>31
    DEF Next, ReadStep, ClearStep

LEMMA InitInv == Init => CacheInv
  <1> SUFFICES ASSUME Init PROVE CacheInv
    OBVIOUS
  <1>1. NoTemps \in [Part -> Content]
    BY ContentFacts DEF NoTemps
  <1>2. DiskTypeOK
    BY <1>1, ContentFacts DEF Init, DiskTypeOK
  <1>3. ReaderTypeOK
    <2>1. (CHOOSE r \in Read : TRUE) \in Read
      BY CacheAssumption
    <2>2. "idle" \in Phase /\ "none" \in Outcome /\ 1 \in Part
      BY DEF Phase, Outcome, Part
    <2>3. \A r : 1 <= NumParts(r)
      BY NumPartsFacts
    <2>4. /\ pc \in [Reader -> Phase] /\ at \in [Reader -> Part]
          /\ out \in [Reader -> Outcome] /\ got \in [Reader -> [Part -> Content]]
      BY <1>1, <2>2 DEF Init
    <2>5. req \in [Reader -> Read]
      BY <2>1 DEF Init
    <2>6. key \in [Reader -> Seq(Version)] /\ seen \in [Reader -> SUBSET Version]
      BY DEF Init
    <2>7. \A p \in Reader : at[p] <= NumParts(req[p])
      BY <2>3 DEF Init
    <2> QED
      BY <2>4, <2>5, <2>6, <2>7 DEF ReaderTypeOK
  <1>4. ClearerTypeOK
    BY DEF Init, ClearerTypeOK
  <1>5. CountTypeOK
    BY CacheAssumption DEF Init, CountTypeOK
  <1>6. TypeOK
    BY <1>2, <1>3, <1>4, <1>5 DEF TypeOK
  <1>7. KeysOK /\ CleanOK /\ TempOK /\ AnswerOK
    BY DEF Init, KeysOK, CleanOK, TempOK, AnswerOK, Answered
  <1>8. NeverHalfWritten
    BY ContentFacts DEF Init, NeverHalfWritten
  <1>9. KeyedOnSource /\ MarkerSound /\ ReadReturnsItsVersion
    BY DEF Init, KeyedOnSource, MarkerSound, ReadReturnsItsVersion, Returned
  <1> QED
    BY <1>6, <1>7, <1>8, <1>9 DEF CacheInv

LEMMA StepInv == CacheInv /\ [Next]_vars => CacheInv'
  <1> SUFFICES ASSUME CacheInv, [Next]_vars PROVE CacheInv'
    OBVIOUS
  <1> USE DEF CacheInv
  <1>1. TypeOK'
    BY DiskTypeStep, ReaderTypeStep, ClearerTypeStep, CountTypeStep DEF TypeOK
  <1>2. KeysOK' /\ CleanOK' /\ TempOK' /\ AnswerOK'
    BY KeysStep, CleanStep, TempStep, AnswerStep
  <1>3. NeverHalfWritten' /\ KeyedOnSource' /\ MarkerSound' /\ ReadReturnsItsVersion'
    BY NeverHalfStep, KeyedStep, MarkerStep, AnswerStep
  <1> QED
    BY <1>1, <1>2, <1>3

\* CacheInv is inductive: it holds in every reachable state, whatever the
\* processes, their reads, the kills and the replacements of the source.
THEOREM CacheInvariant == Spec => []CacheInv
  <1>1. Init => CacheInv
    BY InitInv
  <1>2. CacheInv /\ [Next]_vars => CacheInv'
    BY StepInv
  <1> QED
    BY <1>1, <1>2, PTL DEF Spec

\* Every variable keeps its type, and the loops of a read over its files stay
\* within the files that read has.
THEOREM TypeCorrect == Spec => []TypeOK
  <1>1. CacheInv => TypeOK
    BY DEF CacheInv
  <1> QED
    BY <1>1, CacheInvariant, PTL

\* No file under a final cache name is ever half-written: the temporary file of
\* _temp_in and the rename that publishes it are enough, without a lock.
THEOREM NoHalfWrittenFile == Spec => []NeverHalfWritten
  <1>1. CacheInv => NeverHalfWritten
    BY DEF CacheInv
  <1> QED
    BY <1>1, CacheInvariant, PTL

\* A cached frame holds what its name says unless the source was replaced under
\* the reader that published it: result_path's key is exact otherwise.
THEOREM CacheKeyedOnSource == Spec => []KeyedOnSource
  <1>1. CacheInv => KeyedOnSource
    BY DEF CacheInv
  <1> QED
    BY <1>1, CacheInvariant, PTL

\* The empty marker is never left by a build that failed or found rows.
THEOREM EmptyMarkerSound == Spec => []MarkerSound
  <1>1. CacheInv => MarkerSound
    BY DEF CacheInv
  <1> QED
    BY <1>1, CacheInvariant, PTL

\* A read that nothing disturbed answers with frames of the source version it
\* asked for, in both halves of a pair.
THEOREM AnswerMatchesSource == Spec => []ReadReturnsItsVersion
  <1>1. CacheInv => ReadReturnsItsVersion
    BY DEF CacheInv
  <1> QED
    BY <1>1, CacheInvariant, PTL

(***************************************************************************)
(* Why a read may raise and what it may leave behind.                      *)
(***************************************************************************)
LeavesOnlyIf(p) == \A i \in Part :
    pc[p] = "idle" /\ <<p, nreads[p], i>> \in orphan
        => \/ out[p] = "killed"
           \/ req[p] \in PairRead /\ out[p] = "error" /\ p \in cleared \cup faulted

Kept(p) == (~Excused(p) => Secure(p)) /\ Tidy(p) /\ LeftByEnded(p) /\ LeavesOnlyIf(p)

\* A step of reader p touches nothing that another reader's account is about,
\* and takes no cached file away.
Aside(p) ==
    /\ \A q \in Reader : q # p =>
          /\ pc'[q] = pc[q] /\ at'[q] = at[q] /\ req'[q] = req[q] /\ key'[q] = key[q]
          /\ out'[q] = out[q] /\ temp'[q] = temp[q] /\ nreads'[q] = nreads[q]
          /\ q \in dirty' <=> q \in dirty
          /\ q \in cleared' <=> q \in cleared
          /\ q \in faulted' <=> q \in faulted
          /\ \A n \in 0..MaxReads, i \in Part :
                <<q, n, i>> \in orphan' <=> <<q, n, i>> \in orphan
    /\ \A f \in File : result[f] # Absent => result'[f] # Absent

LEMMA OthersKept ==
    ASSUME TypeOK, KeysOK, NEW p \in Reader, Aside(p), NEW q \in Reader, q # p, Kept(q)
    PROVE  Kept(q)'
  <1>1. /\ pc'[q] = pc[q] /\ at'[q] = at[q] /\ req'[q] = req[q] /\ key'[q] = key[q]
        /\ out'[q] = out[q] /\ temp'[q] = temp[q] /\ nreads'[q] = nreads[q]
        /\ q \in dirty' <=> q \in dirty
        /\ q \in cleared' <=> q \in cleared
        /\ q \in faulted' <=> q \in faulted
        /\ \A n \in 0..MaxReads, i \in Part :
              <<q, n, i>> \in orphan' <=> <<q, n, i>> \in orphan
    BY DEF Aside
  <1>2. Excused(q)' <=> Excused(q)
    BY <1>1 DEF Excused
  <1>3. Secure(q) => Secure(q)'
    <2>1. SUFFICES ASSUME Secure(q) PROVE Secure(q)'
      OBVIOUS
    <2>2. ASSUME NEW i \in 1..NumParts(req[q]), pc[q] \notin {"idle", "stat"},
                 result[FileOf(q, i)] # Absent
          PROVE  result'[FileOf(q, i)'] # Absent
      <3>1. FileOf(q, i) \in File
        BY <2>2, FileFacts
      <3>2. FileOf(q, i)' = FileOf(q, i)
        BY <1>1 DEF FileOf
      <3> QED
        BY <2>2, <3>1, <3>2 DEF Aside
    <2>3. out'[q] # "error" /\ NumParts(req'[q]) = NumParts(req[q])
      BY <1>1, <2>1 DEF Secure
    <2> QED
      BY <1>1, <2>1, <2>2, <2>3 DEF Secure
  <1>4. Tidy(q)'
    BY <1>1 DEF Kept, Tidy, NoTempAt
  <1>5. nreads[q] \in 0..MaxReads
    BY DEF TypeOK, CountTypeOK
  <1>6. LeftByEnded(q)' /\ LeavesOnlyIf(q)'
    BY <1>1, <1>5 DEF Kept, LeftByEnded, LeavesOnlyIf
  <1> QED
    BY <1>2, <1>3, <1>4, <1>6 DEF Kept

\* The end of a read: the temporaries it has are those it leaves.
LEMMA EndKept ==
    ASSUME TypeOK, NEW p \in Reader, NEW how, End(p, how), UNCHANGED <<req, nreads>>,
           pc[p] # "idle", LeftByEnded(p),
           how = "error" => Excused(p)',
           \A i \in Part : temp[p][i] # Absent =>
              \/ how = "killed"
              \/ req[p] \in PairRead /\ how = "error" /\ (p \in cleared \cup faulted)'
    PROVE  Kept(p)'
  <1>1. /\ pc'[p] = "idle" /\ out'[p] = how /\ temp'[p] = NoTemps
        /\ orphan' = orphan \cup {<<p, nreads[p], i>> : i \in {j \in Part : temp[p][j] # Absent}}
    BY DEF End, GoTo, TypeOK, DiskTypeOK, ReaderTypeOK, CountTypeOK
  <1>2. ~Excused(p)' => Secure(p)'
    BY <1>1 DEF Secure
  <1>3. Tidy(p)'
    BY <1>1 DEF Tidy, NoTemps
  <1>4. nreads[p] \in 0..MaxReads
    BY DEF TypeOK, CountTypeOK
  <1>5. ASSUME NEW n, NEW i \in Part, <<p, n, i>> \in orphan'
        PROVE  <<p, n, i>> \in orphan \/ (n = nreads[p] /\ temp[p][i] # Absent)
    <2>1. SUFFICES ASSUME <<p, n, i>> \notin orphan
                   PROVE  n = nreads[p] /\ temp[p][i] # Absent
      OBVIOUS
    <2>2. PICK j \in {k \in Part : temp[p][k] # Absent} : <<p, n, i>> = <<p, nreads[p], j>>
      BY <1>1, <1>5, <2>1
    <2>3. n = nreads[p] /\ i = j
      BY <2>2
    <2> QED
      BY <2>2, <2>3
  <1>6. LeftByEnded(p)'
    <2>1. ASSUME NEW i \in Part, NEW n \in 0..MaxReads, <<p, n, i>> \in orphan'
          PROVE  n <= nreads[p]
      <3>1. <<p, n, i>> \in orphan \/ n = nreads[p]
        BY <1>5, <2>1
      <3>2. nreads[p] <= nreads[p]
        BY <1>4, CacheAssumption
      <3> QED
        BY <3>1, <3>2 DEF LeftByEnded
    <2> QED
      BY <1>1, <2>1 DEF LeftByEnded
  <1>7. LeavesOnlyIf(p)'
    <2>1. SUFFICES ASSUME NEW i \in Part, <<p, nreads[p], i>> \in orphan'
                   PROVE  \/ how = "killed"
                          \/ /\ req[p] \in PairRead /\ how = "error"
                             /\ (p \in cleared \cup faulted)'
      BY <1>1 DEF LeavesOnlyIf
    <2>2. temp[p][i] # Absent
      BY <1>5, <2>1 DEF LeftByEnded
    <2> QED
      BY <2>2
  <1> QED
    BY <1>2, <1>3, <1>6, <1>7 DEF Kept

\* Within a read nothing is left behind yet.
LEMMA GoesOn ==
    ASSUME NEW p \in Reader, UNCHANGED <<orphan, nreads>>, pc[p] # "idle", pc'[p] # "idle",
           LeftByEnded(p)
    PROVE  LeftByEnded(p)' /\ LeavesOnlyIf(p)'
  BY DEF LeftByEnded, LeavesOnlyIf


\* A step of a reader keeps its own account.
LEMMA OwnKept ==
    ASSUME CacheInv, NEW p \in Reader, Kept(p),
           ReadStep(p) \/ MkTempFails(p) \/ BuildFails(p) \/ Kill(p)
    PROVE  Kept(p)'
  <1> USE DEF Part
  <1>t. /\ TypeOK /\ KeysOK /\ CleanOK /\ at[p] \in 1..NumParts(req[p])
        /\ NumParts(req[p]) \in 1..2 /\ nreads[p] \in 0..MaxReads /\ LeftByEnded(p)
    BY LoopFacts, NumPartsFacts DEF CacheInv, TypeOK, CountTypeOK, Kept
  <1>u. temp \in [Reader -> [Part -> Content]] /\ result \in [File -> Content]
    BY <1>t DEF TypeOK, DiskTypeOK
  <1>v. /\ pc \in [Reader -> Phase] /\ at \in [Reader -> Part] /\ out \in [Reader -> Outcome]
        /\ seen[p] \in SUBSET Version /\ req[p] \in Read
    BY <1>t DEF TypeOK, ReaderTypeOK
  <1>1. ASSUME Stat(p) PROVE Kept(p)'
    <2>1. /\ UNCHANGED <<req, orphan, nreads, dirty, cleared, faulted, temp, out>>
          /\ pc[p] = "stat" /\ pc'[p] \in {"stat", "marker"}
      BY <1>1, <1>u, <1>v DEF Stat, Advance, GoTo, world, historyVars, cacheVars,
         boundVars, allButPc
    <2>2. ~Excused(p)' => Secure(p)'
      BY <2>1 DEF Kept, Secure, Excused
    <2>3. Tidy(p)'
      BY <2>1, <1>t DEF Kept, Tidy, NoTempAt
    <2> QED
      BY <2>1, <2>2, <2>3, <1>t, GoesOn DEF Kept
  <1>2. ASSUME MarkerFound(p) PROVE Kept(p)'
    <2>1. /\ End(p, "empty") /\ UNCHANGED <<req, nreads>> /\ pc[p] # "idle"
          /\ pc[p] = "marker"
      BY <1>2, <1>u DEF MarkerFound, Use, GoTo, world, historyVars, cacheVars,
         boundVars, allButPc
    <2>2. \A i \in Part : temp[p][i] = Absent
      BY <2>1, <1>t DEF Kept, Tidy, NoTempAt
    <2>3. TRUE
      OBVIOUS
    <2> QED
      BY <2>1, <2>2, <2>3, <1>t, EndKept
  <1>3. ASSUME MarkerMissing(p) PROVE Kept(p)'
    <2>1. /\ UNCHANGED <<req, key, orphan, nreads, dirty, cleared, faulted>>
          /\ UNCHANGED <<temp, result, out>>
          /\ pc[p] = "marker" /\ pc'[p] = "exists" /\ at'[p] = 1
      BY <1>3, <1>u, <1>v DEF MarkerMissing, GoTo, world, historyVars, cacheVars,
         boundVars, allButPc
    <2>2. ~Excused(p)' => Secure(p)'
      BY <2>1 DEF Kept, Secure, Excused
    <2>3. Tidy(p)'
      BY <2>1, <1>t DEF Kept, Tidy, NoTempAt
    <2> QED
      BY <2>1, <2>2, <2>3, <1>t, GoesOn DEF Kept
  <1>4. ASSUME CheckExists(p) PROVE Kept(p)'
    <2>1. /\ UNCHANGED <<req, key, orphan, nreads, dirty, cleared, faulted>>
          /\ UNCHANGED <<temp, result, out>>
          /\ pc[p] = "exists"
          /\ \/ pc'[p] = "mktemp" /\ at'[p] = 1
             \/ /\ result[FileOf(p, at[p])] # Absent
                /\ \/ pc'[p] = "exists" /\ at'[p] = at[p] + 1
                   \/ pc'[p] = "load" /\ at'[p] = at[p]
      BY <1>4, <1>u, <1>v DEF CheckExists, Advance, Last, GoTo, world, historyVars,
         cacheVars, boundVars, allButPc
    <2>2. ~Excused(p)' => Secure(p)'
      <3>1. \A i : FileOf(p, i)' = FileOf(p, i)
        BY <2>1 DEF FileOf
      <3> QED
        BY <2>1, <3>1, <1>t DEF Kept, Secure, Excused
    <2>3. Tidy(p)'
      BY <2>1, <1>t DEF Kept, Tidy, NoTempAt
    <2> QED
      BY <2>1, <2>2, <2>3, <1>t, GoesOn DEF Kept
  <1>5. ASSUME MkTemp(p) PROVE Kept(p)'
    <2>1. /\ UNCHANGED <<req, key, orphan, nreads, dirty, cleared, faulted>>
          /\ UNCHANGED <<result, out>>
          /\ pc[p] = "mktemp"
          /\ \A i \in Part : i # at[p] => temp'[p][i] = temp[p][i]
          /\ \/ pc'[p] = "mktemp" /\ at'[p] = at[p] + 1
             \/ pc'[p] = "index" /\ at'[p] = 1
      BY <1>5, <1>u, <1>v DEF MkTemp, Advance, Last, GoTo, world, historyVars,
         cacheVars, boundVars, allButPc
    <2>2. ~Excused(p)' => Secure(p)'
      BY <2>1 DEF Kept, Secure, Excused
    <2>3. Tidy(p)'
      BY <2>1, <1>t DEF Kept, Tidy, NoTempAt
    <2> QED
      BY <2>1, <2>2, <2>3, <1>t, GoesOn DEF Kept
  <1>6. ASSUME Index(p) PROVE Kept(p)'
    <2>1. /\ UNCHANGED <<req, key, orphan, nreads, dirty, cleared, faulted>>
          /\ UNCHANGED <<temp, result, out>>
          /\ pc[p] = "index" /\ pc'[p] = "decode" /\ at'[p] = 1
      BY <1>6, <1>u, <1>v DEF Index, GoTo, world, historyVars, cacheVars, boundVars,
         allButPc
    <2>2. ~Excused(p)' => Secure(p)'
      BY <2>1 DEF Kept, Secure, Excused
    <2>3. Tidy(p)'
      BY <2>1, <1>t DEF Kept, Tidy, NoTempAt
    <2> QED
      BY <2>1, <2>2, <2>3, <1>t, GoesOn DEF Kept
  <1>7. ASSUME DecodeEmpty(p) PROVE Kept(p)'
    <2>1. /\ UNCHANGED <<req, key, orphan, nreads, dirty, cleared, faulted>>
          /\ UNCHANGED <<temp, result, out>>
          /\ pc[p] = "decode" /\ pc'[p] = "touch" /\ at'[p] = 1
      BY <1>7, <1>u, <1>v DEF DecodeEmpty, DecodeTo, GoTo, world, historyVars,
         cacheVars, boundVars, allButPc
    <2>2. ~Excused(p)' => Secure(p)'
      BY <2>1 DEF Kept, Secure, Excused
    <2>3. Tidy(p)'
      BY <2>1, <1>t DEF Kept, Tidy, NoTempAt
    <2> QED
      BY <2>1, <2>2, <2>3, <1>t, GoesOn DEF Kept
  <1>8. ASSUME DecodeRows(p) PROVE Kept(p)'
    <2>1. /\ UNCHANGED <<req, key, orphan, nreads, dirty, cleared, faulted>>
          /\ UNCHANGED <<temp, result, out>>
          /\ pc[p] = "decode" /\ pc'[p] = "open" /\ at'[p] = 1
      BY <1>8, <1>u, <1>v DEF DecodeRows, DecodeTo, GoTo, world, historyVars,
         cacheVars, boundVars, allButPc
    <2>2. ~Excused(p)' => Secure(p)'
      BY <2>1, <1>t DEF Kept, Secure, Excused
    <2>3. Tidy(p)'
      BY <2>1, <1>t DEF Kept, Tidy, NoTempAt
    <2> QED
      BY <2>1, <2>2, <2>3, <1>t, GoesOn DEF Kept
  <1>9. ASSUME DecodeFails(p) PROVE Kept(p)'
    <2>1. /\ UNCHANGED <<req, key, orphan, nreads, dirty, cleared, faulted>>
          /\ UNCHANGED <<temp, result>>
          /\ pc[p] = "decode" /\ pc'[p] = "check" /\ at'[p] = 1
          /\ src \notin seen[p]
      BY <1>9, <1>u, <1>v DEF DecodeFails, GoTo, world, historyVars, cacheVars,
         boundVars, allButPc
    <2>2. ~Excused(p)' => Secure(p)'
      <3>1. p \in dirty
        BY <2>1, <1>t DEF CleanOK
      <3> QED
        BY <2>1, <3>1 DEF Excused
    <2>3. Tidy(p)'
      BY <2>1, <1>t DEF Kept, Tidy, NoTempAt
    <2> QED
      BY <2>1, <2>2, <2>3, <1>t, GoesOn DEF Kept
  <1>10. ASSUME Touch(p) PROVE Kept(p)'
    <2>1. /\ UNCHANGED <<req, key, orphan, nreads, dirty, cleared, faulted>>
          /\ UNCHANGED <<temp, result>>
          /\ pc[p] = "touch" /\ pc'[p] = "check" /\ at'[p] = 1 /\ out'[p] = "empty"
      BY <1>10, <1>u, <1>v DEF Touch, Publish, GoTo, world, historyVars, cacheVars,
         boundVars, allButPc
    <2>2. ~Excused(p)' => Secure(p)'
      BY <2>1 DEF Kept, Secure, Excused
    <2>3. Tidy(p)'
      BY <2>1, <1>t DEF Kept, Tidy, NoTempAt
    <2> QED
      BY <2>1, <2>2, <2>3, <1>t, GoesOn DEF Kept
  <1>11. ASSUME OpenTemp(p) PROVE Kept(p)'
    <2>1. /\ UNCHANGED <<req, key, orphan, nreads, dirty, cleared, faulted>>
          /\ UNCHANGED <<result, out>>
          /\ pc[p] = "open" /\ pc'[p] = "close" /\ at'[p] = at[p]
          /\ temp'[p][at[p]] = Partial
          /\ \A i \in Part : i # at[p] => temp'[p][i] = temp[p][i]
      BY <1>11, <1>u, <1>v DEF OpenTemp, GoTo, world, historyVars, cacheVars,
         boundVars, allButPc
    <2>2. ~Excused(p)' => Secure(p)'
      BY <2>1, <1>t, ContentFacts DEF Kept, Secure, Excused
    <2>3. Tidy(p)'
      BY <2>1, <1>t DEF Kept, Tidy, NoTempAt
    <2> QED
      BY <2>1, <2>2, <2>3, <1>t, GoesOn DEF Kept
  <1>12. ASSUME CloseTemp(p) PROVE Kept(p)'
    <2>1. /\ UNCHANGED <<req, key, orphan, nreads, dirty, cleared, faulted>>
          /\ UNCHANGED <<result, out>>
          /\ pc[p] = "close"
          /\ temp'[p][at[p]] \in {temp[p][at[p]], Full(seen[p], req[p], at[p])}
          /\ \A i \in Part : i # at[p] => temp'[p][i] = temp[p][i]
          /\ \/ pc'[p] = "open" /\ at'[p] = at[p] + 1
             \/ pc'[p] = "replace" /\ at'[p] = 1 /\ at[p] = NumParts(req[p])
      BY <1>12, <1>u, <1>v DEF CloseTemp, Advance, Last, GoTo, world, historyVars,
         cacheVars, boundVars, allButPc
    <2>2. ~Excused(p)' => Secure(p)'
      <3>1. Full(seen[p], req[p], at[p]) # Absent
        BY <1>t, <1>v, ContentFacts
      <3>2. ~Excused(p)' => Secure(p)
        BY <2>1 DEF Kept, Excused
      <3>3. ~Excused(p)' => \A i \in 1..NumParts(req[p]) : i <= at[p] => temp'[p][i] # Absent
        BY <2>1, <3>1, <3>2, <1>t DEF Secure
      <3> QED
        BY <2>1, <3>2, <3>3, <1>t DEF Secure
    <2>3. Tidy(p)'
      BY <2>1, <1>t DEF Kept, Tidy, NoTempAt
    <2> QED
      BY <2>1, <2>2, <2>3, <1>t, GoesOn DEF Kept
  <1>13. ASSUME Replace(p) PROVE Kept(p)'
    <2>1. /\ UNCHANGED <<req, key, orphan, nreads, dirty, cleared, faulted>>
          /\ pc[p] = "replace" /\ temp[p][at[p]] # Absent
          /\ result' = [result EXCEPT ![FileOf(p, at[p])] = temp[p][at[p]]]
          /\ temp'[p][at[p]] = Absent
          /\ \A i \in Part : i # at[p] => temp'[p][i] = temp[p][i]
          /\ \/ pc'[p] = "replace" /\ at'[p] = at[p] + 1 /\ out'[p] = out[p]
             \/ /\ pc'[p] = "check" /\ at'[p] = 1 /\ at[p] = NumParts(req[p])
                /\ out'[p] = "frames"
      BY <1>13, <1>u, <1>v DEF Replace, Publish, Last, GoTo, world, historyVars,
         cacheVars, boundVars, allButPc
    <2>2. ~Excused(p)' => Secure(p)'
      <3>1. \A i : FileOf(p, i)' = FileOf(p, i)
        BY <2>1 DEF FileOf
      <3>2. \A i \in 1..NumParts(req[p]) : FileOf(p, i) \in File
        BY <2>1, <1>t, FileFacts
      <3>3. \A i \in 1..NumParts(req[p]) : i = at[p] \/ result[FileOf(p, i)] # Absent
                                            => result'[FileOf(p, i)] # Absent
        BY <2>1, <3>2, <1>t, <1>u
      <3>4. ~Excused(p)' => Secure(p)
        BY <2>1 DEF Kept, Excused
      <3> QED
        BY <2>1, <3>1, <3>3, <3>4, <1>t DEF Secure
    <2>3. Tidy(p)'
      BY <2>1, <1>t DEF Kept, Tidy, NoTempAt
    <2> QED
      BY <2>1, <2>2, <2>3, <1>t, GoesOn DEF Kept
  <1>14. ASSUME ReplaceFails(p) PROVE Kept(p)'
    <2>1. /\ UNCHANGED <<req, key, orphan, nreads, dirty, cleared, faulted>>
          /\ UNCHANGED <<temp, result>>
          /\ pc[p] = "replace" /\ temp[p][at[p]] = Absent
          /\ pc'[p] = "check" /\ at'[p] = 1
      BY <1>14, <1>u, <1>v DEF ReplaceFails, GoTo, world, historyVars, cacheVars,
         boundVars, allButPc
    <2>2. ~Excused(p)' => Secure(p)'
      BY <2>1, <1>t DEF Kept, Secure, Excused
    <2>3. Tidy(p)'
      BY <2>1, <1>t DEF Kept, Tidy, NoTempAt
    <2> QED
      BY <2>1, <2>2, <2>3, <1>t, GoesOn DEF Kept
  <1>15. ASSUME TempThere(p) PROVE Kept(p)'
    <2>1. /\ UNCHANGED <<req, key, orphan, nreads, dirty, cleared, faulted>>
          /\ UNCHANGED <<temp, result, out>>
          /\ pc[p] = "check" /\ temp[p][at[p]] # Absent
          /\ pc'[p] = "unlink" /\ at'[p] = at[p]
      BY <1>15, <1>u, <1>v DEF TempThere, GoTo, world, historyVars, cacheVars,
         boundVars, allButPc
    <2>2. ~Excused(p)' => Secure(p)'
      <3>1. \A i : FileOf(p, i)' = FileOf(p, i)
        BY <2>1 DEF FileOf
      <3> QED
        BY <2>1, <3>1, <1>t DEF Kept, Secure, Excused
    <2>3. Tidy(p)'
      BY <2>1, <1>t DEF Kept, Tidy, NoTempAt
    <2> QED
      BY <2>1, <2>2, <2>3, <1>t, GoesOn DEF Kept
  <1>16. ASSUME TempGone(p) PROVE Kept(p)'
    <2>1. /\ UNCHANGED <<req, key, nreads, dirty, cleared, faulted, result>>
          /\ pc[p] = "check" /\ temp[p][at[p]] = Absent
      BY <1>16 DEF TempGone, world, historyVars, boundVars
    <2>2. CASE Last(p) /\ out[p] # "frames"
      <3>1. End(p, out[p])
        BY <1>16, <2>2 DEF TempGone
      <3>2. \A i \in Part : temp[p][i] = Absent
        BY <2>1, <2>2, <1>t DEF Kept, Tidy, NoTempAt, Last
      <3>3. out[p] = "error" => Excused(p)'
        BY <2>1 DEF Kept, Secure, Excused
      <3> QED
        BY <2>1, <3>1, <3>2, <3>3, <1>t, EndKept
    <2>3. CASE ~(Last(p) /\ out[p] # "frames")
      <3>1. /\ UNCHANGED <<temp, orphan, out>>
            /\ \/ pc'[p] = "check" /\ at'[p] = at[p] + 1
               \/ /\ pc'[p] = "load" /\ at'[p] = at[p]
                  /\ at[p] = NumParts(req[p]) /\ out[p] = "frames"
        BY <1>16, <2>3, <1>v DEF TempGone, GoTo, Last
      <3>2. \A i : FileOf(p, i)' = FileOf(p, i)
        BY <2>1 DEF FileOf
      <3>3. ~Excused(p)' => Secure(p)'
        BY <2>1, <3>1, <3>2, <1>t DEF Kept, Secure, Excused
      <3>4. Tidy(p)'
        BY <2>1, <3>1, <1>t DEF Kept, Tidy, NoTempAt
      <3> QED
        BY <2>1, <3>1, <3>3, <3>4, <1>t, GoesOn DEF Kept
    <2> QED
      BY <2>2, <2>3
  <1>17. ASSUME Unlink(p) PROVE Kept(p)'
    <2>1. /\ UNCHANGED <<req, key, orphan, nreads, dirty, cleared, faulted>>
          /\ UNCHANGED <<result, out>>
          /\ pc[p] = "unlink" /\ pc'[p] = "check" /\ at'[p] = at[p]
          /\ temp'[p][at[p]] = Absent
          /\ \A i \in Part : i # at[p] => temp'[p][i] = temp[p][i]
      BY <1>17, <1>u, <1>v DEF Unlink, GoTo, world, historyVars, cacheVars,
         boundVars, allButPc
    <2>2. ~Excused(p)' => Secure(p)'
      <3>1. \A i : FileOf(p, i)' = FileOf(p, i)
        BY <2>1 DEF FileOf
      <3> QED
        BY <2>1, <3>1, <1>t DEF Kept, Secure, Excused
    <2>3. Tidy(p)'
      BY <2>1, <1>t DEF Kept, Tidy, NoTempAt
    <2> QED
      BY <2>1, <2>2, <2>3, <1>t, GoesOn DEF Kept
  <1>18. ASSUME UnlinkFails(p) PROVE Kept(p)'
    <2>1. /\ End(p, "error") /\ UNCHANGED <<req, nreads>> /\ pc[p] # "idle"
          /\ UNCHANGED <<cleared, dirty, faulted>>
          /\ pc[p] = "unlink" /\ temp[p][at[p]] = Absent
      BY <1>18, <1>u DEF UnlinkFails, GoTo, world, historyVars, cacheVars,
         boundVars, allButPc
    <2>2. p \in cleared' /\ Excused(p)'
      BY <2>1 DEF Kept, Tidy, Excused
    <2>3. \A i \in Part : temp[p][i] # Absent => req[p] \in PairRead
      <3>1. \A i \in Part : temp[p][i] # Absent => i <= NumParts(req[p]) /\ i > at[p]
        BY <2>1, <1>t DEF Kept, Tidy, NoTempAt
      <3> QED
        BY <3>1, <1>t DEF NumParts
    <2> QED
      BY <2>1, <2>2, <2>3, <1>t, EndKept
  <1>19. ASSUME Load(p) PROVE Kept(p)'
    <2>1. /\ UNCHANGED <<req, key, nreads, dirty, cleared, faulted, result>>
          /\ pc[p] = "load"
      BY <1>19 DEF Load, Use, world, boundVars
    <2>2. CASE at[p] = 1
      <3>1. End(p, "frames")
        BY <1>19, <2>2 DEF Load
      <3>2. \A i \in Part : temp[p][i] = Absent
        BY <2>1, <1>t DEF Kept, Tidy, NoTempAt
      <3> QED
        BY <2>1, <3>1, <3>2, <1>t, EndKept
    <2>3. CASE at[p] # 1
      <3>1. UNCHANGED <<temp, orphan, out>> /\ pc'[p] = "load" /\ at'[p] = at[p] - 1
        BY <1>19, <2>3, <1>v DEF Load, GoTo
      <3>2. \A i : FileOf(p, i)' = FileOf(p, i)
        BY <2>1 DEF FileOf
      <3>3. ~Excused(p)' => Secure(p)'
        BY <2>1, <3>1, <3>2, <1>t DEF Kept, Secure, Excused
      <3>4. Tidy(p)'
        BY <2>1, <3>1, <1>t DEF Kept, Tidy, NoTempAt
      <3> QED
        BY <2>1, <3>1, <3>3, <3>4, <1>t, GoesOn DEF Kept
    <2> QED
      BY <2>2, <2>3
  <1>20. ASSUME LoadFails(p) PROVE Kept(p)'
    <2>1. /\ End(p, "error") /\ UNCHANGED <<req, nreads>> /\ pc[p] # "idle"
          /\ UNCHANGED <<cleared, dirty, faulted>>
          /\ pc[p] = "load" /\ result[FileOf(p, at[p])] = Absent
      BY <1>20, <1>u DEF LoadFails, GoTo, world, historyVars, cacheVars, boundVars,
         allButPc
    <2>2. Excused(p)'
      BY <2>1, <1>t DEF Kept, Secure, Excused
    <2>3. \A i \in Part : temp[p][i] = Absent
      BY <2>1, <1>t DEF Kept, Tidy, NoTempAt
    <2> QED
      BY <2>1, <2>2, <2>3, <1>t, EndKept
  <1>21. ASSUME MkTempFails(p) PROVE Kept(p)'
    <2>1. /\ End(p, "error") /\ UNCHANGED <<req, nreads>> /\ pc[p] # "idle"
          /\ p \in faulted' /\ pc[p] = "mktemp"
      BY <1>21, <1>u DEF MkTempFails, Fault, GoTo, world, historyVars, cacheVars,
         boundVars, allButPc
    <2>2. p \in (cleared \cup faulted)' /\ Excused(p)'
      BY <2>1 DEF Excused
    <2>3. \A i \in Part : temp[p][i] # Absent => req[p] \in PairRead
      <3>1. \A i \in Part : temp[p][i] # Absent => i < at[p]
        BY <2>1, <1>t DEF Kept, Tidy, NoTempAt
      <3> QED
        BY <3>1, <1>t DEF NumParts
    <2> QED
      BY <2>1, <2>2, <2>3, <1>t, EndKept
  <1>22. ASSUME BuildFails(p) PROVE Kept(p)'
    <2>1. /\ UNCHANGED <<req, orphan, nreads, temp>> /\ p \in faulted'
          /\ pc[p] # "idle" /\ pc'[p] = "check" /\ at'[p] = 1
      BY <1>22, <1>u, <1>v DEF BuildFails, Fault, GoTo, world, historyVars,
         cacheVars, boundVars, allButPc
    <2>2. ~Excused(p)' => Secure(p)'
      BY <2>1 DEF Kept, Secure, Excused
    <2>3. Tidy(p)'
      BY <2>1, <1>t DEF Kept, Tidy, NoTempAt
    <2> QED
      BY <2>1, <2>2, <2>3, <1>t, GoesOn DEF Kept
  <1>23. ASSUME Kill(p) PROVE Kept(p)'
    <2>1. /\ End(p, "killed") /\ UNCHANGED <<req, nreads>> /\ pc[p] # "idle"
          /\ TRUE
      BY <1>23, <1>u DEF Kill, Fault, GoTo, world, historyVars, cacheVars,
         boundVars, allButPc
    <2>2. TRUE
      OBVIOUS
    <2>3. TRUE
      OBVIOUS
    <2> QED
      BY <2>1, <2>2, <2>3, <1>t, EndKept
  <1> QED
    BY <1>1, <1>2, <1>3, <1>4, <1>5, <1>6, <1>7, <1>8, <1>9, <1>10, <1>11, <1>12,
       <1>13, <1>14, <1>15, <1>16, <1>17, <1>18, <1>19, <1>20, <1>21, <1>22, <1>23
       DEF ReadStep

\* A step of a reader leaves the accounts of the others alone.
LEMMA StepsAside ==
    ASSUME CacheInv, NEW p \in Reader,
           ReadStep(p) \/ MkTempFails(p) \/ BuildFails(p) \/ Kill(p)
    PROVE  Aside(p)
  <1>t. TypeOK /\ KeysOK
    BY DEF CacheInv
  <1>u. /\ pc \in [Reader -> Phase] /\ at \in [Reader -> Part] /\ out \in [Reader -> Outcome]
        /\ key \in [Reader -> Seq(Version)]
        /\ temp \in [Reader -> [Part -> Content]] /\ result \in [File -> Content]
    BY <1>t DEF TypeOK, ReaderTypeOK, DiskTypeOK
  <1>1. Stat(p) => Aside(p)
    BY <1>u DEF Aside, Stat, Advance, GoTo, world, historyVars, cacheVars,
       boundVars, allButPc
  <1>2. MarkerFound(p) => Aside(p)
    BY <1>u DEF Aside, MarkerFound, Use, End, GoTo, world, historyVars, cacheVars,
       boundVars, allButPc
  <1>3. MarkerMissing(p) => Aside(p)
    BY <1>u DEF Aside, MarkerMissing, GoTo, world, historyVars, cacheVars,
       boundVars, allButPc
  <1>4. CheckExists(p) => Aside(p)
    BY <1>u DEF Aside, CheckExists, Advance, GoTo, world, historyVars, cacheVars,
       boundVars, allButPc
  <1>5. MkTemp(p) => Aside(p)
    BY <1>u DEF Aside, MkTemp, Advance, GoTo, world, historyVars, cacheVars,
       boundVars, allButPc
  <1>6. Index(p) => Aside(p)
    BY <1>u DEF Aside, Index, GoTo, world, historyVars, cacheVars, boundVars,
       allButPc
  <1>7. DecodeEmpty(p) => Aside(p)
    BY <1>u DEF Aside, DecodeEmpty, DecodeTo, GoTo, world, historyVars, cacheVars,
       boundVars, allButPc
  <1>8. DecodeRows(p) => Aside(p)
    BY <1>u DEF Aside, DecodeRows, DecodeTo, GoTo, world, historyVars, cacheVars,
       boundVars, allButPc
  <1>9. DecodeFails(p) => Aside(p)
    BY <1>u DEF Aside, DecodeFails, GoTo, world, historyVars, cacheVars, boundVars,
       allButPc
  <1>10. Touch(p) => Aside(p)
    BY <1>u DEF Aside, Touch, Publish, GoTo, world, historyVars, cacheVars,
       boundVars, allButPc
  <1>11. OpenTemp(p) => Aside(p)
    BY <1>u DEF Aside, OpenTemp, GoTo, world, historyVars, cacheVars, boundVars,
       allButPc
  <1>12. CloseTemp(p) => Aside(p)
    BY <1>u DEF Aside, CloseTemp, Advance, GoTo, world, historyVars, cacheVars,
       boundVars, allButPc
  <1>13. Replace(p) => Aside(p)
    <2>1. SUFFICES ASSUME Replace(p) PROVE Aside(p)
      OBVIOUS
    <2>2. FileOf(p, at[p]) \in File
      BY <2>1, <1>t, FileFacts, LoopFacts DEF Replace
    <2>3. \A f \in File : result[f] # Absent => result'[f] # Absent
      BY <2>1, <2>2, <1>u DEF Replace
    <2> QED
      BY <2>1, <2>3, <1>u DEF Aside, Replace, Publish, GoTo, world, historyVars,
         cacheVars, boundVars, allButPc
  <1>14. ReplaceFails(p) => Aside(p)
    BY <1>u DEF Aside, ReplaceFails, GoTo, world, historyVars, cacheVars, boundVars,
       allButPc
  <1>15. TempThere(p) => Aside(p)
    BY <1>u DEF Aside, TempThere, GoTo, world, historyVars, cacheVars, boundVars,
       allButPc
  <1>16. TempGone(p) => Aside(p)
    BY <1>u DEF Aside, TempGone, End, GoTo, world, historyVars, cacheVars,
       boundVars, allButPc
  <1>17. Unlink(p) => Aside(p)
    BY <1>u DEF Aside, Unlink, GoTo, world, historyVars, cacheVars, boundVars,
       allButPc
  <1>18. UnlinkFails(p) => Aside(p)
    BY <1>u DEF Aside, UnlinkFails, End, GoTo, world, historyVars, cacheVars,
       boundVars, allButPc
  <1>19. Load(p) => Aside(p)
    BY <1>u DEF Aside, Load, Use, End, GoTo, world, historyVars, cacheVars,
       boundVars, allButPc
  <1>20. LoadFails(p) => Aside(p)
    BY <1>u DEF Aside, LoadFails, End, GoTo, world, historyVars, cacheVars,
       boundVars, allButPc
  <1>21. MkTempFails(p) => Aside(p)
    BY <1>u DEF Aside, MkTempFails, Fault, End, GoTo, world, historyVars, cacheVars,
       boundVars, allButPc
  <1>22. BuildFails(p) => Aside(p)
    BY <1>u DEF Aside, BuildFails, Fault, GoTo, world, historyVars, cacheVars,
       boundVars, allButPc
  <1>23. Kill(p) => Aside(p)
    BY <1>u DEF Aside, Kill, Fault, End, GoTo, world, historyVars, cacheVars,
       boundVars, allButPc
  <1> QED
    BY <1>1, <1>2, <1>3, <1>4, <1>5, <1>6, <1>7, <1>8, <1>9, <1>10, <1>11, <1>12,
       <1>13, <1>14, <1>15, <1>16, <1>17, <1>18, <1>19, <1>20, <1>21, <1>22, <1>23
       DEF ReadStep

LEMMA StartKept ==
    ASSUME CacheInv, NEW p \in Reader, NEW r \in Read, Start(p, r), \A q \in Reader : Kept(q)
    PROVE  \A q \in Reader : Kept(q)'
  <1>t. TypeOK /\ KeysOK /\ nreads[p] \in 0..MaxReads
    BY DEF CacheInv, TypeOK, CountTypeOK
  <1>1. /\ pc[p] = "idle" /\ pc'[p] = "stat" /\ out'[p] = "none" /\ UNCHANGED <<temp, orphan>>
        /\ nreads'[p] = nreads[p] + 1 /\ nreads[p] < MaxReads
    BY <1>t DEF Start, GoTo, cacheVars, TypeOK, DiskTypeOK, ReaderTypeOK,
       CountTypeOK
  <1>2. Aside(p)
    BY <1>t DEF Aside, Start, GoTo, cacheVars, TypeOK, DiskTypeOK, ReaderTypeOK,
       CountTypeOK
  <1>3. Tidy(p)'
    BY <1>1 DEF Kept, Tidy, NoTempAt
  <1>4. Secure(p)'
    BY <1>1 DEF Secure
  <1>5. LeftByEnded(p)' /\ LeavesOnlyIf(p)'
    <2>1. nreads[p] + 1 \in 0..MaxReads /\ ~(nreads[p] + 1 <= nreads[p])
      BY <1>1, <1>t, CacheAssumption
    <2>2. \A i \in Part : <<p, nreads[p] + 1, i>> \notin orphan
      BY <2>1 DEF Kept, LeftByEnded
    <2>3. \A n \in 0..MaxReads : n <= nreads[p] => n <= nreads[p] + 1
      BY <1>t, CacheAssumption
    <2> QED
      BY <1>1, <2>2, <2>3 DEF Kept, LeftByEnded, LeavesOnlyIf
  <1>6. Kept(p)'
    BY <1>3, <1>4, <1>5 DEF Kept
  <1> QED
    BY <1>2, <1>6, <1>t, OthersKept

\* A clear that removes a file of a read excuses that read.
LEMMA ClearKept ==
    ASSUME CacheInv, NEW c \in Clearer, ClearUnlink(c), NEW q \in Reader, Kept(q)
    PROVE  Kept(q)'
  <1> DEFINE e == cur[c]
  <1>t. TypeOK /\ KeysOK
    BY DEF CacheInv
  <1>1. /\ UNCHANGED <<pc, at, req, key, out, nreads, dirty, faulted>>
        /\ cleared' = cleared \cup UsersOf(e)
        /\ result' = [f \in File |-> IF e = ResultEntry(f) THEN Absent ELSE result[f]]
        /\ orphan' \subseteq orphan
    BY DEF ClearUnlink, readVars, boundVars
  <1>2. \A i \in Part : temp'[q][i] = IF e = TempEntry(q, nreads[q], i) THEN Absent
                                     ELSE temp[q][i]
    BY DEF ClearUnlink
  <1>3. ASSUME q \notin cleared', pc[q] # "idle"
        PROVE  /\ \A i \in Part : temp'[q][i] = temp[q][i]
               /\ \A i \in DOMAIN key[q] : e # ResultEntry(FileOf(q, i))
    BY <1>1, <1>2, <1>3 DEF UsersOf
  <1>4. ~Excused(q)' => Secure(q)'
    <2>1. SUFFICES ASSUME ~Excused(q)' PROVE Secure(q)'
      OBVIOUS
    <2>2. Secure(q) /\ q \notin cleared'
      BY <1>1, <2>1 DEF Kept, Excused
    <2>3. \A i : FileOf(q, i)' = FileOf(q, i)
      BY <1>1 DEF FileOf
    <2>4. ASSUME NEW i \in 1..NumParts(req[q]), pc[q] \notin {"idle", "stat"}
          PROVE  result'[FileOf(q, i)] = result[FileOf(q, i)] /\ temp'[q][i] = temp[q][i]
      <3>1. FileOf(q, i) \in File /\ i \in DOMAIN key[q]
        BY <1>t, <2>4, FileFacts
      <3>2. i \in Part
        BY NumPartsFacts DEF Part
      <3> QED
        BY <1>1, <1>3, <2>2, <2>4, <3>1, <3>2
    <2> QED
      BY <1>1, <2>2, <2>3, <2>4 DEF Secure
  <1>5. Tidy(q)'
    <2>1. at[q] \in Part
      BY <1>t DEF TypeOK, ReaderTypeOK
    <2>2. cleared \subseteq cleared'
      BY <1>1
    <2> QED
      BY <1>1, <1>2, <1>3, <2>1, <2>2 DEF Kept, Tidy, NoTempAt
  <1>6. LeftByEnded(q)' /\ LeavesOnlyIf(q)'
    BY <1>1 DEF Kept, LeftByEnded, LeavesOnlyIf
  <1> QED
    BY <1>4, <1>5, <1>6 DEF Kept

\* A step that leaves the directory and the readers alone keeps every account.
LEMMA QuietKept ==
    ASSUME NEW q \in Reader, Kept(q), UNCHANGED <<cacheVars, readVars, nreads>>,
           dirty \subseteq dirty', UNCHANGED <<cleared, faulted>>
    PROVE  Kept(q)'
  <1>1. UNCHANGED <<result, temp, orphan, pc, at, req, key, out>>
    BY DEF cacheVars, readVars
  <1>2. Excused(q) => Excused(q)'
    BY DEF Excused
  <1>3. Secure(q)' <=> Secure(q)
    BY <1>1 DEF Secure, FileOf
  <1>4. Tidy(q)' /\ LeftByEnded(q)' /\ LeavesOnlyIf(q)'
    BY <1>1 DEF Kept, Tidy, NoTempAt, LeftByEnded, LeavesOnlyIf
  <1> QED
    BY <1>2, <1>3, <1>4 DEF Kept

LEMMA KeptStep ==
    ASSUME CacheInv, [Next]_vars, \A q \in Reader : Kept(q)
    PROVE  \A q \in Reader : Kept(q)'
  <1>1. ASSUME NEW p \in Reader, NEW r \in Read, Start(p, r)
        PROVE  \A q \in Reader : Kept(q)'
    BY <1>1, StartKept
  <1>2. ASSUME NEW p \in Reader,
               ReadStep(p) \/ MkTempFails(p) \/ BuildFails(p) \/ Kill(p)
        PROVE  \A q \in Reader : Kept(q)'
    <2>1. Aside(p) /\ Kept(p)'
      BY <1>2, StepsAside, OwnKept
    <2> QED
      BY <2>1, OthersKept DEF CacheInv
  <1>3. ASSUME NEW c \in Clearer, ClearUnlink(c)
        PROVE  \A q \in Reader : Kept(q)'
    BY <1>3, ClearKept
  <1>4. ASSUME NEW c \in Clearer,
               \/ ClearStart(c) \/ ClearFails(c) \/ ClearDone(c)
               \/ \E e \in todo[c] : ClearVisit(c, e)
        PROVE  \A q \in Reader : Kept(q)'
    BY <1>4, QuietKept DEF ClearStart, ClearFails, ClearDone, ClearVisit, boundVars,
       historyVars
  <1>5. ASSUME NEW v \in Version, ReplaceSource(v)
        PROVE  \A q \in Reader : Kept(q)'
    BY <1>5, QuietKept DEF ReplaceSource
  <1>6. CASE UNCHANGED vars
    BY <1>6, QuietKept DEF vars, boundVars, historyVars
  <1> QED
    BY <1>1, <1>2, <1>3, <1>4, <1>5, <1>6 DEF Next, ClearStep

\* Accounted says of every reader what Kept does without its last part.
LEMMA KeptAll == Accounted /\ LeftoversAreExplained <=> \A q \in Reader : Kept(q)
  BY DEF Accounted, LeftoversAreExplained, Kept, LeavesOnlyIf

\* A read has its files and temporaries where it expects them unless a clear, a
\* fault or a new source interfered; ExcuseInv is inductive.
THEOREM ExcuseInvariant == Spec => []ExcuseInv
  <1>1. Init => \A q \in Reader : Kept(q)
    BY DEF Init, Kept, Secure, Tidy, LeftByEnded, LeavesOnlyIf, NoTemps
  <1>2. CacheInv /\ (\A q \in Reader : Kept(q)) /\ [Next]_vars => (\A q \in Reader : Kept(q))'
    BY KeptStep
  <1>3. ExcuseInv <=> CacheInv /\ \A q \in Reader : Kept(q)
    BY KeptAll DEF ExcuseInv
  <1>4. Init => ExcuseInv
    BY <1>1, <1>3, InitInv
  <1>5. ExcuseInv /\ [Next]_vars => ExcuseInv'
    <2>1. CacheInv /\ [Next]_vars => CacheInv'
      BY StepInv
    <2>2. (Accounted /\ LeftoversAreExplained)' <=> (\A q \in Reader : Kept(q))'
      BY KeptAll, PTL
    <2> QED
      BY <1>2, <1>3, <2>1, <2>2 DEF ExcuseInv
  <1> QED
    BY <1>4, <1>5, PTL DEF Spec

\* A read raises only if a clear removed one of its files, its source changed
\* under it or it met a disk error, however many readers race.
THEOREM ErrorsHaveReasons == Spec => []ErrorsAreExplained
  <1>1. ExcuseInv => ErrorsAreExplained
    BY DEF ExcuseInv, Accounted, Secure, Excused, ErrorsAreExplained
  <1> QED
    BY <1>1, ExcuseInvariant, PTL

\* A temporary outlives its read only if the read was killed, or is one of a
\* pair and raised because of a clear or a disk error.
THEOREM LeftoversHaveReasons == Spec => []LeftoversAreExplained
  <1>1. ExcuseInv => LeftoversAreExplained
    BY DEF ExcuseInv
  <1> QED
    BY <1>1, ExcuseInvariant, PTL
=============================================================================
