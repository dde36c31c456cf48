-------------------------- MODULE DecodePoolProofs --------------------------
(***************************************************************************)
(* For any file, any number of workers and any number of failures:         *)
(* nothing writes to the shard directory behind the caller's back, a read  *)
(* that succeeds has the rows of every blob once and in the order of the   *)
(* file, and the shard directory is gone when the read ends.               *)
(***************************************************************************)
EXTENDS DecodePool, DataLemmas

Field == {"st", "task", "pos", "pending", "paths"}

\* Every executor has a state record.
ShapeOK ==
    /\ workers \in Nat \ {0}
    /\ exe = [e \in Executor |-> exe[e]]
    /\ \A e \in Executor : exe[e] = [f \in Field |-> exe[e][f]]

\* The caller decodes only in its serial loop.
CallerOK == pc # "serial" => exe[0].st = "idle"

\* The pool has no task before it is started.
PoolOK == pc = "start" => \A e \in PoolProcess : exe[e].st = "idle"

PoolInv == ShapeOK /\ CallerOK /\ PoolOK /\ NoStrayWriter /\ NothingLeft

\* Executor 0 is not a process of the pool.
LEMMA ExecutorFacts ==
    ASSUME ShapeOK
    PROVE  /\ 0 \in Executor /\ PoolProcess \subseteq Executor
           /\ \A e \in Executor : e # 0 => e \in PoolProcess
  BY DEF ShapeOK, Executor, PoolProcess

LEMMA InitPool == Init => PoolInv
  <1> SUFFICES ASSUME Init PROVE PoolInv
    OBVIOUS
  <1>1. workers \in Nat \ {0}
    BY PoolAssumption DEF Init
  <1>2. exe = [e \in Executor |-> Idle]
    BY DEF Init
  <1>3. 0 \in Executor /\ PoolProcess \subseteq Executor
    BY <1>1 DEF Executor, PoolProcess
  <1>4. Idle.st = "idle" /\ Idle = [f \in Field |-> Idle[f]]
    BY DEF Idle, Field
  <1>5. ShapeOK
    BY <1>1, <1>2, <1>4 DEF ShapeOK
  <1>6. CallerOK /\ PoolOK
    BY <1>2, <1>3, <1>4 DEF CallerOK, PoolOK
  <1> QED
    BY <1>5, <1>6 DEF PoolInv, NoStrayWriter, NothingLeft, Init

\* Executor e moves to a state of S, and no other one moves.
Moves(e, S) ==
    \E r : /\ r = [f \in Field |-> r[f]] /\ r.st \in S
           /\ exe' = [exe EXCEPT ![e] = r]

LEMMA MovesFacts ==
    ASSUME ShapeOK, NEW e \in Executor, NEW S, Moves(e, S), UNCHANGED workers
    PROVE  /\ ShapeOK' /\ exe'[e].st \in S
           /\ Executor' = Executor /\ PoolProcess' = PoolProcess
           /\ \A d \in Executor : d # e => exe'[d] = exe[d]
  <1>1. Executor' = Executor
    BY DEF Executor
  <1>2. PoolProcess' = PoolProcess
    BY <1>1 DEF PoolProcess
  <1>3. PICK r : /\ r = [f \in Field |-> r[f]] /\ r.st \in S
                 /\ exe' = [exe EXCEPT ![e] = r]
    BY DEF Moves
  <1>4. exe'[e] = r /\ \A d \in Executor : d # e => exe'[d] = exe[d]
    BY <1>3 DEF ShapeOK
  <1>5. exe' = [d \in Executor |-> exe'[d]]
    BY <1>3 DEF ShapeOK
  <1>6. \A d \in Executor : exe'[d] = [f \in Field |-> exe'[d][f]]
    BY <1>3, <1>4 DEF ShapeOK
  <1>7. ShapeOK'
    BY <1>1, <1>5, <1>6 DEF ShapeOK
  <1> QED
    BY <1>1, <1>2, <1>3, <1>4, <1>7

\* Whoever is decoding is the caller in its serial loop, or a process of a pool
\* that is still there.
LEMMA BusyFacts ==
    ASSUME PoolInv, NEW e \in Executor, exe[e].st \in {"decode", "flush", "write"}
    PROVE  /\ pc \notin {"start", "run", "clean", "end"}
           /\ e = 0 <=> pc = "serial"
  <1>1. CASE e = 0
    BY <1>1 DEF PoolInv, CallerOK
  <1>2. CASE e # 0
    <2>1. e \in PoolProcess
      BY <1>2, ExecutorFacts DEF PoolInv
    <2> QED
      BY <1>2, <2>1 DEF PoolInv, PoolOK, NoStrayWriter
  <1> QED
    BY <1>1, <1>2

LEMMA BatchKeeps ==
    ASSUME PoolInv, NEW e \in Executor, exe[e].st \in {"decode", "flush", "write"},
           NEW S, Moves(e, S), UNCHANGED <<pc, workers>>
    PROVE  PoolInv'
  <1>1. /\ pc \notin {"start", "run", "clean", "end"}
        /\ e = 0 <=> pc = "serial"
    BY BusyFacts
  <1>2. /\ ShapeOK' /\ PoolProcess' = PoolProcess
        /\ \A d \in Executor : d # e => exe'[d] = exe[d]
    BY MovesFacts DEF PoolInv
  <1>3. 0 \in Executor /\ PoolProcess \subseteq Executor /\ 0 \notin PoolProcess
    BY ExecutorFacts DEF PoolInv, PoolProcess
  <1>4. CallerOK'
    BY <1>1, <1>2, <1>3 DEF PoolInv, CallerOK
  <1>5. NoStrayWriter'
    BY <1>1, <1>2, <1>3 DEF PoolInv, NoStrayWriter
  <1> QED
    BY <1>1, <1>2, <1>4, <1>5 DEF PoolInv, PoolOK, NothingLeft

LEMMA BatchSteps ==
    ASSUME PoolInv, NEW e \in Executor,
           BatchStep(e) \/ \E error \in {"OSError", "Other"} : Raise(e, error)
    PROVE  PoolInv'
  <1>1. exe = [d \in Executor |-> exe[d]] /\ exe[e] = [f \in Field |-> exe[e][f]]
    BY DEF PoolInv, ShapeOK
  <1>2. Idle = [f \in Field |-> Idle[f]] /\ Idle.st = "idle"
    BY DEF Idle, Field
  <1>3. CASE DecodeBlock(e)
    <2> DEFINE pending == Append(exe[e].pending, Batch(e)[exe[e].pos])
               st == IF Flushes(e, pending) THEN "flush" ELSE "decode"
               r == [exe[e] EXCEPT !.pending = pending, !.pos = @ + 1, !.st = st]
    <2>1. exe' = [exe EXCEPT ![e] = r]
      BY <1>1, <1>3 DEF DecodeBlock
    <2>2. r = [f \in Field |-> r[f]] /\ r.st \in {"flush", "decode"}
      BY <1>1 DEF Field
    <2>3. Moves(e, {"flush", "decode"})
      BY <2>1, <2>2 DEF Moves
    <2>4. exe[e].st = "decode" /\ UNCHANGED <<pc, workers>>
      BY <1>3 DEF DecodeBlock, Decoding, input, callerVars
    <2> QED
      BY <2>3, <2>4, BatchKeeps
  <1>4. CASE OpenShard(e)
    <2> DEFINE r == [exe[e] EXCEPT !.st = "write"]
    <2>1. exe' = [exe EXCEPT ![e] = r] /\ r = [f \in Field |-> r[f]] /\ r.st = "write"
      BY <1>1, <1>4 DEF OpenShard, Field
    <2>2. Moves(e, {"write"})
      BY <2>1 DEF Moves
    <2>3. exe[e].st = "flush" /\ UNCHANGED <<pc, workers>>
      BY <1>4 DEF OpenShard, input, callerVars
    <2> QED
      BY <2>2, <2>3, BatchKeeps
  <1>5. CASE CloseShard(e)
    <2> DEFINE r == [exe[e] EXCEPT !.st = "decode", !.pending = <<>>,
                                   !.paths = Append(@, ShardPath(e))]
    <2>1. exe' = [exe EXCEPT ![e] = r]
      BY <1>1, <1>5 DEF CloseShard
    <2>2. r = [f \in Field |-> r[f]] /\ r.st = "decode"
      BY <1>1 DEF Field
    <2>3. Moves(e, {"decode"})
      BY <2>1, <2>2 DEF Moves
    <2>4. exe[e].st = "write" /\ UNCHANGED <<pc, workers>>
      BY <1>5 DEF CloseShard, input, callerVars
    <2> QED
      BY <2>3, <2>4, BatchKeeps
  <1>6. CASE Finish(e)
    <2>1. Moves(e, {"idle"})
      BY <1>2, <1>6 DEF Finish, EndTask, Moves
    <2>2. exe[e].st = "decode" /\ UNCHANGED <<pc, workers>>
      BY <1>6 DEF Finish, EndTask, input, callerVars
    <2> QED
      BY <2>1, <2>2, BatchKeeps
  <1>7. CASE \E error \in {"OSError", "Other"} : Raise(e, error)
    <2>1. Moves(e, {"idle"})
      BY <1>2, <1>7 DEF Raise, EndTask, Moves
    <2>2. exe[e].st \in {"decode", "flush", "write"} /\ UNCHANGED <<pc, workers>>
      BY <1>7 DEF Raise, EndTask, input, callerVars
    <2> QED
      BY <2>1, <2>2, BatchKeeps
  <1> QED
    BY <1>3, <1>4, <1>5, <1>6, <1>7 DEF BatchStep

\* A process of the pool takes a task only while the pool is there, and may
\* only die afterwards.
LEMMA PoolSteps ==
    ASSUME PoolInv, NEW e \in PoolProcess, Take(e) \/ Die(e) \/ Terminate(e)
    PROVE  PoolInv'
  <1>1. e \in Executor /\ e # 0 /\ 0 \in Executor /\ PoolProcess \subseteq Executor
    BY ExecutorFacts DEF PoolInv, PoolProcess
  <1>2. UNCHANGED <<pc, workers, fileVars>>
    BY DEF Take, Die, Terminate, input, callerVars
  <1>3. \/ Moves(e, {"decode"}) /\ pc \in {"wait", "exit"}
        \/ Moves(e, {"dead"}) /\ pc # "start"
    <2>1. CASE Take(e)
      <3> DEFINE r(t) == [Idle EXCEPT !.st = "decode", !.task = t]
      <3>1. PICK t \in Pending : exe' = [exe EXCEPT ![e] = r(t)]
        BY <2>1 DEF Take, Begin
      <3>2. r(t) = [f \in Field |-> r(t)[f]] /\ r(t).st = "decode"
        BY DEF Idle, Field
      <3>3. Moves(e, {"decode"})
        BY <3>1, <3>2 DEF Moves
      <3> QED
        BY <2>1, <3>3 DEF Take
    <2>2. CASE Die(e) \/ Terminate(e)
      <3> DEFINE r == [Idle EXCEPT !.st = "dead"]
      <3>1. exe' = [exe EXCEPT ![e] = r]
        BY <2>2 DEF Die, Terminate
      <3>2. r = [f \in Field |-> r[f]] /\ r.st = "dead"
        BY DEF Idle, Field
      <3>3. Moves(e, {"dead"})
        BY <3>1, <3>2 DEF Moves
      <3>4. pc # "start"
        BY <2>2 DEF Die, Terminate, BrokenPool, PoolInv, PoolOK
      <3> QED
        BY <3>3, <3>4
    <2> QED
      BY <2>1, <2>2
  <1>4. PICK S : Moves(e, S) /\ S \in {{"decode"}, {"dead"}}
                 /\ (S = {"decode"} => pc \in {"wait", "exit"}) /\ pc # "start"
    BY <1>3
  <1>5. /\ ShapeOK' /\ exe'[e].st \in S /\ PoolProcess' = PoolProcess
        /\ \A d \in Executor : d # e => exe'[d] = exe[d]
    BY <1>1, <1>2, <1>4, MovesFacts DEF PoolInv
  <1>6. CallerOK' /\ PoolOK' /\ NothingLeft'
    BY <1>1, <1>2, <1>4, <1>5 DEF PoolInv, CallerOK, PoolOK, NothingLeft, fileVars
  <1>7. NoStrayWriter'
    BY <1>1, <1>2, <1>4, <1>5 DEF PoolInv, NoStrayWriter
  <1> QED
    BY <1>5, <1>6, <1>7 DEF PoolInv

\* The caller joins the pool before it goes on, and its own batch before it
\* collects and cleans up.
LEMMA CallerSteps ==
    ASSUME PoolInv, CallerStep \/ PoolForbidden
    PROVE  PoolInv'
  <1>1. UNCHANGED workers /\ Executor' = Executor /\ PoolProcess' = PoolProcess
    BY DEF CallerStep, PoolForbidden, Begins, AwaitResult, AllResults, LeavePool,
           ExitPool, AfterPool, Continue, SerialTask, SerialResult, Run, Clean,
           callerRest, input, Executor, PoolProcess
  <1>2. 0 \in Executor /\ PoolProcess \subseteq Executor /\ 0 \notin PoolProcess
    BY ExecutorFacts DEF PoolInv, PoolProcess
  <1>3. CASE SerialTask
    <2> DEFINE r == [Idle EXCEPT !.st = "decode", !.task = next]
    <2>1. exe' = [exe EXCEPT ![0] = r] /\ UNCHANGED <<pc, fileVars>> /\ pc = "serial"
      BY <1>3 DEF SerialTask, Begin, callerVars
    <2>2. r = [f \in Field |-> r[f]] /\ r.st = "decode"
      BY DEF Idle, Field
    <2>3. Moves(0, {"decode"})
      BY <2>1, <2>2 DEF Moves
    <2>4. ShapeOK' /\ \A d \in Executor : d # 0 => exe'[d] = exe[d]
      BY <1>1, <1>2, <2>3, MovesFacts DEF PoolInv
    <2> QED
      BY <1>1, <1>2, <2>1, <2>4
      DEF PoolInv, CallerOK, PoolOK, NoStrayWriter, NothingLeft
  <1>4. CASE ~SerialTask
    <2>1. UNCHANGED exe
      BY <1>4 DEF CallerStep, PoolForbidden, Begins, AwaitResult, AllResults,
                  LeavePool, ExitPool, AfterPool, Continue, SerialResult, Run, Clean,
                  poolVars
    <2>2. ShapeOK'
      BY <1>1, <2>1 DEF PoolInv, ShapeOK
    <2>3. pc' # "start" /\ (pc = "serial" /\ pc' # "serial" => exe[0] = Idle)
      BY <1>4 DEF CallerStep, PoolForbidden, Begins, AwaitResult, AllResults,
                  LeavePool, ExitPool, AfterPool, Continue, SerialResult, Run, Clean,
                  callerVars
    <2>4. CallerOK'
      BY <2>1, <2>3 DEF PoolInv, CallerOK, Idle
    <2>5. NothingLeft'
      BY <1>4 DEF CallerStep, PoolForbidden, Begins, AwaitResult, AllResults,
                  LeavePool, ExitPool, AfterPool, Continue, SerialResult, Run, Clean,
                  NothingLeft
    <2>6. NoStrayWriter'
      <3>1. CASE Begins
        BY <1>1, <2>1, <3>1 DEF Begins, PoolInv, PoolOK, NoStrayWriter
      <3>2. CASE ExitPool
        BY <1>1, <2>1, <3>2 DEF ExitPool, NoStrayWriter
      <3>3. CASE AwaitResult \/ AllResults \/ PoolForbidden
        BY <3>3 DEF AwaitResult, AllResults, PoolForbidden, LeavePool, NoStrayWriter
      <3>4. CASE SerialResult \/ Run \/ Clean
        <4>1. pc \in {"serial", "run", "clean"}
          BY <3>4 DEF SerialResult, Run, Clean
        <4> QED
          BY <1>1, <2>1, <4>1 DEF PoolInv, NoStrayWriter
      <3> QED
        BY <1>4, <3>1, <3>2, <3>3, <3>4 DEF CallerStep
    <2> QED
      BY <2>2, <2>3, <2>4, <2>5, <2>6 DEF PoolInv, PoolOK
  <1> QED
    BY <1>3, <1>4

\* PoolInv is inductive.
THEOREM PoolInvariant == Spec => []PoolInv
  <1>1. Init => PoolInv
    BY InitPool
  <1>2. PoolInv /\ [Next]_vars => PoolInv'
    <2> SUFFICES ASSUME PoolInv, [Next]_vars PROVE PoolInv'
      OBVIOUS
    <2>1. CASE CallerStep \/ PoolForbidden
      BY <2>1, CallerSteps
    <2>2. CASE \E e \in Executor :
                 BatchStep(e) \/ \E error \in {"OSError", "Other"} : Raise(e, error)
      BY <2>2, BatchSteps
    <2>3. CASE \E e \in PoolProcess : Take(e) \/ Die(e) \/ Terminate(e)
      BY <2>3, PoolSteps
    <2>4. CASE UNCHANGED vars
      BY <2>4 DEF vars, input, callerVars, poolVars, fileVars, PoolInv, ShapeOK,
                  CallerOK, PoolOK, NoStrayWriter, NothingLeft, Executor, PoolProcess
    <2> QED
      BY <2>1, <2>2, <2>3, <2>4 DEF Next
  <1> QED
    BY <1>1, <1>2, PTL DEF Spec

\* No process of the pool outlives the with block of _run_pool: from the serial
\* fallback on, only the caller can write shards.
THEOREM PoolIsJoined == Spec => []NoStrayWriter
  <1>1. PoolInv => NoStrayWriter
    BY DEF PoolInv
  <1> QED
    BY <1>1, PoolInvariant, PTL

\* The finally clause of _decode_and_run removes the shard directory of every
\* read, and nothing fills it again.
THEOREM DirectoryRemoved == Spec => []NothingLeft
  <1>1. PoolInv => NothingLeft
    BY DEF PoolInv
  <1> QED
    BY <1>1, PoolInvariant, PTL

-----------------------------------------------------------------------------
(***************************************************************************)
(* What the shards hold.  B stands for the blobs, d for the directory.     *)
(***************************************************************************)
Content(d, paths) == FlattenSeq([i \in DOMAIN paths |-> d[paths[i]]])
Whole(d, B) == {p \in DOMAIN d : d[p] \in Seq(B)}

LEMMA ContentConcat ==
    ASSUME NEW B, NEW d, NEW p \in Seq(Whole(d, B)), NEW q \in Seq(Whole(d, B))
    PROVE  /\ Content(d, p) \in Seq(B)
           /\ Content(d, p \o q) = Content(d, p) \o Content(d, q)
  <1>0. \A s, t \in Seq(Seq(B)) :
           /\ Len(s \o t) = Len(s) + Len(t)
           /\ \A i \in 1..Len(s) : (s \o t)[i] = s[i]
           /\ \A i \in 1..Len(t) : (s \o t)[Len(s) + i] = t[i]
    BY ConcatFacts
  <1> DEFINE f(s) == [i \in DOMAIN s |-> d[s[i]]]
  <1>1. \A s \in Seq(Whole(d, B)) : f(s) \in Seq(Seq(B))
    <2> SUFFICES ASSUME NEW s \in Seq(Whole(d, B)) PROVE f(s) \in Seq(Seq(B))
      OBVIOUS
    <2>1. Len(s) \in Nat /\ DOMAIN s = 1..Len(s) /\ \A i \in 1..Len(s) : d[s[i]] \in Seq(B)
      BY DEF Whole
    <2> QED
      BY <2>1
  <1>2. f(p \o q) = f(p) \o f(q)
    <2>1. p \o q \in Seq(Whole(d, B)) /\ DOMAIN p = 1..Len(p) /\ DOMAIN q = 1..Len(q)
      OBVIOUS
    <2>2. f(p \o q) \in Seq(Seq(B)) /\ f(p) \o f(q) \in Seq(Seq(B))
      BY <1>1, <2>1, ConcatFacts
    <2>3. /\ Len(p) \in Nat /\ Len(q) \in Nat
          /\ DOMAIN (p \o q) = 1..Len(p) + Len(q)
          /\ \A i \in 1..Len(p) : (p \o q)[i] = p[i]
          /\ \A i \in 1..Len(q) : (p \o q)[Len(p) + i] = q[i]
      BY ConcatFacts
    <2>4. /\ Len(f(p)) = Len(p) /\ Len(f(q)) = Len(q)
          /\ Len(f(p \o q)) = Len(p) + Len(q)
      BY <2>1, <2>3
    <2> HIDE DEF f
    <2>7. f(p) \in Seq(Seq(B)) /\ f(q) \in Seq(Seq(B))
      BY <1>1
    <2>8. PICK a, b \in Seq(Seq(B)) : a = f(p) /\ b = f(q)
      BY <2>7
    <2>9. /\ Len(a \o b) = Len(a) + Len(b)
          /\ \A i \in 1..Len(a) : (a \o b)[i] = a[i]
          /\ \A i \in 1..Len(b) : (a \o b)[Len(a) + i] = b[i]
      BY <1>0
    <2>5. /\ Len(f(p) \o f(q)) = Len(p) + Len(q)
          /\ \A i \in 1..Len(p) : (f(p) \o f(q))[i] = f(p)[i]
          /\ \A i \in 1..Len(q) : (f(p) \o f(q))[Len(p) + i] = f(q)[i]
      BY <2>4, <2>8, <2>9
    <2>6. ASSUME NEW i \in 1..Len(p) + Len(q) PROVE f(p \o q)[i] = (f(p) \o f(q))[i]
      <3>1. CASE i \in 1..Len(p)
        BY <2>1, <2>3, <2>5, <3>1 DEF f
      <3>2. CASE i \notin 1..Len(p)
        <4>1. i - Len(p) \in 1..Len(q) /\ i = Len(p) + (i - Len(p))
          BY <2>3, <3>2
        <4>2. f(q)[i - Len(p)] = d[q[i - Len(p)]]
          BY <2>1, <4>1 DEF f
        <4>3. (p \o q)[i] = q[i - Len(p)] /\ (f(p) \o f(q))[i] = f(q)[i - Len(p)]
          BY <2>3, <2>5, <4>1
        <4> QED
          BY <2>1, <2>3, <4>2, <4>3 DEF f
      <3> QED
        BY <3>1, <3>2
    <2> QED
      BY <2>2, <2>4, <2>5, <2>6, SeqEqual
  <1> HIDE DEF f
  <1>3. FlattenSeq(f(p)) \in Seq(B)
    BY <1>1, FlattenElements
  <1>4. FlattenSeq(f(p) \o f(q)) = FlattenSeq(f(p)) \o FlattenSeq(f(q))
    BY <1>1, FlattenConcat
  <1> QED
    BY <1>2, <1>3, <1>4 DEF Content, f

\* Content is taken part by part.
LEMMA ContentFlatten ==
    ASSUME NEW B, NEW d, NEW pp \in Seq(Seq(Whole(d, B)))
    PROVE  /\ FlattenSeq(pp) \in Seq(Whole(d, B))
           /\ Content(d, FlattenSeq(pp)) = FlattenSeq([i \in 1..Len(pp) |-> Content(d, pp[i])])
  <1> DEFINE W == Whole(d, B)
             n == Len(pp)
             cc == [i \in 1..n |-> Content(d, pp[i])]
  <1>1. n \in Nat /\ \A i \in 1..n : pp[i] \in Seq(W)
    OBVIOUS
  <1>0. \A p, q \in Seq(W) : /\ Content(d, p) \in Seq(B)
                             /\ Content(d, p \o q) = Content(d, p) \o Content(d, q)
    BY ContentConcat
  <1>2. PICK g \in [0..n -> Seq(W)] : AddsUp(g, pp) /\ FlattenSeq(pp) = g[n]
    BY FlattenSteps
  <1> DEFINE h == [i \in 0..n |-> Content(d, g[i])]
  <1>3. cc \in Seq(Seq(B)) /\ Len(cc) = n
    <2>1. \A i \in 1..n : Content(d, pp[i]) \in Seq(B)
      BY <1>0, <1>1
    <2> QED
      BY <1>1, <2>1
  <1>4. h[0] = <<>>
    <2>1. g[0] = <<>> /\ 0 \in 0..n
      BY <1>1, <1>2 DEF AddsUp
    <2>2. Content(d, <<>>) = <<>>
      BY DEF Content, FlattenSeq
    <2> QED
      BY <2>1, <2>2
  <1>5. ASSUME NEW i \in 1..n PROVE h[i] = h[i - 1] \o cc[i]
    <2>1. i - 1 \in 0..n /\ i \in 0..n
      BY <1>1
    <2>4. g[i] = g[i - 1] \o pp[i]
      BY <1>2 DEF AddsUp
    <2>3. g[i - 1] \in Seq(W) /\ pp[i] \in Seq(W)
      BY <1>1, <1>2, <2>1
    <2>2. Content(d, g[i - 1] \o pp[i]) = Content(d, g[i - 1]) \o Content(d, pp[i])
      BY <1>0, <2>3
    <2> QED
      BY <2>1, <2>2, <2>4
  <1>6. n \in 0..n /\ DOMAIN h = 0..n /\ h[n] = Content(d, g[n])
    BY <1>1
  <1> HIDE DEF h, cc
  <1>7. AddsUp(h, cc)
    BY <1>3, <1>4, <1>5, <1>6 DEF AddsUp
  <1>8. \A i \in 1..Len(cc) : <<>> \o cc[i] = cc[i]
    BY <1>3
  <1>9. Len(cc) \in Nat /\ (Len(cc) = 0 => cc = <<>>)
    BY <1>1, <1>3
  <1>10. FlattenSeq(cc) = h[Len(cc)]
    BY <1>7, <1>8, <1>9, FlattenIs
  <1>11. g[n] \in Seq(W)
    BY <1>2, <1>6
  <1> QED
    BY <1>2, <1>3, <1>6, <1>10, <1>11 DEF cc

\* A blob is there if some shard holds it.
LEMMA ContentElements ==
    ASSUME NEW B, NEW d, NEW p \in Seq(Whole(d, B))
    PROVE  Range(Content(d, p)) = UNION {Range(d[x]) : x \in Range(p)}
  <1> DEFINE f == [i \in DOMAIN p |-> d[p[i]]]
  <1>1. Len(p) \in Nat /\ DOMAIN p = 1..Len(p) /\ \A i \in 1..Len(p) : d[p[i]] \in Seq(B)
    BY DEF Whole
  <1>2. f \in Seq(Seq(B)) /\ DOMAIN f = 1..Len(p)
    BY <1>1
  <1>3. UNION {Range(f[i]) : i \in 1..Len(p)} = UNION {Range(d[x]) : x \in Range(p)}
    <2>1. \A i \in 1..Len(p) : f[i] = d[p[i]]
      BY <1>1
    <2>2. Range(p) = {p[i] : i \in 1..Len(p)}
      BY <1>1 DEF Range
    <2> HIDE DEF f
    <2> QED
      BY <2>1, <2>2
  <1> HIDE DEF f
  <1>4. Range(FlattenSeq(f)) = UNION {Range(f[i]) : i \in DOMAIN f}
    BY <1>2, FlattenElements
  <1> QED
    BY <1>2, <1>3, <1>4 DEF Content, f

-----------------------------------------------------------------------------
(***************************************************************************)
(* How a sequence is divided: contiguously, for the tasks and the ways, or *)
(* in strides, for the nodes.                                              *)
(***************************************************************************)
LEMMA ProductFacts ==
    ASSUME NEW i \in Nat, NEW per \in Nat
    PROVE  /\ i * per \in Nat /\ (i + 1) * per = i * per + per
           /\ \A j \in 0..i : j * per \in Nat /\ j * per <= i * per
  OBVIOUS

\* The first k contiguous parts are what comes first.
LEMMA PartsAddUp ==
    ASSUME NEW S, NEW s \in Seq(S), NEW w \in Nat \ {0}, NEW k \in 0..w,
           NEW per, per = (Len(s) + w - 1) \div w
    PROVE  /\ per \in Nat /\ k * per \in Nat
           /\ [i \in 1..k |-> Contiguous(s, w)[i]] \in Seq(Seq(S))
           /\ FlattenSeq([i \in 1..k |-> Contiguous(s, w)[i]])
                  = SubSeq(s, 1, IF k * per < Len(s) THEN k * per ELSE Len(s))
  <1> DEFINE n == Len(s)
             upto(i) == IF i * per < n THEN i * per ELSE n
             parts == [i \in 1..k |-> Contiguous(s, w)[i]]
             g == [i \in 0..k |-> SubSeq(s, 1, upto(i))]
  <1>1. n \in Nat /\ per \in Nat
    <2>1. n \in Nat
      OBVIOUS
    <2> QED
      BY <2>1, CeilFacts
  <1>2. ASSUME NEW i \in 0..k PROVE i * per \in Nat /\ upto(i) \in 0..n
    <2>1. i \in Nat
      OBVIOUS
    <2>2. i * per \in Nat
      BY <1>1, <2>1
    <2> QED
      BY <1>1, <2>2
  <1>3. ASSUME NEW i \in 1..k
        PROVE  /\ parts[i] \in Seq(S)
               /\ SubSeq(s, 1, upto(i)) = SubSeq(s, 1, upto(i - 1)) \o parts[i]
    <2>1. i - 1 \in Nat /\ i - 1 \in 0..k /\ i \in 0..k /\ i \in 1..w /\ i - 1 + 1 = i
      OBVIOUS
    <2>2. i * per = (i - 1) * per + per /\ (i - 1) * per \in Nat
      BY <1>1, <2>1, ProductFacts
    <2>3. parts[i] = SubSeq(s, (i - 1) * per + 1, upto(i))
      BY <2>1 DEF Contiguous
    <2> HIDE DEF parts
    <2>4. upto(i) \in 0..n /\ upto(i - 1) \in 0..n
      BY <1>2, <2>1
    <2>5. CASE (i - 1) * per < n
      <3>1. /\ upto(i - 1) = (i - 1) * per
            /\ upto(i - 1) \in 1 - 1..n /\ upto(i) \in upto(i - 1)..n /\ 1 \in 1..n + 1
        BY <1>1, <2>2, <2>4, <2>5
      <3> DEFINE a == upto(i - 1)
                 b == upto(i)
      <3> HIDE DEF a, b
      <3>2. SubSeq(s, 1, a) \o SubSeq(s, a + 1, b) = SubSeq(s, 1, b)
        BY <3>1, ConcatAdjacentSubSeq DEF a, b
      <3>3. a \in Nat /\ b \in Nat /\ \A j \in a + 1..b : s[j] \in S
        <4>1. a \in 0..n /\ b \in 0..n
          BY <2>4 DEF a, b
        <4> QED
          BY <1>1, <4>1
      <3>4. SubSeq(s, a + 1, b) \in Seq(S)
        BY <3>3, SubSeqProperties
      <3> QED
        BY <2>3, <3>1, <3>2, <3>4 DEF a, b
    <2>6. CASE ~ ((i - 1) * per < n)
      <3>1. upto(i - 1) = n /\ upto(i) = n
        BY <1>1, <2>2, <2>6
      <3>2. parts[i] = <<>>
        <4>1. (i - 1) * per + 1 \in Int /\ n \in Int /\ n < (i - 1) * per + 1
          BY <1>1, <2>2, <2>6
        <4>2. SubSeq(s, (i - 1) * per + 1, n) = <<>>
          BY <4>1, SubSeqEmpty
        <4> QED
          BY <2>3, <3>1, <4>2
      <3>3. SubSeq(s, 1, n) = s
        BY SubSeqFull
      <3>4. s \o <<>> = s /\ <<>> \in Seq(S)
        OBVIOUS
      <3> QED
        BY <3>1, <3>2, <3>3, <3>4
    <2> QED
      BY <2>5, <2>6
  <1>4. parts \in Seq(Seq(S)) /\ Len(parts) = k
    <2>1. k \in Nat
      OBVIOUS
    <2> QED
      BY <1>3, <2>1
  <1>5. g[0] = <<>>
    <2>1. upto(0) = 0 /\ 0 \in 0..k
      BY <1>1
    <2>2. SubSeq(s, 1, 0) = <<>>
      BY SubSeqEmpty
    <2> QED
      BY <2>1, <2>2
  <1>6. ASSUME NEW i \in 1..k PROVE g[i] = g[i - 1] \o parts[i]
    <2>1. i \in 0..k /\ i - 1 \in 0..k
      OBVIOUS
    <2> QED
      BY <1>3, <2>1
  <1>7. k \in 0..k /\ DOMAIN g = 0..k
    OBVIOUS
  <1>8. g[k] = SubSeq(s, 1, upto(k))
    BY <1>7
  <1> HIDE DEF g, parts
  <1>9. AddsUp(g, parts)
    BY <1>4, <1>5, <1>6, <1>7 DEF AddsUp
  <1>10. \A i \in 1..Len(parts) : <<>> \o parts[i] = parts[i]
    BY <1>3, <1>4
  <1>11. Len(parts) \in Nat /\ (Len(parts) = 0 => parts = <<>>)
    BY <1>4
  <1>12. FlattenSeq(parts) = g[Len(parts)]
    BY <1>9, <1>10, <1>11, FlattenIs
  <1> QED
    BY <1>1, <1>2, <1>4, <1>7, <1>8, <1>12 DEF parts

\* Together the contiguous parts are the whole.
LEMMA ContiguousIsAll ==
    ASSUME NEW S, NEW s \in Seq(S), NEW w \in Nat \ {0}
    PROVE  FlattenSeq(Contiguous(s, w)) = s
  <1> DEFINE per == (Len(s) + w - 1) \div w
  <1>1. /\ per \in Nat /\ Len(s) <= w * per /\ w * per \in Nat /\ w \in 0..w
        /\ Len(s) \in Nat
    <2>1. Len(s) \in Nat /\ w \in 0..w
      OBVIOUS
    <2>2. per \in Nat /\ Len(s) <= w * per
      BY <2>1, CeilFacts
    <2> QED
      BY <2>1, <2>2
  <1>2. Contiguous(s, w) = [i \in 1..w |-> Contiguous(s, w)[i]]
    BY DEF Contiguous
  <1> HIDE DEF per
  <1>3. FlattenSeq([i \in 1..w |-> Contiguous(s, w)[i]])
            = SubSeq(s, 1, IF w * per < Len(s) THEN w * per ELSE Len(s))
    BY <1>1, PartsAddUp DEF per
  <1>4. SubSeq(s, 1, Len(s)) = s
    BY SubSeqFull
  <1>5. (IF w * per < Len(s) THEN w * per ELSE Len(s)) = Len(s)
    BY <1>1
  <1> QED
    BY <1>2, <1>3, <1>4, <1>5

\* The strides have the same elements.
LEMMA StridesHaveAll ==
    ASSUME NEW S, NEW s \in Seq(S), NEW w \in Nat \ {0}
    PROVE  /\ Strided(s, w) \in Seq(Seq(S))
           /\ Range(FlattenSeq(Strided(s, w))) = Range(s)
  <1> DEFINE n == Len(s)
             part(i) == [j \in 1..(n + w - i) \div w |-> s[(j - 1) * w + i]]
  <1>1. n \in Nat /\ DOMAIN s = 1..n
    OBVIOUS
  <1>2. ASSUME NEW i \in 1..w
        PROVE  /\ (n + w - i) \div w \in Nat
               /\ \A j \in 1..(n + w - i) \div w : (j - 1) * w + i \in 1..n
    <2> DEFINE q == (n + w - i) \div w
    <2>1. n + w - i \in Nat
      BY <1>1
    <2>2. q \in Nat /\ (n + w - i) % w \in Nat /\ n + w - i = w * q + ((n + w - i) % w)
      BY <2>1, DivFacts
    <2> HIDE DEF q
    <2>3. ASSUME NEW j \in 1..q PROVE (j - 1) * w + i \in 1..n
      <3>1. j - 1 \in Nat /\ j \in Nat /\ j \in 0..q
        BY <2>2
      <3>2. j * w \in Nat /\ j * w <= q * w /\ j * w = (j - 1) * w + w /\ (j - 1) * w \in Nat
        BY <2>2, <3>1, ProductFacts
      <3>3. w * q = q * w
        BY <2>2
      <3> QED
        BY <1>1, <2>2, <3>2, <3>3
    <2> QED
      BY <2>2, <2>3 DEF q
  <1>3. ASSUME NEW i \in 1..w
        PROVE  part(i) \in Seq(S) /\ DOMAIN part(i) = 1..(n + w - i) \div w
    <2> DEFINE q == (n + w - i) \div w
    <2>1. q \in Nat /\ \A j \in 1..q : s[(j - 1) * w + i] \in S
      BY <1>1, <1>2
    <2> HIDE DEF q
    <2>2. [j \in 1..q |-> s[(j - 1) * w + i]] \in Seq(S)
      BY <2>1
    <2> QED
      BY <2>2 DEF q
  <1>4. Strided(s, w) = [i \in 1..w |-> part(i)]
    BY DEF Strided
  <1>5. Strided(s, w) \in Seq(Seq(S)) /\ DOMAIN Strided(s, w) = 1..w
    <2> HIDE DEF part
    <2> QED
      BY <1>3, <1>4
  <1>6. Range(FlattenSeq(Strided(s, w))) = UNION {Range(Strided(s, w)[i]) : i \in 1..w}
    BY <1>5, FlattenElements
  <1>7. ASSUME NEW i \in 1..w PROVE Range(part(i)) \subseteq Range(s)
    BY <1>1, <1>2 DEF Range
  <1>8. ASSUME NEW p \in 1..n PROVE \E i \in 1..w : s[p] \in Range(part(i))
    <2> DEFINE i == ((p - 1) % w) + 1
               j == (p - 1) \div w + 1
    <2>1. p - 1 \in Nat
      BY <1>1
    <2>2. /\ (p - 1) \div w \in Nat /\ (p - 1) % w \in Nat /\ (p - 1) % w < w
          /\ p - 1 = w * ((p - 1) \div w) + ((p - 1) % w)
      BY <2>1, DivFacts
    <2>3. i \in 1..w /\ j - 1 \in Nat /\ p = (j - 1) * w + i
      BY <2>2
    <2> HIDE DEF i, j
    <2>4. j \in 1..(n + w - i) \div w
      <3> DEFINE q == (n + w - i) \div w
      <3>1. n + w - i \in Nat
        BY <1>1, <2>3
      <3>2. /\ q \in Nat /\ (n + w - i) % w \in Nat /\ (n + w - i) % w < w
            /\ n + w - i = w * q + ((n + w - i) % w)
        BY <3>1, DivFacts
      <3> HIDE DEF q
      <3>3. j \in Int
        BY <2>2 DEF j
      <3>7. j \in Nat /\ 1 <= j
        BY <2>3, <3>3
      <3>4. SUFFICES ASSUME q < j PROVE FALSE
        BY <3>2, <3>7 DEF q
      <3>5. q \in 0..j - 1
        BY <3>2, <3>4, <3>7
      <3>6. q * w <= (j - 1) * w /\ q * w \in Nat /\ (j - 1) * w \in Nat /\ w * q = q * w
        BY <2>3, <3>2, <3>5, ProductFacts, SMTT(30)
      <3> QED
        BY <1>1, <2>3, <3>2, <3>6
    <2>5. part(i)[j] = s[p]
      BY <2>3, <2>4
    <2> HIDE DEF part
    <2>6. s[p] \in Range(part(i))
      BY <1>3, <2>3, <2>4, <2>5 DEF Range
    <2> QED
      BY <2>3, <2>6
  <1>9. UNION {Range(part(i)) : i \in 1..w} = Range(s)
    <2> HIDE DEF part
    <2>1. Range(s) = {s[p] : p \in 1..n}
      BY <1>1 DEF Range
    <2> QED
      BY <1>7, <1>8, <2>1
  <1>10. \A i \in 1..w : Strided(s, w)[i] = part(i)
    BY <1>4
  <1> HIDE DEF part
  <1> QED
    BY <1>5, <1>6, <1>9, <1>10

-----------------------------------------------------------------------------
(***************************************************************************)
(* The tasks.                                                              *)
(***************************************************************************)
SizesOK == weight \in Seq(Nat) /\ workers \in Nat \ {0} /\ copies \subseteq Blobs

All == [b \in Blobs |-> b]

LEMMA AllFacts ==
    ASSUME SizesOK
    PROVE  /\ Len(weight) \in Nat /\ All \in Seq(Blobs) /\ Len(All) = Len(weight)
           /\ Blobs = 1..Len(weight) /\ Range(All) = Blobs
           /\ PerTask \in Nat /\ Len(weight) <= workers * PerTask
  <1>1. Len(weight) \in Nat /\ Blobs = 1..Len(weight)
    BY DEF SizesOK, Blobs
  <1>2. PerTask \in Nat /\ Len(weight) <= workers * PerTask
    BY <1>1, CeilFacts DEF SizesOK, PerTask
  <1>3. All \in Seq(Blobs) /\ Len(All) = Len(weight) /\ Range(All) = Blobs
    BY <1>1 DEF All, Range
  <1> QED
    BY <1>1, <1>2, <1>3

\* A slice has blobs while there are some left, and is a contiguous part.
LEMMA SliceFacts ==
    ASSUME SizesOK, NEW i \in 0..workers - 1
    PROVE  /\ i * PerTask \in Nat
           /\ Slice(i) \in Seq(Blobs)
           /\ Slice(i) # <<>> <=> i * PerTask < Len(weight)
           /\ Slice(i) = Contiguous(All, workers)[i + 1]
  <1> DEFINE n == Len(weight)
             per == PerTask
             a == i * per
             b == IF (i + 1) * per < n THEN (i + 1) * per ELSE n
  <1>1. n \in Nat /\ All \in Seq(Blobs) /\ Len(All) = n /\ per \in Nat /\ n <= workers * per
    BY AllFacts
  <1>2. a \in Nat /\ (i + 1) * per = a + per /\ b \in 0..n
    <2>1. i \in Nat
      BY DEF SizesOK
    <2> QED
      BY <1>1, <2>1, ProductFacts
  <1>3. Slice(i) = SubSeq(All, a + 1, b)
    BY DEF Slice, All
  <1>4. Slice(i) = Contiguous(All, workers)[i + 1]
    <2>1. i + 1 \in 1..workers /\ i + 1 - 1 = i
      BY DEF SizesOK
    <2>2. Contiguous(All, workers)[i + 1] = SubSeq(All, a + 1, b)
      BY <1>1, <2>1, SMTT(30) DEF Contiguous, PerTask
    <2> QED
      BY <1>3, <2>2
  <1>5. \A j \in a + 1..b : All[j] \in Blobs
    BY <1>1, <1>2 DEF All, Blobs
  <1> HIDE DEF a, b, per
  <1>6. /\ SubSeq(All, a + 1, b) \in Seq(Blobs)
        /\ Len(SubSeq(All, a + 1, b)) = IF a + 1 <= b THEN b - (a + 1) + 1 ELSE 0
    BY <1>2, <1>5, SubSeqProperties
  <1>7. a < n => a + 1 <= b
    <2>1. SUFFICES ASSUME a < n PROVE a + 1 <= b
      OBVIOUS
    <2>2. per # 0
      BY <1>1, <1>2, <2>1 DEF SizesOK, a
    <2> QED
      BY <1>1, <1>2, <2>1, <2>2 DEF b
  <1>8. ~ (a < n) => ~ (a + 1 <= b)
    BY <1>1, <1>2
  <1>9. SubSeq(All, a + 1, b) # <<>> <=> a + 1 <= b
    <2> DEFINE q == SubSeq(All, a + 1, b)
    <2>1. q \in Seq(Blobs) /\ (Len(q) = 0 <=> ~ (a + 1 <= b))
      BY <1>2, <1>6
    <2>2. Len(<<>>) = 0 /\ (q # <<>> => Len(q) \in Nat \ {0})
      BY <2>1, EmptySeq
    <2> HIDE DEF q
    <2>3. q # <<>> <=> a + 1 <= b
      BY <2>1, <2>2
    <2> QED
      BY <2>3 DEF q
  <1> QED
    BY <1>2, <1>3, <1>4, <1>6, <1>7, <1>8, <1>9 DEF a, per

\* The tasks cover the file, in its order.
LEMMA TasksCoverTheFile ==
    ASSUME SizesOK
    PROVE  /\ NumTasks \in 0..workers
           /\ \A t \in Task : t \in Nat \ {0} /\ Slice(t - 1) \in Seq(Blobs)
           /\ FlattenSeq([t \in Task |-> Slice(t - 1)]) = All
  <1> DEFINE k == NumTasks
             S == {i \in 0..workers - 1 : Slice(i) # <<>>}
  <1>1. workers \in Nat \ {0} /\ Len(weight) \in Nat /\ PerTask \in Nat
    BY AllFacts DEF SizesOK
  <1>2. \A i \in S : \A j \in 0..i : j \in S
    <2> SUFFICES ASSUME NEW i \in S, NEW j \in 0..i PROVE j \in S
      OBVIOUS
    <2>1. i \in 0..workers - 1 /\ j \in 0..workers - 1 /\ i \in Nat
      BY <1>1
    <2>2. j * PerTask <= i * PerTask /\ i * PerTask \in Nat /\ j * PerTask \in Nat
      BY <1>1, <2>1, ProductFacts
    <2>3. i * PerTask < Len(weight)
      BY <2>1, SliceFacts
    <2>4. j * PerTask < Len(weight)
      BY <1>1, <2>2, <2>3
    <2> QED
      BY <2>1, <2>4, SliceFacts
  <1>3. k \in 0..workers /\ S = 0..k - 1
    <2>1. S \in SUBSET (0..workers - 1)
      OBVIOUS
    <2> HIDE DEF S
    <2>2. Cardinality(S) \in 0..workers /\ S = 0..Cardinality(S) - 1
      BY <1>1, <1>2, <2>1, CountBelow
    <2> QED
      BY <2>2 DEF S, NumTasks
  <1>4. k * PerTask \in Nat /\ ~ (k * PerTask < Len(weight))
    <2>1. k * PerTask \in Nat
      BY <1>1, <1>3
    <2>2. CASE k = workers
      BY <1>1, <2>1, <2>2, AllFacts
    <2>3. CASE k # workers
      <3>1. k \in 0..workers - 1 /\ k \notin 0..k - 1
        BY <1>1, <1>3, <2>3
      <3>2. Slice(k) = <<>>
        BY <1>3, <3>1
      <3> QED
        BY <2>1, <3>1, <3>2, SliceFacts
    <2> QED
      BY <2>2, <2>3
  <1> HIDE DEF k
  <1>5. \A t \in 1..k : t \in Nat \ {0} /\ t - 1 \in 0..workers - 1 /\ t - 1 + 1 = t
    BY <1>1, <1>3
  <1>6. \A t \in 1..k : Slice(t - 1) \in Seq(Blobs) /\ Slice(t - 1) = Contiguous(All, workers)[t]
    BY <1>5, SliceFacts
  <1>7. FlattenSeq([t \in 1..k |-> Contiguous(All, workers)[t]]) = All
    <2>1. All \in Seq(Blobs) /\ Len(All) = Len(weight)
      BY AllFacts
    <2>2. PerTask = (Len(All) + workers - 1) \div workers
      BY <2>1 DEF PerTask
    <2>3. FlattenSeq([t \in 1..k |-> Contiguous(All, workers)[t]])
            = SubSeq(All, 1, IF k * PerTask < Len(All) THEN k * PerTask ELSE Len(All))
      <3>1. ASSUME NEW w, w = workers, NEW per, per = PerTask, NEW s, s = All
            PROVE  FlattenSeq([t \in 1..k |-> Contiguous(s, w)[t]])
                       = SubSeq(s, 1, IF k * per < Len(s) THEN k * per ELSE Len(s))
        <4>1. /\ w \in Nat \ {0} /\ k \in 0..w /\ s \in Seq(Blobs)
              /\ per = (Len(s) + w - 1) \div w
          BY <1>1, <1>3, <2>1, <2>2, <3>1
        <4> QED
          BY <4>1, PartsAddUp
      <3> QED
        BY <3>1
    <2>4. SubSeq(All, 1, Len(All)) = All
      BY <2>1, SubSeqFull
    <2> QED
      BY <1>4, <2>1, <2>3, <2>4
  <1>8. [t \in 1..k |-> Slice(t - 1)] = [t \in 1..k |-> Contiguous(All, workers)[t]]
    BY <1>6
  <1> QED
    BY <1>3, <1>5, <1>6, <1>7, <1>8 DEF Task, k

-----------------------------------------------------------------------------
(***************************************************************************)
(* One batch: x is the executor's record, s the slice of its task.         *)
(***************************************************************************)
PathsOf(t, k) == [i \in 1..k |-> <<t - 1, i - 1>>]

\* paths are the first shards of task t, and hold the blobs of s in order.
Holds(paths, t, d, s, B) ==
    /\ Len(paths) \in Nat /\ paths = PathsOf(t, Len(paths))
    /\ paths \in Seq(Whole(d, B))
    /\ Content(d, paths) = s

\* Of task t, the shards paths are written and the blobs pending are not yet;
\* together they are the blobs before pos.
At(t, paths, pending, pos, st, d, s, B) ==
    /\ Len(paths) \in Nat /\ paths = PathsOf(t, Len(paths))
    /\ paths \in Seq(Whole(d, B))
    /\ pending \in Seq(B)
    /\ pos \in 1..Len(s) + 1
    /\ Content(d, paths) \o pending = SubSeq(s, 1, pos - 1)
    /\ st = "decode" /\ pos > Len(s) => pending = <<>>
    /\ st = "write" => <<t - 1, Len(paths)>> \in DOMAIN d

\* d2 differs from d in shards of task t only.
Others(d, d2, t) ==
    /\ DOMAIN d \subseteq DOMAIN d2
    /\ \A p \in DOMAIN d : p[1] # t - 1 => d2[p] = d[p]

\* Shards that do not change keep what they hold.
LEMMA SameContent ==
    ASSUME NEW B, NEW d, NEW d2, NEW paths \in Seq(Whole(d, B)),
           \A i \in DOMAIN paths : paths[i] \in DOMAIN d2 /\ d2[paths[i]] = d[paths[i]]
    PROVE  paths \in Seq(Whole(d2, B)) /\ Content(d2, paths) = Content(d, paths)
  <1>1. Len(paths) \in Nat /\ DOMAIN paths = 1..Len(paths)
        /\ \A i \in 1..Len(paths) : paths[i] \in Whole(d, B)
    OBVIOUS
  <1>2. \A i \in 1..Len(paths) : paths[i] \in Whole(d2, B)
    BY <1>1 DEF Whole
  <1>3. paths \in Seq(Whole(d2, B))
    BY <1>1, <1>2
  <1>4. [i \in DOMAIN paths |-> d2[paths[i]]] = [i \in DOMAIN paths |-> d[paths[i]]]
    OBVIOUS
  <1> QED
    BY <1>3, <1>4 DEF Content

LEMMA OtherContent ==
    ASSUME NEW B, NEW d, NEW d2, NEW t \in Nat, NEW u \in Nat, t # u, NEW k,
           Others(d, d2, t), NEW paths \in Seq(Whole(d, B)), paths = PathsOf(u, k)
    PROVE  paths \in Seq(Whole(d2, B)) /\ Content(d2, paths) = Content(d, paths)
  <1>1. DOMAIN paths = 1..k /\ \A i \in 1..k : paths[i][1] = u - 1
    BY DEF PathsOf
  <1>2. \A i \in DOMAIN paths : paths[i] \in DOMAIN d
    BY DEF Whole
  <1>3. \A i \in DOMAIN paths : paths[i] \in DOMAIN d2 /\ d2[paths[i]] = d[paths[i]]
    BY <1>1, <1>2 DEF Others
  <1> QED
    BY <1>3, SameContent

LEMMA HoldsKept ==
    ASSUME NEW B, NEW d, NEW d2, NEW t \in Nat, NEW u \in Nat, t # u, NEW s, NEW paths,
           Others(d, d2, t), Holds(paths, u, d, s, B)
    PROVE  Holds(paths, u, d2, s, B)
  BY OtherContent DEF Holds

LEMMA AtKept ==
    ASSUME NEW B, NEW d, NEW d2, NEW t \in Nat, NEW u \in Nat, t # u, Others(d, d2, t),
           NEW paths, NEW pending, NEW pos, NEW st, NEW s,
           At(u, paths, pending, pos, st, d, s, B)
    PROVE  At(u, paths, pending, pos, st, d2, s, B)
  <1>1. paths \in Seq(Whole(d2, B)) /\ Content(d2, paths) = Content(d, paths)
    BY OtherContent DEF At
  <1>2. st = "write" => <<u - 1, Len(paths)>> \in DOMAIN d2
    BY DEF At, Others
  <1> QED
    BY <1>1, <1>2 DEF At

\* A batch begins with nothing read.
LEMMA AtTheStart ==
    ASSUME NEW B, NEW d, NEW s \in Seq(B), NEW t, NEW st, st # "write"
    PROVE  At(t, <<>>, <<>>, 1, st, d, s, B)
  <1>1. Len(s) \in Nat /\ SubSeq(s, 1, 0) = <<>> /\ <<>> \o <<>> = <<>>
    BY SubSeqEmpty
  <1>2. Content(d, <<>>) = <<>>
    BY DEF Content, FlattenSeq
  <1>3. <<>> = PathsOf(t, 0) /\ Len(<<>>) = 0
    BY DEF PathsOf
  <1>4. 1 \in 1..Len(s) + 1 /\ 1 - 1 = 0
    BY <1>1
  <1>5. <<>> \in Seq(Whole(d, B)) /\ <<>> \in Seq(B)
    OBVIOUS
  <1> QED
    BY <1>1, <1>2, <1>3, <1>4, <1>5 DEF At

\* A block more.
LEMMA AtTheNextBlock ==
    ASSUME NEW B, NEW d, NEW s \in Seq(B), NEW t,
           NEW paths, NEW pending, NEW pos, NEW st, At(t, paths, pending, pos, st, d, s, B),
           pos <= Len(s), NEW st2, st2 = "flush" \/ (st2 = "decode" /\ pos # Len(s))
    PROVE  At(t, paths, Append(pending, s[pos]), pos + 1, st2, d, s, B)
  <1> DEFINE c == Content(d, paths)
             one == <<s[pos]>>
  <1>1. pos \in 1..Len(s) /\ Len(s) \in Nat
    BY DEF At
  <1>2. c \in Seq(B)
    BY ContentConcat DEF At
  <1>3. pending \in Seq(B) /\ c \o pending = SubSeq(s, 1, pos - 1)
    BY DEF At
  <1>4. s[pos] \in B
    BY <1>1
  <1>5. one \in Seq(B) /\ Append(pending, s[pos]) = pending \o one /\ pending \o one \in Seq(B)
    BY <1>3, <1>4
  <1>6. SubSeq(s, 1, pos) = SubSeq(s, 1, pos - 1) \o one
    <2>1. 1 \in 1..Len(s) /\ pos \in 1..Len(s)
      BY <1>1
    <2> QED
      BY <2>1, SubSeqRecursiveSecond
  <1> HIDE DEF c, one
  <1>7. c \o (pending \o one) = (c \o pending) \o one
    <2>1. \A a, b, e \in Seq(B) : a \o (b \o e) = (a \o b) \o e
      BY ConcatAssociates
    <2>2. c \in Seq(B) /\ pending \in Seq(B) /\ one \in Seq(B)
      BY <1>2, <1>3, <1>5
    <2> QED
      BY <2>1, <2>2
  <1>8. pos + 1 \in 1..Len(s) + 1 /\ pos + 1 - 1 = pos
        /\ ~ (st2 = "decode" /\ pos + 1 > Len(s)) /\ st2 # "write"
    BY <1>1
  <1>9. c \o Append(pending, s[pos]) = SubSeq(s, 1, pos + 1 - 1)
    BY <1>3, <1>5, <1>6, <1>7, <1>8
  <1>10. Append(pending, s[pos]) \in Seq(B)
    BY <1>5
  <1> QED
    BY <1>8, <1>9, <1>10 DEF At, c

\* The next shard of the task is none of those written.
LEMMA NextShard ==
    ASSUME NEW B, NEW d, NEW s, NEW t \in Nat,
           NEW paths, NEW pending, NEW pos, NEW st, At(t, paths, pending, pos, st, d, s, B)
    PROVE  /\ Len(paths) \in Nat /\ DOMAIN paths = 1..Len(paths)
           /\ paths \in Seq(Whole(d, B)) /\ pending \in Seq(B)
           /\ \A i \in 1..Len(paths) :
                 /\ paths[i] = <<t - 1, i - 1>> /\ paths[i] # <<t - 1, Len(paths)>>
                 /\ paths[i] \in DOMAIN d
  <1> DEFINE k == Len(paths)
  <1>1. k \in Nat /\ paths = PathsOf(t, k) /\ paths \in Seq(Whole(d, B)) /\ pending \in Seq(B)
    BY DEF At
  <1>2. DOMAIN paths = 1..k /\ \A i \in 1..k : paths[i] = <<t - 1, i - 1>>
    BY <1>1 DEF PathsOf
  <1>3. \A i \in 1..k : i - 1 # k
    BY <1>1
  <1>4. \A i \in 1..k : paths[i] \in Whole(d, B)
    BY <1>1, <1>2
  <1> HIDE DEF k
  <1>5. \A i \in 1..k : paths[i] # <<t - 1, k>>
    BY <1>2, <1>3
  <1> QED
    BY <1>1, <1>2, <1>4, <1>5 DEF Whole, k

\* What is written stays so while only another path changes.
LEMMA WrittenKept ==
    ASSUME NEW B, NEW d, NEW d2, NEW s, NEW t \in Nat,
           NEW paths, NEW pending, NEW pos, NEW st, At(t, paths, pending, pos, st, d, s, B),
           DOMAIN d \subseteq DOMAIN d2,
           \A p \in DOMAIN d : p # <<t - 1, Len(paths)>> => d2[p] = d[p]
    PROVE  paths \in Seq(Whole(d2, B)) /\ Content(d2, paths) = Content(d, paths)
  <1>1. /\ DOMAIN paths = 1..Len(paths) /\ paths \in Seq(Whole(d, B))
        /\ \A i \in 1..Len(paths) : /\ paths[i] = <<t - 1, i - 1>>
                                    /\ paths[i] # <<t - 1, Len(paths)>>
                                    /\ paths[i] \in DOMAIN d
    BY NextShard
  <1>2. \A i \in DOMAIN paths : paths[i] \in DOMAIN d2 /\ d2[paths[i]] = d[paths[i]]
    BY <1>1
  <1> QED
    <2>1. \A i \in 1..Len(paths) : paths[i] \in Whole(d2, B)
      <3>1. \A i \in 1..Len(paths) : paths[i] \in Whole(d, B)
        BY <1>1
      <3> QED
        BY <1>1, <1>2, <3>1 DEF Whole
    <2>2. paths \in Seq(Whole(d2, B))
      BY <1>1, <2>1
    <2>3. [i \in DOMAIN paths |-> d2[paths[i]]] = [i \in DOMAIN paths |-> d[paths[i]]]
      BY <1>2
    <2> QED
      BY <2>2, <2>3 DEF Content

\* np.savez opens the next shard of the task.
LEMMA AtTheOpenShard ==
    ASSUME NEW B, NEW d, NEW d2, NEW s, NEW t \in Nat,
           NEW paths, NEW pending, NEW pos, NEW st, At(t, paths, pending, pos, st, d, s, B),
           NEW sp, sp = <<t - 1, Len(paths)>>,
           DOMAIN d2 = DOMAIN d \cup {sp}, \A p \in DOMAIN d : p # sp => d2[p] = d[p]
    PROVE  At(t, paths, pending, pos, "write", d2, s, B) /\ Others(d, d2, t)
  <1>3. paths \in Seq(Whole(d2, B)) /\ Content(d2, paths) = Content(d, paths)
    BY WrittenKept
  <1>4. sp \in DOMAIN d2 /\ sp[1] = t - 1
    OBVIOUS
  <1>5. Others(d, d2, t)
    BY <1>4 DEF Others
  <1> QED
    BY <1>3, <1>4, <1>5 DEF At

\* It is closed with what was pending.
LEMMA AtTheClosedShard ==
    ASSUME NEW B, NEW d, NEW d2, NEW s, NEW t \in Nat,
           NEW paths, NEW pending, NEW pos, NEW st, At(t, paths, pending, pos, st, d, s, B),
           st = "write",
           NEW sp, sp = <<t - 1, Len(paths)>>,
           DOMAIN d2 = DOMAIN d, d2[sp] = pending, \A p \in DOMAIN d : p # sp => d2[p] = d[p]
    PROVE  At(t, Append(paths, sp), <<>>, pos, "decode", d2, s, B) /\ Others(d, d2, t)
  <1> DEFINE k == Len(paths)
             W == Whole(d2, B)
             more == Append(paths, sp)
             one == <<sp>>
  <1>1. /\ k \in Nat /\ DOMAIN paths = 1..k
        /\ paths \in Seq(Whole(d, B)) /\ pending \in Seq(B)
        /\ \A i \in 1..k : paths[i] = <<t - 1, i - 1>> /\ paths[i] # sp /\ paths[i] \in DOMAIN d
    <2>1. \A i \in 1..Len(paths) :
                /\ paths[i] = <<t - 1, i - 1>> /\ paths[i] # <<t - 1, Len(paths)>>
                /\ paths[i] \in DOMAIN d
      BY NextShard
    <2>2. Len(paths) \in Nat /\ paths \in Seq(Whole(d, B)) /\ pending \in Seq(B)
      BY DEF At
    <2>3. DOMAIN paths = 1..Len(paths)
      BY <2>2
    <2> QED
      BY <2>1, <2>2, <2>3
  <1>3. paths \in Seq(W) /\ Content(d2, paths) = Content(d, paths)
    BY WrittenKept, SMTT(30) DEF W
  <1>4. sp \in DOMAIN d
    BY DEF At
  <1>5. sp \in DOMAIN d2 /\ d2[sp] = pending /\ sp[1] = t - 1
    BY <1>4
  <1>6. Others(d, d2, t)
    BY <1>5 DEF Others
  <1>7. sp \in W
    BY <1>1, <1>5 DEF Whole
  <1> HIDE DEF W
  <1>8. one \in Seq(W) /\ more = paths \o one /\ more \in Seq(W) /\ Len(more) = k + 1
    <2>1. one \in Seq(W) /\ Len(one) = 1
      BY <1>7
    <2>2. more \in Seq(W) /\ Len(more) = k + 1
      BY <1>3, <1>7
    <2>3. more = paths \o one
      BY <1>3, <1>7, AppendIsConcat
    <2> QED
      BY <2>1, <2>2, <2>3
  <1>9. more = PathsOf(t, k + 1)
    <2>1. ASSUME NEW i \in 1..k + 1 PROVE more[i] = <<t - 1, i - 1>>
      <3>1. CASE i \in 1..k
        <4>1. more[i] = paths[i]
          BY <1>1, <3>1
        <4> QED
          BY <1>1, <3>1, <4>1
      <3>2. CASE i \notin 1..k
        <4>1. i = k + 1 /\ i - 1 = k
          BY <1>1, <3>2
        <4>2. more[k + 1] = sp
          BY <1>1
        <4> QED
          BY <4>1, <4>2
      <3> QED
        BY <3>1, <3>2
    <2>2. more = [i \in 1..k + 1 |-> more[i]]
      BY <1>8
    <2> HIDE DEF more
    <2>3. [i \in 1..k + 1 |-> more[i]] = [i \in 1..k + 1 |-> <<t - 1, i - 1>>]
      BY <2>1
    <2> QED
      BY <2>2, <2>3 DEF PathsOf
  <1>10. Content(d2, one) = pending
    <2> DEFINE f == [i \in DOMAIN one |-> d2[one[i]]]
    <2>1. f = <<pending>>
      BY <1>5
    <2>2. <<>> \in Seq(Seq(B)) /\ Append(<<>>, pending) = <<pending>>
          /\ FlattenSeq(<<>>) = <<>> /\ <<>> \o pending = pending
      BY <1>1 DEF FlattenSeq
    <2> HIDE DEF f, one
    <2>3. FlattenSeq(Append(<<>>, pending)) = FlattenSeq(<<>>) \o pending
      BY <1>1, <2>2, FlattenAppend
    <2> QED
      BY <2>1, <2>2, <2>3 DEF Content, f
  <1> HIDE DEF more, one
  <1>11. Content(d2, paths \o one) = Content(d2, paths) \o Content(d2, one)
    <2>1. \A a, b \in Seq(Whole(d2, B)) : Content(d2, a \o b) = Content(d2, a) \o Content(d2, b)
      BY ContentConcat
    <2> QED
      BY <1>3, <1>8, <2>1 DEF W
  <1>12. Content(d2, more) \in Seq(B)
    BY <1>8, ContentConcat DEF W
  <1>13. Content(d2, more) \o <<>> = SubSeq(s, 1, pos - 1)
    <2>1. Content(d2, more) \o <<>> = Content(d2, more)
      BY <1>12
    <2>2. Content(d, paths) \o pending = SubSeq(s, 1, pos - 1)
      BY DEF At
    <2> QED
      BY <1>3, <1>8, <1>10, <1>11, <2>1, <2>2
  <1>14. pos \in 1..Len(s) + 1 /\ k + 1 \in Nat /\ <<>> \in Seq(B)
    BY <1>1 DEF At
  <1> HIDE DEF k
  <1>15. At(t, more, <<>>, pos, "decode", d2, s, B)
    BY <1>8, <1>9, <1>13, <1>14 DEF At, W
  <1> QED
    BY <1>6, <1>15 DEF more

\* At the end of its slice the shards hold it all.
LEMMA AtTheEnd ==
    ASSUME NEW B, NEW d, NEW s \in Seq(B), NEW t,
           NEW paths, NEW pending, NEW pos, At(t, paths, pending, pos, "decode", d, s, B),
           ~ (pos <= Len(s))
    PROVE  Holds(paths, t, d, s, B)
  <1>1. Len(s) \in Nat /\ pos \in 1..Len(s) + 1
    BY DEF At
  <1>2. pos > Len(s) /\ pos - 1 = Len(s)
    BY <1>1
  <1>3. pending = <<>> /\ Content(d, paths) \o pending = SubSeq(s, 1, Len(s))
    BY <1>2 DEF At
  <1>4. Content(d, paths) \in Seq(B)
    BY ContentConcat DEF At
  <1>5. Content(d, paths) \o <<>> = Content(d, paths) /\ SubSeq(s, 1, Len(s)) = s
    BY <1>4, SubSeqFull
  <1> QED
    BY <1>3, <1>5 DEF At, Holds

-----------------------------------------------------------------------------
(***************************************************************************)
(* The inductive invariant: who works on which task, what its shards hold, *)
(* and what the caller has seen.                                           *)
(***************************************************************************)
Working == {"decode", "flush", "write"}
Busy(e) == exe[e].st \in Working

TasksOK == fut = [t \in Task |-> fut[t]] /\ results = [t \in Task |-> results[t]]

\* A task is in one executor's hands at most, and not done meanwhile.
OneEach ==
    \A e \in Executor : Busy(e) =>
        /\ exe[e].task \in Task /\ fut[exe[e].task] \in {"running", "Broken"}
        /\ \A d \in Executor : Busy(d) /\ exe[d].task = exe[e].task => d = e

BatchAt(e) == At(exe[e].task, exe[e].paths, exe[e].pending, exe[e].pos, exe[e].st,
                 disk, Batch(e), Blobs)
BatchesOK == \A e \in Executor : Busy(e) => BatchAt(e)

\* What a finished task returned holds its slice.
DoneOK ==
    pc # "end" =>
        \A t \in Task : fut[t] = "done" => Holds(results[t], t, disk, Slice(t - 1), Blobs)

AllDone == \A t \in Task : fut[t] = "done"

\* The caller has seen the tasks before next end well, and goes on when all have.
NextOK ==
    /\ next \in Nat \ {0}
    /\ pc = "start" => next = 1
    /\ pc \in {"wait", "serial"} => \A t \in Task : t < next => fut[t] = "done"
    /\ pc = "exit" /\ verdict = "ok" => AllDone
    /\ pc = "run" => AllDone /\ shards = AllPaths

FileInv == SizesOK /\ TasksOK /\ OneEach /\ BatchesOK /\ DoneOK /\ NextOK /\ RowsInFileOrder

-----------------------------------------------------------------------------
\* The input of the read does not change.
LEMMA Statics ==
    ASSUME SizesOK, UNCHANGED input
    PROVE  /\ SizesOK' /\ Blobs' = Blobs /\ Task' = Task /\ Executor' = Executor
           /\ workers' = workers /\ copies' = copies /\ All' = All
           /\ \A i : Slice(i)' = Slice(i)
  <1>1. weight' = weight /\ workers' = workers /\ copies' = copies
    BY DEF input
  <1>2. PerTask' = PerTask /\ Blobs' = Blobs /\ Executor' = Executor
    BY <1>1 DEF PerTask, Blobs, Executor
  <1>3. \A i : Slice(i)' = Slice(i)
    BY <1>1, <1>2 DEF Slice
  <1>4. NumTasks' = NumTasks
    BY <1>1, <1>3 DEF NumTasks
  <1>5. SizesOK' /\ All' = All /\ Task' = Task
    BY <1>1, <1>2, <1>4 DEF SizesOK, All, Task
  <1> QED
    BY <1>1, <1>2, <1>3, <1>5

\* A blob number is not the mark of a file that is still being written.
LEMMA PartialIsNoShard ==
    ASSUME NEW n \in Nat, NEW s \in Seq(1..n)
    PROVE  s # Partial
  <1>1. SUFFICES ASSUME s = Partial PROVE FALSE
    OBVIOUS
  <1>2. Len(s) = 1 /\ s[1] = 0
    BY <1>1 DEF Partial
  <1>3. 1 \in 1..Len(s) /\ s[1] \in 1..n
    BY <1>2
  <1> QED
    BY <1>2, <1>3

\* Once all tasks are done, what the caller collects is the whole file.
LEMMA Collected ==
    ASSUME SizesOK, NEW w \in Nat \ {0},
           \A t \in Task : Holds(results[t], t, disk, Slice(t - 1), Blobs)
    PROVE  /\ AllPaths \in Seq(Whole(disk, Blobs))
           /\ \A i \in DOMAIN AllPaths :
                 AllPaths[i] \in DOMAIN disk /\ disk[AllPaths[i]] # Partial
           /\ BlobsIn(FlattenSeq(Contiguous(AllPaths, w))) = All
           /\ BlobsIn(FlattenSeq(Strided(AllPaths, w))) \in Seq(Blobs)
           /\ Range(BlobsIn(FlattenSeq(Strided(AllPaths, w)))) = Blobs
  <1> DEFINE W == Whole(disk, Blobs)
             pp == [t \in Task |-> results[t]]
             k == NumTasks
  <1>1. k \in Nat /\ Task = 1..k /\ FlattenSeq([t \in Task |-> Slice(t - 1)]) = All
    BY TasksCoverTheFile DEF Task, SizesOK
  <1>2. \A t \in Task : results[t] \in Seq(W) /\ Content(disk, results[t]) = Slice(t - 1)
    BY DEF Holds
  <1> HIDE DEF W, k
  <1>3. pp \in Seq(Seq(W)) /\ Len(pp) = k /\ AllPaths = FlattenSeq(pp)
    <2>1. pp \in Seq(Seq(W)) /\ Len(pp) = k
      BY <1>1, <1>2
    <2> QED
      BY <2>1 DEF AllPaths
  <1>4. [t \in 1..Len(pp) |-> Content(disk, pp[t])] = [t \in Task |-> Slice(t - 1)]
    BY <1>1, <1>2, <1>3
  <1> HIDE DEF pp
  <1>5. AllPaths \in Seq(W) /\ Content(disk, AllPaths) = All
    <2>1. /\ FlattenSeq(pp) \in Seq(W)
          /\ Content(disk, FlattenSeq(pp)) = FlattenSeq([t \in 1..Len(pp) |-> Content(disk, pp[t])])
      BY <1>3, ContentFlatten DEF W
    <2> QED
      BY <1>1, <1>3, <1>4, <2>1
  <1> DEFINE s == AllPaths
  <1> HIDE DEF s
  <1>6. s \in Seq(W) /\ Content(disk, s) = All /\ s = AllPaths
    BY <1>5 DEF s
  <1>7. ASSUME NEW i \in DOMAIN s PROVE s[i] \in DOMAIN disk /\ disk[s[i]] # Partial
    <2>1. s[i] \in W
      BY <1>6
    <2>2. Blobs = 1..Len(weight) /\ Len(weight) \in Nat
      BY AllFacts
    <2>3. s[i] \in DOMAIN disk /\ disk[s[i]] \in Seq(1..Len(weight))
      BY <2>1, <2>2 DEF W, Whole
    <2> QED
      BY <2>2, <2>3, PartialIsNoShard
  <1>8. BlobsIn(FlattenSeq(Contiguous(s, w))) = All
    <2>1. FlattenSeq(Contiguous(s, w)) = s
      BY <1>6, ContiguousIsAll
    <2> QED
      BY <1>6, <2>1 DEF BlobsIn, Content
  <1>9. /\ BlobsIn(FlattenSeq(Strided(s, w))) \in Seq(Blobs)
        /\ Range(BlobsIn(FlattenSeq(Strided(s, w)))) = Blobs
    <2> DEFINE q == FlattenSeq(Strided(s, w))
    <2>1. Strided(s, w) \in Seq(Seq(W)) /\ Range(q) = Range(s)
      BY <1>6, StridesHaveAll
    <2>2. q \in Seq(W)
      BY <2>1, FlattenElements
    <2> HIDE DEF q
    <2>3. BlobsIn(q) = Content(disk, q)
      BY DEF BlobsIn, Content
    <2>4. Content(disk, q) \in Seq(Blobs)
      BY <2>2, ContentConcat DEF W
    <2>5. Range(Content(disk, q)) = UNION {Range(disk[x]) : x \in Range(q)}
      BY <2>2, ContentElements DEF W
    <2>6. Range(Content(disk, s)) = UNION {Range(disk[x]) : x \in Range(s)}
      BY <1>6, ContentElements DEF W
    <2>7. Range(All) = Blobs
      BY AllFacts
    <2>8. Range(Content(disk, q)) = Blobs
      BY <1>6, <2>1, <2>5, <2>6, <2>7
    <2> QED
      BY <2>3, <2>4, <2>8 DEF q
  <1> QED
    BY <1>6, <1>7, <1>8, <1>9 DEF W

\* The last hit is a place with a copy.
LEMMA LastHit ==
    ASSUME NEW B, NEW c \in SUBSET B, NEW s \in Seq(B), Range(s) = B, NEW hits,
           hits = {i \in DOMAIN s : s[i] \in c}
    PROVE  /\ hits = {} <=> c = {}
           /\ hits # {} => s[Max(hits)] \in c
  <1>1. Len(s) \in Nat /\ DOMAIN s = 1..Len(s)
    OBVIOUS
  <1>2. \A b \in c : \E i \in DOMAIN s : s[i] = b
    BY DEF Range
  <1>3. hits # {} => Max(hits) \in hits
    <2>1. hits \in SUBSET (0..Len(s))
      BY <1>1
    <2> QED
      BY <1>1, <2>1, MaxOfPlaces
  <1> QED
    BY <1>2, <1>3

-----------------------------------------------------------------------------
LEMMA InitFile == Init => FileInv
  <1> SUFFICES ASSUME Init PROVE FileInv
    OBVIOUS
  <1>1. SizesOK
    <2>1. PICK n \in 0..MaxBlobs : weight \in [1..n -> 1..MaxWeight]
      BY DEF Init
    <2>2. n \in Nat
      BY PoolAssumption
    <2>3. \A i \in 1..n : weight[i] \in Nat
      BY <2>1, PoolAssumption
    <2>4. weight = [i \in 1..n |-> weight[i]]
      BY <2>1
    <2>5. weight \in Seq(Nat)
      BY <2>2, <2>3, <2>4
    <2>6. workers \in Nat \ {0} /\ copies \subseteq Blobs
      BY PoolAssumption DEF Init
    <2> QED
      BY <2>5, <2>6 DEF SizesOK
  <1>2. TasksOK
    BY DEF Init, TasksOK
  <1>3. \A e \in Executor : ~ Busy(e)
    BY DEF Init, Idle, Busy, Working
  <1>4. OneEach /\ BatchesOK
    BY <1>3 DEF OneEach, BatchesOK
  <1>5. DoneOK
    BY DEF Init, DoneOK
  <1>6. NextOK
    BY DEF Init, NextOK
  <1>7. RowsInFileOrder
    BY DEF Init, RowsInFileOrder
  <1> QED
    BY <1>1, <1>2, <1>4, <1>5, <1>6, <1>7 DEF FileInv

\* The rows stay right while the caller does not collect.
LEMMA RowsStay ==
    ASSUME RowsInFileOrder, SizesOK, UNCHANGED input, UNCHANGED <<rows, located>>,
           outcome' = "rows" => outcome = "rows"
    PROVE  RowsInFileOrder'
  <1>1. Blobs' = Blobs /\ copies' = copies
    BY Statics
  <1> QED
    BY <1>1 DEF RowsInFileOrder

\* What a task is worth does not change while nobody writes its shards.
LEMMA DoneStays ==
    ASSUME DoneOK, SizesOK, UNCHANGED input, pc' # "end" => pc # "end",
           \A t \in Task : fut'[t] = "done" =>
               /\ fut[t] = "done" /\ results'[t] = results[t]
               /\ \A s : Holds(results[t], t, disk, s, Blobs) => Holds(results[t], t, disk', s, Blobs)
    PROVE  DoneOK'
  <1>1. Task' = Task /\ Blobs' = Blobs /\ \A i : Slice(i)' = Slice(i)
    BY Statics
  <1>2. SUFFICES ASSUME pc' # "end", NEW t \in Task, fut'[t] = "done"
                 PROVE  Holds(results'[t], t, disk', Slice(t - 1), Blobs)
    BY <1>1 DEF DoneOK
  <1>3. fut[t] = "done" /\ results'[t] = results[t]
    BY <1>2
  <1>4. Holds(results[t], t, disk, Slice(t - 1), Blobs)
    BY <1>2, <1>3 DEF DoneOK
  <1> QED
    BY <1>2, <1>3, <1>4

\* The caller sees the same while it does not move and no task is undone.
LEMMA NextStays ==
    ASSUME NextOK, SizesOK, UNCHANGED <<input, pc, verdict, next, shards, results>>,
           \A t \in Task : fut[t] = "done" => fut'[t] = "done"
    PROVE  NextOK'
  <1>1. Task' = Task
    BY Statics
  <1>2. AllPaths' = AllPaths
    BY <1>1 DEF AllPaths
  <1> QED
    BY <1>1, <1>2 DEF NextOK, AllDone

\* Another executor's batch.
LEMMA BatchStays ==
    ASSUME SizesOK, UNCHANGED input, NEW d \in Executor, exe'[d] = exe[d], BatchAt(d),
           exe[d].task \in Nat,
           \/ disk' = disk
           \/ \E t \in Nat : t # exe[d].task /\ Others(disk, disk', t)
    PROVE  BatchAt(d)'
  <1>1. Blobs' = Blobs /\ Slice(exe[d].task - 1)' = Slice(exe[d].task - 1)
    <2>1. \A i : Slice(i)' = Slice(i)
      BY Statics
    <2>2. Slice(exe[d].task - 1)' = Slice(exe[d].task - 1)
      BY <2>1
    <2> QED
      BY <2>2, Statics
  <1>2. Batch(d)' = Batch(d)
    BY <1>1 DEF Batch
  <1> DEFINE x == exe[d]
  <1>3. At(x.task, x.paths, x.pending, x.pos, x.st, disk, Batch(d), Blobs)
    BY DEF BatchAt
  <1>4. At(x.task, x.paths, x.pending, x.pos, x.st, disk', Batch(d), Blobs)
    <2>1. CASE disk' = disk
      BY <1>3, <2>1
    <2>2. CASE \E t \in Nat : t # exe[d].task /\ Others(disk, disk', t)
      BY <1>3, <2>2, AtKept
    <2> QED
      BY <2>1, <2>2
  <1> QED
    BY <1>1, <1>2, <1>4 DEF BatchAt

-----------------------------------------------------------------------------
\* A batch goes on: only its executor moves, and only its shards change.
LEMMA BatchGoesOn ==
    ASSUME ShapeOK, FileInv, NEW e \in Executor, Busy(e), NEW y, NEW t, t = exe[e].task,
           exe' = [exe EXCEPT ![e] = y], y.st \in Working, y.task = t,
           disk' = disk \/ Others(disk, disk', t),
           At(t, y.paths, y.pending, y.pos, y.st, disk', Batch(e), Blobs),
           UNCHANGED <<input, callerVars, fut, results>>
    PROVE  FileInv'
  <1>1. /\ SizesOK' /\ Blobs' = Blobs /\ Task' = Task /\ Executor' = Executor
        /\ \A i : Slice(i)' = Slice(i)
    BY Statics DEF FileInv
  <1>2. exe'[e] = y /\ \A d \in Executor : d # e => exe'[d] = exe[d]
    BY DEF ShapeOK
  <1>3. Busy(e)' /\ \A d \in Executor : d # e => (Busy(d)' <=> Busy(d))
    BY <1>2 DEF Busy
  <1>4. /\ t \in Task /\ fut[t] \in {"running", "Broken"}
        /\ \A d \in Executor : Busy(d) /\ exe[d].task = t => d = e
    BY DEF FileInv, OneEach
  <1>5. \A u \in Task : u \in Nat
    BY TasksCoverTheFile DEF FileInv
  <1>6. TasksOK'
    BY <1>1 DEF FileInv, TasksOK
  <1>7. OneEach'
    <2> SUFFICES ASSUME NEW d \in Executor, Busy(d)'
                 PROVE  /\ exe'[d].task \in Task /\ fut'[exe'[d].task] \in {"running", "Broken"}
                        /\ \A c \in Executor : Busy(c)' /\ exe'[c].task = exe'[d].task => c = d
      BY <1>1 DEF OneEach
    <2>1. \A c \in Executor : Busy(c)' => Busy(c) /\ exe'[c].task = exe[c].task
      BY <1>2, <1>3
    <2> QED
      BY <2>1 DEF FileInv, OneEach
  <1>8. BatchesOK'
    <2> SUFFICES ASSUME NEW d \in Executor, Busy(d)' PROVE BatchAt(d)'
      BY <1>1 DEF BatchesOK
    <2>1. CASE d = e
      <3>1. \A i : Slice(i)' = Slice(i)
        BY <1>1
      <3>2. Slice(exe[e].task - 1)' = Slice(exe[e].task - 1)
        BY <1>2, <3>1
      <3>3. Batch(e)' = Batch(e)
        BY <3>2 DEF Batch
      <3> QED
        BY <1>1, <1>2, <2>1, <3>3 DEF BatchAt
    <2>2. CASE d # e
      <3>1. Busy(d) /\ exe'[d] = exe[d] /\ exe[d].task # t /\ exe[d].task \in Task /\ BatchAt(d)
        BY <1>2, <1>3, <1>4, <2>2 DEF FileInv, OneEach, BatchesOK
      <3>2. exe[d].task \in Nat /\ t \in Nat
        BY <1>4, <1>5, <3>1
      <3>3. disk' = disk \/ \E u \in Nat : u # exe[d].task /\ Others(disk, disk', u)
        BY <3>1, <3>2
      <3> QED
        BY <3>1, <3>2, <3>3, BatchStays DEF FileInv
    <2> QED
      BY <2>1, <2>2
  <1>9. DoneOK'
    <2>1. ASSUME NEW u \in Task, fut'[u] = "done", NEW s, Holds(results[u], u, disk, s, Blobs)
          PROVE  Holds(results[u], u, disk', s, Blobs)
      <3>1. u # t /\ u \in Nat /\ t \in Nat
        BY <1>4, <1>5, <2>1
      <3> QED
        BY <2>1, <3>1, HoldsKept
    <2> QED
      BY <2>1, DoneStays DEF FileInv, callerVars
  <1>10. NextOK' /\ RowsInFileOrder'
    BY NextStays, RowsStay DEF FileInv, callerVars
  <1> QED
    BY <1>1, <1>6, <1>7, <1>8, <1>9, <1>10 DEF FileInv

\* A batch ends, as a result or an error.
LEMMA BatchEnds ==
    ASSUME ShapeOK, FileInv, NEW e \in Executor, Busy(e), NEW how, EndTask(e, how),
           \/ UNCHANGED results /\ how \notin {"done"}
           \/ /\ how = "done" /\ exe[e].st = "decode" /\ ~ Decoding(e)
              /\ results' = [results EXCEPT ![exe[e].task] = exe[e].paths]
    PROVE  FileInv'
  <1> DEFINE t == exe[e].task
  <1>1. /\ SizesOK' /\ Blobs' = Blobs /\ Task' = Task /\ Executor' = Executor
        /\ \A i : Slice(i)' = Slice(i)
    BY Statics DEF FileInv, EndTask
  <1>2. /\ fut' = [fut EXCEPT ![t] = how] /\ exe' = [exe EXCEPT ![e] = Idle]
        /\ UNCHANGED <<input, callerVars, disk>>
    BY DEF EndTask, fileVars
  <1>3. /\ t \in Task /\ fut[t] \in {"running", "Broken"}
        /\ \A d \in Executor : Busy(d) /\ exe[d].task = t => d = e
    BY DEF FileInv, OneEach
  <1>4. \A d \in Executor : IF d = e THEN exe'[d] = Idle ELSE exe'[d] = exe[d]
    BY <1>2 DEF ShapeOK
  <1>5. \A d \in Executor : Busy(d)' => d # e /\ Busy(d) /\ exe'[d] = exe[d] /\ exe[d].task # t
    <2>1. \A d \in Executor : Busy(d)' => d # e
      BY <1>4 DEF Busy, Idle, Working
    <2> QED
      BY <1>3, <1>4, <2>1 DEF Busy
  <1>6. /\ TasksOK'
        /\ \A u \in Task : fut'[u] = IF u = t THEN how ELSE fut[u]
        /\ \A u \in Task : u # t => results'[u] = results[u]
        /\ how = "done" => results'[t] = exe[e].paths
    BY <1>1, <1>2, <1>3 DEF FileInv, TasksOK
  <1>7. OneEach'
    <2> SUFFICES ASSUME NEW d \in Executor, Busy(d)'
                 PROVE  /\ exe'[d].task \in Task /\ fut'[exe'[d].task] \in {"running", "Broken"}
                        /\ \A c \in Executor : Busy(c)' /\ exe'[c].task = exe'[d].task => c = d
      BY <1>1 DEF OneEach
    <2> HIDE DEF t
    <2> QED
      BY <1>5, <1>6 DEF FileInv, OneEach
  <1>8. \A u \in Task : u \in Nat
    BY TasksCoverTheFile DEF FileInv
  <1>9. BatchesOK'
    <2> SUFFICES ASSUME NEW d \in Executor, Busy(d)' PROVE BatchAt(d)'
      BY <1>1 DEF BatchesOK
    <2>1. Busy(d) /\ exe'[d] = exe[d] /\ exe[d].task \in Nat /\ BatchAt(d)
      BY <1>5, <1>8 DEF FileInv, OneEach, BatchesOK
    <2> QED
      BY <1>2, <2>1, BatchStays DEF FileInv
  <1>10. DoneOK'
    <2> SUFFICES ASSUME pc' # "end", NEW u \in Task, fut'[u] = "done"
                 PROVE  Holds(results'[u], u, disk', Slice(u - 1), Blobs)
      BY <1>1 DEF DoneOK
    <2>1. CASE u = t
      <3>1. how = "done" /\ exe[e].st = "decode" /\ ~ Decoding(e) /\ results'[u] = exe[e].paths
        BY <1>6, <2>1
      <3>2. At(t, exe[e].paths, exe[e].pending, exe[e].pos, "decode", disk, Batch(e), Blobs)
        BY <3>1 DEF FileInv, BatchesOK, BatchAt
      <3>3. ~ (exe[e].pos <= Len(Batch(e)))
        BY <3>1 DEF Decoding
      <3>4. Batch(e) = Slice(u - 1) /\ Batch(e) \in Seq(Blobs)
        BY <2>1, TasksCoverTheFile DEF FileInv, Batch
      <3> HIDE DEF t
      <3>5. Holds(exe[e].paths, t, disk, Batch(e), Blobs)
        BY <3>2, <3>3, <3>4, AtTheEnd
      <3> QED
        BY <1>2, <2>1, <3>1, <3>4, <3>5
    <2>2. CASE u # t
      <3>1. fut[u] = "done" /\ results'[u] = results[u] /\ pc # "end"
        BY <1>2, <1>6, <2>2 DEF callerVars
      <3> QED
        BY <1>2, <3>1 DEF FileInv, DoneOK
    <2> QED
      BY <2>1, <2>2
  <1>11. NextOK'
    <2>1. \A u \in Task : fut[u] = "done" => fut'[u] = "done" /\ results'[u] = results[u]
      BY <1>3, <1>6
    <2>2. AllDone => FALSE
      BY <1>3 DEF AllDone
    <2>3. UNCHANGED <<pc, verdict, next, shards>>
      BY <1>2 DEF callerVars
    <2>4. NextOK
      BY DEF FileInv
    <2> HIDE DEF t
    <2> QED
      BY <1>1, <2>1, <2>2, <2>3, <2>4 DEF NextOK, AllDone
  <1>12. RowsInFileOrder'
    BY <1>2, RowsStay DEF FileInv, callerVars
  <1> QED
    BY <1>1, <1>6, <1>7, <1>9, <1>10, <1>11, <1>12 DEF FileInv

LEMMA BatchFile ==
    ASSUME ShapeOK, FileInv, NEW e \in Executor,
           BatchStep(e) \/ \E error \in {"OSError", "Other"} : Raise(e, error)
    PROVE  FileInv'
  <1> DEFINE x == exe[e]
             t == x.task
             s == Batch(e)
  <1>1. exe = [d \in Executor |-> exe[d]] /\ x = [f \in Field |-> x[f]]
    BY DEF ShapeOK
  <1>2. Busy(e) => /\ t \in Nat /\ s \in Seq(Blobs)
                   /\ At(t, x.paths, x.pending, x.pos, x.st, disk, s, Blobs)
    BY TasksCoverTheFile DEF FileInv, OneEach, BatchesOK, BatchAt, Batch
  <1>3. CASE DecodeBlock(e)
    <2> DEFINE pending == Append(x.pending, s[x.pos])
               st == IF Flushes(e, pending) THEN "flush" ELSE "decode"
               y == [x EXCEPT !.pending = pending, !.pos = @ + 1, !.st = st]
    <2>1. exe' = [exe EXCEPT ![e] = y]
      BY <1>1, <1>3 DEF DecodeBlock
    <2>2. /\ y.task = t /\ y.paths = x.paths /\ y.pending = pending
          /\ y.pos = x.pos + 1 /\ y.st = st
      BY <1>1 DEF Field
    <2>3. x.st = "decode" /\ x.pos <= Len(s) /\ disk' = disk
          /\ UNCHANGED <<input, callerVars, fut, results>>
      BY <1>3 DEF DecodeBlock, Decoding, fileVars
    <2>4. Busy(e) /\ st \in Working
      BY <2>3 DEF Busy, Working
    <2>5. st = "flush" \/ (st = "decode" /\ x.pos # Len(s))
      BY DEF Flushes
    <2> HIDE DEF y, st
    <2>6. At(t, x.paths, pending, x.pos + 1, st, disk, s, Blobs)
      BY <1>2, <2>3, <2>4, <2>5, AtTheNextBlock
    <2>7. At(t, y.paths, y.pending, y.pos, y.st, disk', s, Blobs)
      BY <2>2, <2>3, <2>6
    <2> QED
      BY <2>1, <2>2, <2>3, <2>4, <2>7, BatchGoesOn
  <1>4. CASE OpenShard(e)
    <2> DEFINE y == [x EXCEPT !.st = "write"]
               sp == ShardPath(e)
    <2>1. exe' = [exe EXCEPT ![e] = y]
      BY <1>1, <1>4 DEF OpenShard
    <2>2. /\ y.task = t /\ y.paths = x.paths /\ y.pending = x.pending
          /\ y.pos = x.pos /\ y.st = "write"
      BY <1>1 DEF Field
    <2>3. Busy(e) /\ UNCHANGED <<input, callerVars, fut, results>> /\ y.st \in Working
      BY <1>4, <2>2 DEF OpenShard, Busy, Working
    <2>4. DOMAIN disk' = DOMAIN disk \cup {sp} /\ \A p \in DOMAIN disk : p # sp => disk'[p] = disk[p]
      BY <1>4 DEF OpenShard
    <2>5. sp = <<t - 1, Len(x.paths)>>
      BY DEF ShardPath
    <2> HIDE DEF y, sp
    <2>6. At(t, x.paths, x.pending, x.pos, "write", disk', s, Blobs) /\ Others(disk, disk', t)
      BY <1>2, <2>3, <2>4, <2>5, AtTheOpenShard
    <2>7. At(t, y.paths, y.pending, y.pos, y.st, disk', s, Blobs)
      BY <2>2, <2>6
    <2> QED
      BY <2>1, <2>2, <2>3, <2>6, <2>7, BatchGoesOn
  <1>5. CASE CloseShard(e)
    <2> DEFINE sp == ShardPath(e)
               y == [x EXCEPT !.st = "decode", !.pending = <<>>, !.paths = Append(@, sp)]
    <2>1. exe' = [exe EXCEPT ![e] = y]
      BY <1>1, <1>5 DEF CloseShard
    <2>2. /\ y.task = t /\ y.paths = Append(x.paths, sp) /\ y.pending = <<>>
          /\ y.pos = x.pos /\ y.st = "decode"
      BY <1>1 DEF Field
    <2>3. /\ Busy(e) /\ x.st = "write" /\ y.st \in Working
          /\ UNCHANGED <<input, callerVars, fut, results>>
      BY <1>5, <2>2 DEF CloseShard, Busy, Working
    <2>5. sp = <<t - 1, Len(x.paths)>>
      BY DEF ShardPath
    <2>4. /\ DOMAIN disk' = DOMAIN disk /\ disk'[sp] = x.pending
          /\ \A p \in DOMAIN disk : p # sp => disk'[p] = disk[p]
      <3>1. sp \in DOMAIN disk
        BY <1>2, <2>3, <2>5 DEF At
      <3> QED
        BY <1>5, <3>1 DEF CloseShard
    <2> HIDE DEF y, sp
    <2>6. At(t, Append(x.paths, sp), <<>>, x.pos, "decode", disk', s, Blobs)
          /\ Others(disk, disk', t)
      <3>1. At(t, x.paths, x.pending, x.pos, x.st, disk, s, Blobs) /\ t \in Nat
        BY <1>2, <2>3
      <3> QED
        BY <2>3, <2>4, <2>5, <3>1, AtTheClosedShard, SMTT(30)
    <2>7. At(t, y.paths, y.pending, y.pos, y.st, disk', s, Blobs)
      BY <2>2, <2>6
    <2> QED
      BY <2>1, <2>2, <2>3, <2>6, <2>7, BatchGoesOn
  <1>6. CASE Finish(e)
    <2>1. Busy(e)
      BY <1>6 DEF Finish, Busy, Working
    <2> QED
      BY <1>6, <2>1, BatchEnds DEF Finish
  <1>7. CASE \E error \in {"OSError", "Other"} : Raise(e, error)
    <2>1. Busy(e)
      BY <1>7 DEF Raise, Busy, Working
    <2> QED
      BY <1>7, <2>1, BatchEnds DEF Raise
  <1> QED
    BY <1>3, <1>4, <1>5, <1>6, <1>7 DEF BatchStep

\* A task begins in the hands of an executor that had none.
LEMMA BeginFile ==
    ASSUME ShapeOK, FileInv, NEW e \in Executor, ~ Busy(e), NEW t \in Task, fut[t] = "waiting",
           Begin(e, t), UNCHANGED <<input, callerVars, disk>>
    PROVE  FileInv'
  <1> DEFINE y == [Idle EXCEPT !.st = "decode", !.task = t]
  <1>1. /\ SizesOK' /\ Blobs' = Blobs /\ Task' = Task /\ Executor' = Executor
        /\ \A i : Slice(i)' = Slice(i)
    BY Statics DEF FileInv
  <1>2. exe' = [exe EXCEPT ![e] = y] /\ fut' = [fut EXCEPT ![t] = "running"] /\ results' = results
    BY DEF Begin
  <1>3. /\ y.st = "decode" /\ y.task = t /\ y.paths = <<>> /\ y.pending = <<>> /\ y.pos = 1
    BY DEF Idle
  <1> HIDE DEF y
  <1>4. exe'[e] = y /\ \A d \in Executor : d # e => exe'[d] = exe[d]
    BY <1>2 DEF ShapeOK
  <1>5. \A d \in Executor : Busy(d)' => d = e \/ (d # e /\ Busy(d) /\ exe'[d] = exe[d])
    BY <1>4 DEF Busy
  <1>6. \A d \in Executor : Busy(d) => exe[d].task # t
    BY DEF FileInv, OneEach
  <1>7. TasksOK' /\ \A u \in Task : fut'[u] = IF u = t THEN "running" ELSE fut[u]
    BY <1>1, <1>2 DEF FileInv, TasksOK
  <1>8. OneEach'
    <2> SUFFICES ASSUME NEW d \in Executor, Busy(d)'
                 PROVE  /\ exe'[d].task \in Task /\ fut'[exe'[d].task] \in {"running", "Broken"}
                        /\ \A c \in Executor : Busy(c)' /\ exe'[c].task = exe'[d].task => c = d
      BY <1>1 DEF OneEach
    <2>1. CASE d = e
      BY <1>3, <1>4, <1>5, <1>6, <1>7, <2>1
    <2>2. CASE d # e
      <3>1. Busy(d) /\ exe'[d] = exe[d] /\ exe[d].task # t
        BY <1>5, <1>6, <2>2
      <3>2. \A c \in Executor : Busy(c)' /\ exe'[c].task = exe[d].task => c # e /\ Busy(c) /\ exe'[c] = exe[c]
        BY <1>3, <1>4, <1>5, <3>1
      <3> QED
        BY <1>7, <3>1, <3>2 DEF FileInv, OneEach
    <2> QED
      BY <2>1, <2>2
  <1>9. \A u \in Task : u \in Nat /\ Slice(u - 1) \in Seq(Blobs)
    BY TasksCoverTheFile DEF FileInv
  <1>10. BatchesOK'
    <2> SUFFICES ASSUME NEW d \in Executor, Busy(d)' PROVE BatchAt(d)'
      BY <1>1 DEF BatchesOK
    <2>1. CASE d = e
      <3>1. Slice(exe[e].task - 1)' = Slice(t - 1)
        BY <1>1, <1>3, <1>4
      <3>2. Batch(e)' = Slice(t - 1)
        BY <3>1 DEF Batch
      <3>3. At(t, <<>>, <<>>, 1, "decode", disk', Slice(t - 1), Blobs)
        BY <1>9, AtTheStart
      <3> QED
        BY <1>1, <1>3, <1>4, <2>1, <3>2, <3>3 DEF BatchAt
    <2>2. CASE d # e
      <3>1. Busy(d) /\ exe'[d] = exe[d] /\ exe[d].task \in Nat /\ BatchAt(d)
        BY <1>5, <1>9, <2>2 DEF FileInv, OneEach, BatchesOK
      <3> QED
        BY <3>1, BatchStays DEF FileInv
    <2> QED
      BY <2>1, <2>2
  <1>11. DoneOK'
    BY <1>2, <1>7, DoneStays DEF FileInv, callerVars
  <1>12. NextOK' /\ RowsInFileOrder'
    <2>1. \A u \in Task : fut[u] = "done" => fut'[u] = "done"
      BY <1>7
    <2> QED
      BY <1>2, <2>1, NextStays, RowsStay DEF FileInv, callerVars
  <1> QED
    BY <1>1, <1>7, <1>8, <1>10, <1>11, <1>12 DEF FileInv

\* A process dies or is killed: what it was doing is lost.
LEMMA DeathFile ==
    ASSUME ShapeOK, FileInv, NEW e \in Executor, Die(e) \/ Terminate(e)
    PROVE  FileInv'
  <1> DEFINE y == [Idle EXCEPT !.st = "dead"]
  <1>1. /\ exe' = [exe EXCEPT ![e] = y] /\ results' = results
        /\ UNCHANGED <<input, callerVars, disk>>
        /\ fut' = fut \/ fut' = [t \in Task |-> Fail(t)]
    BY DEF Die, Terminate, fileVars
  <1>2. /\ SizesOK' /\ Blobs' = Blobs /\ Task' = Task /\ Executor' = Executor
    BY <1>1, Statics DEF FileInv
  <1>3. y.st = "dead"
    BY DEF Idle
  <1> HIDE DEF y
  <1>4. exe'[e] = y /\ \A d \in Executor : d # e => exe'[d] = exe[d]
    BY <1>1 DEF ShapeOK
  <1>5. \A d \in Executor : Busy(d)' => d # e /\ Busy(d) /\ exe'[d] = exe[d]
    BY <1>3, <1>4 DEF Busy, Working
  <1>6. /\ TasksOK'
        /\ \A u \in Task : /\ fut'[u] = "done" <=> fut[u] = "done"
                           /\ fut[u] \in {"running", "Broken"} => fut'[u] \in {"running", "Broken"}
    BY <1>1, <1>2 DEF FileInv, TasksOK, Fail
  <1>7. OneEach'
    <2> SUFFICES ASSUME NEW d \in Executor, Busy(d)'
                 PROVE  /\ exe'[d].task \in Task /\ fut'[exe'[d].task] \in {"running", "Broken"}
                        /\ \A c \in Executor : Busy(c)' /\ exe'[c].task = exe'[d].task => c = d
      BY <1>2 DEF OneEach
    <2> QED
      BY <1>5, <1>6 DEF FileInv, OneEach
  <1>8. BatchesOK'
    <2> SUFFICES ASSUME NEW d \in Executor, Busy(d)' PROVE BatchAt(d)'
      BY <1>2 DEF BatchesOK
    <2>1. \A u \in Task : u \in Nat
      BY TasksCoverTheFile DEF FileInv
    <2>2. Busy(d) /\ exe'[d] = exe[d] /\ exe[d].task \in Nat /\ BatchAt(d)
      BY <1>5, <2>1 DEF FileInv, OneEach, BatchesOK
    <2> QED
      BY <1>1, <2>2, BatchStays DEF FileInv
  <1>9. DoneOK'
    BY <1>1, <1>6, DoneStays DEF FileInv, callerVars
  <1>10. NextOK' /\ RowsInFileOrder'
    <2>1. \A u \in Task : fut[u] = "done" => fut'[u] = "done"
      BY <1>6
    <2> QED
      BY <1>1, <2>1, NextStays, RowsStay DEF FileInv, callerVars
  <1> QED
    BY <1>2, <1>6, <1>7, <1>8, <1>9, <1>10 DEF FileInv

\* The caller's step leaves the executors and their shards alone.
LEMMA CallerKeeps ==
    ASSUME FileInv, UNCHANGED <<input, exe, results, disk>>, pc # "end",
           fut' = [t \in Task |-> fut'[t]],
           \A t \in Task : fut'[t] = "done" => fut[t] = "done",
           \A e \in Executor : Busy(e) => fut'[exe[e].task] \in {"running", "Broken"}
    PROVE  SizesOK' /\ TasksOK' /\ OneEach' /\ BatchesOK' /\ DoneOK'
  <1>1. /\ SizesOK' /\ Blobs' = Blobs /\ Task' = Task /\ Executor' = Executor
    BY Statics DEF FileInv
  <1>2. TasksOK'
    BY <1>1 DEF FileInv, TasksOK
  <1>3. \A e \in Executor : (Busy(e)' <=> Busy(e)) /\ exe'[e] = exe[e]
    BY DEF Busy
  <1>4. OneEach'
    <2> SUFFICES ASSUME NEW d \in Executor, Busy(d)'
                 PROVE  /\ exe'[d].task \in Task /\ fut'[exe'[d].task] \in {"running", "Broken"}
                        /\ \A c \in Executor : Busy(c)' /\ exe'[c].task = exe'[d].task => c = d
      BY <1>1 DEF OneEach
    <2> QED
      BY <1>3 DEF FileInv, OneEach
  <1>5. BatchesOK'
    <2> SUFFICES ASSUME NEW d \in Executor, Busy(d)' PROVE BatchAt(d)'
      BY <1>1 DEF BatchesOK
    <2>1. \A u \in Task : u \in Nat
      BY TasksCoverTheFile DEF FileInv
    <2>2. Busy(d) /\ exe'[d] = exe[d] /\ exe[d].task \in Nat /\ BatchAt(d)
      BY <1>3, <2>1 DEF FileInv, OneEach, BatchesOK
    <2> QED
      BY <2>2, BatchStays DEF FileInv
  <1>6. DoneOK'
    BY DoneStays DEF FileInv
  <1> QED
    BY <1>1, <1>2, <1>4, <1>5, <1>6

\* Nobody works once the pool is joined and the caller is not in a batch.
LEMMA NobodyBusy ==
    ASSUME PoolInv, pc \in {"run", "clean", "end"} \/
                    (pc = "exit" /\ \A e \in PoolProcess : exe[e].st \in {"idle", "dead"})
    PROVE  \A e \in Executor : ~ Busy(e)
  <1>1. exe[0].st = "idle"
    BY DEF PoolInv, CallerOK
  <1>2. \A e \in PoolProcess : exe[e].st \in {"idle", "dead"}
    BY DEF PoolInv, NoStrayWriter
  <1>3. \A e \in Executor : e # 0 => e \in PoolProcess
    BY ExecutorFacts DEF PoolInv
  <1> QED
    BY <1>1, <1>2, <1>3 DEF Busy, Working

\* The with block of the pool is left.
LEMMA LeaveFile ==
    ASSUME FileInv, pc = "wait", NEW how, LeavePool(how), how = "ok" => AllDone
    PROVE  FileInv'
  <1>1. UNCHANGED <<input, exe, results, disk, next, shards, rows, located, outcome>>
        /\ verdict' = how /\ pc' = "exit"
    BY DEF LeavePool, callerRest, fileVars
  <1>2. PICK queued \in 0..NumTasks :
            fut' = [t \in Task |-> IF fut[t] = "waiting" /\ t > queued
                                  THEN "cancelled" ELSE fut[t]]
    BY DEF LeavePool
  <1>3. /\ fut' = [t \in Task |-> fut'[t]]
        /\ \A t \in Task : /\ fut'[t] = "done" <=> fut[t] = "done"
                           /\ fut[t] # "waiting" => fut'[t] = fut[t]
    BY <1>2
  <1>4. \A e \in Executor : Busy(e) => fut'[exe[e].task] \in {"running", "Broken"}
    BY <1>3 DEF FileInv, OneEach
  <1>5. SizesOK' /\ TasksOK' /\ OneEach' /\ BatchesOK' /\ DoneOK'
    BY <1>1, <1>3, <1>4, CallerKeeps
  <1>6. Task' = Task
    BY <1>1, Statics DEF FileInv
  <1>7. NextOK'
    BY <1>1, <1>3, <1>6 DEF FileInv, NextOK, AllDone
  <1>8. RowsInFileOrder'
    BY <1>1, RowsStay DEF FileInv
  <1> QED
    BY <1>5, <1>7, <1>8 DEF FileInv

\* The caller only counts what is done.
LEMMA CountFile ==
    ASSUME FileInv, pc # "end",
           UNCHANGED <<input, exe, results, disk, fut, rows, located>>,
           outcome' = "rows" => outcome = "rows", NextOK'
    PROVE  FileInv'
  <1>1. fut' = [t \in Task |-> fut'[t]] /\ \A t \in Task : fut'[t] = fut[t]
    BY DEF FileInv, TasksOK
  <1>2. \A e \in Executor : Busy(e) => fut'[exe[e].task] \in {"running", "Broken"}
    BY DEF FileInv, OneEach
  <1>3. SizesOK' /\ TasksOK' /\ OneEach' /\ BatchesOK' /\ DoneOK'
    BY <1>1, <1>2, CallerKeeps
  <1>4. RowsInFileOrder'
    BY RowsStay DEF FileInv
  <1> QED
    BY <1>3, <1>4 DEF FileInv

\* The shards are collected.
LEMMA RunFile ==
    ASSUME PoolInv, FileInv, Run
    PROVE  FileInv'
  <1>1. /\ pc = "run" /\ pc' = "clean"
        /\ UNCHANGED <<input, exe, results, disk, fut, verdict, next, shards>>
    BY DEF Run, callerRest, poolVars, fileVars
  <1>2. AllDone /\ shards = AllPaths
    BY <1>1 DEF FileInv, NextOK
  <1>3. /\ SizesOK' /\ Blobs' = Blobs /\ Task' = Task /\ copies' = copies
    BY <1>1, Statics DEF FileInv
  <1>4. fut' = [t \in Task |-> fut'[t]] /\ \A t \in Task : fut'[t] = fut[t]
    BY <1>1 DEF FileInv, TasksOK
  <1>5. \A e \in Executor : ~ Busy(e)
    BY <1>1, NobodyBusy
  <1>6. SizesOK' /\ TasksOK' /\ OneEach' /\ BatchesOK' /\ DoneOK'
    BY <1>1, <1>4, <1>5, CallerKeeps
  <1>7. NextOK'
    BY <1>1 DEF FileInv, NextOK
  <1>8. RowsInFileOrder'
    <2> DEFINE w == CollectWorkers
               scattered == BlobsIn(FlattenSeq(Strided(shards, w)))
               hits == {i \in DOMAIN scattered : scattered[i] \in copies}
    <2>1. w \in Nat \ {0}
      BY DEF CollectWorkers, FileInv, SizesOK
    <2>2. \A t \in Task : Holds(results[t], t, disk, Slice(t - 1), Blobs)
      BY <1>1, <1>2 DEF FileInv, DoneOK, AllDone
    <2> HIDE DEF w
    <2>3. /\ \A i \in DOMAIN shards : shards[i] \in DOMAIN disk /\ disk[shards[i]] # Partial
          /\ BlobsIn(FlattenSeq(Contiguous(shards, w))) = All
          /\ scattered \in Seq(Blobs) /\ Range(scattered) = Blobs
      BY <1>2, <2>1, <2>2, Collected DEF FileInv
    <2>4. /\ rows' = BlobsIn(FlattenSeq(Contiguous(shards, w)))
          /\ located' = IF hits = {} THEN 0 ELSE scattered[Max(hits)]
      BY <2>3 DEF Run, w
    <2>5. copies \in SUBSET Blobs
      BY DEF FileInv, SizesOK
    <2> HIDE DEF scattered
    <2>6. /\ hits = {} <=> copies = {}
          /\ hits # {} => scattered[Max(hits)] \in copies
      BY <2>3, <2>5, LastHit
    <2> HIDE DEF hits
    <2>7. rows' = [b \in Blobs |-> b]
      BY <2>3, <2>4 DEF All
    <2>8. (copies = {} => located' = 0) /\ (copies # {} => located' \in copies)
      BY <2>4, <2>6
    <2> QED
      BY <1>3, <2>7, <2>8 DEF RowsInFileOrder
  <1> QED
    BY <1>6, <1>7, <1>8 DEF FileInv

LEMMA CallerFile ==
    ASSUME PoolInv, FileInv, CallerStep \/ PoolForbidden
    PROVE  FileInv'
  <1>1. \A t : t \in Task <=> t \in 1..NumTasks
    BY DEF Task
  <1>2. NumTasks \in Nat /\ next \in Nat \ {0} /\ \A t \in Task : t \in Nat \ {0}
    BY TasksCoverTheFile DEF FileInv, NextOK, SizesOK
  <1>3. next \notin Task => \A t \in Task : t < next
    BY <1>1, <1>2
  <1>4. UNCHANGED input => Task' = Task /\ (UNCHANGED results => AllPaths' = AllPaths)
    BY Statics DEF FileInv, AllPaths
  <1>5. CASE Begins
    <2>1. /\ pc = "start" /\ pc' \in {"serial", "wait"}
          /\ UNCHANGED <<input, exe, results, disk, fut, rows, located, outcome, next>>
      BY <1>5 DEF Begins, callerRest, poolVars
    <2>2. NextOK'
      BY <1>2, <1>4, <2>1 DEF FileInv, NextOK
    <2> QED
      BY <2>1, <2>2, CountFile
  <1>6. CASE AwaitResult
    <2>1. CASE fut[next] \in Error /\ LeavePool(fut[next])
      <3>1. fut[next] # "ok" /\ pc = "wait"
        BY <1>6, <2>1 DEF AwaitResult, Error
      <3> QED
        BY <2>1, <3>1, LeaveFile
    <2>2. CASE ~ (fut[next] \in Error /\ LeavePool(fut[next]))
      <3>1. /\ pc = "wait" /\ fut[next] = "done" /\ next' = next + 1
            /\ UNCHANGED <<input, exe, results, disk, fut, rows, located, outcome, pc, verdict, shards>>
        BY <1>6, <2>2 DEF AwaitResult, callerRest, poolVars, fileVars
      <3>2. \A t \in Task : t < next' => fut[t] = "done"
        BY <1>2, <3>1 DEF FileInv, NextOK
      <3>3. NextOK'
        BY <1>2, <1>4, <3>1, <3>2 DEF NextOK
      <3> QED
        BY <3>1, <3>3, CountFile
    <2> QED
      BY <2>1, <2>2
  <1>7. CASE AllResults
    <2>1. AllDone
      BY <1>3, <1>7 DEF AllResults, FileInv, NextOK, AllDone
    <2> QED
      BY <1>7, <2>1, LeaveFile DEF AllResults
  <1>8. CASE PoolForbidden
    <2>1. /\ pc = "wait" /\ pc' = "exit" /\ verdict' = "OSError"
          /\ fut' = [t \in Task |-> "cancelled"] /\ \A t \in Task : fut[t] = "waiting"
          /\ UNCHANGED <<input, exe, results, disk, rows, located, outcome, next, shards>>
      BY <1>8 DEF PoolForbidden, fileVars
    <2>2. \A e \in Executor : ~ Busy(e)
      BY <2>1 DEF FileInv, OneEach
    <2>3. SizesOK' /\ TasksOK' /\ OneEach' /\ BatchesOK' /\ DoneOK'
      BY <2>1, <2>2, CallerKeeps
    <2>4. NextOK'
      BY <2>1 DEF FileInv, NextOK
    <2>5. RowsInFileOrder'
      BY <2>1, RowsStay DEF FileInv
    <2> QED
      BY <2>3, <2>4, <2>5 DEF FileInv
  <1>9. CASE ExitPool
    <2>1. /\ pc = "exit" /\ \A e \in PoolProcess : exe[e].st \in {"idle", "dead"}
          /\ UNCHANGED <<input, exe, results, disk, rows, located, verdict>>
      BY <1>9 DEF ExitPool, AfterPool, Continue, callerRest, fileVars
    <2>2. \A e \in Executor : ~ Busy(e)
      BY <2>1, NobodyBusy
    <2>3. CASE verdict = "ok" /\ pc' = "run" /\ shards' = AllPaths
               /\ UNCHANGED <<fut, outcome, next, warned>>
      <3>1. NextOK'
        BY <1>4, <2>1, <2>3 DEF FileInv, NextOK, AllDone
      <3> QED
        BY <2>1, <2>3, <3>1, CountFile
    <2>4. CASE pc' = "serial" /\ next' = 1 /\ fut' = [t \in Task |-> "waiting"]
               /\ UNCHANGED <<shards, outcome>>
      <3>1. SizesOK' /\ TasksOK' /\ OneEach' /\ BatchesOK' /\ DoneOK'
        BY <2>1, <2>2, <2>4, CallerKeeps
      <3>2. NextOK'
        BY <1>2, <1>4, <2>4, <2>1 DEF NextOK
      <3>3. RowsInFileOrder'
        BY <2>1, <2>4, RowsStay DEF FileInv
      <3> QED
        BY <3>1, <3>2, <3>3 DEF FileInv
    <2>5. CASE pc' = "clean" /\ outcome' = "error" /\ UNCHANGED <<fut, next, shards, warned>>
      <3>1. NextOK'
        BY <2>5 DEF FileInv, NextOK
      <3> QED
        BY <2>1, <2>5, <3>1, CountFile
    <2> QED
      BY <1>9, <2>3, <2>4, <2>5 DEF ExitPool, AfterPool, Continue
  <1>10. CASE SerialTask
    <2>1. ~ Busy(0) /\ 0 \in Executor /\ next \in Task /\ fut[next] = "waiting"
      BY <1>10, ExecutorFacts DEF SerialTask, Busy, Working, Idle, PoolInv
    <2> QED
      BY <1>10, <2>1, BeginFile DEF SerialTask, callerRest, fileVars, PoolInv
  <1>11. CASE SerialResult
    <2>1. /\ pc = "serial"
          /\ UNCHANGED <<input, exe, results, disk, fut, rows, located, verdict>>
      BY <1>11 DEF SerialResult, callerRest, poolVars, fileVars
    <2>2. CASE next \in Task /\ fut[next] = "done" /\ next' = next + 1
               /\ UNCHANGED <<pc, shards, outcome>>
      <3>1. \A t \in Task : t < next' => fut[t] = "done"
        BY <1>2, <2>1, <2>2 DEF FileInv, NextOK
      <3>2. NextOK'
        <4>1. Task' = Task /\ fut' = fut /\ pc' = "serial" /\ next' \in Nat \ {0}
          BY <1>2, <1>4, <2>1, <2>2
        <4> QED
          BY <3>1, <4>1 DEF NextOK
      <3> QED
        BY <2>1, <2>2, <3>2, CountFile
    <2>3. CASE pc' = "clean" /\ outcome' = "error" /\ UNCHANGED <<next, shards>>
      <3>1. NextOK'
        BY <2>3 DEF FileInv, NextOK
      <3> QED
        BY <2>1, <2>3, <3>1, CountFile
    <2>4. CASE next \notin Task /\ pc' = "run" /\ shards' = AllPaths
               /\ UNCHANGED <<next, outcome>>
      <3>1. AllDone
        BY <1>3, <2>1, <2>4 DEF FileInv, NextOK, AllDone
      <3>2. NextOK'
        BY <1>2, <1>4, <2>1, <2>4, <3>1 DEF NextOK, AllDone
      <3> QED
        BY <2>1, <2>4, <3>2, CountFile
    <2> QED
      BY <1>11, <2>2, <2>3, <2>4 DEF SerialResult
  <1>12. CASE Run
    BY <1>12, RunFile
  <1>13. CASE Clean
    <2>1. /\ pc = "clean" /\ pc' = "end"
          /\ UNCHANGED <<input, exe, fut, results, outcome, rows, located, next>>
      BY <1>13 DEF Clean, callerRest, poolVars
    <2>2. \A e \in Executor : ~ Busy(e)
      BY <2>1, NobodyBusy
    <2>3. Executor' = Executor /\ Task' = Task /\ SizesOK'
      BY <2>1, Statics DEF FileInv
    <2>4. OneEach' /\ BatchesOK'
      BY <2>1, <2>2, <2>3 DEF OneEach, BatchesOK, Busy
    <2>5. TasksOK' /\ DoneOK' /\ NextOK'
      BY <2>1, <2>3 DEF FileInv, TasksOK, DoneOK, NextOK
    <2>6. RowsInFileOrder'
      BY <2>1, RowsStay DEF FileInv
    <2> QED
      BY <2>3, <2>4, <2>5, <2>6 DEF FileInv
  <1> QED
    BY <1>5, <1>6, <1>7, <1>8, <1>9, <1>10, <1>11, <1>12, <1>13 DEF CallerStep

\* FileInv is inductive along with PoolInv.
THEOREM FileInvariant == Spec => []FileInv
  <1>1. Init => FileInv
    BY InitFile
  <1>2. PoolInv /\ FileInv /\ [Next]_vars => FileInv'
    <2> SUFFICES ASSUME PoolInv, FileInv, [Next]_vars PROVE FileInv'
      OBVIOUS
    <2>1. CASE CallerStep \/ PoolForbidden
      BY <2>1, CallerFile
    <2>2. CASE \E e \in Executor :
                 BatchStep(e) \/ \E error \in {"OSError", "Other"} : Raise(e, error)
      BY <2>2, BatchFile DEF PoolInv
    <2>3. CASE \E e \in PoolProcess : Take(e) \/ Die(e) \/ Terminate(e)
      <3>1. PICK e \in PoolProcess : Take(e) \/ Die(e) \/ Terminate(e)
        BY <2>3
      <3>2. e \in Executor
        BY <3>1, ExecutorFacts DEF PoolInv
      <3>3. CASE Take(e)
        <4>1. ~ Busy(e) /\ UNCHANGED <<input, callerVars, disk>>
          BY <3>3 DEF Take, Busy, Working, fileVars
        <4>2. PICK t \in Pending : Begin(e, t)
          BY <3>3 DEF Take
        <4>3. t \in Task /\ fut[t] = "waiting"
          BY DEF Pending
        <4> QED
          BY <3>2, <4>1, <4>2, <4>3, BeginFile DEF PoolInv
      <3> QED
        BY <3>1, <3>2, <3>3, DeathFile DEF PoolInv
    <2>4. CASE UNCHANGED vars
      <3>1. UNCHANGED <<input, callerVars, poolVars, fileVars>>
        BY <2>4 DEF vars
      <3>2. SizesOK' /\ Task' = Task /\ Executor' = Executor /\ Blobs' = Blobs
            /\ \A i : Slice(i)' = Slice(i)
        BY <3>1, Statics DEF FileInv
      <3>3. OneEach' /\ TasksOK' /\ NextOK'
        BY <3>1, <3>2 DEF FileInv, OneEach, TasksOK, NextOK, AllDone, AllPaths, Busy,
                          callerVars, poolVars
      <3>4. BatchesOK'
        <4> SUFFICES ASSUME NEW d \in Executor, Busy(d)' PROVE BatchAt(d)'
          BY <3>2 DEF BatchesOK
        <4>1. \A u \in Task : u \in Nat
          BY TasksCoverTheFile DEF FileInv
        <4>2. Busy(d) /\ exe'[d] = exe[d] /\ exe[d].task \in Nat /\ BatchAt(d)
          BY <3>1, <4>1 DEF FileInv, OneEach, BatchesOK, Busy, poolVars
        <4> QED
          BY <3>1, <4>2, BatchStays DEF FileInv, fileVars
      <3>5. DoneOK'
        BY <3>1, DoneStays DEF FileInv, callerVars, poolVars, fileVars
      <3>6. RowsInFileOrder'
        BY <3>1, RowsStay DEF FileInv, callerVars
      <3> QED
        BY <3>2, <3>3, <3>4, <3>5, <3>6 DEF FileInv
    <2> QED
      BY <2>1, <2>2, <2>3, <2>4 DEF Next
  <1> QED
    BY <1>1, <1>2, PoolInvariant, PTL DEF Spec

\* A read that succeeds has the rows of every blob exactly once and in file
\* order, and located the node in a blob that holds it, for any number of workers
\* and any failures of theirs.
THEOREM RowsAreTheFile == Spec => []RowsInFileOrder
  <1>1. FileInv => RowsInFileOrder
    BY DEF FileInv
  <1> QED
    BY <1>1, FileInvariant, PTL
=============================================================================
