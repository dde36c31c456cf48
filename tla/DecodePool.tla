----------------------------- MODULE DecodePool -----------------------------
(***************************************************************************)
(* The front half of every out-of-core read: pool._decode_and_run decodes  *)
(* the data blobs of a PBF into shard files with a process pool            *)
(* (pool._run_pool, decode._decode_batch), falls back to this process when *)
(* the pool fails, hands the shards to the collect phase and removes them. *)
(*                                                                         *)
(* Executor 0 is the calling process, executors 1..workers are the pool's  *)
(* processes.  Any of them can meet an error at any block, and a process   *)
(* of the pool can die at any step.  A blob is its position in the file;   *)
(* a shard is the sequence of the blobs it holds.                          *)
(***************************************************************************)
EXTENDS Naturals, Sequences, FiniteSets, SequencesExt

CONSTANTS
    MaxBlobs,      \* bound: data blobs of the file
    MaxWorkers,    \* bound: the resolved worker count (pool._cap_workers)
    MaxWeight,     \* bound: bytes of a decoded block, in units of TargetBytes
    TargetBytes,   \* decode._SHARD_TARGET_BYTES
    MaxCopies,     \* bound: blobs that hold the same node
    MaxFaults      \* bound: errors and process deaths

ASSUME PoolAssumption ==
    /\ MaxBlobs \in Nat /\ MaxCopies \in Nat /\ MaxWorkers \in Nat \ {0} /\ MaxFaults \in Nat
    /\ MaxWeight \in Nat \ {0} /\ TargetBytes \in Nat \ {0}

\* Errors by what _run_pool does with them.
Error == {"OSError", "Broken", "Other"}
Partial == <<0>>

VARIABLES
    weight,     \* sequence: the bytes each blob decodes to
    workers,    \* the resolved worker count
    pc,         \* "start", "wait", "exit", "serial", "run", "clean", "end"
    copies,     \* the blobs that hold a node the read needs the coordinates of
    fut,        \* task -> "waiting", "running", "done", "cancelled" or an error
    results,    \* task -> the shard paths it returned
    exe,        \* executor -> what it is doing
    verdict,    \* how the pool's with block was left: "ok" or an error
    next,       \* the task the caller waits for, or decodes itself
    disk,       \* shard path -> blobs, or Partial; its domain is the directory
    dir,        \* whether the shard directory exists
    shards,     \* the shard paths given to run()
    outcome,    \* "none", "error" or "rows"
    rows,       \* the blobs whose rows run() collected, in order
    located,    \* the blob that node's coordinates were taken from, or 0
    warned, nfaults

callerVars == <<pc, verdict, next, shards, outcome,
                   rows, located, warned>>
poolVars == <<fut, results, exe>>
fileVars == <<disk, dir>>
input == <<weight, copies, workers>>
vars == <<input, callerVars, poolVars, fileVars, nfaults>>

Blobs == 1..Len(weight)
Executor == 0..workers

\* Mutant of PerTask: the remainder of the division is lost.
PerTaskFloor == Len(weight) \div workers

\* ceil(n / workers) blobs per task; tasks without blobs are dropped.
PerTask == (Len(weight) + workers - 1) \div workers
Slice(i) == SubSeq([b \in Blobs |-> b], i * PerTask + 1,
                   IF (i + 1) * PerTask < Len(weight) THEN (i + 1) * PerTask ELSE Len(weight))
NumTasks == Cardinality({i \in 0..workers - 1 : Slice(i) # <<>>})
Task == 1..NumTasks

Idle == [st |-> "idle", task |-> 0, pos |-> 1, pending |-> <<>>,
         paths |-> <<>>]
Bytes(blobs) == FoldSeq(LAMBDA b, sum : sum + weight[b], 0, blobs)

Init ==
    /\ weight \in UNION {[1..n -> 1..MaxWeight] : n \in 0..MaxBlobs}
    /\ copies \in {c \in SUBSET Blobs : Cardinality(c) <= MaxCopies}
    /\ workers \in 1..MaxWorkers
    /\ pc = "start" /\ verdict = "ok" /\ next = 1 /\ shards = <<>>
    /\ outcome = "none" /\ rows = <<>> /\ located = 0 /\ warned = FALSE /\ nfaults = 0
    /\ fut = [t \in Task |-> "waiting"]
    /\ results = [t \in Task |-> <<>>]
    /\ exe = [e \in Executor |-> Idle]
    /\ disk = <<>> /\ dir = FALSE

-----------------------------------------------------------------------------
(***************************************************************************)
(* decode._decode_batch, in executor e.                                    *)
(***************************************************************************)
Batch(e) == Slice(exe[e].task - 1)
Decoding(e) == exe[e].st = "decode" /\ exe[e].pos <= Len(Batch(e))
\* flush() names the shard after the task's worker id and its number.
ShardPath(e) == <<exe[e].task - 1, Len(exe[e].paths)>>

Begin(e, t) ==
    /\ exe' = [exe EXCEPT ![e] = [Idle EXCEPT !.st = "decode", !.task = t]]
    /\ fut' = [fut EXCEPT ![t] = "running"]
    /\ UNCHANGED results

\* Whether flush() follows the block that makes the pending ones these.
Flushes(e, pending) ==
    Bytes(pending) >= TargetBytes \/ exe[e].pos = Len(Batch(e))

\* Read and decode one block; flush when enough has gathered, or at the end.
DecodeBlock(e) ==
    /\ Decoding(e)
    /\ LET pending == Append(exe[e].pending, Batch(e)[exe[e].pos])
       IN  exe' = [exe EXCEPT ![e].pending = pending, ![e].pos = @ + 1,
                      ![e].st = IF Flushes(e, pending) THEN "flush" ELSE "decode"]
    /\ UNCHANGED <<input, callerVars, fut, results, fileVars, nfaults>>

\* np.savez creates the shard, replacing a file of that name, and fills it.
OpenShard(e) ==
    /\ exe[e].st = "flush" /\ dir
    /\ disk' = [p \in DOMAIN disk \cup {ShardPath(e)} |->
                  IF p = ShardPath(e) THEN Partial ELSE disk[p]]
    /\ exe' = [exe EXCEPT ![e].st = "write"]
    /\ UNCHANGED <<input, callerVars, fut, results, dir, nfaults>>

CloseShard(e) ==
    /\ exe[e].st = "write"
    /\ disk' = [p \in DOMAIN disk |->
                  IF p = ShardPath(e) THEN exe[e].pending ELSE disk[p]]
    /\ exe' = [exe EXCEPT ![e].st = "decode", ![e].pending = <<>>,
                          ![e].paths = Append(@, ShardPath(e))]
    /\ UNCHANGED <<input, callerVars, fut, results, dir, nfaults>>

EndTask(e, how) ==
    /\ fut' = [fut EXCEPT ![exe[e].task] = how]
    /\ exe' = [exe EXCEPT ![e] = Idle]
    /\ UNCHANGED <<input, callerVars, fileVars>>

Finish(e) ==
    /\ exe[e].st = "decode" /\ ~Decoding(e)
    /\ EndTask(e, "done")
    /\ results' = [results EXCEPT ![exe[e].task] = exe[e].paths]
    /\ UNCHANGED nfaults

\* A read or write error, or any other exception of the decoding.
Raise(e, error) ==
    /\ exe[e].st \in {"decode", "flush", "write"}
    /\ nfaults < MaxFaults /\ nfaults' = nfaults + 1
    /\ EndTask(e, error)
    /\ UNCHANGED results

BatchStep(e) ==
    DecodeBlock(e) \/ OpenShard(e) \/ CloseShard(e) \/ Finish(e)

-----------------------------------------------------------------------------
(***************************************************************************)
(* The processes of the pool (concurrent.futures, used by _run_pool).      *)
(***************************************************************************)
PoolProcess == Executor \ {0}
Pending == {t \in Task : fut[t] = "waiting"}
BrokenPool == \E e \in PoolProcess : exe[e].st = "dead"

\* A free process takes the first task that waits.
Take(e) ==
    /\ pc \in {"wait", "exit"} /\ exe[e].st = "idle" /\ ~BrokenPool
    /\ \E t \in Pending :
          /\ \A u \in Pending : t <= u
          /\ Begin(e, t)
    /\ UNCHANGED <<input, callerVars, fileVars, nfaults>>

Fail(t) == IF fut[t] \in {"waiting", "running"} THEN "Broken" ELSE fut[t]

\* Mutant of Die: as in multiprocessing.Pool, nothing tells the caller.
DieUnnoticed(e) ==
    /\ pc \in {"wait", "exit"} /\ exe[e].st # "dead"
    /\ nfaults < MaxFaults /\ nfaults' = nfaults + 1
    /\ exe' = [exe EXCEPT ![e] = [Idle EXCEPT !.st = "dead"]]
    /\ UNCHANGED <<input, callerVars, fut, results, fileVars>>

\* A process dies: every unfinished future fails.
Die(e) ==
    /\ pc \in {"wait", "exit"} /\ exe[e].st # "dead"
    /\ nfaults < MaxFaults /\ nfaults' = nfaults + 1
    /\ exe' = [exe EXCEPT ![e] = [Idle EXCEPT !.st = "dead"]]
    /\ fut' = [t \in Task |-> Fail(t)]
    /\ UNCHANGED <<input, callerVars, results, fileVars>>

\* The executor's manager kills the others once one has died.
Terminate(e) ==
    /\ BrokenPool /\ exe[e].st # "dead"
    /\ exe' = [exe EXCEPT ![e] = [Idle EXCEPT !.st = "dead"]]
    /\ UNCHANGED <<input, callerVars, fut, results, fileVars, nfaults>>

-----------------------------------------------------------------------------
(***************************************************************************)
(* The caller: _decode_and_run, _decode_all, _run_pool.                    *)
(***************************************************************************)
callerRest == <<input, nfaults>>

\* mkdtemp, and then the pool, or the tasks one by one without it.
Begins ==
    /\ pc = "start"
    /\ dir' = TRUE
    /\ pc' = IF workers = 1 THEN "serial" ELSE "wait"
    /\ UNCHANGED <<callerRest, poolVars, disk, verdict, next, shards, outcome,
                   rows, located, warned>>

\* Leaving the with block: pool.map cancels what still waits, except for what
\* the executor has already moved to its call queue.
LeavePool(how) ==
    /\ verdict' = how /\ pc' = "exit"
    /\ \E queued \in 0..NumTasks :
          fut' = [t \in Task |-> IF fut[t] = "waiting" /\ t > queued
                                THEN "cancelled" ELSE fut[t]]
    /\ UNCHANGED <<callerRest, results, exe, fileVars, next, shards, outcome, rows,
                   located, warned>>

\* The environment forbids pools: ProcessPoolExecutor raises OSError.
PoolForbidden ==
    /\ pc = "wait" /\ nfaults < MaxFaults
    /\ \A t \in Task : fut[t] = "waiting"
    /\ nfaults' = nfaults + 1
    /\ verdict' = "OSError" /\ pc' = "exit"
    /\ fut' = [t \in Task |-> "cancelled"]
    /\ UNCHANGED <<input, results, exe, fileVars, next, shards, outcome,
                   rows, located, warned>>

\* list(pool.map(...)): the results in the order of the tasks.
AwaitResult ==
    /\ pc = "wait" /\ next \in Task
    /\ \/ /\ fut[next] = "done"
          /\ next' = next + 1
          /\ UNCHANGED <<callerRest, poolVars, fileVars, pc, verdict, shards,
                         outcome, rows, located, warned>>
       \/ fut[next] \in Error /\ LeavePool(fut[next])

AllResults ==
    /\ pc = "wait" /\ next \notin Task
    /\ LeavePool("ok")

AllPaths == FlattenSeq([t \in Task |-> results[t]])

\* The results are used, or the caller warns and runs all tasks itself, or the
\* error is raised.
Continue(pools) ==
    /\ \/ verdict = "ok" /\ pc' = "run" /\ shards' = AllPaths
          /\ UNCHANGED <<fut, outcome, next, warned>>
       \/ verdict \in pools /\ pc' = "serial" /\ warned' = TRUE /\ next' = 1
          /\ fut' = [t \in Task |-> "waiting"]
          /\ UNCHANGED <<shards, outcome>>
       \/ verdict \in Error \ pools /\ pc' = "clean" /\ outcome' = "error"
          /\ UNCHANGED <<fut, next, shards, warned>>
    /\ UNCHANGED <<callerRest, results, exe, fileVars, verdict, rows, located>>

AfterPool == Continue({"OSError", "Broken"})

\* Mutant of ExitPool: shutdown(wait=False).
ExitPoolNoWait ==
    /\ pc = "exit"
    /\ AfterPool

\* Executor.__exit__ joins every process.
ExitPool ==
    /\ pc = "exit" /\ Pending = {}
    /\ IF BrokenPool THEN \A e \in PoolProcess : exe[e].st = "dead"
                     ELSE \A e \in PoolProcess : exe[e].st = "idle"
    /\ AfterPool

SerialTask ==
    /\ pc = "serial" /\ exe[0] = Idle /\ next \in Task /\ fut[next] = "waiting"
    /\ Begin(0, next)
    /\ UNCHANGED <<callerRest, callerVars, fileVars>>

SerialResult ==
    /\ pc = "serial" /\ exe[0] = Idle
    /\ \/ next \in Task /\ fut[next] = "done" /\ next' = next + 1
          /\ UNCHANGED <<pc, shards, outcome>>
       \/ next \in Task /\ fut[next] \in Error /\ pc' = "clean"
          /\ outcome' = "error" /\ UNCHANGED <<next, shards>>
       \/ next \notin Task /\ pc' = "run" /\ shards' = AllPaths
          /\ UNCHANGED <<next, outcome>>
    /\ UNCHANGED <<callerRest, poolVars, fileVars, verdict, rows, located, warned>>

\* The collect phase (collect.py) runs its own pools over parts of the shards:
\* contiguous parts for the ways, whose rows are concatenated in order, and
\* strided ones (shard_paths[i::workers]) for the node coordinates, where the
\* part scattered last wins.
CollectWorkers == IF verdict = "ok" THEN workers ELSE 1
Contiguous(s, w) ==
    LET per == (Len(s) + w - 1) \div w
    IN  [i \in 1..w |-> SubSeq(s, (i - 1) * per + 1, IF i * per < Len(s) THEN i * per ELSE Len(s))]
Strided(s, w) ==
    [i \in 1..w |-> [j \in 1..(Len(s) + w - i) \div w |-> s[(j - 1) * w + i]]]
BlobsIn(paths) == FlattenSeq([i \in DOMAIN paths |-> disk[paths[i]]])

\* run(shard_paths, collect_workers).  A shard that is not there, or not whole,
\* cannot be loaded.
Run ==
    /\ pc = "run" /\ pc' = "clean"
    /\ IF \A i \in DOMAIN shards :
             shards[i] \in DOMAIN disk /\ disk[shards[i]] # Partial
       THEN /\ rows' = BlobsIn(FlattenSeq(Contiguous(shards, CollectWorkers)))
            /\ LET scattered == BlobsIn(FlattenSeq(Strided(shards, CollectWorkers)))
                   hits == {i \in DOMAIN scattered : scattered[i] \in copies}
               IN  located' = IF hits = {} THEN 0 ELSE scattered[Max(hits)]
            /\ outcome' = "rows"
       ELSE outcome' = "error" /\ UNCHANGED <<rows, located>>
    /\ UNCHANGED <<callerRest, poolVars, fileVars, verdict, next, shards, warned>>

\* Mutant of Clean: only a read that succeeds removes its directory.
CleanOnSuccess ==
    /\ pc = "clean" /\ pc' = "end"
    /\ IF outcome = "rows" THEN disk' = <<>> /\ dir' = FALSE ELSE UNCHANGED fileVars
    /\ UNCHANGED <<callerRest, poolVars, verdict, next, shards, outcome,
                   rows, located, warned>>

\* The finally clause: rmtree.
Clean ==
    /\ pc = "clean" /\ pc' = "end"
    /\ disk' = <<>> /\ dir' = FALSE
    /\ UNCHANGED <<callerRest, poolVars, verdict, next, shards, outcome,
                   rows, located, warned>>

CallerStep ==
    \/ Begins \/ AwaitResult \/ AllResults \/ ExitPool
    \/ SerialTask \/ SerialResult \/ Run \/ Clean

Next ==
    \/ CallerStep \/ PoolForbidden
    \/ \E e \in Executor : BatchStep(e) \/ \E error \in {"OSError", "Other"} : Raise(e, error)
    \/ \E e \in PoolProcess : Take(e) \/ Die(e) \/ Terminate(e)

Fairness ==
    /\ WF_vars(CallerStep)
    /\ \A e \in 0..MaxWorkers :
          WF_vars(e \in Executor /\ (BatchStep(e) \/ (e # 0 /\ (Take(e) \/ Terminate(e)))))

Spec == Init /\ [][Next]_vars /\ Fairness

-----------------------------------------------------------------------------
(***************************************************************************)
(* Properties                                                              *)
(***************************************************************************)
\* A read that succeeds collects the rows of every blob exactly once and in the
\* order of the file, and takes a node's coordinates from a blob that holds it,
\* for any number of workers, whichever of them died, and whether or not it fell
\* back to a single process halfway.
RowsInFileOrder ==
    outcome = "rows" =>
        /\ rows = [b \in Blobs |-> b]
        /\ copies = {} => located = 0
        /\ copies # {} => located \in copies

\* Once the caller decodes by itself, collects or cleans up, no process of the
\* pool is left that could write to the shard directory.
NoStrayWriter ==
    pc \in {"serial", "run", "clean", "end"} =>
        \A e \in PoolProcess : exe[e].st \in {"idle", "dead"}

\* However a read ends, its shard directory is gone.
NothingLeft == pc = "end" => ~dir /\ disk = <<>>

\* Every read ends, with rows unless decoding itself raised: the death of workers, a
\* forbidden pool and an OSError inside the pool do not fail it (pool.py:54-66).
ReadEnds ==
    <>(pc = "end" /\ (outcome = "error" => \E t \in Task :
                          \/ fut[t] = "Other"
                          \/ fut[t] = "OSError" /\ (workers = 1 \/ warned)))
=============================================================================
