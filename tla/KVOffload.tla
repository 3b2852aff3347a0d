------------------------------ MODULE KVOffload ------------------------------
(***************************************************************************)
(* The host pool of the KV offload store and the connector step around a   *)
(* forward: MetalKVOffloadWorker (vllm_metal/v1/kv_offload/worker.py), the *)
(* shared region, and the connector and sleep handling of                  *)
(* MetalModelRunner and MetalWorker.                                       *)
(*                                                                         *)
(* External: vLLM's scheduler, which allocates blocks, keeps a prefix      *)
(* cache and preempts; and the upstream offloading connector, whose index  *)
(* maps chunks of blocks to rows of the pool and whose stores wait in a    *)
(* queue from the close of a step to the next step's preemption handling,  *)
(* so that they read blocks before anyone may write them again. Block i of *)
(* request r holds the content <<r, i>>.                                   *)
(***************************************************************************)
EXTENDS Integers, Sequences, FiniteSets, SequencesExt, Functions

CONSTANTS
    Reqs,       \* requests, each with its own prompt
    Blocks,     \* GPU blocks
    PoolRows,       \* rows of the host pool (num_cpu_chunks)
    Factor,     \* blocks_per_chunk
    PromptLen,  \* blocks of a prompt
    MaxSteps,   \* bound: steps executed in a behaviour
    MaxSleeps   \* bound: calls of sleep and steps that raise

ASSUME OffloadAssumption ==
    /\ Factor \in Nat \ {0} /\ PromptLen \in Nat \ {0}
    /\ MaxSteps \in Nat /\ MaxSleeps \in Nat

Junk == <<>>
VARIABLES
    (* The worker. *)
    gpu,       \* KVCacheStorage: the content of each block
    host,      \* the pool: the content of each sub-slot of each row
    released,  \* _kv_cache_released
    backed,    \* the storage has its buffers
    (* The connector step. *)
    stepPhase, \* "closed", "open" from execute_model to sample_tokens, "leaked"
    bound,     \* stores in the metadata of the open step
    queue,     \* stores of closed steps, not yet submitted
    finished,  \* jobs submitted and not yet reported
    (* The engine. *)
    tables,    \* blocks of each request that runs, in order; <<>> if it does not
    hashes,    \* prefix cache: what each block is known to hold
    index,     \* chunks in the pool: [req, chunk, row, job, ready]
    asleep,    \* tags that are asleep
    steps,
    upsets

workerVars == <<gpu, host, released, backed>>
stepVars == <<stepPhase, bound, queue, finished>>
schedVars == <<tables, hashes, index, asleep, steps, upsets>>
offVars == <<workerVars, stepVars, schedVars>>

Fresh == [b \in Blocks |-> Junk]
Subs == 0..(Factor - 1)

OffInit ==
    /\ gpu = Fresh /\ host = [row \in PoolRows |-> [s \in Subs |-> Junk]]
    /\ released = FALSE /\ backed = TRUE
    /\ stepPhase = "closed" /\ bound = {} /\ queue = {} /\ finished = {}
    /\ tables = [r \in Reqs |-> <<>>] /\ hashes = Fresh /\ index = {}
    /\ asleep = {} /\ steps = 0 /\ upsets = 0

-----------------------------------------------------------------------------
(* Transfers. *)

(* Mutant of SlotOf: a transfer that enters its first chunk in the middle  *)
(* starts at the chunk's first sub-slot.                                   *)
SlotOfFromZero(rows, skip, k) == <<rows[(k - 1) \div Factor + 1], (k - 1) % Factor>>

(* _slices: the row and sub-slot of the k-th block of a transfer.          *)
SlotOf(rows, skip, k) == <<rows[(skip + k - 1) \div Factor + 1], (skip + k - 1) % Factor>>

(* _store of every queued job; a job stores whole chunks. *)
Stored(jobs) ==
    [row \in PoolRows |-> [s \in Subs |->
        IF \E j \in jobs : j.row = row
        THEN gpu[(CHOOSE j \in jobs : j.row = row).blocks[s + 1]]
        ELSE host[row][s]]]

(* _load: blocks of a table from first on, out of the pool's rows.         *)
Loaded(pool, rows, table, first, last) ==
    [b \in Blocks |->
        IF \E i \in first..last : table[i] = b
        THEN LET i == CHOOSE i \in first..last : table[i] = b
                 slot == SlotOf(rows, (first - 1) % Factor, i - first + 1)
             IN  pool[slot[1]][slot[2]]
        ELSE gpu[b]]

(* _close_leaked_kv_connector_step comes before handle_preemptions, which  *)
(* submits the stores of every closed step: the stores submitted now.      *)
Closing == IF stepPhase = "leaked" THEN queue \cup bound ELSE queue

-----------------------------------------------------------------------------
(* The scheduler and the upstream connector's index (external). *)

Held(T) == UNION {Range(T[r]) : r \in Reqs}
Ready(r, c) == \E e \in index : e.req = r /\ e.chunk = c /\ e.ready
RowOf(r, c) == (CHOOSE e \in index : e.req = r /\ e.chunk = c).row

(* How many of r's blocks the prefix cache finds unheld: one number. *)
Cached(r, T) ==
    LET At(i) == \E b \in Blocks \ Held(T) : hashes[b] = <<r, i>>
    IN  {n \in 0..(PromptLen - 1) :
            (\A i \in 1..n : At(i)) /\ (n = PromptLen - 1 \/ ~At(n + 1))}
CachedAt(r, i, T) == CHOOSE b \in Blocks \ Held(T) : hashes[b] = <<r, i>>

(* How many chunks the pool has of r's prompt from its start on: one number. *)
Offloaded(r) ==
    LET most == PromptLen \div Factor
    IN  {n \in 0..most : (\A c \in 1..n : Ready(r, c)) /\ (n = most \/ ~Ready(r, n + 1))}

(* The first chunk of r complete after this step that the pool does not    *)
(* have, in an unused row or in one of a ready chunk not being read.       *)
NewStores(r, table, reading) ==
    LET wanted == {c \in 1..(Len(table) \div Factor) : ~\E e \in index : e.req = r /\ e.chunk = c}
        rows == {row \in PoolRows \ reading : \A e \in index : e.row = row => e.ready}
    IN  {[req |-> r, chunk |-> c, row |-> row, job |-> steps + 1,
          blocks |-> [s \in 1..Factor |-> table[(c - 1) * Factor + s]]] :
              c \in {d \in wanted : \A f \in wanted : d <= f}, row \in rows}

-----------------------------------------------------------------------------
(* Steps of the runner. *)

Awake == asleep = {} /\ steps < MaxSteps

(* The requests in P are preempted. *)
TablesWithout(P) == [q \in Reqs |-> IF q \in P THEN <<>> ELSE tables[q]]

(* Holding blocks from an earlier step, r grows by one; otherwise it takes *)
(* what the prefix cache finds, and has the pool fill the blocks behind.   *)
PrefixLens(r, T) == IF T[r] # <<>> THEN {Len(T[r])} ELSE Cached(r, T)
PrefixOf(r, T, start) ==
    IF T[r] # <<>> THEN T[r] ELSE [i \in 1..start |-> CachedAt(r, i, T)]
HitLens(r, T, start) ==
    IF T[r] # <<>> THEN {start}
    ELSE {IF n * Factor > start THEN n * Factor ELSE start : n \in Offloaded(r)}
RowsRead(r, start, hit) ==
    [k \in 1..(hit \div Factor - start \div Factor) |-> RowOf(r, start \div Factor + k)]

(* r's loads land, then the forward computes the block behind them. *)
Forwarded(pool, rows, r, table, start, hit) ==
    [b \in Blocks |-> IF b = table[hit + 1] THEN <<r, hit + 1>>
                      ELSE Loaded(pool, rows, table, start + 1, hit)[b]]

(* r runs with the blocks in added behind its prefix. *)
Advance(r, T, pool, start, hit, added) ==
    LET table == PrefixOf(r, T, start) \o added
        rows == RowsRead(r, start, hit)
        stores == NewStores(r, table, Range(rows))
    IN  /\ IsInjective(added)
        /\ gpu' = Forwarded(pool, rows, r, table, start, hit)
        /\ tables' = [T EXCEPT ![r] = table]
        /\ hashes' = [b \in Blocks |-> IF b \in Range(added)
                        THEN <<r, CHOOSE i \in DOMAIN table : table[i] = b>> ELSE hashes[b]]
        /\ IF stores = {} THEN bound' = {} /\ index' = index
           ELSE \E s \in stores :
                  /\ bound' = {s}
                  /\ index' = {e \in index : e.row # s.row} \cup
                       {[req |-> s.req, chunk |-> s.chunk, row |-> s.row,
                         job |-> s.job, ready |-> FALSE]}

(* execute_model with tokens: a step left open is closed, stores of closed *)
(* steps are submitted, and r computes its next block. The step stays open. *)
ExecuteModel(r, P) ==
    LET T == TablesWithout(P)
        pool == Stored(Closing)
    IN  /\ Awake /\ stepPhase \in {"closed", "leaked"} /\ r \notin P /\ Len(T[r]) < PromptLen
        /\ P \subseteq {q \in Reqs : tables[q] # <<>>}
        /\ \E start \in PrefixLens(r, T) : \E hit \in HitLens(r, T, start) :
           LET free == Blocks \ (Held(T) \cup Range(PrefixOf(r, T, start)))
           IN  \E added \in [1..(hit + 1 - start) -> free] :
                  Advance(r, T, pool, start, hit, added)
        /\ host' = pool
        /\ finished' = finished \cup {j.job : j \in Closing}
        /\ queue' = {} /\ stepPhase' = "open" /\ steps' = steps + 1
        /\ UNCHANGED <<released, backed, asleep, upsets>>

(* What the engine learns from a closed step. *)
Reports(done) == {IF e.job \in done THEN [e EXCEPT !.ready = TRUE] ELSE e : e \in index}

(* sample_tokens: finish_kv_connector_step queues the step's stores and    *)
(* reports the jobs that finished.                                         *)
SampleTokens ==
    /\ stepPhase = "open"
    /\ queue' = queue \cup bound /\ bound' = {} /\ stepPhase' = "closed"
    /\ index' = Reports(finished) /\ finished' = {}
    /\ UNCHANGED <<workerVars, tables, hashes, asleep, steps, upsets>>

(* execute_model raised after its forward: nothing closes the step. *)
StepRaises ==
    /\ stepPhase = "open" /\ upsets < MaxSleeps
    /\ stepPhase' = "leaked" /\ upsets' = upsets + 1
    /\ UNCHANGED <<workerVars, bound, queue, finished, tables, hashes, index, asleep, steps>>

(* execute_model with nothing scheduled: transfers still progress.         *)
NoForward(P) ==
    /\ Awake /\ stepPhase \in {"closed", "leaked"} /\ (Closing # {} \/ P # {})
    /\ P \subseteq {q \in Reqs : tables[q] # <<>>}
    /\ tables' = TablesWithout(P)
    /\ host' = Stored(Closing)
    /\ index' = Reports(finished \cup {j.job : j \in Closing}) /\ finished' = {}
    /\ queue' = {} /\ bound' = {} /\ stepPhase' = "closed" /\ steps' = steps + 1
    /\ UNCHANGED <<gpu, released, backed, hashes, asleep, upsets>>

-----------------------------------------------------------------------------
(* Sleep mode. *)

(* release_pages: best effort, the pages of the pool may stay.             *)
ReleasedPools == {host, [row \in PoolRows |-> [s \in Subs |-> Junk]]}

(* release_kv_cache_memory and discard, which refuse during a step. *)
ReleaseKVCacheMemory ==
    IF stepPhase = "open" THEN UNCHANGED workerVars
    ELSE released' = TRUE /\ backed' = FALSE /\ gpu' = Fresh /\ host' \in ReleasedPools

(* sleep(1): vLLM preempts every request, resets the prefix cache and the  *)
(* connector, whose index empties, and calls discard.                      *)
Sleep ==
    /\ asleep = {} /\ upsets < MaxSleeps
    /\ tables' = [r \in Reqs |-> <<>>] /\ hashes' = Fresh /\ index' = {}
    /\ asleep' = {"weights", "kv_cache"} /\ upsets' = upsets + 1
    /\ ReleaseKVCacheMemory
    /\ UNCHANGED <<stepVars, steps>>

(* wake_up restores what was released. *)
Restores(tags) == released /\ "kv_cache" \in tags

(* wake_up(tags); vLLM passes on the tags and may call it again. The pool  *)
(* comes back before the cache, whose blocks hold anything.                *)
WakeUp(tags) ==
    /\ asleep # {}
    /\ asleep' = asleep \ tags
    /\ IF Restores(tags) THEN released' = FALSE /\ backed' = TRUE /\ gpu' = Fresh
                         ELSE UNCHANGED <<released, backed, gpu>>
    /\ UNCHANGED <<host, stepVars, tables, hashes, index, steps, upsets>>

OffNext ==
    \/ \E r \in Reqs, P \in SUBSET Reqs : ExecuteModel(r, P)
    \/ \E P \in SUBSET Reqs : NoForward(P)
    \/ SampleTokens \/ StepRaises \/ Sleep
    \/ \E tags \in SUBSET {"weights", "kv_cache"} \ {{}} : WakeUp(tags)

OffSpec == OffInit /\ [][OffNext]_offVars

-----------------------------------------------------------------------------
(* Properties. *)

(* What attention will read is what was computed: every block of a running *)
(* request holds its own content, whether a forward wrote it, the prefix   *)
(* cache found it or the pool gave it back; and the cache has its memory   *)
(* whenever the engine may run a step (worker.py:404).                     *)
RequestsHoldTheirKV ==
    /\ \A r \in Reqs : \A i \in DOMAIN tables[r] : gpu[tables[r][i]] = <<r, i>>
    /\ asleep = {} => backed

(* A chunk the index offers holds the blocks it is named for, whatever     *)
(* preemptions, raised steps and sleeps came between its computation and   *)
(* its store (model_runner.py:1067-1075).                                  *)
PoolHoldsItsChunks ==
    \A e \in index : e.ready =>
        \A s \in Subs : host[e.row][s] = <<e.req, (e.chunk - 1) * Factor + s + 1>>

(* The offload store never changes what a block of a prompt contains.      *)
OffloadKeepsContent == RequestsHoldTheirKV /\ PoolHoldsItsChunks

=============================================================================
