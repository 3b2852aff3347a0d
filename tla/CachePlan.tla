------------------------------ MODULE CachePlan ------------------------------
(***************************************************************************)
(* How a worker sizes its KV cache: ModelCachePolicy and                   *)
(* WorkerCachePlanner of vllm_metal/v1/cache_policy.py.                    *)
(*                                                                         *)
(* Start-up is a conversation. The worker plans a byte budget and reports  *)
(* it (or the capacity of a pool it has already allocated), the engine     *)
(* turns the report and the layer specifications into a block count and    *)
(* layer groups, and the worker binds its caches to that answer. The       *)
(* engine is external, as is the machine the commit probe measures. Byte   *)
(* counts are in units of one layer's latent page; the memory fraction is  *)
(* in quarters.                                                            *)
(***************************************************************************)
EXTENDS Integers, Sequences, FiniteSets, SequencesExt

CONSTANTS
    PlanLaunches,      \* the configurations a worker may be started with
    PlanBlock,     \* tokens per block
    MinBlocks,     \* PAGED_ATTENTION_MIN_BLOCKS
    PoolAlign,     \* SharedOffloadRegion.BLOCK_SIZE_ALIGNMENT
    SampleBytes,   \* KV_COMMIT_SAMPLE_BYTES
    ReserveFloor,  \* KV_COMMIT_RESERVE_FLOOR_BYTES
    ToleranceFloor \* KV_COMMIT_SWAP_TOLERANCE_FLOOR_BYTES

ASSUME PlanConstantsAssumption ==
    /\ PlanBlock \in Nat \ {0} /\ MinBlocks \in Nat \ {0} /\ PoolAlign \in Nat \ {0}
    /\ {SampleBytes, ReserveFloor, ToleranceFloor} \subseteq Nat

VARIABLES
    planPhase,  \* how far start-up is; "refused" when it raised an error
    launch,     \* the configuration and the machine of this start
    plan,       \* _PagedAttentionPlan
    cpuBytes,   \* cpu_bytes_to_use in the connector's configuration
    pool,       \* num_blocks of a runtime allocated before the engine answered
    engine      \* KVCacheConfig: block count and groups of layers

planVars == <<planPhase, launch, plan, cpuBytes, pool, engine>>

(* A launch: the model's layers (size: kv heads times head size), and what *)
(* the user and the machine contribute; 0 stands for an option not given.  *)
NoLaunch == [layers |-> <<>>]
NoPlan == [budget |-> 0, blocks |-> 0, pool |-> 0, overhead |-> 0, shrunk |-> FALSE]
NoEngine == [blocks |-> 0, groups |-> <<>>]

PlanInit ==
    /\ planPhase = "off" /\ launch = NoLaunch /\ plan = NoPlan
    /\ cpuBytes = 0 /\ pool = 0 /\ engine = NoEngine

SumOf(seq) == FoldLeft(LAMBDA a, b : a + b, 0, seq)
CeilDiv(a, b) == (a + b - 1) \div b
Larger(a, b) == IF a > b THEN a ELSE b
Smaller(a, b) == IF a < b THEN a ELSE b

-----------------------------------------------------------------------------
(* What the scheduler is told about the layers, and what a block costs. *)

(* _use_turboquant *)
UseTurboquant(c) == c.turboquant /\ c.kind # "mla"

(* _kv_factor *)
KvFactor(c) == IF c.kind = "mla" THEN 1 ELSE 2

(* turboquant_state_content_bytes: packed payload and scales, three        *)
(* quarters of the dense page here.                                        *)
TurboPage(size) == (3 * size) \div 2

(* _num_kv_cache_layers: the layers that own attention cache. The leading  *)
(* ones under YOCO, the attention layers of a hybrid model.                *)
CacheLayers(c) == SubSeq(c.layers, 1, c.cached)

(* _attention_layer_spec: a layer's page_size_bytes as the engine sees it. *)
SpecPage(c, size) ==
    IF UseTurboquant(c) THEN TurboPage(size)
    ELSE IF c.kind = "mla" THEN size
    ELSE 2 * size

(* _draft_layer_specs: plain attention at the target's block size. *)
DraftPages(c) == [i \in DOMAIN c.draft |-> 2 * c.draft[i]]

(* get_kv_cache_spec, by layer name; state layers are padded to a page.     *)
Specs(c) ==
    [i \in DOMAIN CacheLayers(c) |-> SpecPage(c, c.layers[i])] \o DraftPages(c)

(* get_cache_block_size_bytes *)
BlockBytes(c) ==
    SumOf(DraftPages(c))
      + (IF UseTurboquant(c) THEN Len(CacheLayers(c)) * TurboPage(c.layers[1])
         ELSE KvFactor(c) * SumOf(CacheLayers(c)))

(* _require_supported_per_layer_shapes, _reject_turboquant_for_mla *)
Supported(c) ==
    /\ c.perLayer => ~c.turboquant /\ c.kind # "hybrid"
    /\ c.kind = "mla" => ~c.turboquant

(* scheduler_memory_reporting_mode; _uses_upstream_storage is "layout". *)
ReportingMode(c) ==
    IF c.kind = "encoder" THEN "pooling"
    ELSE IF c.kind = "hybrid" \/ c.draft = <<>> THEN "layout"
    ELSE "capacity"

-----------------------------------------------------------------------------
(* The host pool of the offloading connector. *)

AutoPool(c) == c.pool = "auto"

(* _offload_chunk_bytes *)
ChunkBytes(c) == CeilDiv(BlockBytes(c) * c.perChunk, PoolAlign) * PoolAlign

(* _bounded_pool *)
BoundedPool(bytes, cap, floor) == Smaller(Larger(bytes, floor), Larger(cap, floor))

(* One full-length request and the null block, or 0 where none is owed. *)
RequestBytes(c) ==
    IF c.autoFit \/ c.override # 0 \/ c.explicit # 0 THEN 0
    ELSE (CeilDiv(c.maxLen, PlanBlock) + 1) * BlockBytes(c)

(* _auto_pool_limits: the cap of an automatic pool in a budget. *)
PoolCap(c, total) ==
    IF RequestBytes(c) = 0 THEN total \div 4
    ELSE Smaller(total \div 4, total - RequestBytes(c))

NewPool(c, wanted, total) == BoundedPool(wanted, PoolCap(c, total), ChunkBytes(c))

(* _resolve_kv_offload_pool: the pool and whether planning goes on. *)
ResolvePool(c, total) ==
    IF c.pool = "none" THEN [ok |-> TRUE, pool |-> 0, writes |-> FALSE]
    ELSE IF ~AutoPool(c) THEN [ok |-> TRUE, pool |-> c.poolBytes, writes |-> FALSE]
    ELSE IF total <= 0 THEN [ok |-> TRUE, pool |-> 0, writes |-> FALSE]
    ELSE LET new == NewPool(c, c.poolBytes, total) IN
         [ok |-> ~(total - new < RequestBytes(c) /\ RequestBytes(c) <= total),
          pool |-> new, writes |-> new # c.poolBytes]

(* Mutant of RecapPool: the pool is capped but the connector is not told. *)
RecapPoolSilent(c, total, old) ==
    LET new == Smaller(old, NewPool(c, old, total))
        raises == RequestBytes(c) # 0 /\ total - new < RequestBytes(c)
    IN  IF ~AutoPool(c) \/ (~raises /\ total < new) THEN [ok |-> TRUE, pool |-> old, writes |-> FALSE]
        ELSE [ok |-> ~raises, pool |-> new, writes |-> FALSE]

(* _recap_kv_offload_pool *)
RecapPool(c, total, old) ==
    LET new == Smaller(old, NewPool(c, old, total))
        raises == RequestBytes(c) # 0 /\ total - new < RequestBytes(c)
    IN  IF ~AutoPool(c) \/ (~raises /\ total < new) THEN [ok |-> TRUE, pool |-> old, writes |-> FALSE]
        ELSE [ok |-> ~raises, pool |-> new, writes |-> new < old]

-----------------------------------------------------------------------------
(* The plan. *)

Usable(c) == (c.limit * c.quarters) \div 4
Reserve(c) == Larger(ReserveFloor, c.limit \div 16)

(* Memory the engine allocates after the plan: the TurboQuant prefill       *)
(* workspace, and the expert cache with one stacked layer.                 *)
FutureBytes(c) == (IF c.turboquant THEN c.workspace ELSE 0) + c.experts

Overhead(c) == c.profiled + FutureBytes(c)

(* base_kv_budget_bytes *)
BaseBudget(c) == Usable(c) - c.weights - Overhead(c)

(* kv_swap_tolerance_bytes *)
Tolerance(probed) == Larger(ToleranceFloor, probed \div 8)

(* kv_pool_bytes_after_probe: what is free counts only if the sample of    *)
(* the pool displaced other memory.                                        *)
FitAfterProbe(c, budget, hostPool) ==
    IF c.displaced <= Tolerance(Smaller(budget, SampleBytes)) THEN budget
    ELSE Smaller(budget, Larger(0, c.available - Reserve(c) - FutureBytes(c) - hostPool))

(* The room the probe sees for cache and host pool together. *)
ProbedRoom(c) == Larger(0, c.available - Reserve(c) - FutureBytes(c))

(* _probe_committed_pool: an explicit budget is never shrunk, a machine    *)
(* that does not page keeps the plan whatever it has free.                 *)
Probed(c, budget, hostPool) ==
    LET fit == IF c.probe /\ budget > 0 THEN FitAfterProbe(c, budget, hostPool) ELSE budget IN
    [ok |-> fit >= budget \/ c.explicit = 0, budget |-> fit, shrunk |-> fit < budget]

(* A plan for the cache and the host pool, and the pool the connector is told. *)
Planned(c, budget, hostPool, told, shrunk) ==
    [ok |-> TRUE, told |-> told,
     plan |-> [budget |-> budget, blocks |-> Larger(0, budget \div BlockBytes(c)),
               pool |-> hostPool, overhead |-> Overhead(c), shrunk |-> shrunk]]
NotPlanned(c) == [ok |-> FALSE, told |-> c.poolBytes, plan |-> NoPlan]

(* The pool is settled in the budget, checked by the probe, and settled     *)
(* again if the probe shrank the budget.                                   *)
PlanSettled(c, first, probed, second) ==
    LET recap == probed.shrunk /\ first.pool # 0
        told == IF first.writes THEN first.pool ELSE c.poolBytes
    IN  IF ~first.ok \/ ~probed.ok \/ (recap /\ ~second.ok) THEN NotPlanned(c)
        ELSE IF recap /\ second.pool < first.pool
        THEN Planned(c, ProbedRoom(c) - second.pool, second.pool,
                     IF second.writes THEN second.pool ELSE told, TRUE)
        ELSE Planned(c, probed.budget, first.pool, told, probed.shrunk)

ProbedAfter(c, base, hostPool) ==
    Probed(c, IF c.explicit # 0 THEN base ELSE base - hostPool, hostPool)

(* _paged_attention_plan *)
PlanFor(c) ==
    LET base == IF c.explicit # 0 THEN c.explicit ELSE BaseBudget(c)
        first == ResolvePool(c, base)
    IN  PlanSettled(c, first, ProbedAfter(c, base, first.pool), RecapPool(c, ProbedRoom(c), first.pool))

(* _validate_paged_attention_plan *)
ValidPlan(p, minBlocks) == p.budget > 0 /\ p.blocks >= minBlocks

-----------------------------------------------------------------------------
(* The conversation. *)

Launch(c) ==
    /\ planPhase = "off"
    /\ planPhase' = "loaded" /\ launch' = c /\ cpuBytes' = c.poolBytes
    /\ UNCHANGED <<plan, pool, engine>>

Refuse == planPhase' = "refused" /\ UNCHANGED <<launch, plan, cpuBytes, pool, engine>>

(* determine_available_memory of a pooling encoder: zero bytes. *)
ReportNothing ==
    /\ planPhase = "loaded" /\ ReportingMode(launch) = "pooling"
    /\ planPhase' = "reported" /\ UNCHANGED <<launch, plan, cpuBytes, pool, engine>>

(* determine_available_memory where vLLM will lay the cache out. *)
ReportBudget ==
    /\ planPhase = "loaded" /\ ReportingMode(launch) = "layout"
    /\ \E made \in {PlanFor(launch)} :
         IF ~Supported(launch) \/ ~made.ok \/ (launch.override = 0 /\ ~ValidPlan(made.plan, 0))
         THEN Refuse
         ELSE /\ planPhase' = "reported" /\ plan' = made.plan /\ cpuBytes' = made.told
              /\ UNCHANGED <<launch, pool, engine>>

(* determine_available_memory with setup_paged_attention: the pool is      *)
(* allocated now, with the block override if it is within the plan.        *)
ReportCapacity ==
    /\ planPhase = "loaded" /\ ReportingMode(launch) = "capacity"
    /\ \E made \in {PlanFor(launch)} :
         IF ~Supported(launch) \/ ~made.ok \/ ~ValidPlan(made.plan, MinBlocks)
            \/ launch.override > made.plan.blocks
         THEN Refuse
         ELSE /\ planPhase' = "reported" /\ plan' = made.plan /\ cpuBytes' = made.told
              /\ pool' = IF launch.override # 0 THEN launch.override ELSE made.plan.blocks
              /\ UNCHANGED <<launch, engine>>

(* The bytes the worker reported. *)
Reported == IF ReportingMode(launch) = "capacity" THEN pool * BlockBytes(launch) ELSE plan.budget

(* vLLM: blocks that fit the report, or the override; it refuses a cache   *)
(* that cannot hold one request. Layers it keeps apart form groups.        *)
EngineConfigures ==
    LET pages == Specs(launch)
        blocks == IF launch.override # 0 THEN launch.override
                  ELSE IF pages = <<>> THEN 0 ELSE Reported \div SumOf(pages)
        target == 1..launch.cached
        draft == (1..Len(pages)) \ target
    IN  /\ planPhase = "reported"
        /\ IF /\ pages # <<>> /\ ~launch.autoFit
              /\ blocks < CeilDiv(launch.maxLen, PlanBlock) + 1
           THEN Refuse
           ELSE /\ planPhase' = "configured"
                /\ \E groups \in {<<target \cup draft>>, <<target, draft>>,
                                  <<target \cup (draft \ {Len(pages)}), {Len(pages)}>>} :
                     engine' = [blocks |-> blocks, groups |-> IF pages = <<>> THEN <<>> ELSE groups]
                /\ UNCHANGED <<launch, plan, cpuBytes, pool>>

(* _scheduler_group_indices_for_layers *)
GroupsOf(layers) == {g \in DOMAIN engine.groups : engine.groups[g] \cap layers # {}}

(* _adopt_draft_scheduler_group: all draft layers in one group. *)
DraftAdoptable ==
    LET layers == {launch.cached + i : i \in DOMAIN launch.draft} IN
    layers = {} \/ Cardinality(GroupsOf(layers)) = 1

(* initialize_kv_cache: "overrun" is the engine asking for more blocks     *)
(* than the pool that is already allocated.                                *)
InitializeKVCache ==
    /\ planPhase = "configured"
    /\ planPhase' = IF ~DraftAdoptable THEN "refused"
                    ELSE IF pool # 0 /\ engine.blocks > pool THEN "overrun"
                    ELSE "serving"
    /\ UNCHANGED <<launch, plan, cpuBytes, pool, engine>>

PlanNext ==
    \/ \E c \in PlanLaunches : Launch(c)
    \/ ReportNothing \/ ReportBudget \/ ReportCapacity
    \/ EngineConfigures \/ InitializeKVCache

PlanSpec == PlanInit /\ [][PlanNext]_planVars

-----------------------------------------------------------------------------
(* Properties. *)

HasCache == planPhase = "serving" /\ launch.kind # "encoder"

(* What the engine may write to, the bytes of its blocks at the size their *)
(* specifications give them.                                               *)
PlannedBytes == engine.blocks * SumOf(Specs(launch))

(* What the user allowed bounds everything the process comes to hold: the  *)
(* weights, the profiled and reserved overhead, the cache and, on unified  *)
(* memory, the host pool the connector was told to allocate. On a machine  *)
(* that paged during the probe so does what was free. A block override is  *)
(* outside the budget where no pool is planned.                            *)
WithinBudget ==
    launch.explicit = 0 /\ (launch.override = 0 \/ pool # 0)
      => launch.weights + launch.profiled + FutureBytes(launch) + PlannedBytes + cpuBytes
           <= Usable(launch)
WithinFreeMemory ==
    plan.shrunk /\ (launch.override = 0 \/ pool # 0)
      => PlannedBytes + cpuBytes + FutureBytes(launch) + Reserve(launch) <= launch.available

(* An automatic host pool leaves the cache room for the longest request,   *)
(* and the size the connector reads is the planned one.                    *)
PoolAsPlanned ==
    launch.pool # "none" /\ plan.budget > 0 =>
        /\ cpuBytes = plan.pool
        /\ AutoPool(launch) => plan.budget >= RequestBytes(launch)

(* The engine uses exactly the blocks a pool was allocated with: the two   *)
(* byte counts of a block, one for the report and one per layer, agree.    *)
EngineMatchesPool == pool # 0 => engine.blocks = pool

(* Once a worker serves, the memory it will hold is what was planned, and  *)
(* the engine counts the blocks the worker has (cache_policy.py:348-380,   *)
(* 843-878, 1208-1415); the engine never asks for more than the pool.      *)
MemoryPlanHolds ==
    /\ planPhase # "overrun"
    /\ HasCache => WithinBudget /\ WithinFreeMemory /\ PoolAsPlanned /\ EngineMatchesPool

=============================================================================
