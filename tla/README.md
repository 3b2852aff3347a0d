# vllm-metal in TLA+

This directory is the verification development for vllm-metal, the vLLM platform
plugin that runs models on Apple GPUs through MLX. It holds TLA+ modules for the
parts of `vllm_metal/` that keep state, or whose bookkeeping is easy to get wrong, TLC
configurations that model-check them on small instances, and proofs that TLAPS checks.

Contents: 1. the system; 2. the modules and how they are ordered; 3. the modules and
the code; 4. what each run shows; 5. bounds; 6. fairness and what is assumed of vLLM;
7. proofs; 8. findings; 9. what is only model-checked, and what is not modelled.

## 1. The system

vLLM's engine core and scheduler are a library here. They decide which requests run
in a step, how many tokens each computes, which blocks it may use, and they call the
plugin: `execute_model`, `sample_tokens`, `get_output`, adapter calls, KV connector
calls, sleep and wake. The plugin answers with tokens. Everything below lives behind
those calls, in one worker process per device; concurrency comes from the engine
issuing the next step before it has read the last one's output, from lazy MLX arrays
that are evaluated later than they are written, from I/O threads, and from the stages
of a pipeline that run the same steps at their own pace.

| Component | State it keeps | Operations | Interacts with | What is hard | What makes it correct |
|---|---|---|---|---|---|
| Decode pipeline, `v1/decode_pipeline.py` | pending step and its lazy token rows, one-slot resolved output, serials | gate, barrier, assemble, submit, resolve | runner (synchronous calls), engine (async output wrapper) | outputs asked for one step late; the slot holds one output only | no desync error; outputs in order; every step answered |
| Model runner, `v1/model_runner.py` | request states, tracked sequence lengths, stashed forward, readmission ledger | `execute_model`, `sample_tokens`, eviction, readmission | pipeline, caches, drafters, LoRA, connector | preemption, dropped outputs, id reuse, failed samples around a pending token | every forward reads true tokens; runner and scheduler agree; nothing leaks |
| Hybrid state, `attention/caches/state_cache.py`, `attention/state/`, `attention/impls/gdn_*.py` | state pools, parked updates, verify stash | zero, copy, views for decode, park, rescan, sleep | scheduler's blocks, kernels, spec decode | parked writes and block reuse; rollback of rejected drafts | state summarises exactly the computed tokens; checkpoints exact |
| Paged attention, `attention/`, `metal/paged_attention.cpp` | K/V by slot | pack, write, route to a kernel, read | every forward | each kernel numbers rows, sequences and blocks its own way | a row reads exactly the K/V its position may see, once |
| KV offload, host pool and connector, `v1/kv_offload/` | host rows, stores of a step | start and finish a step, load, save, release | runner, upstream connector, sleep | an exception inside an open step; blocks written again before a store | what is read is what the blocks held |
| KV offload, file tier, `v1/kv_offload/fs_tier.py` | LRU index, byte count, jobs in flight | store, load, finish jobs, evict, re-index | upstream I/O threads, KV event consumers | jobs end before they are reported; partial failure; restart | index matches disk; files in use survive; LRU; cap |
| Draft-model proposer, `v1/spec_decode.py`, `v1/draft_model_proposer.py` | draft KV, tracked lengths, ledger of speculative writes | verify, plan, ingest, lookahead, release | scheduler's blocks, prefix cache | skipped, deferred and chunked ingests, shared blocks | tracked and shareable draft KV belongs to committed tokens |
| Block drafters, `v1/block_draft_*.py`, `v1/dflash*.py`, `v1/dspark*.py` | draft pages, end of valid context | load a checkpoint, ingest captured features, draft a block | target's hidden states, scheduler's pages | a gap ends the engine, an overlap drafts from rejected tokens | queries see committed features and their own block |
| MTP assistant, `v1/gemma4_mtp.py`, `spec_decode/gemma4/` | process-wide loaded model, per-runner binding | plan sharing, bind, seed, propose | target KV cache | cached model against new caches; row of the seed | drafts start from the target's own KV and row |
| n-gram drafter, `v1/ngram_proposer.py` | miss streaks, pauses, pending drafts | propose, score, pause, drop | controller, hybrid stride | drafts dropped before verification, reused ids | drafts fit; pauses rest on evidence |
| LoRA, `v1/lora/` | registered LRU, resident LRU, pins, slot table, published mapping | add, reload in place, remove, pin, route a step or an encoder call | runner, encoder, wrapped layers | two caches that evict from each other, half-failed calls | each row runs its own adapter; tables agree; batches that fit are served |
| MoE expert offload, `moe_offload.py` | LRU of experts, byte count, stack of a layer | install, get, evict, clear | layers | one call larger than the budget, its hits among the oldest entries | a call keeps what it asked for; exact byte count |
| Sampling, `v1/sampling_batch.py`, `v1/structured_output.py` | generators, native keys | mask, choose a path, sample, scatter, verify | runner, grammars | batches in several orders at once | each token from its row, mask and draw |
| Prompt logprobs, `v1/prompt_logprobs.py` | accumulators | register, observe a chunk, discard | runner | preemption between chunks, id reuse | every prompt position scored once |
| Multimodal, `v1/mm/`, `multimodal/` | features and encoder outputs | encode, merge, position | runner, LoRA, scheduler's encoder budget | chunks that cut placeholders, lazy towers | every placeholder row is its feature's |
| Diffusion, `v1/diffusion.py` | canvas, history, KV | encode, denoise, commit | scheduler's draft tokens | clipping, preemption, rollback of positions | a canvas is committed as converged, behind its own KV |
| Pooling, `v1/pooling/` | batch of spans | admit, prefill, pool | runner, front end | chunks, resumption, fatal exceptions | pooled once, from the whole prompt |
| Speech to text, `v1/stt_model_runner.py`, `stt/` | stashed output | transcribe, split, merge | scheduler, audio cache | shared features, overlaps, budgets | transcripts whole |
| Pipeline parallelism, `distributed/pipeline.py` | layer range, mirrored states | form the ring, receive, run, send | MLX ring | both ends must plan the same rows | stages agree on every step |
| Cache policy, worker, `v1/cache_policy.py`, `v1/worker.py` | plan, pool | plan, probe, bind, sleep, wake | engine, machine | the same bytes counted in several places | memory held is memory planned |
| Platform and configuration, `platform.py`, `config.py` | environment, configuration singleton | check and rewrite a launch | front process, engine core | the hook runs twice and over several engines | what was accepted comes up as checked |
| Native build, `metal/build.py` | artifacts and records | build, load | tool chain | interrupted builds, sources that change back | records vouch for what is there |
| GGUF/AWQ loading, PyTorch backend, patches | - | convert, install | start-up | numerical | not modelled |

The hazards, each at its line, are listed in `PROJECT.json`.

## 2. The plan, and where it stands

Order, most important first. Everything in the table is written and checked.

| | Module | Composes | Status |
|---|---|---|---|
| 1 | `DecodePipeline` | - | proved |
| 2 | `TokenStream`, the abstract token stream | - | refined by 3 |
| 3 | `DecodeRunner` | extends 1, implements 2 | safety and refinement proved |
| 4 | `HybridState`, `FsTier`, `LoRASlots`, `ExpertStore`, over the helpers of `Subsequences` | - | proved |
| 4 | `DraftKV` | - | model-checked |
| 5 | `KVOffload`: connector step, host pool, sleep | - | proved |
| 6 | `PromptLogprobs`: what prefill chunks score | - | proved |
| 6 | `PagedAttention`, `SampleStep`: the forward and what is sampled from it | - | model-checked |
| 7 | `PipelineLink`: stages over an external ring | - | proved |
| 8 | `BlockDraft`, `NgramDraft`, `MtpDraft`: the other drafters | - | model-checked |
| 9 | `VisionPrefill`, `DiffusionCanvas`, `Pooling`, `SpeechToText` | - | model-checked |
| 10 | `KernelBuild`: the build of the extension | - | proved |
| 10 | `CachePlan`, `StartUp` over `ModelLoad`: coming up | - | model-checked |

Worth doing next: theorems for the two cache invariants of `DraftKV`; an abstract store
for `FsTier` and `KVOffload` to refine; MLA attention.
The modules avoid RECURSIVE operators for that reason, and filter and sum sequences with
recursive functions (`Subsequences`) where proofs are meant to follow.

## 3. Modules and the code they model

**`DecodePipeline`.** The class of that name with the engine loop that drives it. A
step is the number under which the engine issued it. `pending`, `pendingSerial`,
`resolved`, `rows` and `stepEligible` are the object's fields; `queue`, `consumed`
and `phase` are the engine's. `ExecuteModel` is `begin_step` (gate or barrier) plus
the check of `assemble_decode_input_ids`; `SampleDeferred` is `submit`;
`GetOutput` on an `async` output is `resolve`. The gate's capability and sampling
facts are one Boolean (`clear`), because the class only tests whether any of them
blocks; the decode requests stay a set, because coverage compares them. `SampleFails`
and `ExecuteRefused` are the runner's `_sample_failure` latch: the failure is stored,
the next step is refused, and the engine stops when it reads the failed output.

**`DecodeRunner`** extends it; each of its actions is a pipeline action together with
what `execute_model` or `sample_tokens` does around it. `states`, `seqLen`,
`awaiting`, `exec` are the runner's dictionaries and stashed forward; `entries` are
`PendingBackfillEntry` rows with the lazy value they will yield. An entry's `current`
flag says whether the `RequestState` object it points to is still the one the runner
knows. The token at position i of a request is the number i if the forward that
sampled it read the right token at the right position behind a right KV prefix, and
`Wrong` otherwise, so a mistake anywhere surfaces in `ForwardSound`. A plan
(`Plans`) is one scheduler output: preempted, dropped, scheduled, chunked, prefix-hit
and grammar requests. `StatesAfter`/`AwaitingAfter` are
`_reconcile_request_lifecycle` and the readmission path.

**`TokenStream`** is what a client may rely on: each open request receives its tokens
once and in order. `DecodeRunner` maps `open` to the requests the scheduler knows and
`delivered` to what the engine has read.

**`HybridState`.** One state layer with its two components (`conv`, `rec`), each a
pool and a parked update (`slots`, `rows`). A block's content is a record of which
text it summarises, or attention KV, or junk. `Forward` is zeroing, copy-on-write
copies, `populate_step_context`, the kernels' choice between scatter and park, and
attention's KV writes; `Sample` is `apply_spec_decode_acceptance` and the end-of-step
materialisation; `Sleep` is release and restore. `Admit`, `Grow`, `Finish`, `Preempt`
are the scheduler. Text depth, not arrays, is what the properties tell apart. A block
has more than one token (`_VLLM_MLX_KERNEL_BLOCK_SIZES`, `block_tables.py:9-18`).

**`FsTier`.** `index`, `bytes`, `jobs` are the manager's fields, `fsDisk`, `short`,
`locked` the volume. Submits and finishes run on the scheduler thread; `WriteBlock`,
`WriteFails`, `ReadBlock`, `ReadFails` are steps of upstream's I/O threads;
`Truncate`, `Permission` and `Restart` are the world. `EvictTo` is the whole eviction
pass as a function of what the first i entries freed. `Subsequences` has the filters and
sums over the index. `IndexMatchesDisk` also covers
what was advertised to routers.

**`DraftKV`.** A cell of the draft cache holds what its KV was computed from: its
token behind a prefix. `draftLen` and `ledger` are `_draft_seq_lens` and
`_spec_kv_writes`. `Execute` is one step: verification outcome, then `propose` with
its plans, ingest (single or in chunks), lookahead and ledger. `Admit`,
`SchedulePrefill`, `ScheduleDecode`, `Preempt`, `Finish` are the scheduler, with its
prefix cache.

**`LoRASlots`.** The manager's state is a record that the operators take and return,
with `err` for the exception that left the call; what was changed by then stays
changed. `AddLora`, `RemoveLora`, `PinLora`, `Encode` and `PrepareStep` are the
runtime's entry points, each as the whole chain runtime - worker manager - model
manager. An adapter's weights are a version number, its directory may be rewritten or
broken (`Rewrite`). `ran` records each row of the last forward with the weights it
got.

**`KVOffload`.** `gpu` and `host` hold the content of blocks and of the sub-slots of a
host row; `released` and `backed` are the worker's sleep flags; `stepPhase`, `bound`,
`queue`, `finished` follow a connector step from `_kv_connector_start_step` to
`finish_kv_connector_step`. `ExecuteModel`, `StepRaises` and `NoForward` are
`execute_model` with and without an exception or a forward, `Advance` the running
request's part of it, `Closing` what `_close_leaked_kv_connector_step` adds before
preemptions are handled. The upstream
index and the scheduler's prefix cache are external.

**`PagedAttention`.** `AttnStep` packs the segments of a step (`Segments`, `Batch`),
writes K/V by slot (`Written`) and routes rows as `dispatch_paged_attention_v2_online`,
`sdpa_forward` and the TurboQuant plan do. A kernel is an operator that gives, for each
row, the groups that write it and the slots each reads (`PerToken`, `WindowGroups`,
`QBlocks`, `MixedDispatch`, `TurboQuantPrefill`, `Recomputed`); `atOut` keeps what was
read and is compared with the positions the row may see. Prefill and decode may be
combined with sliding windows, image blocks, a canvas, shared prefixes and a workspace
of any size below the reserved one.

**`SampleStep`.** A batch of decode and prefill segments through the logits layout,
grammar rows (`RowTargets`, `GrammarSpan`), choice of the native or upstream path,
generators (`Draws`, `EngineUse`), logprob groups, scattering of sub-batches and greedy
verification of drafts. **`PromptLogprobs`** follows `PromptLogprobsTracker` through
`RunnerStep`, with the readmission of requests as new or resumed ones; a logits row is
the life of its request and a position. A step packs any distinct ids in any order that
has the decodes first (`Packings`, `DecodesFirst`).

**`PipelineLink`.** Each stage has its queue of scheduler outputs and runs them in
order (`RunStage`); the wire holds what was sent. A first stage waits for nothing, a
last one samples, others mirror tokens (`_update_pp_stage_states`). `LoadStage` is the
ring bootstrap and the choice of layers.

**`BlockDraft`.** Pages hold features or temporary block KV; a drafted token records
what each query attended to. `BlockStep` is verification, ingestion of the captured
rows, then the block; `Drafter` the constructors of DFlash and DSpark with their
checkpoint formats. **`NgramDraft`.** `ngStreak`, `ngPause`, `ngPending` are the
proposer's dictionaries; the lookup kernel may find any draft. **`MtpDraft`.** The
loader's process-wide cache, the sharing plan and binding, the seeds and what each
round reads.

**`VisionPrefill`.** `ServeStep` is one step with its scheduled encoder inputs: encode
by adapter group, build mask and parts for each chunk, merge, and run with positions of
the family's adapter. `vpRun` keeps what every position ran with.

**`DiffusionCanvas`.** `EngineStep` is `DiffusionGemmaRuntime.execute_model` under
speculative scheduling; the draws of denoising are arbitrary, `dfKV` remembers which
pass wrote a slot.

**`SpeechToText`.** `StServe` is a step of `STTModelRunner`; `TranscribeClip` one clip
of a file. **`Pooling`.** `PlStep` is a step of the runner with a pooling back end; a
hidden row is the life of an id and a position.

**`CachePlan`.** `Launch`, `Report*`, `EngineConfigures` and `InitializeKVCache` are the
conversation between worker and engine. **`StartUp`.** `CheckLaunch` and `StartCore`
run `check_and_update_config` in the front process and in the core, `SizeBlocks` is
`update_block_size_for_backend`, `LoadModel` is `MetalModelRunner.load_model` in the
worker, `ChangeCheckpoint` a change of the files while the engine starts, `Stop` ends an
engine and leaves its process. **`ModelLoad`** has the functions these use: the backbone
mode with what a process remembers of it, the load request, the loaders and what each
of them refuses.
**`KernelBuild`.** `script` is what the running build has left to do; `BuildDies`
interrupts it anywhere. **`ExpertStore`.** `Get` is a layer's request,
`ReadRaises` and `ConversionRaises` the two places where one can raise, which ends the
engine, so that no later lookup meets a half-built entry; `LayerDone` the reset of its
stack.

`MC*.tla` modules only instantiate these for TLC. `MCStartUp`, `MCServing` and
`MCForward` each hold several components that share no state: `part`, chosen at the
start, says which one a behaviour exercises, and the others stay as they begin, so
that one run checks each of them exhaustively on its own instance. `*_proofs.tla` hold
theorems. Operators named as a *mutant* in their comment, or defined next to the
definition they vary and used nowhere, are deliberately wrong: substituting one for
the definition must break the property named for it in `PROJECT.json`, which shows
that the property depends on the code it is about.

## 4. What the runs show

| Run | Configuration | Question | Result |
|---|---|---|---|
| `runner` | `MCDecodeRunner` | With preemption, dropped outputs, readmission as new or resumed, chunked prefill, prefix hits, aborts, id reuse and failed samples, does every forward read true tokens, do runner and scheduler agree, is nothing kept for a gone request, are outputs in order, and does the client see a `TokenStream`? | yes |
| `runner_liveness` | `MCDecodeRunnerLiveness` | Is every deferred step answered, and does every request end? | yes |
| `hybrid_state` | `MCHybridState` | Do parked updates, verify rollback, checkpoints and block reuse leave each request with the state of exactly its tokens, and attention KV unharmed? | yes |
| `draft_kv` | `MCDraftKV` | Two requests sharing a prompt: is tracked and shareable draft KV always the committed tokens', and do the reserved blocks suffice? | yes |
| `startup` | `MCStartUp` | *plan*: is the memory held what was planned? *launch*: does an accepted launch come up as checked and load the model it promised, over several engines and a changing checkpoint? *build*: do records vouch only for what is there? *experts*: does every layer get the experts it asked for? *files*: do index, bytes and advertised blocks stay honest, and does room come from the oldest free files? *adapters*: does every row run its adapter, do the tables agree after failed calls, is every batch that fits served? | yes |
| `serving` | `MCServing` | *logprobs*: is each prompt scored once? *sample*: is each token from its own row, mask and draw? *stages*: do the stages agree on every step? *canvas*: is a canvas committed as converged? *speech*: are transcripts whole? *pooling*: is each request pooled once, from its whole prompt? | yes |
| `forward` | `MCForward` | *attention*: does every row read what its position may see, once, inside the workspace? *images*: does every placeholder get its own encoder row? *drafts*, *lookups*, *assistant*: do the three drafters build on committed tokens only, within what can be verified? *offload*: does a block read back hold what it held? | yes |
| `fs_tier_cap` | `MCFsTierCap` | "the store never crosses the cap" | violated, section 8 |
| `draft_kv_limit` | `MCDraftKVLimit` | `draft_kv` at the draft model's context limit, with deferred ingest | violated, section 8 |
| `draft_kv_chunks` | `MCDraftKVChunks` | Two long equal prompts ingested in chunks in one step | violated, section 8 |
| `lora_replace` | `MCLoRASlotsReplace` | "A failed replacement must not drop the previous working adapter." | violated, section 8 |
| `block_rows` | `MCForwardBlockRow` | Does the kernel serve every batch that carries image blocks? | violated, section 8 |

Every configuration turns deadlock detection off: behaviours are bounded (steps,
arrivals, jobs, tokens), and an engine with no request left, or one that was stopped
by an exception, rightly does nothing more. That nothing is stuck before that is what
the liveness properties of the first two modules say.

## 5. Bounds

- `runner`: two interchangeable requests, queue depth two, prompts of two tokens (so a
  prompt can be cut into chunks), five tokens in all, one preemption, two arrivals (so an
  id can be used again). Two decode steps after the prompt are needed for a placeholder
  to be pending while the next is submitted; a third lets a preemption meet that state.
  `MaxSteps` is never reached there. Liveness uses prompts of one token and three in
  all, without symmetry. The proofs of section 7 remove the bounds for
  everything but liveness.
- `hybrid_state`: two requests, five blocks of stride two, a prompt of three tokens
  of which two are shared (one checkpoint is shareable, one token is not), six tokens,
  two drafts (a span can be accepted in part), one preemption. Five blocks for at most
  two requests force reuse of blocks whose former owner has a parked update. The proofs
  of section 7 remove these bounds.
- `draft_kv`: two requests, five blocks of two tokens, a prompt of three (one shareable
  block and one token behind it), six tokens, widths zero, one and two, deferred and
  eager ingest, limit reached or not; five blocks suffice for both requests to verify
  drafts in one step, and make them reuse each other's blocks. The two violating
  configurations use eight blocks, and one request of longer text or two of longer prompts.
- *files*: three keys, blocks of two bytes and a cap of five, so two blocks fit and
  the third evicts with one byte of slack; of three jobs two can overlap, and the
  third meets what they left; two
  faults allow a truncation and a restart, or a file that cannot be deleted until it
  can.
- *adapters*: three adapters over two slots and a registry of two, rows of two tokens,
  one rewrite of a directory, and requests that reload in place for the adapter in the
  middle of the activation order. Three adapters are the fewest that make both caches
  evict while a batch names two; `MaxId` is the largest of their numbers. A registry larger than the slots occurs in
  `lora_replace`.
- *plan*: two layers in units of one latent page on a machine of 48, for every kind of
  model and with each option alone or in the pairs that interact; limits are chosen so
  that plans fail by one unit as well as succeed. *launch*: a default launch with each
  option changed, and pairs where the code combines them; a second engine follows
  the first, and the vision checkpoint changes once, at any point of a start. *build*: two libraries, two versions of everything, two edits, one crash.
  *experts*: three experts in two layers of unequal size and a budget of five, so that
  one call can exceed it; four calls.
- *logprobs*: two ids with two lives, prompts of one or three tokens, a budget of two
  rows (a prompt of three is always cut, after one token or two), three steps; the proof
  of section 7 removes these bounds. *sample*: eight mixtures of greedy,
  seeded, constrained and logprob requests, two drafts, three steps. *stages*: two and
  three stages over two and four layers, four steps, one preemption. *canvas*: canvases of
  two tokens behind prompts of three, two denoising passes, four steps, one preemption.
  *speech*: five requests for two clips; audio of up to fourteen samples cut at five or
  fewer. *pooling*: thirteen models, three prompts, five kinds of parameters, two lives,
  three steps, one preemption.
- *attention*: three requests, two of which share a block, blocks of two, tile sizes two
  and three so that tiles straddle segments, windows of verification of two, every
  batch of at most five rows over two steps. *images*: two requests per family, a budget
  of five rows, so that placeholders are cut. *drafts*: pages of two, drafts up to two
  wide, a draft context shorter than the target's, prefix caching on and off, no request
  or one of the two with structured outputs, four steps. *lookups*: one request,
  since the proposer's bookkeeping is per id, over ten steps with pauses of two.
  *assistant*: two requests, two loads of a target, widths zero and two, three steps.
  *offload*: two requests, four blocks, two host rows of two blocks, five steps, one sleep.

Requests, blocks and keys are declared symmetric where the run checks safety only and
the modules never name or order them: `runner`, `hybrid_state`, `draft_kv`, the canvas's
requests in `serving` and the file tier's keys in `startup`.

## 6. Fairness, and what is assumed of vLLM

*Fairness.* In the pipeline: once `execute_model` has returned, `sample_tokens`
follows (weak fairness of the three ways it can end), and a queued output is read
(weak fairness of `GetOutput`). Both are unconditional in the engine's busy loop.
Nothing obliges the pipeline's engine to issue another step; a deferred step must be
answered without one. The runner adds weak fairness of `ExecuteStep`, since the
scheduler goes on while it has requests. No fairness is assumed of preemption, aborts,
arrivals or failures. The other modules state no fairness: what they promise is safety.

*Assumptions on the external parts*, each a guard in a module:

- The engine leaves at most two outputs unread, reads them oldest first, and reads one
  between `execute_model` and `sample_tokens` only for a structured-output step, which
  is never eligible for deferral.
- A request that left the running set comes back only when none of its outputs is in
  flight, or when these were dropped. Preempted requests are named in the same
  scheduler output. An id is reused only when no unread step contains it. A first output
  is dropped by a preemption only where preempted requests come back as new ones.
- File tier: a key is in at most one job in flight, and one process owns the directory.
- Host pool: the upstream connector submits the stores of closed steps when the next
  step handles preemptions, offers a chunk only when its job was reported, and forgets
  its index on sleep; a prefix hit leaves at least one token to compute.
- Hybrid state: the scheduler acts between steps; only newly allocated attention blocks
  are listed for zeroing; chunks end on block boundaries in align mode; decode blocks
  are contiguous; nothing runs when the worker sleeps.
- Draft KV: scheduling is synchronous; no decoding request is left out of a step;
  running requests are served before waiting ones; uncached free blocks are handed out
  first; the KV left in a reallocated block counts as forgotten; rows that start behind
  position zero come with their full prompt. All prompts are equal and the draft model
  always predicts one token, while the target's tokens are arbitrary: that is the
  choice that makes accidental agreement most likely. Prompt chunks are one token or
  all the rest. `SameStepHits` is set where vLLM's caching of blocks at scheduling
  time matters.
- LoRA: a batch names at most `max_loras` distinct adapters, and only ones that were
  added and not removed. Rows without an adapter, and encoder calls without one, change
  nothing. A published routing whose mapping was forgotten is not read again before the
  next is published. An exception out of a step stops the engine; one out of an adapter
  call is returned to the caller.
- Prompt logprobs: a request that asks for them is not served from the prefix cache.
- Pipeline stages: every stage receives the same scheduler outputs in the same order.
- Multimodal: the scheduler keeps an encoder output until the request's computed tokens
  are past its placeholder, or no request refers to it any more.
- Pooling: the front end admits only tasks the worker advertises and options the
  platform supports; an encoder gets its whole prompt in one step.
- Native build: sources, MLX and tool chain do not change while a build runs.

## 7. Proofs

`DecodeRunner_proofs` has the theorems of the pipeline and of the runner. Its first part
proves, from the three assumptions of `DecodePipeline` alone
(some request, queue depth one or two, a natural step bound of any size):

- `TypeCorrect`, `NeverDesyncs`, `SlotIsOldest` and `ReadInOrder`: `TypeOK` and the
  runs' `NoDesync`, `SlotHoldsOldest` and `OutputsInOrder` hold of `Spec`;
- all from `Invariance`, `Spec => []IInv`.

`NoDesync` is not inductive. That `submit` finds the slot free depends on whose output
the slot holds, on how many outputs the engine has left unread, and on which step is
still in hand. `IInv` therefore joins, while the engine runs: `QueueInOrder` (unread
outputs are those of consecutive steps, and with the step in hand they fit the queue),
`PendingQueued` (a pending step's wrapper is among them), `SlotOldest` (an occupied
slot belongs to the head of a *full* queue, so no eligible step can be in hand) and
`AsyncAnswerable` (every unread wrapper is either the pending step's or the slot's).
After a failed sample was read the slot is empty, which `SlotHoldsOldest` needs once
the engine has stopped. The queue depth
enters through `SlotOldest`: with a depth of three the slot could be overwritten, and
the code relies on the engine never asking for that. There is one lemma per
action, with one step per conjunct.

The second part proves `RunnerIsPipeline`, `RunnerSpec => Spec`: every runner step
is a pipeline step or leaves it alone. The one fact that needs an argument is that the
gate facts the runner computes from its own request states are ones `DecodePipeline`
allows (`GateShapeAllowed`). `RunnerNeverDesyncs` and `RunnerReadInOrder` follow for any
number of requests, any lengths, preemptions and aborts.

The same module proves the rest of what the runs check of
the runner except liveness: `NeverStateDesync`, `ForwardsSound`, `PlaceholdersOwned`,
`NothingLeaks` and `RunnerAgrees` (`NoStateDesync`, `ForwardSound`, `PlaceholderOwned`,
`NoLeak`, `RunnerMatchesScheduler`), all from `RunnerInvariance`, `RunnerSpec => []RInv`.
They assume, besides the pipeline's assumptions, that the set of requests is finite
(`ReqFinite`, used where a plan's rows are put in an order) and the bounds of
`DecodeRunner`. None of the properties is inductive: that a forward reads true tokens
depends on tokens which are still lazy, or were read but not yet written back. `RInv`
therefore joins

- `TokensTrue`: a kept token is the true one or a placeholder, a delivered one is true;
- `EntriesOwned`: each row of the pending step carries the token that follows its
  request's, and points to the state of a running or unreported request or is stale;
- `Ledger`: a preempted request keeps its state and is in the readmission ledger, and
  who is in the ledger is preempted or about to be reported finished;
- while the engine runs, `Agreement`: output batches, acceptances and the engine's queue
  line up (`Aligned`); every unread output row is the token the request is due, counting
  the unread one before it (`OutputsDue`); between steps, a running request has in the
  runner the tokens, length and KV the scheduler counts (`RunnersSettled`); and the
  stashed forward extends exactly these (`ExecDue`).

`RunnerStreams` is the refinement, `RunnerSpec => ImplementsTokenStream`: every step maps
to one of `TokenStream` or a stutter. It needs in addition that no request is waited for
beyond its length (`WithinLength`): with two outputs unread the engine could otherwise
finish a request and deliver to it again.

`HybridState_proofs` proves `StateFollows` (`StateFollowsTokens`), `Checkpoints`
(`CheckpointsExact`), `KVSurvives` (`KVSurvivesStateWrites`) and `RollbackPoint`
(`RollbackPointKept`), all from `HybridInvariance`, `HybridSpec => []HybridInv`. They
assume `HybridAssumption`: finitely many requests, blocks of more than one token, and
lengths, drafts and preemptions with any natural bound. Blocks may be any set. Each
property speaks of contents that are right only because of who may write where, so
`HybridInv` joins

- `Progress`: how far each request is, and that the row reaches the block its state is
  in; in align mode chunks end on block boundaries and drafts stay inside one block;
- `BlocksOwned`: the blocks a request has still to write, and its KV block, are in no
  other row, are not cached, and are not the end of a copy that is due;
- `CheckpointsKept`: only checkpoints are cached and copied, no copy reads what another
  writes, and whatever has to be zeroed or copied belongs to a request about to run;
- `StepSound`: a step has at most one segment per request, and it is one the request's
  progress allows;
- `Kept`, of each component: checkpoints are in the pool and nothing is parked over
  them; KV is in place and nothing is parked over it; the state of a request outside the
  step is current behind the copy that is due (`Source`);
- `Parking`, of each component: in align mode nothing is parked between steps; during one,
  what is parked is the step's own, and a span to verify is parked as a whole over
  the state it started from.

`KVSurvives` turns on the last two together: a parked update may outlive its request, and
would be applied over a block that has since become somebody's KV, had the zeroing of
that block not applied it first. The component's operations have a lemma each
(`AppliedFacts`, `ParkedFacts`, `ZeroFacts`, `CopyFacts`, `KVFacts`), for any component;
`PreparedReady` collects what holds when the kernels start, `RanKept` what they leave,
with scatter and park as separate cases, and `AcceptedFacts` what the acceptance of a
part of a verified span makes current.

`FsTier_proofs` proves `IndexHonest` (`IndexMatchesDisk`) and `RoomFromOldest`
(`RoomMadeFromOldest`), from natural bounds and a natural cap, for any set of keys.
`FsInv` adds to the accounting what it depends on: a job in flight has its moved blocks on
the volume and is "ok" exactly when it moved all (`JobSound`), no key is in two jobs
(`JobsApart`), and index and volume name each path once (`FsTypes`). Without the last,
`bytes + (growth * BlockSize)` of `FinishStore` would not be the sum of the entries. The
eviction pass is reasoned about as the function of what its first i entries freed
(`PassFacts`, `VictimFacts`): it only grows, so a removable entry before a victim would
have been a victim, and a pass that ends above its target has passed over everything
left. Each action's effect on the account is a lemma about values (`Account`, `Sound`,
`Apart`), so that it can be used of the state before and after.

`LoRASlots_proofs` proves `TablesStayTrue` (`TablesAgree`), `RowsRunOwn`
(`RowsRunTheirAdapter`) and `MalformedHarmless` (the action property
`MalformedChangesNothing`), from `LoRAAssumption`: finitely many numbered adapters, at
least one slot, a registry no smaller than the slots, and bounds of any size. That rows
run their own adapter's weights is not inductive: a step may reuse a published mapping,
so `LInv` joins to the tables that every published route still names the slot of its
adapter (`RoutesTrue`), which holds because whatever empties or fills a slot also forgets
the publication. There is one lemma per method of the model manager, for any manager
that satisfies the invariant, whatever error left the call; the calls in between break
the tables on purpose (`remove_adapter` unpins first, `replace_adapter` changes the
weights before the layers), so `Deactivates` and `CommitKeeps` ask for less than the
whole of it. `_apply` is reasoned about adapter by adapter (`LeavingKeeps`, `ApplyKeeps`).
`BatchesServed` (`BatchServed`) says that a batch naming no more adapters than there are
slots raises nothing but a failure to load, and leaves its adapters and the pinned ones
in their slots. Half way through `_apply` this is `Serving`: who came so far or is pinned
has its slot (`K`), and whoever else sits in one belongs to the batch, because the
adapters that leave are removed first. A slot is then free for the next one by counting
(`FreeForOne`). That a full registry, which evicts its oldest entry on its own account,
never drops one of `K` is `Young`: in registry order only entries of `K` follow an
unpinned entry of `K`, so there is an older one to drop.

`Launch_proofs` proves two things that a launch relies on. `RecordsAlwaysVouch`
(`RecordsVouch`) holds for any finite set of libraries, any versions, toolchains, edits
and crashes; `BuildAssumption` says that the two extension modules are not libraries and
that no version or toolchain is called like a missing record. The induction is over what
the running build has left to do: `KInv` says of each artifact where its script stands
(`Behind`), namely that its configuration was taken back before it was replaced and is
written after the hash, the MLX version and the tool chain, so that at any point where
the build may die a configuration on disk vouches for the artifact next to it
(`Vouches`).

It also proves `ExpertsAlwaysServed` (`ExpertsServed`), from
`ExpertAssumption`: at least one layer and one expert, positive sizes and budget. What a
call asked for survives the eviction the call itself causes because it is moved to the
recent end first and eviction stops at `keep` entries (`RestFacts`); with hits left in
place this fails. That eviction stops at all when it should depends on the byte count,
so `ExInv` keeps that the count is the sum of the entries' sizes, each counted once
(`RecencyFacts`: dropping and appending what was asked for weighs as much as appending
what was missing), and that while nothing has raised no entry is partial. The store goes
over its budget only when eviction stopped at `keep`, and then holds the experts of its
last call and no others.

`Subsequences_proofs` holds the facts about filtering, cutting and summing that the other
proofs need. The induction over sequences there is done over sets of naturals: a
set that contains zero and each successor has no least non-member (`NatSetInduction`,
from the well-foundedness of the order), and a property of all sequences over S is the
set of lengths at which it holds (`SeqSetInduction`).

`KVOffload_proofs` proves `OffloadKeeps`, `OffSpec => []OffloadKeepsContent`, from
`OffloadAssumption` alone (chunks and prompts of at least one block, natural bounds on
steps and sleeps): for any requests, blocks and pool rows, finite or not. What the pool
holds is only right because of what waits on its way there, so `OffInv` joins to the two
halves of the property:

- `StoreQueue`: at most one store waits, in the open or raised step or behind the closed
  one, since each step submits what the last one left;
- `StoresHeld`: the blocks of a waiting store still hold the chunk its index entry names.
  No block is rewritten before its store reads it, because `Closing` comes first in the
  step, after an exception too. A store whose entry a sleep forgot owns no row, and
  nothing is claimed of it;
- `JobNumbers`: numbers are not used twice, so the report of a store from before a sleep
  cannot make a later entry ready;
- `RowsHeld`: a row holds its chunk from the submission on, not only from the report;
- `OneEntry` and `HashesTrue`: index and prefix cache name each row and block truly;
- `SleepClears`: while anything sleeps no reference into the cache is left, so `Restores`
  may hand out blocks with any content.

A load may enter a chunk in the middle. That it reads the sub-slot that belongs to the
block is `LoadedBlock`, from the quotient and remainder lemmas (`DivMod`,
`ChunkOfBlock`). What the scheduler and the upstream index do is the model's; the proof
says that the repository's part is right under it.

`Serving_proofs` proves two properties of what a step of the runner hands on.

`StagesAlwaysAgree` (`StagesAgree`), from `PipelineLinkAssumption` (finitely many
requests, two stages or more, a prompt of at least one token, natural bounds): what a
stage receives is the step it is about to run, computed from the true tokens, for any
number of stages and layers and any pace of the stages, and the stages divide the layers
(`SlicesCover`, for any remainder). The last stage is furthest behind, so the steps that
some stage has yet to run are its queue. `PipelineInv` says that two functions exist
which the system does not keep: `pos`, how much of each request the first i of those steps
schedule, and `base`, how much was known of a request when it was last admitted. With
them it states that the steps cut each request without gap (`Traced`), that each stage
has yet to run the last of these steps and the wire holds what the next one computes
(`Aligned`), and that a stage knows of a request exactly the tokens up to where it
stands, the last stage one more (`Mirrors`).

`PromptsScoredOnce` (`PromptScoredOnce`), from `PromptLogprobsAssumption` (finitely many
ids, prompts of at least one token, natural budget and bounds). `LpInv` has a story for
each request: one the runner does not know yet has left nothing behind or is about to be
reported finished (`Outside`); one it knows is registered exactly while the scheduler
holds no output of it and it asked, except where it was preempted and will come back as
new (`Inside`), and its accumulator holds the right row for every prompt token computed
so far (`Begun`). `Admitted` shows that the four ways into a step give the runner the
length and prompt the scheduler counts. `BoundsRise` and `SegmentRows` are about the
packed step alone: the rows between two boundaries are those of the segment. `Scored`
puts them together: a chunk extends the scored prefix by its own length, and the one that
completes has filled all of it.

Two things the attempts at these proofs showed about the models: the handling of a
readmitted request was a CASE with overlapping guards, which TLC resolves by order and
the logic does not, and is now a definition by conditions that exclude each other; and
the order of a packed step, which had been that of the ids, is now any order the code
could build.

## 8. Findings

Five runs show that the code does something else than a comment, docstring or test
says. `PROJECT.json` quotes the lines.

- `fs_tier_cap`: `submit_store` makes room for its own job only. Store jobs that are
  still in flight are not in `_store_bytes` and their files are pinned, so two of them
  take the store over the cap until the next submit. The overshoot is bounded by the
  jobs in flight.
- `draft_kv_limit`: the ledger compares a position's token and block and nothing before
  it. Near the draft model's context limit, with deferred ingest and changing widths, an
  entry can survive a rejected draft and match the token committed later, though its KV
  was computed behind the rejected one.
- `draft_kv_chunks`: the chunked cold ingest runs chunk by chunk over all rows, so a
  request that hit blocks computed by another row of the same step attends to draft KV
  of a later round. With a single forward the property holds.
- `lora_replace`: an in-place reload of a registered adapter that is not resident
  replaces its registered weights before it finds that every slot is pinned; the call
  raises and the old weights are gone.
- `block_rows`: a prefix hit can leave one row of an image block. When every segment of
  the batch has one row, the batch still carries a block range, and the extension
  refuses it. `AttentionReadsItsContext` allows exactly this refusal.

The two draft findings cost acceptance rate, not correctness of the output: the target
model verifies every draft.

Observations that are no contradiction of a line of the repository: a build that is
interrupted and whose sources are then reverted can leave a library that the loader
accepts, so what the loader accepts is claimed only without crashes
(`LoadedIsCurrent`); a request that finishes in a step without tokens keeps the n-gram
proposer's pause until its id is dropped later
(`ngram_proposer.py:152-156`, `model_runner.py:3378-3415`); words outside of timestamp
pairs are dropped from a clip that has some segment; speech requests with
`ignore_eos` or `min_tokens` run on with end tokens; the load request refuses a
multimodal config that the front process kept and the worker decides against
(`model_lifecycle.py:109-118`), but a spawned engine core runs the configuration hook on
its own copy first, so that when the checkpoint changed before, or the front process
decided from what it remembered, the core clears its copy, nothing differs at the load,
and the front end goes on accepting images for a text-only engine.
`LoadKeepsPromise` claims its first part with `steady`, which excludes exactly this; a
worker in a process of its own does detect a change after the core has decided.

## 9. What is only model-checked, and what is not modelled

Only TLC checks: the liveness properties and anything with ENABLED, which are out of
the prover's reach; and, among the safety properties, those of `DraftKV`, `CachePlan`,
`StartUp`, `SampleStep`, `DiffusionCanvas`, `SpeechToText`, `Pooling`, `PagedAttention`,
`VisionPrefill`, `BlockDraft`, `NgramDraft` and `MtpDraft`. What the folds
of the community modules compute cannot be proved, since the provers have no definition
of them to expand; the modules that are only checked still use them.

Components are checked side by side, not composed, outside the pipeline and the runner:
each module brings the scheduler behaviour it depends on, with the same rules of
preemption and readmission.

Left out of modelled components:

- runner: branches of other components (they are in those modules), profiling;
- hybrid state: eager kernels (which never defer), several layers and cache groups;
- file tier: reaping of temporary files, foreign files without a key, the default cap;
- draft-model proposer: window layouts, statistics, the error for a missing prompt;
- LoRA: `remove_all_adapters` (which nothing under `vllm_metal/` calls), the wrapping of
  layers, the PEFT reader, the grouping of rows by the kernels;
- attention: arithmetic, MLA, YOCO, the compact layouts of grouped-query kernels and the
  memory of their partial results;
- host pool: mapping of memory, several cache layers, metrics, shutdown;
- drafters: neural arithmetic; of MTP rounds only the inputs are kept;
- multimodal: the towers, processors and models with other position rules;
- pooling: arithmetic, dimensions, token-type pooling; speech: acoustics, prompts and
  languages;
- cache plan: the shapes of single architectures; start-up: patches, device queries;
- sampling: penalties, filters and their arithmetic.

Not modelled, with the reason, in `PROJECT.json` under `components`: weight formats and
quantisation (numerical, without state), the PyTorch backend (vLLM's own runner), and the
kernels' arithmetic.
