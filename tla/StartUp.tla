------------------------------ MODULE StartUp ------------------------------
(***************************************************************************)
(* Accepting, completing and refusing a launch (platform.py, config.py,    *)
(* v1/kv_offload/config.py, stt/policy.py) and loading its model           *)
(* (ModelLoad), for the MLX backend.                                       *)
(*                                                                         *)
(* MetalPlatform.check_and_update_config rewrites the engine's VllmConfig  *)
(* in place and runs twice on it: in the front process, and again on the   *)
(* rewritten config in the engine core, which is the same process or a     *)
(* spawned one that inherits only the environment. It also leaves state    *)
(* behind in its process: the MetalConfig singleton, the command-buffer    *)
(* default in the environment, Ray. Several engines may follow one another *)
(* in one process. The model is loaded later, by a worker that is the core *)
(* or a process of its own, and by then the checkpoint may have changed.   *)
(***************************************************************************)
EXTENDS ModelLoad, FiniteSets, FiniteSetsExt, TLC

CONSTANTS
    UpLaunches,      \* configs the first engine of a process may have
    UpRelaunches,    \* and the later ones
    MambaPage,     \* bytes of a recurrent state page
    PackedToken,   \* TurboQuant bytes of a token, all heads of a layer
    PlainToken,    \* dense bytes of a token
    KernelTokens,  \* the kernel's block alignment
    MaxModelLen,
    UpMaxEngines,    \* bound: engines one process runs, one after another
    UpMaxChanges     \* bound: changes of the checkpoint on disk

ASSUME StartUpAssumption ==
    /\ {MambaPage, PackedToken, PlainToken, KernelTokens, MaxModelLen}
          \subseteq Nat \ {0}
    /\ {UpMaxEngines, UpMaxChanges} \subseteq Nat

VARIABLES
    config,    \* the engine's VllmConfig, rewritten in place
    asked,     \* the config as the user gave it
    proc,      \* the front process' plugin state
    environ,   \* MLX_MAX_MB_PER_BUFFER: "unset", "user", "default"
    ray,       \* "down", "foreign", "ours"
    outcome,   \* of the last hook run: [ok, touched, steady], and `here`: the
               \* worker runs in the front process
    checkpoint, \* the vision checkpoint on disk
    changes,
    coreConfig, \* the engine core's own copy, rewritten there once more
    servedBy,  \* plugin state of the process that serves the engine
    loaded,    \* what the worker has loaded
    upPhase,   \* "idle", "checked", "sized", "up", "loaded", "refused",
               \* "failed" (in the load)
    engines

upVars == <<config, asked, proc, environ, ray, outcome, checkpoint, changes,
            coreConfig, servedBy, loaded, upPhase, engines>>

FreshProc == [turbo |-> FALSE, moe |-> FALSE, diffusion |-> FALSE,
              installed |-> FALSE, hooked |-> FALSE, mode |-> "unknown"]
NoConfig == [off |-> TRUE]

UpInit ==
    /\ config = NoConfig /\ asked = NoConfig
    /\ coreConfig = NoConfig /\ servedBy = NoConfig
    /\ loaded = NothingLoaded
    /\ checkpoint \in Checkpoints /\ changes = 0
    /\ proc = FreshProc
    /\ environ \in {"unset", "user"}
    /\ ray \in {"down", "foreign"}
    /\ outcome = [ok |-> TRUE, touched |-> FALSE, steady |-> TRUE, here |-> FALSE]
    /\ upPhase = "idle"
    /\ engines = 0

-----------------------------------------------------------------------------
(* What the hook refuses, in the order it looks. *)

RefusedUnread(c) ==
    \/ c.unsupported
    \/ c.draftQuant = "bad"
    \/ c.draftQuant = "q4" /\ c.spec # "dspark"
RefusedOutright(c) == RefusedUnread(c) \/ c.turbo = "bad" \/ c.moe = "bad"

\* apply_moe_expert_offload and the turboquant keys only ever switch on.
Configured(p, c) ==
    [p EXCEPT !.turbo = @ \/ c.turbo = "on", !.moe = @ \/ c.moe = "on"]

RefusedByMemoryModes(c, p) ==
    \/ c.sleep /\ c.spec \notin {"none", "ngram"}
    \/ p.moe /\ \/ c.runner # "generate" \/ c.pp > 1
                \/ c.lora \/ c.spec # "none"

Executor(c) ==
    IF c.executor = "none" THEN IF c.pp > 1 THEN "mp" ELSE "uni" ELSE c.executor

RefusedExecutor(c) ==
    \/ c.executor = "uni" /\ c.pp > 1
    \/ c.executor = "ray" /\ c.rayHook = "foreign"

RefusedKVFormat(c) == c.skipLayers \/ c.kvDtype = "quantized"

RefusedDrafting(c) ==
    /\ c.spec # "none"
    /\ c.heteroVocab \/ c.shortPrefill

RefusedDiffusion(c, p) ==
    /\ c.diffusion # "no"
    /\ \/ c.diffusion = "other" \/ ~c.canvas
       \/ c.spec # "none" \/ c.shortPrefill \/ c.pp > 1 \/ c.lora \/ p.turbo

\* Prefix caching is on by default for hybrid models; a state family that
\* cannot keep checkpoints in this mode loses it.
LosesPrefixCache(c) ==
    /\ c.hybrid # "no" /\ c.apc
    /\ c.mambaMode \notin
          (IF c.hybrid = "gdn" THEN {"none", "align"} ELSE {"none"})

\* Speculation on a hybrid model: n-gram drafts on GDN state with the lazy
\* kernels; a downgrade of prefix caching needs an unset mamba block size.
RefusedHybrid(c) ==
    /\ c.hybrid # "no"
    /\ \/ c.spec # "none" /\ ~(c.spec = "ngram" /\ c.hybrid = "gdn" /\ c.lazy)
       \/ LosesPrefixCache(c) /\ c.mambaBlock # c.block

RefusedPlacement(c) ==
    \/ c.pp > 1 /\ c.highPort
    \/ c.tp > 1
    \/ c.dp > 1 /\ \/ c.moeModel \/ c.dpBackend # "ray" \/ c.dpLocal # 1
                   \/ c.otherLb \/ c.pp > 1 \/ c.spec # "none" \/ c.lora

OffloadAsked(c) ==
    c.connector \in {"none", "upstream", "metal"}
        /\ (c.offSize > 0 \/ c.connector # "none")

RefusedOffload(c) ==
    \/ c.connector = "other" /\ c.offSize > 0
    \/ OffloadAsked(c) /\
          \/ c.offSize > 0 /\ c.offBackend # "native"
          \/ c.simpleOffload \/ c.pp > 1 \/ c.dp > 1
          \/ c.runner = "pooling" \/ c.mla \/ c.spec \in {"dflash", "dspark"}
          \/ c.tier = "obj" \/ c.offSpec = "other"
          \/ Executor(c) # "uni"

RefusedPipeline(c) ==
    c.pp > 1 /\ \/ c.async /\ ~c.v2
                \/ c.spec # "none" \/ c.lora

RefusedModel(c, mode) ==
    \/ c.images /\ c.pruning
    \/ c.images /\ mode = "text_sidecar" /\ c.smallBatch
    \/ c.dp > 1 /\ c.images
    \/ c.stt /\ (c.pp > 1 \/ c.dp > 1)
    \/ c.pp > 1 /\ ~c.images /\ c.quant \in {"awq", "gguf"}
    \/ c.lora /\ c.quant = "gguf"

RefusedRay(c, p) == c.dp > 1 /\ \/ ray # "down" /\ ~(ray = "ours" /\ p.hooked)
                                \/ ray = "down" /\ c.rayHook = "foreign"

-----------------------------------------------------------------------------
(* What it rewrites. *)

\* default_host_pool_bytes: two requests, rounded up to blocks once known.
HostPool(c) ==
    LET tokens == IF c.block = 0 THEN MaxModelLen
                  ELSE ((MaxModelLen + c.block - 1) \div c.block) * c.block
    IN  2 * PlainToken * tokens

OffloadingResized(c) ==
    IF ~OffloadAsked(c) THEN c
    ELSE [c EXCEPT !.connector = "metal", !.offSize = 0, !.offSpec = "metal",
                   !.pool = IF c.offSize > 0 THEN c.offSize ELSE HostPool(c),
                   !.autoPool = c.offSize = 0]

\* configure_kv_offloading: the size is translated once and disarmed; a pool
\* this hook sized is marked, so that the planner may shrink it.
Offloading(c) ==
    IF ~OffloadAsked(c) THEN c
    ELSE [c EXCEPT
            !.connector = "metal", !.offSize = 0, !.offSpec = "metal",
            !.pool = IF c.offSize > 0 THEN c.offSize
                     ELSE IF @ = 0 THEN HostPool(c) ELSE @,
            !.autoPool = IF c.offSize > 0 THEN FALSE
                         ELSE IF c.pool = 0 THEN TRUE ELSE @]

Synchronous(c) ==
    c.spec # "none" \/ c.diffusion # "no" \/ c.stt \/ c.pp > 1

\* A diffusion model takes no modality but text, whatever its checkpoint has.
Rewritten(c, mode) ==
    LET off == Normalised(Offloading(c), mode)
        loses == LosesPrefixCache(c)
    IN  [off EXCEPT
           !.worker = IF @ = "auto" THEN "metal" ELSE @,
           !.executor = Executor(c),
           !.rayHook = IF c.executor = "ray" THEN "metal" ELSE @,
           !.async = @ /\ ~Synchronous(c),
           !.apc = @ /\ ~loses /\ ~c.stt,
           !.mambaMode = IF loses THEN "none" ELSE @,
           !.mambaBlock = IF loses THEN MaxModelLen ELSE @,
           !.closed = IF c.diffusion # "no" /\ c.images
                      THEN {"image", "video", "audio"} ELSE @]

\* The command-buffer default: a user export wins, the plugin's own is
\* recomputed for every launch and removed where it does not qualify.
MbBuffer(p, c) ==
    IF environ # "unset" /\ ~(environ = "default" /\ p.installed)
    THEN [env |-> environ, installed |-> p.installed]
    ELSE IF c.bigMemory /\ ~c.largeBatch /\ Executor(c) \in {"uni", "mp"}
    THEN [env |-> "default", installed |-> TRUE]
    ELSE [env |-> "unset", installed |-> FALSE]

\* The whole hook on config c in a process p. Only a launch that nothing
\* refuses reaches Ray and the environment.
Hook(c, p) ==
    LET early == Configured(p, c)
        served == [early EXCEPT !.diffusion = c.diffusion # "no"]
        mode == BackboneMode(c, p, checkpoint)
        reaches == ~(RefusedByMemoryModes(c, early) \/ RefusedExecutor(c)
                     \/ RefusedKVFormat(c) \/ RefusedDrafting(c))
        normalises == reaches /\ ~(\/ RefusedDiffusion(c, early)
                                  \/ RefusedHybrid(c) \/ RefusedPlacement(c)
                                  \/ RefusedOffload(c) \/ RefusedPipeline(c))
        decided == IF c.images THEN Decided(c, served, checkpoint) ELSE served
        refused == \/ ~normalises
                   \/ RefusedModel(Normalised(c, mode), mode)
                   \/ RefusedRay(c, early)
        mb == MbBuffer(p, c)
    IN  IF RefusedOutright(c)
        THEN [ok |-> FALSE, config |-> c, env |-> environ, ray |-> ray,
              proc |-> IF ~RefusedUnread(c) /\ c.turbo \in {"on", "bad"}
                       THEN [p EXCEPT !.turbo = TRUE] ELSE p]
        ELSE IF refused
        THEN [ok |-> FALSE, config |-> c, env |-> environ, ray |-> ray,
              proc |-> IF normalises THEN decided
                       ELSE IF reaches THEN served ELSE early]
        ELSE [ok |-> TRUE, config |-> Rewritten(c, mode), env |-> mb.env,
              ray |-> IF c.dp > 1 THEN "ours" ELSE ray,
              proc |-> [decided EXCEPT !.installed = mb.installed,
                                       !.hooked = @ \/ c.dp > 1]]

-----------------------------------------------------------------------------
(* Block sizes: upstream's, then the packed page's. *)

DivUp(a, b) == (a + b - 1) \div b
Lcm(a, b) == a * Min({k \in 1..b : (a * k) % b = 0})

\* Tokens an attention block needs for its page to cover a state page.
CoveringBlock(align, tokenBytes) ==
    align * DivUp(MambaPage, align * tokenBytes)

\* Upstream (external): the kernel's alignment, or the user's size; for a
\* hybrid model raised until the dense page covers the state page, which is
\* padded to it.
UpstreamSized(c) ==
    LET base == IF c.userBlock = 0 THEN KernelTokens ELSE c.userBlock
        block == IF c.hybrid = "no" THEN base
                 ELSE LET need == CoveringBlock(Lcm(KernelTokens, base),
                                                PlainToken)
                      IN  IF need > base THEN need ELSE base
    IN  [c EXCEPT !.block = block,
                  !.mambaBlock = IF c.hybrid # "no" /\ c.mambaMode = "align"
                                 THEN block ELSE @,
                  !.padded = IF c.hybrid = "no" THEN @
                             ELSE IF block * PlainToken = MambaPage THEN 0
                             ELSE block * PlainToken]

\* _realign_hybrid_block_size_for_turboquant.
Realigned(c, p) ==
    IF ~p.turbo \/ c.hybrid = "no" THEN c
    ELSE LET align == Lcm(KernelTokens, IF c.userBlock = 0 THEN 1
                                        ELSE c.userBlock)
             need == CoveringBlock(align, PackedToken)
             block == IF c.block < need THEN need ELSE c.block
         IN  [c EXCEPT !.block = block,
                       !.mambaBlock = IF c.mambaMode = "align" THEN block
                                      ELSE @,
                       !.padded = IF block * PackedToken = MambaPage THEN 0
                                  ELSE block * PackedToken]

-----------------------------------------------------------------------------

CheckLaunch(c) ==
    /\ upPhase = "idle" /\ engines < UpMaxEngines
    /\ LET h == Hook(c, proc)
       IN  /\ asked' = c
           /\ config' = h.config
           /\ proc' = h.proc /\ environ' = h.env /\ ray' = h.ray
           /\ outcome' = [ok |-> h.ok, steady |-> TRUE, here |-> FALSE,
                          touched |-> h.ray # ray \/ h.env # environ]
           /\ upPhase' = IF h.ok THEN "checked" ELSE "refused"
    /\ engines' = engines + 1
    /\ UNCHANGED <<checkpoint, changes, coreConfig, servedBy, loaded>>

SizeBlocks ==
    /\ upPhase = "checked"
    /\ config' = Realigned(UpstreamSized(config), proc)
    /\ upPhase' = "sized"
    /\ UNCHANGED <<asked, proc, environ, ray, outcome, checkpoint, changes,
                   coreConfig, servedBy, loaded, engines>>

\* The engine core runs the hook again, here or in a spawned process; a
\* data-parallel replica sees a data-parallel size of one. A worker of its
\* own process starts fresh; the worker applies the additional config once
\* more. `steady` is lost when the disk no longer bears out what the front
\* process decided on and a spawned core decides anew.
StartCore(spawned) ==
    /\ upPhase = "sized"
    /\ LET c == [config EXCEPT !.dp = 1]
           h == Hook(c, IF spawned THEN FreshProc ELSE proc)
           worker == IF Executor(c) = "uni" THEN h.proc ELSE FreshProc
       IN  /\ outcome' = [ok |-> h.ok /\ h.config = c, touched |-> FALSE,
                          here |-> ~spawned /\ Executor(c) = "uni",
                          steady |-> \/ ~spawned
                                     \/ BackboneMode(c, FreshProc, checkpoint)
                                           = BackboneMode(c, proc, checkpoint)]
           /\ coreConfig' = h.config
           /\ servedBy' = Configured(worker, c)
           /\ proc' = IF spawned THEN proc
                      ELSE IF Executor(c) = "uni" THEN servedBy' ELSE h.proc
           /\ environ' = IF spawned THEN environ ELSE h.env
    /\ upPhase' = "up"
    /\ UNCHANGED <<config, asked, ray, checkpoint, changes, loaded, engines>>

\* The worker loads, and sets its caches up; what it decided of the checkpoint
\* stays with its process.
LoadModel ==
    /\ upPhase = "up"
    /\ loaded' = Loaded(coreConfig, servedBy, checkpoint)
    /\ upPhase' = IF loaded'.ok /\ ~RefusedCaches(coreConfig) THEN "loaded" ELSE "failed"
    /\ proc' = IF outcome.here THEN LoadDecided(coreConfig, proc, checkpoint) ELSE proc
    /\ UNCHANGED <<config, asked, environ, ray, outcome, checkpoint, changes,
                   coreConfig, servedBy, engines>>

\* Files are fetched, replaced or deleted while an engine starts.
ChangeCheckpoint(k) ==
    /\ upPhase \in {"checked", "sized", "up"} /\ changes < UpMaxChanges
    /\ k # checkpoint
    /\ LooksAtCheckpoint(asked)
    /\ checkpoint' = k /\ changes' = changes + 1
    /\ UNCHANGED <<config, asked, proc, environ, ray, outcome, coreConfig,
                   servedBy, loaded, upPhase, engines>>

\* The engine stops, or the caller drops a refused launch; its owner may also
\* shut Ray down.
Stop ==
    /\ upPhase \in {"up", "loaded", "refused", "failed"}
    /\ upPhase' = "idle"
    /\ config' = NoConfig /\ asked' = NoConfig
    /\ coreConfig' = NoConfig /\ servedBy' = NoConfig
    /\ loaded' = NothingLoaded
    /\ ray' \in {ray} \cup (IF ray = "ours" THEN {"down"} ELSE {})
    /\ UNCHANGED <<proc, environ, outcome, checkpoint, changes, engines>>

UpNext ==
    \/ upPhase = "idle" /\ \E c \in IF engines = 0 THEN UpLaunches ELSE UpRelaunches :
          CheckLaunch(c)
    \/ SizeBlocks
    \/ \E spawned \in BOOLEAN : StartCore(spawned)
    \/ LoadModel
    \/ \E k \in Checkpoints : ChangeCheckpoint(k)
    \/ Stop

UpSpec == UpInit /\ [][UpNext]_upVars

-----------------------------------------------------------------------------
(* Property. *)

\* The hook accepts its own result a second time and changes nothing in it.
\* Only a spawned core that finds another checkpoint decides otherwise.
SecondPassAgrees == upPhase = "up" /\ outcome.steady => outcome.ok

\* A refused launch leaves Ray and the environment alone.
RefusalsTouchNothing == upPhase = "refused" => ~outcome.touched

\* A command-buffer default is in force exactly for the launches it is meant
\* for, whatever engine ran before.
MbFollowsLaunch ==
    upPhase \in {"checked", "sized", "up", "loaded"} /\ environ # "user" =>
        (environ = "default") =
            (asked.bigMemory /\ ~asked.largeBatch
                /\ config.executor \in {"uni", "mp"})

\* An attention block's page covers the state page, which is padded to it
\* exactly, in blocks the kernel and the scheduler can divide.
PagesAlign ==
    upPhase \in {"sized", "up", "loaded"} /\ config.hybrid # "no" =>
        LET page == config.block * (IF proc.turbo THEN PackedToken
                                    ELSE PlainToken)
        IN  /\ page >= MambaPage
            /\ page = IF config.padded = 0 THEN MambaPage ELSE config.padded
            /\ config.block % KernelTokens = 0
            /\ config.userBlock # 0 => config.block % config.userBlock = 0
            /\ config.mambaMode = "align" => config.mambaBlock = config.block

TakesImages(c) == c.images /\ "image" \notin c.closed

\* The loaded model is what the front end promised: images are served
\* exactly where they are accepted, whatever the disk did since and whichever
\* process decided (v1/model_adapter.py:528-663, v1/model_lifecycle.py:91-132;
\* multimodal-native asks for no such promise), the sidecar has the plain KV
\* cache and decode path it needs, offloaded experts have their store, and a
\* pipeline stage still holds unread weights when it is cut
\* (v1/model_lifecycle.py:266-438, v1/model_runner.py:695-707).
LoadKeepsPromise ==
    upPhase = "loaded" /\ loaded.loader \notin {"stt", "encoder"} =>
        /\ outcome.steady /\ asked.mmMode # "native" =>
              loaded.adapter = TakesImages(config)
        /\ loaded.sidecar => ~servedBy.turbo /\ config.spec = "none"
        /\ servedBy.moe => loaded.store
        /\ config.pp > 1 => loaded.lazy

\* An accepted launch comes up as it was checked: the engine core's own run
\* of the hook agrees with the front process', the pages of a hybrid model's
\* two kinds of layers fit each other, the worker loads the model that was
\* promised, and neither a refused launch nor an engine that ran before shows
\* in the environment or in Ray
\* (platform.py:540-1135, 1327-1527, v1/kv_offload/config.py:94-231).
LaunchesComeUp ==
    /\ SecondPassAgrees
    /\ RefusalsTouchNothing
    /\ MbFollowsLaunch
    /\ PagesAlign
    /\ LoadKeepsPromise

=============================================================================
