----------------------------- MODULE ModelLoad -----------------------------
(***************************************************************************)
(* How a multimodal checkpoint is to be served, and how a worker loads a   *)
(* model (v1/model_adapter.py, v1/model_lifecycle.py, the load step of     *)
(* v1/model_runner.py and v1/lora/runtime.py), as functions of an engine's *)
(* config, of the process that asks and of the checkpoint on disk.         *)
(*                                                                         *)
(* `c.family` is the checkpoint's kind: "text", "gemma" (Gemma 4: an       *)
(* mlx-lm text model with a vision sidecar), "native" (mlx-vlm with an     *)
(* adapter of this plugin), "fp8" (such a one in FP8, served by its text   *)
(* model), "forced" (a wrapper without an adapter, served the same way),   *)
(* "lfm3" (text, but mlx-vlm's), "encoder", "diffusion". `c.images` says   *)
(* that vLLM's multimodal_config is set, `c.languageOnly` that it says     *)
(* language_model_only, `c.closed` which modalities the front end refuses. *)
(* A checkpoint is "whole", "blind" (no vision weights, or a processor     *)
(* that does not build) or "absent" (no local directory).                  *)
(***************************************************************************)
EXTENDS Integers

Checkpoints == {"whole", "blind", "absent"}

-----------------------------------------------------------------------------
(* The backbone mode. *)

\* should_force_text_backbone.
ForcedText(c) == c.family \in {"forced", "fp8"}

\* _gemma4_text_only_reason: some reason not to serve images.
TextOnlyReason(c, checkpoint) ==
    \/ c.spec # "none"
    \/ c.quant = "awq"
    \/ checkpoint # "whole"

\* --language-model-only, while multimodal_config stands.
LanguageOnly(c) == c.images /\ c.languageOnly

\* Only Gemma 4 looks at the checkpoint.
LooksAtCheckpoint(c) ==
    ~LanguageOnly(c) /\ c.mmMode = "auto" /\ c.quant # "gguf" /\ c.family = "gemma"

\* A process keeps what it decided for a checkpoint. `p.mode` is the decision
\* for the one served without drafts, the others do not depend on the disk (an
\* AWQ checkpoint is another checkpoint).
Kept(c) == c.spec = "none" /\ c.quant # "awq"

\* multimodal_backbone_mode.
BackboneMode(c, p, checkpoint) ==
    CASE LooksAtCheckpoint(c) ->
            IF p.mode # "unknown" /\ Kept(c) THEN p.mode
            ELSE IF TextOnlyReason(c, checkpoint) THEN "text_only"
            ELSE "text_sidecar"
      [] LanguageOnly(c) -> "text_only"
      [] ~LanguageOnly(c) /\ c.mmMode = "text" -> "text_only"
      [] ~LanguageOnly(c) /\ c.mmMode = "native" -> "native"
      [] OTHER ->
            IF c.quant = "gguf" \/ ForcedText(c) THEN "text_only" ELSE "native"

\* The process, once it has decided.
Decided(c, p, checkpoint) ==
    IF LooksAtCheckpoint(c) /\ Kept(c)
    THEN [p EXCEPT !.mode = BackboneMode(c, p, checkpoint)]
    ELSE p

\* normalize_model_config: the text-only mode clears multimodal_config, the
\* sidecar closes the modalities it has no encoder or no room for.
Normalised(c, mode) ==
    IF ~c.images THEN c
    ELSE IF mode = "text_only" THEN [c EXCEPT !.images = FALSE]
    ELSE IF mode = "text_sidecar"
    THEN [c EXCEPT !.closed = @ \cup (IF c.prefixLM THEN {"video"} ELSE {})
                                \cup (IF c.audioTower THEN {} ELSE {"audio"})]
    ELSE c

-----------------------------------------------------------------------------
(* The load. *)

EncoderPooling(c) == c.runner = "pooling" /\ c.family = "encoder"

\* load_encoder_pooling_backend: "supports only text inputs".
EncoderTextOnly(c) == ~c.images

RefusedEncoder(c) == c.pp > 1 \/ c.lora \/ ~EncoderTextOnly(c)

\* GenerationLoadRequest.from_runner, in the worker's process: the front end
\* takes images that this process would not serve, or the sidecar's
\* checkpoint is gone.
RefusedRequest(c, mode, checkpoint) ==
    c.images /\ \/ mode = "text_only"
                \/ c.quant = "gguf"
                \/ mode = "text_sidecar" /\ checkpoint = "absent"

\* _load_text_sidecar; loading the sidecar itself fails without its weights.
RefusedSidecar(c, p, checkpoint) ==
    \/ c.spec # "none" \/ p.turbo \/ c.softcap
    \/ checkpoint # "whole"

\* Which loader: GGUF first, then mlx-vlm for a composite (and for LFM3),
\* the AWQ loader, mlx-lm. The sidecar's text model is mlx-lm's.
Loader(c, composite) ==
    IF c.quant = "gguf" THEN "gguf"
    ELSE IF composite \/ c.family = "lfm3" THEN "mlx-vlm"
    ELSE IF c.quant = "awq" THEN "awq"
    ELSE "mlx-lm"

\* What a pruned or offloaded model needs: weights still unread.
Lazy(c, p, loader) ==
    \/ loader = "mlx-vlm" /\ c.pp > 1
    \/ loader = "mlx-lm" /\ (c.pp > 1 \/ p.moe)

\* build_multimodal_adapter.
HasAdapter(c, sidecar) == sidecar \/ c.family \in {"native", "fp8"}

\* resolve_model_dims: per-layer metadata is not cut into stages, and GDN
\* state needs the model's own dtype or float32, with drafts float32.
RefusedDims(c) ==
    \/ c.pp > 1 /\ c.perLayer
    \/ c.hybrid = "gdn" /\ \/ c.ssm = "mixed"
                           \/ c.spec # "none" /\ c.ssm # "float32"

\* validate_diffusion_model: the DiffusionGemma layout, which only mlx-vlm
\* builds.
RefusedDiffusionModel(c, loader) == c.diffusion # "no" /\ loader # "mlx-vlm"

\* MetalLoRARuntime.setup: no adapters next to drafts.
RefusedAdapters(c) == c.lora /\ c.spec # "none"

NothingLoaded ==
    [ok |-> FALSE, loader |-> "none", lazy |-> FALSE, store |-> FALSE,
     adapter |-> FALSE, sidecar |-> FALSE]

\* _install_generation_model: the adapter follows the mode that was decided.
Installed(c, p, loader, sidecar) ==
    [ok |-> TRUE, loader |-> loader, lazy |-> Lazy(c, p, loader),
     store |-> p.moe /\ loader = "mlx-lm",
     adapter |-> c.images /\ HasAdapter(c, sidecar), sidecar |-> sidecar]

EncoderLoaded(c) ==
    IF RefusedEncoder(c) THEN NothingLoaded
    ELSE [NothingLoaded EXCEPT !.ok = TRUE, !.loader = "encoder"]

\* STTModelRunner.load_model; it takes no adapters and has no stages.
TranscriptionLoaded == [NothingLoaded EXCEPT !.ok = TRUE, !.loader = "stt"]

\* ModelLifecycle.load, and what MetalModelRunner.load_model refuses behind it,
\* in a process p.
GenerationLoaded(c, p, checkpoint) ==
    LET mode == BackboneMode(c, p, checkpoint)
        sidecar == c.images /\ mode = "text_sidecar"
        loader == Loader(c, c.images /\ mode = "native")
        refused == \/ RefusedRequest(c, mode, checkpoint)
                   \/ sidecar /\ RefusedSidecar(c, p, checkpoint)
                   \/ p.moe /\ loader # "mlx-lm"
                   \/ RefusedDims(c) \/ RefusedDiffusionModel(c, loader)
                   \/ RefusedAdapters(c)
    IN  IF EncoderPooling(c) THEN EncoderLoaded(c)
        ELSE IF refused THEN NothingLoaded
        ELSE Installed(c, p, loader, sidecar)

\* MetalWorker.init_device picks the runner by the checkpoint.
Loaded(c, p, checkpoint) ==
    IF c.stt THEN TranscriptionLoaded ELSE GenerationLoaded(c, p, checkpoint)

\* The process, once its worker has loaded: from_runner decides there too.
LoadDecided(c, p, checkpoint) ==
    IF c.stt \/ EncoderPooling(c) THEN p ELSE Decided(c, p, checkpoint)

\* MetalWorker.initialize_from_config: offloading needs a KV cache.
RefusedCaches(c) == c.stt /\ c.connector = "metal"
=============================================================================
