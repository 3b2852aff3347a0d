----------------------------- MODULE MCStartUp -----------------------------
(* Small instances of the components that decide how an engine starts and  *)
(* what it loads. They share no state: `part` says which one a behaviour   *)
(* exercises, the others stay as they begin.                               *)
EXTENDS CachePlan, StartUp, KernelBuild, ExpertStore, FsTier, LoRASlots

VARIABLE part

(* A start on a machine of 48 units: two layers, prefix of the options off. *)
PlainStart ==
    [kind |-> "dense", layers |-> <<1, 1>>, cached |-> 2, draft |-> <<>>,
     perLayer |-> FALSE, turboquant |-> FALSE, pool |-> "none", poolBytes |-> 0,
     perChunk |-> 1, autoFit |-> FALSE, override |-> 0, explicit |-> 0,
     maxLen |-> 2, limit |-> 48, quarters |-> 3, weights |-> 8, profiled |-> 4,
     workspace |-> 2, experts |-> 0, probe |-> TRUE, displaced |-> 0, available |-> 20]

KindsOfStart ==
    {PlainStart,
     [PlainStart EXCEPT !.kind = "mla"],
     [PlainStart EXCEPT !.kind = "mla", !.turboquant = TRUE],
     [PlainStart EXCEPT !.kind = "hybrid", !.cached = 1],
     [PlainStart EXCEPT !.kind = "encoder", !.cached = 0],
     [PlainStart EXCEPT !.cached = 1, !.experts = 3],
     [PlainStart EXCEPT !.layers = <<2, 2>>, !.turboquant = TRUE],
     [PlainStart EXCEPT !.layers = <<1, 2>>, !.perLayer = TRUE],
     [PlainStart EXCEPT !.layers = <<1, 2>>, !.perLayer = TRUE, !.turboquant = TRUE],
     [PlainStart EXCEPT !.draft = <<1>>],
     [PlainStart EXCEPT !.draft = <<1, 1>>, !.layers = <<2, 2>>]}

PlanStarts ==
    UNION {{c,
            [c EXCEPT !.override = 3], [c EXCEPT !.explicit = 9],
            [c EXCEPT !.weights = 30], [c EXCEPT !.autoFit = TRUE],
            [c EXCEPT !.pool = "given", !.poolBytes = 4],
            [c EXCEPT !.pool = "auto", !.poolBytes = 8],
            [c EXCEPT !.pool = "auto", !.poolBytes = 8, !.override = 3]}
           : c \in KindsOfStart}
StartsTried ==
    UNION {{c, [c EXCEPT !.probe = FALSE], [c EXCEPT !.displaced = 9],
            [c EXCEPT !.displaced = 9, !.available = 12]} : c \in PlanStarts}

(* A launch with every option at its default. *)
PlainLaunch ==
    [unsupported |-> FALSE, draftQuant |-> "none", spec |-> "none",
     turbo |-> "unset", moe |-> "unset", sleep |-> FALSE, runner |-> "generate",
     pp |-> 1, lora |-> FALSE, executor |-> "none", rayHook |-> "none",
     skipLayers |-> FALSE, kvDtype |-> "auto", heteroVocab |-> FALSE,
     shortPrefill |-> FALSE, diffusion |-> "no", canvas |-> TRUE, hybrid |-> "no",
     apc |-> TRUE, mambaMode |-> "none", lazy |-> TRUE, mambaBlock |-> 0,
     block |-> 0, highPort |-> FALSE, tp |-> 1, dp |-> 1, moeModel |-> FALSE,
     dpBackend |-> "ray", dpLocal |-> 1, otherLb |-> FALSE, connector |-> "none",
     offSize |-> 0, offBackend |-> "native", simpleOffload |-> FALSE, mla |-> FALSE,
     tier |-> "none", offSpec |-> "none", async |-> TRUE, v2 |-> TRUE,
     pruning |-> FALSE, smallBatch |-> FALSE, stt |-> FALSE, quant |-> "none",
     family |-> "text", images |-> FALSE, languageOnly |-> FALSE, closed |-> {}, mmMode |-> "auto",
     prefixLM |-> FALSE, audioTower |-> FALSE, softcap |-> FALSE,
     perLayer |-> FALSE, ssm |-> "float32", pool |-> 0, autoPool |-> FALSE,
     bigMemory |-> TRUE, largeBatch |-> FALSE, userBlock |-> 0, padded |-> 0,
     worker |-> "auto"]

(* Checkpoints with a vision side. *)
GemmaLaunch == [PlainLaunch EXCEPT !.family = "gemma", !.images = TRUE, !.perLayer = TRUE]
NativeLaunch == [PlainLaunch EXCEPT !.family = "native", !.images = TRUE]

ModelsTried ==
    {GemmaLaunch, [GemmaLaunch EXCEPT !.smallBatch = TRUE],
     [GemmaLaunch EXCEPT !.prefixLM = TRUE, !.audioTower = TRUE],
     [GemmaLaunch EXCEPT !.spec = "ngram"], [GemmaLaunch EXCEPT !.turbo = "on"],
     [GemmaLaunch EXCEPT !.quant = "awq"], [GemmaLaunch EXCEPT !.mmMode = "text"],
     [GemmaLaunch EXCEPT !.mmMode = "native"], [GemmaLaunch EXCEPT !.softcap = TRUE],
     [GemmaLaunch EXCEPT !.executor = "mp"], [GemmaLaunch EXCEPT !.moe = "on"],
     [GemmaLaunch EXCEPT !.pp = 2], [GemmaLaunch EXCEPT !.pp = 2, !.perLayer = FALSE],
     NativeLaunch, [NativeLaunch EXCEPT !.moe = "on"], [NativeLaunch EXCEPT !.pp = 2],
     [NativeLaunch EXCEPT !.mmMode = "text"], [NativeLaunch EXCEPT !.pruning = TRUE],
     [NativeLaunch EXCEPT !.quant = "gguf", !.mmMode = "native"],
     [NativeLaunch EXCEPT !.quant = "gguf"], [NativeLaunch EXCEPT !.dp = 2],
     [NativeLaunch EXCEPT !.family = "forced"], [NativeLaunch EXCEPT !.family = "fp8"],
     [NativeLaunch EXCEPT !.family = "fp8", !.mmMode = "native"],
     [NativeLaunch EXCEPT !.languageOnly = TRUE, !.mmMode = "native"],
     [GemmaLaunch EXCEPT !.languageOnly = TRUE],
     [NativeLaunch EXCEPT !.family = "forced", !.mmMode = "native"],
     [PlainLaunch EXCEPT !.family = "lfm3"], [PlainLaunch EXCEPT !.family = "lfm3", !.moe = "on"],
     [PlainLaunch EXCEPT !.quant = "awq"], [PlainLaunch EXCEPT !.quant = "awq", !.pp = 2],
     [PlainLaunch EXCEPT !.quant = "awq", !.moe = "on"], [PlainLaunch EXCEPT !.quant = "gguf"],
     [PlainLaunch EXCEPT !.runner = "pooling"],
     [PlainLaunch EXCEPT !.runner = "pooling", !.family = "encoder"],
     [PlainLaunch EXCEPT !.runner = "pooling", !.family = "encoder", !.lora = TRUE],
     [PlainLaunch EXCEPT !.runner = "pooling", !.family = "encoder", !.images = TRUE],
     [NativeLaunch EXCEPT !.family = "diffusion", !.diffusion = "block"],
     [NativeLaunch EXCEPT !.family = "diffusion", !.diffusion = "block", !.mmMode = "text"],
     [PlainLaunch EXCEPT !.lora = TRUE, !.spec = "ngram"],
     [PlainLaunch EXCEPT !.hybrid = "gdn", !.ssm = "mixed"],
     [PlainLaunch EXCEPT !.hybrid = "gdn", !.ssm = "same"],
     [PlainLaunch EXCEPT !.hybrid = "gdn", !.ssm = "same", !.spec = "ngram"]}

LaunchesTried ==
    {PlainLaunch, [PlainLaunch EXCEPT !.bigMemory = FALSE],
     [PlainLaunch EXCEPT !.largeBatch = TRUE],
     [PlainLaunch EXCEPT !.unsupported = TRUE], [PlainLaunch EXCEPT !.turbo = "bad"],
     [PlainLaunch EXCEPT !.turbo = "on"], [PlainLaunch EXCEPT !.draftQuant = "q4"],
     [PlainLaunch EXCEPT !.draftQuant = "q4", !.spec = "dspark"],
     [PlainLaunch EXCEPT !.moe = "on"], [PlainLaunch EXCEPT !.moe = "on", !.lora = TRUE],
     [PlainLaunch EXCEPT !.sleep = TRUE, !.spec = "dspark"],
     [PlainLaunch EXCEPT !.pp = 2], [PlainLaunch EXCEPT !.pp = 2, !.v2 = FALSE],
     [PlainLaunch EXCEPT !.pp = 2, !.executor = "uni"],
     [PlainLaunch EXCEPT !.executor = "ray", !.rayHook = "foreign"],
     [PlainLaunch EXCEPT !.executor = "ray"],
     [PlainLaunch EXCEPT !.kvDtype = "quantized"],
     [PlainLaunch EXCEPT !.spec = "ngram", !.heteroVocab = TRUE],
     [PlainLaunch EXCEPT !.diffusion = "block"],
     [PlainLaunch EXCEPT !.diffusion = "block", !.turbo = "on"],
     [PlainLaunch EXCEPT !.dp = 2], [PlainLaunch EXCEPT !.dp = 2, !.moeModel = TRUE],
     [PlainLaunch EXCEPT !.dp = 2, !.rayHook = "foreign"],
     [PlainLaunch EXCEPT !.tp = 2], [PlainLaunch EXCEPT !.stt = TRUE],
     [PlainLaunch EXCEPT !.stt = TRUE, !.offSize = 8],
     [PlainLaunch EXCEPT !.lora = TRUE, !.quant = "gguf"],
     [PlainLaunch EXCEPT !.offSize = 8], [PlainLaunch EXCEPT !.connector = "upstream"],
     [PlainLaunch EXCEPT !.connector = "metal", !.pool = 6],
     [PlainLaunch EXCEPT !.connector = "metal", !.mla = TRUE],
     [PlainLaunch EXCEPT !.connector = "upstream", !.dp = 2]}
  \cup {[PlainLaunch EXCEPT !.hybrid = h, !.apc = a, !.mambaMode = m, !.turbo = t,
                            !.userBlock = u, !.mambaBlock = 0] :
           h \in {"gdn", "other"}, a \in BOOLEAN, m \in {"none", "align", "all"},
           t \in {"unset", "on"}, u \in {0, 6}}
  \cup ModelsTried
LaterLaunches ==
    {PlainLaunch, [PlainLaunch EXCEPT !.largeBatch = TRUE], [PlainLaunch EXCEPT !.dp = 2],
     [PlainLaunch EXCEPT !.turbo = "bad"], [PlainLaunch EXCEPT !.hybrid = "gdn"],
     GemmaLaunch}

TwoLayers == <<2, 3>>

(* Offload keys are interchangeable; no other part knows them. *)
Symmetry == Permutations(Key)

Parts == {"plan", "launch", "build", "experts", "files", "adapters"}

MCInit ==
    /\ part \in Parts
    /\ PlanInit /\ UpInit /\ BuildInit /\ ExInit /\ FsInit /\ LoRAInit
    /\ part # "launch" => environ = "unset" /\ ray = "down" /\ checkpoint = "whole"

MCNext ==
    /\ UNCHANGED part
    /\ \/ part = "plan" /\ PlanNext
          /\ UNCHANGED <<upVars, buildVars, exVars, fsVars, loraVars>>
       \/ part = "launch" /\ UpNext
          /\ UNCHANGED <<planVars, buildVars, exVars, fsVars, loraVars>>
       \/ part = "build" /\ BuildNext
          /\ UNCHANGED <<planVars, upVars, exVars, fsVars, loraVars>>
       \/ part = "experts" /\ ExNext
          /\ UNCHANGED <<planVars, upVars, buildVars, fsVars, loraVars>>
       \/ part = "files" /\ FsNext
          /\ UNCHANGED <<planVars, upVars, buildVars, exVars, loraVars>>
       \/ part = "adapters" /\ LoRANext
          /\ UNCHANGED <<planVars, upVars, buildVars, exVars, fsVars>>

MCSpec == MCInit /\ [][MCNext]_<<part, planVars, upVars, buildVars, exVars, fsVars, loraVars>>
=============================================================================
