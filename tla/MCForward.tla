----------------------------- MODULE MCForward -----------------------------
(* Small instances of the components around the forward of a step: what    *)
(* attention reads, what images become, what a drafter continues from and   *)
(* what the host pool gives back. They share no state: `part` says which    *)
(* one a behaviour exercises, the others stay as they begin.               *)
EXTENDS PagedAttention, VisionPrefill, BlockDraft, NgramDraft, MtpDraft, KVOffload, TLC

VARIABLE part

(* Two requests that share their first block, and a third. *)
TablesTried == <<<<1, 2, 3>>, <<1, 4, 5>>, <<6, 7, 8>>>>
StartsTried == {<<4, 4, 0>>, <<4, 2, 0>>}
ImageTried == <<1, 3>>

DenseLayer ==
    [turbo |-> FALSE, kernelBlock |-> 2, window |-> 0, image |-> "none",
     tiled |-> TRUE, nax |-> FALSE, merge |-> TRUE, split |-> FALSE,
     gqa |-> "off", limit |-> 0]
TurboLayer ==
    [DenseLayer EXCEPT !.turbo = TRUE, !.kernelBlock = 1,
                       !.limit = WorkspaceUpperBound(1)]

LayersTried ==
    {DenseLayer,
     [DenseLayer EXCEPT !.window = 2, !.split = TRUE],
     [DenseLayer EXCEPT !.nax = TRUE, !.kernelBlock = 1],
     [DenseLayer EXCEPT !.tiled = FALSE, !.split = TRUE],
     [DenseLayer EXCEPT !.merge = FALSE, !.gqa = "on"],
     [DenseLayer EXCEPT !.image = "kernel"],
     [DenseLayer EXCEPT !.image = "recompute", !.window = 3],
     [DenseLayer EXCEPT !.image = "canvas", !.window = 2],
     [DenseLayer EXCEPT !.split = TRUE, !.gqa = "on", !.kernelBlock = 1],
     [DenseLayer EXCEPT !.image = "recompute"],
     [DenseLayer EXCEPT !.image = "canvas"]}
  \cup {[TurboLayer EXCEPT !.limit = @ - short] : short \in {0, 15, 30, 48, 54}}
  \cup {[TurboLayer EXCEPT !.kernelBlock = 2, !.limit = WorkspaceUpperBound(2)]}

(* Prompts of two requests for each family: an image both show, with and   *)
(* without an adapter; frames between timestamps; a clip that is cut; tiles *)
(* that do not fill their placeholders.                                    *)
Image(offset) ==
    [content |-> "a", kind |-> "image", offset |-> offset,
     mask |-> <<TRUE, TRUE, TRUE, TRUE>>, frames |-> <<4>>, width |-> 2]
Video(offset) ==
    [content |-> "v", kind |-> "video", offset |-> offset,
     mask |-> <<TRUE, FALSE, TRUE>>, frames |-> <<1, 1>>, width |-> 1]
Audio(offset) ==
    [content |-> "s", kind |-> "audio", offset |-> offset,
     mask |-> <<FALSE, TRUE, TRUE>>, frames |-> <<3>>, width |-> 1]
Tiles(offset, frames) ==
    [content |-> "t", kind |-> "image", offset |-> offset,
     mask |-> <<FALSE, TRUE, TRUE, TRUE>>, frames |-> frames, width |-> 1]

Asks(len, lora, features) == [len |-> len, lora |-> lora, features |-> features]

Families == {"qwen3_vl", "paddleocr_vl", "lfm2_vl", "gemma4"}
PromptsTried ==
    [qwen3_vl |-> <<Asks(6, 1, <<Image(1)>>), Asks(9, 0, <<Image(1), Video(5)>>)>>,
     paddleocr_vl |-> <<Asks(6, 0, <<Image(1)>>), Asks(3, 0, <<>>)>>,
     lfm2_vl |-> <<Asks(5, 0, <<Tiles(0, <<2, 1>>)>>), Asks(5, 0, <<Tiles(1, <<2>>)>>)>>,
     gemma4 |-> <<Asks(5, 0, <<Audio(1)>>), Asks(5, 0, <<Video(1)>>)>>]

(* Draft checkpoints of each format; the last one taps no target layer. *)
Checkpoint ==
    [format |-> "dspark", taps |-> <<0, 1>>, kinds |-> <<"full">>, window |-> 0,
     nonCausal |-> FALSE, k |-> 2, trained |-> 3]
CheckpointsTried ==
    {[Checkpoint EXCEPT !.format = "dflash", !.taps = <<1, 0>>],
     [Checkpoint EXCEPT !.format = "speculators", !.taps = <<1>>,
                        !.kinds = <<"full", "sliding">>, !.window = 2],
     [Checkpoint EXCEPT !.format = "speculators", !.taps = <<2>>]}
DraftPrompts == <<<<0, 0>>, <<0, 0, 1>>>>
Unconstrained == {{}}
MayConstrainOne == {{}, {1}}

(* Targets whose last layers alternate, one with a layer that shares KV;    *)
(* assistants that fit one of them, and checkpoints some check refuses.     *)
MtTarget ==
    [gemma4 |-> TRUE, types |-> <<"full", "sliding", "full", "sliding", "full">>,
     shared |-> 1, vocab |-> 4, hidden |-> 2, backend |-> "sdpa"]
MtTargetsTried ==
    {MtTarget, [MtTarget EXCEPT !.types = <<"sliding", "full", "sliding", "full">>, !.shared = 0],
     [MtTarget EXCEPT !.gemma4 = FALSE], [MtTarget EXCEPT !.shared = 5],
     [MtTarget EXCEPT !.backend = "hybrid"]}
MtAssistant ==
    [config |-> TRUE, ownModelFile |-> FALSE, type |-> TRUE, textType |-> TRUE,
     architecture |-> TRUE, vocab |-> 4, topVocab |-> -1, hidden |-> 2,
     backbone |-> 2, layers |-> 2, types |-> <<"full", "sliding">>,
     ordered |-> FALSE, centroids |-> 2, topK |-> 1, kvShared |-> -1,
     perLayerInput |-> 0]
MtAssistantsTried ==
    [plain |-> MtAssistant,
     ordered |-> [MtAssistant EXCEPT !.types = <<"sliding", "full">>, !.ordered = TRUE],
     none |-> [MtAssistant EXCEPT !.type = FALSE, !.architecture = FALSE],
     renamed |-> [MtAssistant EXCEPT !.type = FALSE],
     uneven |-> [MtAssistant EXCEPT !.ordered = TRUE, !.centroids = 3],
     ownKV |-> [MtAssistant EXCEPT !.kvShared = 1]]

Parts == {"attention", "images", "drafts", "lookups", "assistant", "offload"}

MCInit ==
    /\ part \in Parts
    /\ AtInit /\ (part # "attention" => atLayer = DenseLayer /\ atLen = <<4, 4, 0>>)
    /\ VpInit /\ (part # "images" => vpFamily = "gemma4")
    /\ BdInit /\ (part # "drafts" => draftEngine.extra = 1)
              /\ (part # "drafts" => draftEngine.caching /\ ~reqs[1].constrained)
    /\ NgInit /\ (part # "lookups" => ngStride = 0)
    /\ MtInit
    /\ OffInit

MCNext ==
    /\ UNCHANGED part
    /\ \/ part = "attention" /\ AtNext /\ UNCHANGED <<vpVars, bdVars, ngVars, mtVars, offVars>>
       \/ part = "images" /\ VpNext /\ UNCHANGED <<atVars, bdVars, ngVars, mtVars, offVars>>
       \/ part = "drafts" /\ BdNext /\ UNCHANGED <<atVars, vpVars, ngVars, mtVars, offVars>>
       \/ part = "lookups" /\ NgNext /\ UNCHANGED <<atVars, vpVars, bdVars, mtVars, offVars>>
       \/ part = "assistant" /\ MtNext /\ UNCHANGED <<atVars, vpVars, bdVars, ngVars, offVars>>
       \/ part = "offload" /\ OffNext /\ UNCHANGED <<atVars, vpVars, bdVars, ngVars, mtVars>>

MCSpec == MCInit /\ [][MCNext]_<<part, atVars, vpVars, bdVars, ngVars, mtVars, offVars>>
=============================================================================
