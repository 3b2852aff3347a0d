----------------------------- MODULE MCServing -----------------------------
(* Small instances of the components that serve a step besides the decode  *)
(* pipeline. They share no state: `part` says which one a behaviour        *)
(* exercises, the others stay as they begin.                               *)
EXTENDS PromptLogprobs, SampleStep, PipelineLink, DiffusionCanvas,
        SpeechToText, Pooling, TLC

VARIABLE part

(* What two requests in one batch may ask of the sampler. *)
Greedy ==
    [random |-> FALSE, seeded |-> FALSE, constrained |-> FALSE,
     grammar |-> FALSE, minTokens |-> 0, logprobs |-> "none"]
Random == [Greedy EXCEPT !.random = TRUE]
Seed == [Random EXCEPT !.seeded = TRUE]

MixesTried ==
    {<<Greedy, Greedy>>, <<[Greedy EXCEPT !.grammar = TRUE], Greedy>>,
     <<[Greedy EXCEPT !.grammar = TRUE], [Seed EXCEPT !.grammar = TRUE]>>,
     <<[Seed EXCEPT !.minTokens = 1], Random>>,
     <<[Seed EXCEPT !.constrained = TRUE], Seed>>,
     <<[Greedy EXCEPT !.logprobs = "ids"], [Seed EXCEPT !.logprobs = "topk"]>>,
     <<[Random EXCEPT !.logprobs = "ids"], [Greedy EXCEPT !.logprobs = "sampled"]>>}

(* Requests for two audios: one twice, one with little room, one that does  *)
(* not stop at its end, one without a prompt.                               *)
SpeechRequest == [audio |-> "a", prompt |-> 2, max |-> 4, min |-> 0, ignoreEos |-> FALSE]
SpeechRequests ==
    <<SpeechRequest, [SpeechRequest EXCEPT !.audio = "b", !.max = 2],
      [SpeechRequest EXCEPT !.audio = "b", !.ignoreEos = TRUE, !.max = 6],
      [SpeechRequest EXCEPT !.audio = "b", !.prompt = 4, !.min = 2],
      [SpeechRequest EXCEPT !.audio = "b", !.prompt = 0]>>
SpeechModels ==
    {[family |-> "whisper", ctx |-> 6, limit |-> 5],
     [family |-> "qwen3_asr", ctx |-> 9, limit |-> 8]}
(* What each model says: two words, then the end; tags come first.          *)
SpeechStreams ==
    [whisper |-> [a |-> <<1, 2, 3, 0>>, b |-> <<4, 0, 5, 0>>, garbled |-> <<9, 0>>],
     qwen3_asr |-> [a |-> <<7, 100, 1, 2, 3, 101>>, b |-> <<8, 8, 8, 100, 4, 100, 5, 6, 0>>,
                    garbled |-> <<9, 0>>]]
SpeechClips ==
    {[n |-> 14, max |-> 5, overlap |-> 1, window |-> 1],
     [n |-> 12, max |-> 6, overlap |-> 3, window |-> 2],
     [n |-> 4, max |-> 0, overlap |-> 1, window |-> 1],
     [n |-> 9, max |-> 0, overlap |-> 1, window |-> 1],
     [n |-> 9, max |-> 7, overlap |-> 1, window |-> 1],
     [n |-> 9, max |-> 3, overlap |-> 3, window |-> 1]}
(* Timestamps around words, left open, empty, and words outside of them.    *)
SpeechTimed ==
    {<<<<"time", 0>>, <<"word", 1>>, <<"time", 2>>, <<"time", 2>>, <<"word", 2>>, <<"time", 4>>>>,
     <<<<"word", 3>>, <<"time", 1>>, <<"word", 0>>, <<"word", 4>>>>,
     <<<<"time", 0>>, <<"word", 0>>, <<"time", 1>>, <<"word", 5>>>>}

(* Decoders and encoders that embed, score or do not load.                 *)
Embedder ==
    [arch |-> "ForCausalLM", task |-> "none", seqType |-> "none", poolType |-> "none",
     tokType |-> "none", activation |-> "unset", chunked |-> FALSE, textOnly |-> TRUE, encodable |-> TRUE, head |-> FALSE, tied |-> "no"]
Reranker == [Embedder EXCEPT !.arch = "Qwen3ForSequenceClassification", !.tied = "yes"]
Bge == [Embedder EXCEPT !.arch = "bge_m3", !.head = TRUE]
PoolingModels ==
    {Embedder, [Embedder EXCEPT !.seqType = "MEAN"],
     Reranker, [Reranker EXCEPT !.activation = "off", !.task = "classify"],
     [Reranker EXCEPT !.tied = "no"], [Embedder EXCEPT !.seqType = "LAST", !.poolType = "MEAN"],
     Bge, [Bge EXCEPT !.seqType = "CLS"], [Bge EXCEPT !.seqType = "LAST", !.task = "embed"],
     [Bge EXCEPT !.activation = "off"], [Bge EXCEPT !.head = FALSE],
     [Bge EXCEPT !.tokType = "STEP"],
     [Bge EXCEPT !.arch = "xlm_roberta", !.seqType = "MEAN", !.poolType = "CLS"]}
PoolingPrompts == {<<"bos", "word", "eos">>, <<"word", "word">>, <<"eos">>}
Asks(task, activation, option) == [task |-> task, activation |-> activation, option |-> option]
PoolingParams ==
    {Asks("none", "unset", "none"), Asks("embed", "off", "none"),
     Asks("embed", "unset", "token_ids"), Asks("classify", "off", "none"),
     Asks("token_classify", "unset", "token_ids")}

(* Requests that share a canvas step are interchangeable. *)
Symmetry == Permutations(DfReqs)

Parts == {"logprobs", "sample", "stages", "canvas", "speech", "pooling"}

MCInit ==
    /\ part \in Parts
    /\ LpInit /\ (part # "logprobs" => ~readmitsNew)
    /\ PpInit /\ (part # "stages" => ~pp.readmits /\ pp.size = 2 /\ pp.layers = 2)
    /\ SmInit /\ (part # "sample" => params = <<Greedy, Greedy>> /\ ~drafts /\ ~native)
    /\ DfInit
    /\ StInit
    /\ part # "speech" => stMode = "file" /\ ~stModel.policy.caching
                          /\ stClip = CHOOSE c \in StClips : TRUE
    /\ PlInit /\ (part # "pooling" => plModel = Embedder /\ ~plReadmits)
    /\ part # "canvas" => \A r \in DfReqs : ~dfOptions[r].readOnly /\ ~dfOptions[r].seeded

MCNext ==
    /\ UNCHANGED part
    /\ \/ part = "logprobs" /\ LpNext /\ UNCHANGED <<smVars, ppVars, dfVars, stVars, plVars>>
       \/ part = "sample" /\ SmNext /\ UNCHANGED <<lpVars, ppVars, dfVars, stVars, plVars>>
       \/ part = "stages" /\ PpNext /\ UNCHANGED <<lpVars, smVars, dfVars, stVars, plVars>>
       \/ part = "canvas" /\ DfNext /\ UNCHANGED <<lpVars, smVars, ppVars, stVars, plVars>>
       \/ part = "speech" /\ StNext /\ UNCHANGED <<lpVars, smVars, ppVars, dfVars, plVars>>
       \/ part = "pooling" /\ PlNext /\ UNCHANGED <<lpVars, smVars, ppVars, dfVars, stVars>>

MCSpec == MCInit /\ [][MCNext]_<<part, lpVars, smVars, ppVars, dfVars, stVars, plVars>>
=============================================================================
