------------------------------- MODULE Pooling -------------------------------
(***************************************************************************)
(* Embedding and scoring models (vllm_metal/v1/pooling and the parts of    *)
(* v1/model_runner.py that feed it). A decoder's prompt is prefilled in    *)
(* chunks over the paged cache, through prefix hits and preemptions, and   *)
(* pooled once its last chunk has run; an encoder reads a whole prompt in  *)
(* one forward of its own. The front end lets a request in by what the     *)
(* worker advertises; an exception in the runner ends the engine.          *)
(*                                                                         *)
(* A hidden row is the life of the id whose token was run and the token's  *)
(* position. The arithmetic of a pooler is left out, the rows it reads and *)
(* the activation it applies are kept.                                     *)
(***************************************************************************)
EXTENDS Integers, Sequences, FiniteSets, SequencesExt, Functions

CONSTANTS
    PlModels,      \* models served, one in each behaviour; see MCServing
    PlReqs,        \* request ids: integers, the order of a step
    PlPrompts,     \* prompts: sequences over "bos", "eos" and "word"
    PlParams,      \* what a request may ask: [task, activation, option]
    PlBudget,      \* max_num_batched_tokens
    PlMaxLives,    \* bound: how often one id is used
    PlMaxSteps,    \* bound: steps of the runner
    PlMaxPreempts  \* bound: preemptions

ASSUME PoolingAssumption ==
    /\ PlReqs \subseteq Nat
    /\ \A p \in PlPrompts : p # << >>
    /\ PlBudget \in Nat /\ PlMaxLives \in Nat /\ PlMaxSteps \in Nat
    /\ PlMaxPreempts \in Nat

VARIABLES
    plModel,     \* the loaded model and its pooler_config
    plReadmits,  \* preempted requests come back as new ones (V2 scheduling)
    plReq,       \* the scheduler's view of each id
    plLeaving,   \* <<finished ids, preempted ids>> the next step announces
    plState,     \* _request_states: life and length of the tokens, 0 if absent
    plAwaiting,  \* _awaiting_readmission
    plOutputs,   \* pooler outputs the engine got for the id's present life
    plError,     \* the exception that ended the engine
    plMismatch,  \* a step logged "scheduled/output mismatch"
    plSteps,
    plPreempts

plVars == <<plModel, plReadmits, plReq, plLeaving, plState, plAwaiting,
            plOutputs, plError, plMismatch, plSteps, plPreempts>>

NoOne == [life |-> 0, status |-> "absent", prompt |-> << >>, computed |-> 0,
          params |-> [task |-> "none", activation |-> "unset", option |-> "none"]]
NoTokens == [life |-> 0, len |-> 0]

-----------------------------------------------------------------------------
(* What a model can pool. *)

LastPooling == {"none", "LAST"}
UsesLastPooling(m) == {m.seqType, m.poolType} \subseteq LastPooling

\* The sequence pooling type is looked up in two places, the first that is set
\* decides.
SequencePooling(m) == IF m.seqType # "none" THEN m.seqType ELSE m.poolType

TokenTasks == {"classify", "token_classify"}

IsEmbedArch(m) == m.arch \in {"ForCausalLM", "ForTextEncoding", "EmbeddingModel"}
IsEncoder(m) == m.arch \in {"embedding_gemma2", "bge_m3", "xlm_roberta"}

\* load_bge_m3_backend needs its sparse head's file, and each family refuses
\* the variants it cannot run: quantised weights, other position embeddings
\* or activations.
FamilyLoads(m) == m.encodable /\ (m.arch = "bge_m3" => m.head)
EncoderLoads(m) == m.textOnly /\ FamilyLoads(m)

\* A checkpoint without an output head only loads for an embedding model.
DecoderLoads(m) == m.head \/ m.tied = "yes" \/ IsEmbedArch(m)

Loads(m) == IF IsEncoder(m) THEN EncoderLoads(m) ELSE DecoderLoads(m)

DecoderEmbeds(m) ==
    /\ m.textOnly /\ m.task \in {"none", "embed"} /\ UsesLastPooling(m)
    /\ m.activation # "off" /\ ~m.chunked
    /\ IsEmbedArch(m)

\* _classifier_logits_fn: which head is used must be stated by the model. Its
\* reranker is an original one, whose tokenizer knows "yes" and "no".
ClassifierHead(m) == m.tied = "yes" \/ (m.tied = "no" /\ m.head)

Reranks(m) ==
    /\ m.textOnly /\ m.task \in {"none", "classify"} /\ UsesLastPooling(m)
    /\ ~m.chunked
    /\ m.arch = "Qwen3ForSequenceClassification"
    /\ ClassifierHead(m)

EncoderEmbeds(m) ==
    /\ m.textOnly /\ m.task \in {"none", "embed"}
    /\ SequencePooling(m) \in {"none", "CLS", "LAST", "MEAN"}
    /\ m.activation # "off" /\ ~m.chunked

ScoresTokens(m) ==
    /\ m.arch = "bge_m3"
    /\ m.textOnly /\ m.task \in {"none", "token_classify"}
    /\ m.tokType \in {"none", "ALL"} /\ ~m.chunked

\* supported_worker_tasks; a decoder has its paged runtime by the time the
\* engine asks.
SupportedTasks(m) ==
    IF IsEncoder(m)
    THEN {t \in {"embed", "token_classify"} :
            IF t = "embed" THEN EncoderEmbeds(m) ELSE ScoresTokens(m)}
    ELSE {t \in {"embed", "classify"} :
            IF t = "embed" THEN DecoderEmbeds(m) ELSE Reranks(m)}

\* A request that names no task asks for an embedding.
TaskOf(p) == IF p.task = "none" THEN "embed" ELSE p.task

\* unsupported_pooling_option
UnsupportedOption(p) ==
    \/ p.option \in {"late_interaction", "step", "returned_ids", "extra"}
    \/ (p.option = "token_ids" /\ p.task # "token_classify")
    \/ (p.task \notin TokenTasks /\ p.activation = "off")

\* validate_pooling_request, in the runner.
PoolRefused(m, p) ==
    \/ UnsupportedOption(p)
    \/ TaskOf(p) \notin SupportedTasks(m)
    \/ /\ ~IsEncoder(m)
       /\ \/ m.task \notin {"none", "embed", "classify"}
          \/ ~UsesLastPooling(m)
          \/ m.chunked

-----------------------------------------------------------------------------
(* The scheduler and the front end (external). *)

PlInit ==
    /\ plModel \in {m \in PlModels : Loads(m)}
    /\ plReadmits \in BOOLEAN
    /\ plReq = [r \in PlReqs |-> NoOne]
    /\ plLeaving = <<{}, {}>>
    /\ plState = [r \in PlReqs |-> NoTokens]
    /\ plAwaiting = {}
    /\ plOutputs = [r \in PlReqs |-> << >>]
    /\ plError = "none" /\ plMismatch = FALSE
    /\ plSteps = 0 /\ plPreempts = 0

\* validate_request answers an unsupported option with an error of its own,
\* and the endpoints follow the advertised tasks. A decoder's prompt may start
\* behind a cached prefix; its last token is always computed.
PlArrive(r, prompt, p, cached) ==
    /\ plError = "none"
    /\ plReq[r].status = "absent" /\ plReq[r].life < PlMaxLives
    /\ TaskOf(p) \in SupportedTasks(plModel) /\ ~UnsupportedOption(p)
    /\ cached < Len(prompt) /\ (IsEncoder(plModel) => cached = 0)
    /\ plReq' = [plReq EXCEPT ![r] =
          [life |-> @.life + 1, status |-> "waiting", prompt |-> prompt,
           computed |-> cached, params |-> p]]
    /\ plOutputs' = [plOutputs EXCEPT ![r] = << >>]
    /\ UNCHANGED <<plModel, plReadmits, plLeaving, plState, plAwaiting, plError,
                   plMismatch, plSteps, plPreempts>>

\* Done or aborted, scheduled yet or not: the next step says so, and the id
\* may be used again.
PlEnd(r) ==
    /\ plError = "none"
    /\ plReq[r].status # "absent"
    /\ plReq' = [plReq EXCEPT ![r] = [NoOne EXCEPT !.life = plReq[r].life]]
    /\ plLeaving' = <<plLeaving[1] \cup {r}, plLeaving[2] \ {r}>>
    /\ plOutputs' = [plOutputs EXCEPT ![r] = << >>]
    /\ UNCHANGED <<plModel, plReadmits, plState, plAwaiting, plError, plMismatch,
                   plSteps, plPreempts>>

\* It resumes behind whatever prefix is still cached. An encoder has no cache
\* to be short of.
PlPreempt(r, cached) ==
    /\ plError = "none"
    /\ plPreempts < PlMaxPreempts /\ plPreempts' = plPreempts + 1
    /\ plReq[r].status = "running" /\ cached <= plReq[r].computed
    /\ plReq' = [plReq EXCEPT ![r].status = "preempted", ![r].computed = cached]
    /\ plLeaving' = <<plLeaving[1], plLeaving[2] \cup {r}>>
    /\ UNCHANGED <<plModel, plReadmits, plState, plAwaiting, plOutputs, plError,
                   plMismatch, plSteps>>

-----------------------------------------------------------------------------
(* One step of a decoder. *)

\* The scheduler sends a request that waited as a new one; a preempted one as
\* a new one (V2 scheduling) or as a resumed one among the cached ones.
IsNew(r) == plReq[r].status \in (IF plReadmits THEN {"waiting", "preempted"} ELSE {"waiting"})
CameBack(r) == ~plReadmits /\ plReq[r].status = "preempted"

\* _reconcile_request_lifecycle: what the runner knows before the step's work.
Reconciled ==
    [states |-> [r \in PlReqs |-> IF r \in plLeaving[1] THEN NoTokens ELSE plState[r]],
     awaiting |-> (plAwaiting \cup plLeaving[2]) \ plLeaving[1]]

PromptTokens(r) == [life |-> plReq[r].life, len |-> Len(plReq[r].prompt)]

\* The tokens a scheduled id is run from: of the request itself where it is
\* new, readmitted or resumed, else of the state kept for the id.
RunTokens(r, known) == IF IsNew(r) \/ CameBack(r) THEN PromptTokens(r) ELSE known[r]

\* _handle_new_requests, _readmit_request: a readmitted request is known by
\* its id, and its state replaced; a fresh one gets a state for its next chunk
\* only. A fresh one that is complete leaves what is kept for its id alone.
NewState(r, n, known, readmitted) ==
    IF r \in readmitted \/ plReq[r].computed + n < Len(plReq[r].prompt)
    THEN PromptTokens(r) ELSE known[r]

\* _update_cached_request_blocks
CachedState(r, known) == IF CameBack(r) THEN PromptTokens(r) ELSE known[r]

\* A chunk is complete when it reaches the end of its tokens.
Chunk(r, n, tokens) ==
    [req |-> r, life |-> tokens.life, start |-> plReq[r].computed, n |-> n,
     complete |-> plReq[r].computed + n >= tokens.len]

\* The chunks of the step in packed order: new requests first.
Chunks(ids, n, known) ==
    LET First(a, b) == (IsNew(a) /\ ~IsNew(b)) \/ (IsNew(a) = IsNew(b) /\ a < b)
        order == SetToSortSeq(ids, First)
    IN  [i \in DOMAIN order |->
            Chunk(order[i], n[order[i]], RunTokens(order[i], known))]

\* forward_packed, and where each chunk starts in its rows.
PackedHidden(chunks) ==
    FoldLeft(LAMBDA rows, c : rows \o [k \in 1..c.n |-> <<c.life, c.start + k>>],
             << >>, chunks)
StartRows(chunks) ==
    FoldLeft(LAMBDA cu, c : Append(cu, Last(cu) + c.n), <<0>>, chunks)

\* _classifier_use_activation: the request decides before the pooler config.
Activated(p) ==
    IF p.activation # "unset" THEN p.activation = "on" ELSE plModel.activation # "off"

\* What a pooler makes of the rows it reads. An embedding is normalised
\* whatever was asked.
Pooled(p, rows) ==
    [task |-> TaskOf(p), rows |-> rows,
     act |-> CASE TaskOf(p) = "classify" -> Activated(p)
               [] TaskOf(p) = "token_classify" -> p.activation # "off"
               [] OTHER -> TRUE]

(* Mutant of SpanOutput: a pooled vector for every chunk. *)
SpanOutputAlways(hidden, c, start) ==
    <<Pooled(plReq[c.req].params, <<hidden[start + c.n]>>)>>

\* pool_packed: the last row of a complete chunk, nothing for another.
SpanOutput(hidden, c, start) ==
    IF ~c.complete THEN << >>
    ELSE <<Pooled(plReq[c.req].params, <<hidden[start + c.n]>>)>>

\* _validate_scheduled_outputs: an empty output is expected of a request that
\* is known and has generated nothing, or is new and not at its end. Another
\* one is logged, and returned all the same.
EmptyExpected(r, n, states) ==
    \/ states[r] # NoTokens
    \/ IsNew(r) /\ plReq[r].computed + n < Len(plReq[r].prompt)

\* A cached request the runner knows nothing of stops the step before its
\* work; a new one that is refused, or readmitted without a state, stops it
\* behind the new ones before it. No output is delivered then.
DecoderStep(ids, n) ==
    LET known == Reconciled.states
        readmitted == {r \in ids : IsNew(r) /\ r \in Reconciled.awaiting}
        lost == {r \in ids : ~IsNew(r) /\ known[r] = NoTokens}
        refused == {r \in ids : IsNew(r) /\ PoolRefused(plModel, plReq[r].params)}
        unknown == {r \in readmitted : known[r] = NoTokens}
        stopped == lost # {} \/ refused # {} \/ unknown # {}
        handled == {r \in ids : /\ lost = {} /\ IsNew(r)
                                /\ \A q \in refused \cup unknown : r < q}
        chunks == Chunks(ids, n, known)
        hidden == PackedHidden(chunks)
        starts == StartRows(chunks)
        at == [r \in ids |-> CHOOSE i \in DOMAIN chunks : chunks[i].req = r]
        out == [r \in ids |-> SpanOutput(hidden, chunks[at[r]], starts[at[r]])]
        states == [r \in PlReqs |->
                     IF r \in handled THEN NewState(r, n[r], known, readmitted)
                     ELSE IF r \in ids /\ ~stopped THEN CachedState(r, known)
                     ELSE known[r]]
    IN  /\ ~IsEncoder(plModel)
        /\ FoldFunction(+, 0, n) <= PlBudget
        /\ plState' = states
        /\ plAwaiting' = Reconciled.awaiting \ {r \in ids : r \in handled \/ CameBack(r)}
        /\ plOutputs' = [r \in PlReqs |-> IF r \in ids /\ ~stopped THEN plOutputs[r] \o out[r]
                                          ELSE plOutputs[r]]
        /\ plError' = CASE lost # {} -> "state_desync"
                       [] refused # {} \/ unknown # {} -> "refused"
                       [] OTHER -> "none"
        /\ plMismatch' = \/ plMismatch
                         \/ ~stopped /\ \E r \in ids :
                               out[r] = << >> /\ ~EmptyExpected(r, n[r], states)

-----------------------------------------------------------------------------
(* One step of an encoder: one forward for each request. *)

\* _pool_sparse: without the leading BOS and the trailing EOS.
SparseRows(r, hidden) ==
    LET prompt == plReq[r].prompt
    IN  SubSeq(hidden, IF prompt[1] = "bos" THEN 2 ELSE 1,
               IF Last(prompt) = "eos" THEN Len(prompt) - 1 ELSE Len(prompt))

\* EncoderEmbeddingPooler.pool_one, and BgeM3Pooler's choice.
EncoderRows(r, hidden) ==
    CASE plReq[r].params.task = "token_classify" -> SparseRows(r, hidden)
      [] SequencePooling(plModel) = "MEAN" -> hidden
      [] SequencePooling(plModel) = "LAST" -> <<Last(hidden)>>
      [] OTHER -> <<hidden[1]>>

\* _reject_scheduler_state
WholePrompt(r, n) == IsNew(r) /\ plReq[r].computed = 0 /\ n = Len(plReq[r].prompt)

\* The scheduler gives a model without a cache its whole prompts. Everything is
\* looked at before the first forward; finished ids are of no interest.
EncoderStep(ids, n) ==
    LET hidden == [r \in ids |-> [k \in 1..n[r] |-> <<plReq[r].life, k>>]]
        out == [r \in ids |-> <<Pooled(plReq[r].params, EncoderRows(r, hidden[r]))>>]
        partial == plLeaving[2] # {} \/ \E r \in ids : ~WholePrompt(r, n[r])
        refused == \E r \in ids : PoolRefused(plModel, plReq[r].params)
    IN  /\ IsEncoder(plModel)
        /\ \A r \in ids : n[r] = Len(plReq[r].prompt)
        /\ plOutputs' = [r \in PlReqs |->
              IF r \in ids /\ ~partial /\ ~refused THEN plOutputs[r] \o out[r]
              ELSE plOutputs[r]]
        /\ plError' = CASE partial -> "not_whole" [] refused -> "refused" [] OTHER -> "none"
        /\ UNCHANGED <<plState, plAwaiting, plMismatch>>

PlStep(ids, n) ==
    /\ plError = "none"
    /\ plSteps < PlMaxSteps /\ plSteps' = plSteps + 1
    /\ ids # {}
    /\ \A r \in ids : /\ plReq[r].status \in {"waiting", "running", "preempted"}
                      /\ plReq[r].computed + n[r] <= Len(plReq[r].prompt)
    /\ DecoderStep(ids, n) \/ EncoderStep(ids, n)
    /\ plReq' = [r \in PlReqs |->
          IF r \notin ids THEN plReq[r]
          ELSE [plReq[r] EXCEPT
                  !.computed = @ + n[r],
                  !.status = IF plReq[r].computed + n[r] = Len(plReq[r].prompt)
                             THEN "done" ELSE "running"]]
    /\ plLeaving' = <<{}, {}>>
    /\ UNCHANGED <<plModel, plReadmits, plPreempts>>

PlNext ==
    \/ \E r \in PlReqs, prompt \in PlPrompts, p \in PlParams, cached \in 0..PlBudget :
          PlArrive(r, prompt, p, cached)
    \/ \E r \in PlReqs : PlEnd(r)
    \/ \E r \in PlReqs, cached \in 0..PlBudget : PlPreempt(r, cached)
    \/ \E ids \in SUBSET PlReqs : \E n \in [ids -> 1..PlBudget] : PlStep(ids, n)

PlSpec == PlInit /\ [][PlNext]_plVars

-----------------------------------------------------------------------------
(* Properties. *)

\* What the words of a request deserve: an embedding or a score of its last
\* token, of the first, or of all; a weight for each token that is a word.
Deserved(r) ==
    LET q == plReq[r]
        n == Len(q.prompt)
        marks == {p \in 1..n : (p = 1 /\ q.prompt[p] = "bos") \/ (p = n /\ q.prompt[p] = "eos")}
    IN  CASE q.params.task = "token_classify" -> (1..n) \ marks
          [] IsEncoder(plModel) /\ SequencePooling(plModel) = "MEAN" -> 1..n
          [] IsEncoder(plModel) /\ SequencePooling(plModel) \in {"none", "CLS"} -> {1}
          [] OTHER -> {n}

\* A request the front end let in is pooled exactly once, when its whole
\* prompt has run, from rows of its own tokens, however the prompt was cut,
\* preempted, resumed or its id used before, with the activation it asked
\* for; what is advertised is served, no step ends the engine or logs a
\* mismatch (v1/pooling, v1/model_runner.py:290-313, 1926-1949, 2805-3080,
\* 3169-3270; v1/pooling/options.py:3-6).
PooledFromWholePrompt ==
    /\ plError = "none" /\ ~plMismatch
    /\ \A r \in PlReqs : plReq[r].status # "absent" =>
         IF plReq[r].status # "done" THEN plOutputs[r] = << >>
         ELSE /\ Len(plOutputs[r]) = 1
              /\ LET o == plOutputs[r][1]
                     rows == SetToSortSeq(Deserved(r), <)
                 IN  /\ o.task = TaskOf(plReq[r].params)
                     /\ (o.act /\ plReq[r].params.activation # "off") \/ (~o.act /\ plReq[r].params.activation # "on")
                     /\ o.rows = [i \in DOMAIN rows |-> <<plReq[r].life, rows[i]>>]

=============================================================================
