------------------------------ MODULE SampleStep ------------------------------
(***************************************************************************)
(* Sampling one step of the paged path: v1/sampling_batch.py,              *)
(* v1/structured_output.py, the verification of v1/spec_decode.py and the  *)
(* parts of the model runner that pack rows and route results.             *)
(*                                                                         *)
(* Tokens are symbols: a sampled token is known by the logits row it came  *)
(* from, the grammar row that masked it and the random draw behind it. A   *)
(* row is identified by the request and the output position it predicts,   *)
(* so everything that indexes rows, requests or generators by position in  *)
(* some batch or sub-batch can go wrong here.                              *)
(***************************************************************************)
EXTENDS Integers, Sequences, FiniteSets, SequencesExt, FiniteSetsExt

CONSTANTS
    SmMixes,     \* functions from requests to what they ask of the sampler
    SmDrafts,    \* speculative width
    SmPrompt,    \* prompt length
    SmMaxOuts,   \* max_tokens of every request
    SmMaxSteps   \* bound: sampling steps

ASSUME SampleAssumption == {SmDrafts, SmPrompt, SmMaxOuts} \subseteq Nat \ {0}

VARIABLES
    params,      \* SamplingParams of each request
    drafts,      \* speculative_config is set
    native,      \* VLLM_METAL_NATIVE_SAMPLING
    outs,        \* output tokens of each request
    resident,    \* requests in the decode phase
    generator,   \* draws made from each request's torch generator
    engineKeys,  \* _native_sampling_step
    proposed,    \* requests the drafter was given last step
    report,      \* the last step's results
    smSteps

smVars == <<params, drafts, native, outs, resident, generator, engineKeys,
            proposed, report, smSteps>>

SmReqs == DOMAIN params
None == [req |-> 0, pos |-> 0]

SmInit ==
    /\ params \in SmMixes
    /\ drafts \in BOOLEAN /\ native \in BOOLEAN
    /\ outs = [r \in SmReqs |-> 0] /\ generator = outs
    /\ resident = {} /\ proposed = {}
    /\ engineKeys = 0 /\ report = <<>> /\ smSteps = 0

-----------------------------------------------------------------------------
(* Packing: decode spans first, then prefill chunks. *)

\* A batch entry: at is the output position of its next token, span its rows,
\* drafted and padded the drafts it carries and the placeholders vLLM padded
\* it with; context the output length its sampling metadata shows.
DecodeEntry(r, k, pad) ==
    [req |-> r, prefill |-> FALSE, final |-> TRUE, at |-> outs[r],
     drafted |-> k, padded |-> IF pad THEN SmDrafts ELSE 0, span |-> k + 1,
     context |-> outs[r]]

\* Without the full prompt the metadata is cut from the chunk alone.
PrefillEntryOfChunk(r, start, final) ==
    LET length == SmPrompt + outs[r] - start - (IF final THEN 0 ELSE 1)
    IN  [req |-> r, prefill |-> TRUE, final |-> final, at |-> outs[r],
         drafted |-> 0, padded |-> 0, span |-> length,
         context |-> Max({0, length - SmPrompt})]

\* _build_prefill_pack: a chunk that does not start the prompt is given all of
\* it; one that does and is final holds all of it.
PrefillEntry(r, start, final) ==
    [PrefillEntryOfChunk(r, start, final) EXCEPT
        !.context = IF start > 0 THEN outs[r] ELSE @]

\* Rows a head that projects only the sampled rows keeps.
Kept(e, selective) == IF e.prefill /\ selective THEN 1 ELSE e.span
RowsOf(e, selective) ==
    IF e.prefill
    THEN [i \in 1..Kept(e, selective) |->
            IF i = Kept(e, selective) /\ e.final
            THEN [req |-> e.req, pos |-> e.at] ELSE None]
    ELSE [i \in 1..e.span |-> [req |-> e.req, pos |-> e.at + i - 1]]

BatchRows(b, selective) ==
    FlattenSeq([i \in DOMAIN b |-> RowsOf(b[i], selective)])

\* cu_seqlens[i]: rows of the first i entries.
Boundary(b, selective, i) ==
    FoldLeft(LAMBDA n, e : n + Kept(e, selective), 0, SubSeq(b, 1, i))

\* The logits rows of entry i that are sampled or verified.
RowTargets(b, selective, i) ==
    IF b[i].prefill THEN <<Boundary(b, selective, i)>>
    ELSE [k \in 1..b[i].span |-> Boundary(b, selective, i - 1) + k]

-----------------------------------------------------------------------------
(* Structured output: the bitmask is laid out by the raw scheduled widths, in
   an order of its own. *)

BitmaskRows(b, order) ==
    FlattenSeq([j \in DOMAIN order |->
        LET e == b[order[j]]
        IN  [k \in 1..(1 + e.drafted + e.padded) |->
               [req |-> e.req, pos |-> e.at + k - 1]]])

SpanOfActive(e) == 1 + e.drafted

\* A padded request owns one logits row and its whole span of the bitmask.
GrammarSpan(e) == 1 + e.drafted + e.padded

Constrained(b, selective, order) ==
    LET cursor(j) == FoldLeft(LAMBDA n, i : n + GrammarSpan(b[i]), 0,
                              SubSeq(order, 1, j - 1))
        rows(j) == RowTargets(b, selective, order[j])
        bits == BitmaskRows(b, order)
    IN  [row \in UNION {Range(rows(j)) : j \in DOMAIN order} |->
            LET j == CHOOSE j \in DOMAIN order : row \in Range(rows(j))
                k == CHOOSE k \in DOMAIN rows(j) : rows(j)[k] = row
            IN  IF cursor(j) + k \in DOMAIN bits THEN bits[cursor(j) + k]
                ELSE None]

-----------------------------------------------------------------------------
(* One sub-batch: [entry, row] in order. *)

MinTokensPending(e) == e.context < params[e.req].minTokens
Plain(r) == ~params[r].constrained /\ params[r].logprobs = "none"

NativeGreedy(e) == Plain(e.req) /\ ~params[e.req].random /\ ~MinTokensPending(e)
NativeRandom(e) ==
    Plain(e.req) /\ ~params[e.req].grammar /\ ~MinTokensPending(e)

\* sample_from_logits: MLX argmax, MLX categorical, or vLLM's sampler.
Path(b, sub, keyed) ==
    IF \A i \in DOMAIN sub : NativeGreedy(b[sub[i].entry]) THEN "greedy"
    ELSE IF keyed /\ \A i \in DOMAIN sub : NativeRandom(b[sub[i].entry])
         THEN "native" ELSE "torch"

Draws(r) == params[r].random
Seeded(r) == params[r].seeded /\ Draws(r)

\* Generators are handed over by row of the sub-batch.
GeneratorRow(b, sub, i) == b[sub[i].entry].req

DrawBehind(b, sub, i, path, key) ==
    LET e == b[sub[i].entry]
    IN  IF ~Draws(e.req) THEN <<"argmax">>
        ELSE IF path = "native"
        THEN IF params[e.req].seeded THEN <<"seed", e.req, e.context>>
             ELSE <<"engine", key>>
        ELSE IF Seeded(GeneratorRow(b, sub, i))
        THEN <<"generator", GeneratorRow(b, sub, i),
               generator[GeneratorRow(b, sub, i)]>>
        ELSE <<"global">>

\* Torch draws of a step from each request's generator, and engine keys.
GeneratorUse(b, sub, path) ==
    {b[sub[i].entry].req : i \in {j \in DOMAIN sub :
        path = "torch" /\ Seeded(b[sub[j].entry].req)}}
EngineUse(b, sub, path) ==
    IF path = "native" /\ \E i \in DOMAIN sub :
          Draws(b[sub[i].entry].req) /\ ~params[b[sub[i].entry].req].seeded
    THEN 1 ELSE 0

\* Which logprobs a row of the sub-batch gets. One mapping of specific token
\* ids overrides the batch-wide top-k, unless the two are gathered per row.
LogprobsOf(b, sub, i) ==
    LET asks(j) == params[b[sub[j].entry].req].logprobs
        specific == \E j \in DOMAIN sub : asks(j) = "ids"
        mixed == specific /\ \E j \in DOMAIN sub : asks(j) = "topk"
        kind == IF mixed THEN asks(i)
                ELSE IF specific THEN IF asks(i) = "ids" THEN "ids" ELSE "sampled"
                ELSE IF \E j \in DOMAIN sub : asks(j) = "topk" THEN "topk"
                ELSE IF \E j \in DOMAIN sub : asks(j) = "sampled"
                     THEN "sampled" ELSE "none"
    IN  [req |-> b[sub[i].entry].req, kind |-> kind]

SampledRow(b, rows, bits, sub, keyed, key) ==
    [i \in DOMAIN sub |->
        [token |-> [row |-> rows[sub[i].row],
                    mask |-> IF sub[i].row \in DOMAIN bits
                             THEN bits[sub[i].row] ELSE None,
                    draw |-> DrawBehind(b, sub, i, Path(b, sub, keyed), key)],
         logprobs |-> LogprobsOf(b, sub, i)]]

Unsampled == [token |-> [row |-> None, mask |-> None, draw |-> <<"none">>],
              logprobs |-> [req |-> 0, kind |-> "none"]]

\* Results go back to their entries; merge_logprobs_rows keeps a row for the
\* entries without any.
Scattered(sub, results, n) ==
    [i \in 1..n |->
        IF \E k \in DOMAIN sub : sub[k].entry = i
        THEN results[CHOOSE k \in DOMAIN sub : sub[k].entry = i]
        ELSE Unsampled]

-----------------------------------------------------------------------------
(* A step. *)

\* verify_greedy: the drafts the target agrees with, then its own token.
Verified(b, rows, bits, i, agreed, selective) ==
    [k \in 1..agreed + 1 |->
        LET row == Boundary(b, selective, i - 1) + k
        IN  [row |-> rows[row],
             mask |-> IF row \in DOMAIN bits THEN bits[row] ELSE None,
             draw |-> <<"argmax">>]]

\* can_draft_greedy, on the counts after the step.
CanDraft(r, n) ==
    /\ Plain(r) /\ ~params[r].random
    /\ n >= params[r].minTokens /\ n < SmMaxOuts

\* The target row a drafter continues from: the packed hidden states, not the
\* logits, whatever the head kept.
SeedRow(b, i, agreed) ==
    LET hidden == BatchRows(b, FALSE)
    IN  IF b[i].prefill THEN hidden[Boundary(b, FALSE, i)]
        ELSE hidden[Boundary(b, FALSE, i - 1) + agreed + 1]

Sample(b, order, selective, agreed) ==
    LET rows == BatchRows(b, selective)
        bits == Constrained(b, selective, order)
        keyed == native /\ ~drafts /\ order = <<>>
        verify == \E i \in DOMAIN b : b[i].drafted > 0
        item(i) == [entry |-> i, row |-> Head(RowTargets(b, selective, i))]
        decode == [k \in 1..Cardinality({i \in DOMAIN b : ~b[i].prefill}) |-> k]
        plain == [k \in DOMAIN SelectSeq(decode, LAMBDA i : b[i].drafted = 0) |->
                    item(SelectSeq(decode, LAMBDA i : b[i].drafted = 0)[k])]
        ends == SelectSeq([k \in 1..Len(b) |-> k],
                          LAMBDA i : b[i].prefill /\ b[i].final)
        finals == [k \in DOMAIN ends |-> item(ends[k])]
        later == engineKeys + EngineUse(b, plain, Path(b, plain, keyed))
        results ==
            [i \in DOMAIN b |->
               IF b[i].prefill
               THEN Scattered(finals,
                      SampledRow(b, rows, bits, finals, keyed, later), Len(b))[i]
               ELSE Scattered(plain,
                      SampledRow(b, rows, bits, plain, keyed, engineKeys), Len(b))[i]]
        tokens(i) ==
            IF b[i].drafted > 0 THEN Verified(b, rows, bits, i, agreed[i], selective)
            ELSE IF ~b[i].final THEN <<>> ELSE <<results[i].token>>
        count(i) == outs[b[i].req] + Len(tokens(i))
        ran == {i \in DOMAIN b : b[i].final}
    IN  /\ report' =
             [i \in DOMAIN b |->
                [req |-> b[i].req, from |-> b[i].at, tokens |-> tokens(i),
                 logprobs |-> results[i].logprobs,
                 masked |-> params[b[i].req].grammar,
                 seed |-> IF i \in ran /\ CanDraft(b[i].req, count(i))
                          THEN SeedRow(b, i, IF b[i].drafted > 0 THEN agreed[i]
                                             ELSE 0)
                          ELSE None]]
        /\ outs' = [r \in SmReqs |->
                      IF \E i \in DOMAIN b : b[i].req = r
                      THEN count(CHOOSE i \in DOMAIN b : b[i].req = r)
                      ELSE outs[r]]
        /\ generator' = [r \in SmReqs |->
                           generator[r] +
                           IF r \in GeneratorUse(b, plain, Path(b, plain, keyed))
                                    \cup GeneratorUse(b, finals,
                                                      Path(b, finals, keyed))
                           THEN 1 ELSE 0]
        /\ engineKeys' = later + EngineUse(b, finals, Path(b, finals, keyed))
        /\ resident' = resident \cup {b[i].req : i \in ran}
        /\ proposed' = {b[i].req : i \in {j \in ran :
                           drafts /\ CanDraft(b[j].req, count(j))}}

\* The scheduler's choice of entries (external): every resident request with
\* drafts it was proposed or padded to the uniform width, then chunks of the
\* others; structured requests in any order.
Step ==
    /\ smSteps < SmMaxSteps
    /\ \E ds \in SetToAllKPermutations({r \in resident : outs[r] < SmMaxOuts}),
          ps \in SetToAllKPermutations(SmReqs \ resident),
          start \in {0, SmPrompt - 1}, selective \in BOOLEAN :
        /\ ds \o ps # <<>> /\ (start > 0 => ps # <<>>)
        /\ \E width \in [Range(ds) \cap proposed -> 0..SmDrafts],
              pads \in SUBSET (IF drafts THEN Range(ds) \ proposed ELSE {}),
              partial \in SUBSET Range(ps) :
             LET drafted(r) == IF r \in proposed THEN width[r] ELSE 0
                 b == [i \in 1..Len(ds) |->
                         DecodeEntry(ds[i], drafted(ds[i]), ds[i] \in pads)]
                      \o [i \in 1..Len(ps) |->
                            PrefillEntry(ps[i], start, ps[i] \notin partial)]
             IN  /\ \A i \in DOMAIN b : b[i].span > 0
                 /\ \A r \in DOMAIN width : outs[r] + width[r] < SmMaxOuts
                 /\ \E order \in SetToSeqs({i \in DOMAIN b :
                                             params[b[i].req].grammar}),
                       agrees \in [DOMAIN width -> 0..SmDrafts] :
                      /\ \A r \in DOMAIN width : agrees[r] <= width[r]
                      /\ Sample(b, order, selective,
                                [i \in DOMAIN b |-> IF b[i].drafted > 0
                                                    THEN agrees[b[i].req] ELSE 0])
    /\ smSteps' = smSteps + 1
    /\ UNCHANGED <<params, drafts, native>>

\* A preempted request keeps its outputs and its generator.
SmPreempt ==
    /\ smSteps < SmMaxSteps
    /\ \E r \in resident :
          /\ outs[r] < SmMaxOuts
          /\ resident' = resident \ {r}
          /\ proposed' = proposed \ {r}
    /\ UNCHANGED <<params, drafts, native, outs, generator, engineKeys, report,
                   smSteps>>

SmNext == Step \/ SmPreempt

SmSpec == SmInit /\ [][SmNext]_smVars

-----------------------------------------------------------------------------
(* Property. *)

\* A token came from the row that predicts it, under its own grammar row.
FromItsRow(e, k) ==
    LET t == e.tokens[k]
        own == [req |-> e.req, pos |-> e.from + k - 1]
    IN  t.row = own /\ t.mask = IF e.masked THEN own ELSE None

\* Its draw is its own: an argmax, the request's seed at that position, the
\* request's generator, or the streams unseeded requests share.
FromItsDraw(e, k) ==
    LET t == e.tokens[k]
        p == params[e.req]
    IN  IF ~p.random THEN t.draw = <<"argmax">>
        ELSE IF p.seeded
        THEN \/ t.draw = <<"seed", e.req, e.from + k - 1>>
             \/ /\ t.draw[1] = "generator" /\ t.draw[2] = e.req
                /\ generator[e.req] = t.draw[3] + 1
        ELSE \/ t.draw = <<"global">>
             \/ t.draw[1] = "engine" /\ t.draw[2] < engineKeys

\* Every result of a step is what its request asked for: sampled from its own
\* logits row under its own grammar row and its own random stream, with the
\* logprobs it asked for, whatever shares the batch; an unfinished prompt
\* yields nothing, and a draft continues from the row of the last token
\* (sampling_batch.py:664-976, structured_output.py:79-205,
\* spec_decode.py:254-420, docs/configuration.md:29).
SampledAsAsked ==
    \A e \in Range(report) :
        /\ \A k \in DOMAIN e.tokens : FromItsRow(e, k) /\ FromItsDraw(e, k)
        /\ e.tokens # <<>> /\ params[e.req].logprobs # "none" =>
              /\ e.logprobs.req = e.req
              /\ e.logprobs.kind \in {params[e.req].logprobs}
                    \cup IF params[e.req].logprobs = "sampled"
                         THEN {"topk", "ids"} ELSE {}
        /\ e.seed # None => e.seed = e.tokens[Len(e.tokens)].row
=============================================================================
