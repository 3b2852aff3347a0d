---------------------------- MODULE VisionPrefill ----------------------------
(***************************************************************************)
(* Multimodal requests on the paged path (v1/model_runner.py, the encoder  *)
(* cache of v1/mm, the adapters of multimodal/): the scheduler lists the   *)
(* features a step must encode, the runner keeps each output under the     *)
(* feature's identifier until the scheduler frees it, and every prefill    *)
(* chunk splices into its token embeddings just the encoder rows whose     *)
(* placeholders fall into it, at the rotary positions the whole prompt     *)
(* gives them.  Decode rows and other requests share the packed batch.     *)
(*                                                                         *)
(* An encoder row is named by its content, its number and the LoRA adapter *)
(* the tower ran with, so that a row spliced into the wrong place, or      *)
(* encoded under another request's adapter, is told apart.                 *)
(***************************************************************************)
EXTENDS Integers, Sequences, FiniteSets, SequencesExt, FiniteSetsExt, Functions

CONSTANTS
    VpReqs,        \* request ids: integers, in packing order
    VpFamilies,    \* the model families tried
    VpPrompts,     \* [VpFamilies -> [VpReqs -> [len, lora, features]]], features
                   \*   by offset: [content, kind, offset, mask, frames, width]
    VpTowerLoRA,   \* settings of --enable-tower-connector-lora tried
    VpBudget,      \* max_num_batched_tokens
    VpCapacity,    \* encoder cache, in rows
    VpTowerFrames, \* video frames the Gemma 4 tower takes at once
    VpMaxNew,      \* bound: tokens a request generates
    VpMaxSteps     \* bound: steps of the runner

ASSUME VisionPrefillAssumption ==
    /\ VpReqs \subseteq Nat
    /\ VpTowerLoRA \subseteq BOOLEAN
    /\ {VpBudget, VpCapacity, VpTowerFrames} \subseteq Nat \ {0}
    /\ {VpMaxNew, VpMaxSteps} \subseteq Nat

VARIABLES
    vpFamily,   \* the loaded adapter
    vpTowerLoRA, \* the tower takes LoRA adapters
    vpReq,      \* scheduler and RequestState: [phase, computed, gen, delta]
    vpFeatures, \* encoder_cache.mm_features and lora_requests: ids registered
    vpOutputs,  \* encoder_cache.encoder_outputs: identifier -> result
    vpEncoder,  \* scheduler's encoder cache: [refs, freeable, freed]
    vpLeaving,  \* finished ids the next step announces
    vpRun,      \* what each position of a request was last run with
    vpRaised,   \* the error that stopped the engine
    vpStep

vpVars == <<vpFamily, vpTowerLoRA, vpReq, vpFeatures, vpOutputs, vpEncoder, vpLeaving,
            vpRun, vpRaised, vpStep>>

NoDelta == -1000
Sequential == {"lfm2_vl", "gemma4"}      \* supplies_segment_positions = False
ForcesForward == {"paddleocr_vl"}        \* requires_explicit_positions

VpInit ==
    /\ vpFamily \in VpFamilies
    /\ vpTowerLoRA \in VpTowerLoRA
    /\ vpTowerLoRA => vpFamily = "qwen3_vl"   \* lora_encoder_target
    /\ vpReq = [r \in VpReqs |-> [phase |-> "new", computed |-> 0, gen |-> 0,
                                  delta |-> NoDelta]]
    /\ vpFeatures = {}
    /\ vpOutputs = << >>
    /\ vpEncoder = [refs |-> << >>, freeable |-> << >>, freed |-> {}]
    /\ vpLeaving = {}
    /\ vpRun = [r \in VpReqs |-> << >>]
    /\ vpRaised = "none"
    /\ vpStep = 0

-----------------------------------------------------------------------------
(* A feature, its rows and their positions. *)

Prompt(r) == VpPrompts[vpFamily][r]
Features(r) == Prompt(r).features
NumEmbeds(f) == Cardinality({k \in DOMAIN f.mask : f.mask[k]})
\* The scheduler keys a feature by its LoRA when the tower takes adapters.
Identifier(r, f) == IF vpTowerLoRA THEN <<f.content, Prompt(r).lora>>
                    ELSE <<f.content, 0>>
TokensOf(r) == Prompt(r).len + vpReq[r].gen
IsMm(registered, r) == r \in registered /\ Features(r) # << >>
PlaceholderAt(fs, i) == {f \in Range(fs) : f.offset <= i /\ i < f.offset + Len(f.mask)}
IsEmbed(fs, i) == \E f \in PlaceholderAt(fs, i) : f.mask[i - f.offset + 1]
FeatureAt(fs, i) == CHOOSE f \in PlaceholderAt(fs, i) : TRUE

\* Runs of encoder rows of a prompt, each one grid: <<first, past, width>>.
GridsOf(prompt) ==
    LET fs == prompt.features
    IN  {<<p[1], p[2], FeatureAt(fs, p[1]).width>> : p \in
            {q \in (0..prompt.len) \X (1..prompt.len) :
                /\ q[1] < q[2]
                /\ \A i \in q[1]..(q[2] - 1) : IsEmbed(fs, i)
                /\ ~ IsEmbed(fs, q[1] - 1) /\ ~ IsEmbed(fs, q[2])}}
PromptGrids == [fam \in VpFamilies |-> [r \in VpReqs |-> GridsOf(VpPrompts[fam][r])]]
Grids(r) == PromptGrids[vpFamily][r]
GridRows(g) == (g[2] - g[1] + g[3] - 1) \div g[3]
\* Positions a grid saves against its row count: the text after it continues
\* at the larger side of the grid.
Saved(g) == (g[2] - g[1]) - Max({g[3], GridRows(g)})
SavedBefore(r, i) == MapThenSumSet(Saved, {g \in Grids(r) : g[2] <= i})

\* get_mrope_input_positions of the whole prompt: position of token i.
MropePosition(r, i) ==
    IF vpFamily \in Sequential THEN i
    ELSE IF \E g \in Grids(r) : g[1] <= i /\ i < g[2]
    THEN LET g == CHOOSE h \in Grids(r) : h[1] <= i /\ i < h[2]
         IN  (g[1] - SavedBefore(r, g[1])) + ((i - g[1]) % g[3])
    ELSE i - SavedBefore(r, i)
MropeDelta(r) == IF vpFamily \in Sequential THEN 0
                 ELSE 0 - SavedBefore(r, Prompt(r).len)

\* What each adapter refuses before it computes positions.
GridDisagrees(f) ==
    \/ f.kind = "image" /\ Len(f.frames) # 1
    \/ FoldLeft(+, 0, f.frames) # NumEmbeds(f)
QwenValidates(fs) ==
    \A f \in Range(fs) : f.kind \in {"image", "video"} /\ ~ GridDisagrees(f)
PaddleValidates(fs) ==
    \A f \in Range(fs) : f.kind = "image" /\ ~ GridDisagrees(f)
Lfm2Validates(fs) == \A f \in Range(fs) : f.kind # "video"
GemmaValidates(fs) == \A f \in Range(fs) : f.kind \in {"image", "video", "audio"}

PositionsRefuse(r) ==
    ~ CASE vpFamily = "qwen3_vl" -> QwenValidates(Features(r))
        [] vpFamily = "paddleocr_vl" -> PaddleValidates(Features(r))
        [] vpFamily = "lfm2_vl" -> Lfm2Validates(Features(r))
        [] vpFamily = "gemma4" -> GemmaValidates(Features(r))

-----------------------------------------------------------------------------
(* Encoding: the adapters' encode_multimodal.  A row is                    *)
(* <<content, number, adapter>>.                                           *)

\* The rows of frames a..b, numbered within the feature.
FrameRows(f, a, b, lora) ==
    LET before == FoldLeft(+, 0, SubSeq(f.frames, 1, a - 1))
        upto == FoldLeft(+, 0, SubSeq(f.frames, 1, b))
    IN  [k \in 1..(upto - before) |-> <<f.content, before + k, lora>>]

\* _encode_video: a few frames at a time, concatenated in frame order.
VideoRows(f, lora) ==
    LET n == Len(f.frames)
        chunks == (n + VpTowerFrames - 1) \div VpTowerFrames
    IN  FlattenSeq([c \in 1..chunks |->
            FrameRows(f, (c - 1) * VpTowerFrames + 1,
                      Min({c * VpTowerFrames, n}), lora)])

\* _encode_audio: a clip longer than its placeholders keeps its first rows.
AudioRows(f, lora) ==
    SubSeq(FrameRows(f, 1, Len(f.frames), lora), 1, NumEmbeds(f))

\* encode_multimodal of one feature: the hidden rows and the deepstack rows
\* where the tower has per-layer residuals (one layer stands for them).
Refused == [hidden |-> << >>, deepstack |-> << >>, refused |-> TRUE]
Result(hidden, deepstack) ==
    [hidden |-> hidden, deepstack |-> deepstack, refused |-> FALSE]
AllRows(f, lora) == FrameRows(f, 1, Len(f.frames), lora)

QwenEncode(f, lora) ==
    IF f.kind \notin {"image", "video"} THEN Refused
    ELSE Result(AllRows(f, lora), AllRows(f, lora))

PaddleEncode(f) ==
    IF f.kind # "image" THEN Refused ELSE Result(AllRows(f, 0), << >>)

\* The tiles' rows, which must be as many as the placeholders.
Lfm2Encode(f) ==
    IF f.kind # "image" \/ Len(AllRows(f, 0)) # NumEmbeds(f) THEN Refused
    ELSE Result(AllRows(f, 0), << >>)

GemmaEncode(f) ==
    LET rows == CASE f.kind = "audio" -> AudioRows(f, 0)
                  [] f.kind = "video" -> VideoRows(f, 0)
                  [] OTHER -> AllRows(f, 0)
    IN  IF ~ GemmaValidates(<<f>>) \/ Len(rows) # NumEmbeds(f) THEN Refused
        ELSE Result(rows, << >>)

\* Only Qwen3-VL hands its tower to LoRA.
EncodeResult(f, lora) ==
    CASE vpFamily = "qwen3_vl" -> QwenEncode(f, lora)
      [] vpFamily = "paddleocr_vl" -> PaddleEncode(f)
      [] vpFamily = "lfm2_vl" -> Lfm2Encode(f)
      [] vpFamily = "gemma4" -> GemmaEncode(f)

\* _encode_features of one group under its adapter, evaluated at once: the
\* tower is lazy, and its slot goes back to the base model afterwards.
GroupEncoded(group) ==
    [id \in {Identifier(p[1], p[2]) : p \in group} |->
        LET p == CHOOSE q \in group : Identifier(q[1], q[2]) = id
        IN  EncodeResult(p[2], IF vpTowerLoRA THEN Prompt(p[1]).lora ELSE 0)]

\* _run_vision_encoders: `listed` are the scheduled <<request, index>> pairs;
\* features already cached are skipped, the rest grouped by adapter.
ToEncode(listed, held) ==
    {<<p[1], Features(p[1])[p[2]]>> : p \in
        {q \in listed : Identifier(q[1], Features(q[1])[q[2]]) \notin DOMAIN held}}

EncodersRun(listed, held) ==
    LET todo == ToEncode(listed, held)
        groups == {{p \in todo : Prompt(p[1]).lora = l} :
                      l \in {Prompt(p[1]).lora : p \in todo}}
    IN  FoldSet(LAMBDA group, acc : acc @@ GroupEncoded(group), held, groups)

-----------------------------------------------------------------------------
(* The packed forward: decode segments first, then prefill chunks, each a  *)
(* record [req, start, n].                                                 *)

\* Rows of the encoder result that fall into local placeholders [a, b).
EmbedRangeByOffset(f, a, b) == <<a, b>>

EmbedRange(f, a, b) ==
    <<Cardinality({k \in 1..a : f.mask[k]}), Cardinality({k \in 1..b : f.mask[k]})>>

\* The part of feature f inside chunk c: <<first, past>>, empty if first >= past.
Inside(c, f) ==
    <<Max({f.offset, c.start}), Min({f.offset + Len(f.mask), c.start + c.n})>>
Contributes(c, f) ==
    LET in == Inside(c, f)
        e == EmbedRange(f, in[1] - f.offset, in[2] - f.offset)
    IN  in[1] < in[2] /\ e[1] # e[2]

\* Sorted features of the chunk that contribute rows to it.
Spliced(c) == SelectSeq(Features(c.req), LAMBDA f : Contributes(c, f))
MissingOutput(c, held) ==
    \E f \in Range(Spliced(c)) : Identifier(c.req, f) \notin DOMAIN held

\* visual_pos_masks of the chunk.
VisualMask(c) ==
    [k \in 1..c.n |-> \E f \in Range(Spliced(c)) :
        LET local == c.start + k - f.offset
        IN  local \in 1..Len(f.mask) /\ f.mask[local]]

\* mm_embeds_parts of the chunk, concatenated (`layer`: hidden or deepstack).
EmbedParts(c, held, layer) ==
    FlattenSeq([j \in 1..Len(Spliced(c)) |->
        LET f == Spliced(c)[j]
            in == Inside(c, f)
            e == EmbedRange(f, in[1] - f.offset, in[2] - f.offset)
            rows == held[Identifier(c.req, f)][layer]
        IN  SubSeq(rows, e[1] + 1, Min({e[2], Len(rows)}))])

NoMask(c) == [k \in 1..c.n |-> FALSE]
SegmentMask(c, mm) ==
    IF mm THEN VisualMask(c) ELSE NoMask(c)
SegmentParts(c, mm, held, layer) ==
    IF mm THEN EmbedParts(c, held, layer) ELSE << >>

\* merge_multimodal_embeddings: the j-th marked row takes the j-th part.
Merged(mask, parts, rows) ==
    [p \in DOMAIN rows |->
        IF mask[p] THEN parts[Cardinality({q \in 1..p : mask[q]})] ELSE rows[p]]
CountsAgree(mask, parts) ==
    parts = << >> \/ Cardinality({q \in DOMAIN mask : mask[q]}) = Len(parts)

\* position_ids of a segment's row: the prompt's own on a multimodal chunk, the
\* offset plus the request's delta on a decode row.
DecodePosition(r, i) == IF vpReq[r].delta = NoDelta THEN i ELSE i + vpReq[r].delta
PositionUsed(r, i, decode, mm, mmForward) ==
    IF ~ mmForward THEN i
    ELSE IF decode THEN DecodePosition(r, i)
    ELSE IF mm THEN MropePosition(r, i) ELSE i

\* has_mm, and the adapters that force the multimodal forward on text.
UsesMmForward(decodes, prefills, registered) ==
    \/ \E c \in Range(prefills) : IsMm(registered, c.req)
    \/ \E c \in Range(decodes) : vpReq[c.req].delta # NoDelta
    \/ vpFamily \in ForcesForward

Token(r, i) == <<"token", r, i>>
Pad == <<"pad">>
Ran(embed, deepstack, lookup, position) ==
    [embed |-> embed, deepstack |-> deepstack, lookup |-> lookup, position |-> position]

\* call_lm of a packed row p: its embedding, the deepstack residual at image
\* rows, the id per-layer inputs are looked up with, its position.
QwenLm(in, p) ==
    Ran(in.embeds[p],
        IF in.mask[p] /\ in.deepstack # << >>
        THEN in.deepstack[Cardinality({q \in 1..p : in.mask[q]})] ELSE << >>,
        in.ids[p], in.positions[p])
PaddleLm(in, p) == Ran(in.embeds[p], << >>, in.ids[p], in.positions[p])
\* position_ids unused: the paged context's offsets rotate the row.
Lfm2Lm(in, p) == Ran(in.embeds[p], << >>, in.ids[p], in.offsets[p])
GemmaLm(in, p) ==
    Ran(in.embeds[p], << >>, IF in.mask[p] THEN Pad ELSE in.ids[p], in.offsets[p])

LmRow(in, p) ==
    CASE vpFamily = "qwen3_vl" -> QwenLm(in, p)
      [] vpFamily = "paddleocr_vl" -> PaddleLm(in, p)
      [] vpFamily = "lfm2_vl" -> Lfm2Lm(in, p)
      [] vpFamily = "gemma4" -> GemmaLm(in, p)

\* _run_mm_paged_forward, or the text forward when no multimodal row is in the
\* batch: what every row of each request was run with.
MmForward(decodes, prefills, held, registered) ==
    LET segments == decodes \o prefills
        isDecode(j) == j <= Len(decodes)
        isMm(j) == ~ isDecode(j) /\ IsMm(registered, segments[j].req)
        mmForward == UsesMmForward(decodes, prefills, registered)
        Packed(Of(_)) == FlattenSeq([j \in 1..Len(segments) |-> Of(j)])
        Each(j, At(_, _)) == [k \in 1..segments[j].n |->
                                 At(segments[j].req, segments[j].start + k - 1)]
        mask == Packed(LAMBDA j : SegmentMask(segments[j], isMm(j)))
        parts == Packed(LAMBDA j : SegmentParts(segments[j], isMm(j), held, "hidden"))
        ids == Packed(LAMBDA j : Each(j, Token))
        in == [mask |-> mask, ids |-> ids,
               embeds |-> Merged(mask, parts, ids),
               deepstack |-> Packed(LAMBDA j :
                   SegmentParts(segments[j], isMm(j), held, "deepstack")),
               offsets |-> Packed(LAMBDA j : Each(j, LAMBDA r, i : i)),
               positions |-> Packed(LAMBDA j : Each(j, LAMBDA r, i :
                   PositionUsed(r, i, isDecode(j), isMm(j), mmForward)))]
        first(j) == FoldLeft(LAMBDA acc, c : acc + c.n, 0, SubSeq(segments, 1, j - 1))
    IN  [counts |-> CountsAgree(mask, parts),
         rows |-> [r \in {c.req : c \in Range(segments)} |->
            LET j == CHOOSE i \in DOMAIN segments : segments[i].req = r
            IN  [k \in 1..segments[j].n |-> LmRow(in, first(j) + k)]]]

NothingRan == [counts |-> FALSE, rows |-> << >>]

-----------------------------------------------------------------------------
(* The scheduler's encoder cache (external): references per identifier,    *)
(* unreferenced entries freed oldest first when room is needed.            *)

RowsHeld(e) == MapThenSumSet(LAMBDA id : e.refs[id].rows, DOMAIN e.refs)

Unreferenced(e, r) ==
    LET refs == [id \in DOMAIN e.refs |->
                    [e.refs[id] EXCEPT !.by = @ \ {r}]]
        newly == {id \in DOMAIN refs : refs[id].by = {} /\ e.refs[id].by # {}}
    IN  [e EXCEPT !.refs = refs, !.freeable = @ \o SetToSeq(newly)]

\* Room for `rows` more: the oldest unreferenced entries go, as many as needed.
Roomy(e, rows) ==
    LET gone(k) == Range(SubSeq(e.freeable, 1, k))
        kept(k) == [id \in DOMAIN e.refs \ gone(k) |-> e.refs[id]]
        fits(k) == RowsHeld([e EXCEPT !.refs = kept(k)]) + rows <= VpCapacity
        k == Min({j \in 0..Len(e.freeable) : fits(j)} \union {Len(e.freeable)})
    IN  [refs |-> kept(k), freeable |-> SubSeq(e.freeable, k + 1, Len(e.freeable)),
         freed |-> e.freed \union gone(k)]

\* The features of chunk c the scheduler wants at hand, as <<request, index>>.
Wanted(c) == {<<c.req, j>> : j \in {k \in DOMAIN Features(c.req) :
                                      Contributes(c, Features(c.req)[k])}}

\* One wanted feature: referenced if held, else allocated and listed.
Allocated(acc, p) ==
    LET f == Features(p[1])[p[2]]
        id == Identifier(p[1], f)
        e == acc.encoder
        made == Roomy(e, NumEmbeds(f))
    IN  IF id \in DOMAIN e.refs
        THEN [acc EXCEPT !.encoder.refs[id].by = @ \union {p[1]},
                         !.encoder.freeable = SelectSeq(@, LAMBDA x : x # id)]
        ELSE [listed |-> acc.listed \union {p},
              fits |-> acc.fits /\ RowsHeld(made) + NumEmbeds(f) <= VpCapacity,
              encoder |-> [made EXCEPT !.refs = @ @@ (id :>
                              [by |-> {p[1]}, rows |-> NumEmbeds(f)])]]

\* After a step: a feature wholly computed is no longer referenced.
Released(e, c) ==
    FoldSet(LAMBDA f, acc :
                [acc EXCEPT !.refs = [id \in DOMAIN @ |->
                    IF id = Identifier(c.req, f)
                    THEN [@[id] EXCEPT !.by = @ \ {c.req}] ELSE @[id]],
                 !.freeable = IF /\ Identifier(c.req, f) \in DOMAIN acc.refs
                                 /\ acc.refs[Identifier(c.req, f)].by = {c.req}
                              THEN Append(@, Identifier(c.req, f)) ELSE @],
            e, {f \in Range(Features(c.req)) :
                   f.offset + Len(f.mask) <= c.start + c.n})

-----------------------------------------------------------------------------
(* Steps. *)

Left(r) == TokensOf(r) - vpReq[r].computed
Chunks(r) == IF vpReq[r].phase = "decode" THEN {1} ELSE 1..Min({Left(r), VpBudget})
ChunkOf(r, n) == [req |-> r, start |-> vpReq[r].computed, n |-> n[r]]
PackedBy(T, n) == SetToSortSeq({ChunkOf(r, n) : r \in T}, LAMBDA a, b : a.req < b.req)
Waiting == {r \in VpReqs : vpReq[r].phase \in {"new", "preempted"}}
Running == {r \in VpReqs : vpReq[r].phase \in {"prefill", "decode"}}

\* _free_encoder_outputs comes before the encoders of the same step.
OutputsFreed(held, freed) == [id \in DOMAIN held \ freed |-> held[id]]

OutputsForStep(held, freed, listed) ==
    EncodersRun(listed, OutputsFreed(held, freed))

\* The request after its chunk: the last chunk samples, and a prefill's last
\* chunk leaves the prompt's delta with the request.
Advanced(c, registered) ==
    LET q == vpReq[c.req]
        last == c.start + c.n = TokensOf(c.req)
        gen == IF last THEN q.gen + 1 ELSE q.gen
    IN  [phase |-> IF ~ last THEN "prefill"
                   ELSE IF gen = VpMaxNew THEN "finished" ELSE "decode",
         computed |-> c.start + c.n,
         gen |-> gen,
         delta |-> IF last /\ q.phase # "decode" /\ IsMm(registered, c.req)
                   THEN MropeDelta(c.req) ELSE q.delta]

\* The first check of the step that refuses, in the order they are made.
Refusal(prefills, listed, held, outputs, registered) ==
    IF \E p \in listed : p[1] \notin registered THEN "unregistered"
    ELSE IF \E p \in ToEncode(listed, held) : EncodeResult(p[2], 0).refused THEN "encode"
    ELSE IF \E c \in Range(prefills) :
              IsMm(registered, c.req) /\ PositionsRefuse(c.req) THEN "positions"
    ELSE IF \E c \in Range(prefills) :
              IsMm(registered, c.req) /\ MissingOutput(c, outputs) THEN "missing"
    ELSE "none"

\* One execute_model and its sampling over the requests S, n[r] tokens each.
ServeStep(S, n) ==
    \E decodes \in {PackedBy({r \in S : vpReq[r].phase = "decode"}, n)},
       prefills \in {PackedBy({r \in S : vpReq[r].phase # "decode"}, n)} :
    \E plan \in {FoldLeft(Allocated, [encoder |-> [vpEncoder EXCEPT !.freed = {}],
                                      listed |-> {}, fits |-> TRUE],
                          FlattenSeq([j \in 1..Len(prefills) |-> SetToSortSeq(
                             Wanted(prefills[j]), LAMBDA a, b : a[2] < b[2])]))} :
    \E outputs \in {OutputsForStep(vpOutputs, plan.encoder.freed, plan.listed)} :
    LET registered == (vpFeatures \ vpLeaving) \union (S \intersect Waiting)
        refusal == Refusal(prefills, plan.listed,
                           OutputsFreed(vpOutputs, plan.encoder.freed),
                           outputs, registered)
        after == [r \in S |-> Advanced(ChunkOf(r, n), registered)]
        ended == {r \in S : after[r].phase = "finished"}
    IN  /\ plan.fits
        /\ vpFeatures' = registered
        /\ \E ran \in {IF refusal # "none" THEN NothingRan
                       ELSE MmForward(decodes, prefills, outputs, registered)} :
           IF ~ ran.counts
           THEN /\ vpRaised' = IF refusal # "none" THEN refusal ELSE "counts"
                /\ UNCHANGED <<vpReq, vpOutputs, vpEncoder, vpLeaving, vpRun>>
           ELSE /\ vpRaised' = "none"
                /\ vpReq' = [r \in VpReqs |-> IF r \in S THEN after[r] ELSE vpReq[r]]
                /\ vpOutputs' = outputs
                /\ vpEncoder' = FoldSet(LAMBDA r, e : Unreferenced(e, r),
                      FoldSet(LAMBDA r, e : Released(e, ChunkOf(r, n)),
                              plan.encoder, S), ended)
                /\ vpLeaving' = ended
                /\ vpRun' = [r \in VpReqs |-> IF r \notin S THEN vpRun[r]
                      ELSE SubSeq(vpRun[r], 1, vpReq[r].computed) \o
                           ran.rows[r]]

Serve ==
    \E S \in SUBSET (Waiting \union Running) \ {{}} :
        \E n \in [S -> 1..VpBudget] :
            /\ \A r \in S : n[r] \in Chunks(r)
            /\ MapThenSumSet(LAMBDA r : n[r], S) <= VpBudget
            /\ ServeStep(S, n)

\* The scheduler preempts a request: it gives up its encoder references and
\* comes back with the prefix of c tokens that is still cached.
Preempt ==
    \E r \in Running : \E c \in {0, vpReq[r].computed \div 2} :
        /\ vpReq' = [vpReq EXCEPT ![r].phase = "preempted", ![r].computed = c]
        /\ vpEncoder' = Unreferenced(vpEncoder, r)
        /\ UNCHANGED <<vpFeatures, vpOutputs, vpLeaving, vpRun, vpRaised>>

VpNext ==
    /\ vpStep < VpMaxSteps /\ vpRaised = "none"
    /\ vpStep' = vpStep + 1
    /\ UNCHANGED <<vpFamily, vpTowerLoRA>>
    /\ Serve \/ Preempt

VpSpec == VpInit /\ [][VpNext]_vpVars

-----------------------------------------------------------------------------
(* What a multimodal request is owed. *)

\* The embed row of position i counted through the request's features.
OwedRow(r, i) ==
    LET f == FeatureAt(Features(r), i)
        k == Cardinality({j \in 1..(i - f.offset + 1) : f.mask[j]})
    IN  <<f.content, k, IF vpTowerLoRA THEN Prompt(r).lora ELSE 0>>

OwedAt(r, i) ==
    [embed |-> IF IsEmbed(Features(r), i) THEN OwedRow(r, i) ELSE Token(r, i),
     deepstack |-> IF IsEmbed(Features(r), i) /\ vpFamily = "qwen3_vl"
                   THEN OwedRow(r, i) ELSE << >>,
     lookup |-> IF IsEmbed(Features(r), i) /\ vpFamily = "gemma4" THEN Pad ELSE Token(r, i),
     position |-> MropePosition(r, i)]

\* However a prompt is chunked, packed with others, preempted and recomputed,
\* every position runs with its own feature's encoder row of its own adapter
\* (or its token), at the position a single pass over the whole sequence
\* gives it; an encoder output is there whenever the scheduler counts on it,
\* and the only refusals are the adapters' own (_run_mm_paged_forward,
\* _run_vision_encoders, EncoderCache).
ImagesReachTheirPlaces ==
    /\ vpRaised \in {"none", "encode", "positions"}
    /\ \A r \in VpReqs : \A i \in 1..Len(vpRun[r]) : vpRun[r][i] = OwedAt(r, i - 1)
    /\ vpRaised = "none" => DOMAIN vpOutputs = DOMAIN vpEncoder.refs
=============================================================================
