------------------------------ MODULE MtpDraft ------------------------------
(***************************************************************************)
(* The Gemma4 MTP assistant (v1/gemma4_mtp.py, spec_decode/gemma4/model.py *)
(* and their callers): a drafter without KV of its own.  Its layers read   *)
(* the paged KV of chosen target layers, and its first input is the        *)
(* target's hidden state of the row that sampled last.  The loaded model   *)
(* is cached for the whole process; what ties it to one runner's KV cache  *)
(* must not be.                                                            *)
(*                                                                         *)
(* The KV of a request is the token written at each position, rejected     *)
(* drafts included; a draft token is 0, the target accepts any prefix of a *)
(* draft and then samples 1, or any token where nothing was rejected; 2    *)
(* is a stop token.                                                        *)
(***************************************************************************)
EXTENDS Integers, Sequences, FiniteSets, SequencesExt, FiniteSetsExt, Functions

CONSTANTS
    MtReqs,        \* request ids: integers, in the order a step packs them
    MtPrompt,      \* prompt tokens of a request
    MtSampled,     \* the requests whose sampling is not plain greedy
    MtTargets,     \* target models, see TargetMetadata
    MtAssistants,  \* draft checkpoints by name, see Metadata
    MtWidth,       \* num_speculative_tokens, 0 in a step that drafts nothing
    MtMaxTokens,   \* max_tokens of a request
    MtMaxLoads,    \* bound: loads of a target
    MtMaxSteps     \* bound: engine steps and preemptions

ASSUME MtpDraftAssumption ==
    /\ MtReqs \subseteq Nat /\ IsFiniteSet(MtReqs) /\ MtSampled \subseteq MtReqs
    /\ {MtPrompt, MtWidth, MtMaxTokens} \subseteq Nat \ {0}
    /\ {MtMaxLoads, MtMaxSteps} \subseteq Nat

VARIABLES
    mtTarget,    \* the loaded target and which of its KV caches is set up, 0 for none
    mtCache,     \* Gemma4MTPAssistantLoader._CACHE: name -> runtime
    mtRuntime,   \* the runner's _gemma4_mtp_assistant, << >> for None
    mtReq,       \* RequestState: [status, tokens, gen, computed, spec]
    mtKV,        \* tokens written at a request's positions
    mtDrafted,   \* the drafts of the last step and what they were made from
    mtEligible,  \* requests the last step should have drafted for
    mtLoads, mtSteps

mtVars == <<mtTarget, mtCache, mtRuntime, mtReq, mtKV, mtDrafted, mtEligible,
            mtLoads, mtSteps>>

NoTarget == [generation |-> 0]
Asked == [status |-> "waiting", tokens |-> [i \in 1..MtPrompt |-> 0], gen |-> 0,
          computed |-> 0, spec |-> << >>]
MtFresh(reqs, kv) ==
    /\ reqs = [r \in MtReqs |-> Asked]
    /\ kv = [r \in MtReqs |-> << >>]

MtInit ==
    /\ mtTarget = NoTarget /\ mtCache = << >> /\ mtRuntime = << >>
    /\ MtFresh(mtReq, mtKV)
    /\ mtDrafted = {} /\ mtEligible = {}
    /\ mtLoads = 0 /\ mtSteps = 0

-----------------------------------------------------------------------------
(* Checkpoints and what the loader makes of them.                          *)

LayerTypes == {"sliding", "full"}

\* Gemma4MTPTargetMetadata: layers that share KV have none to read.
TargetMetadataOK(t) == t.gemma4 /\ t.shared \in 0..(Len(t.types) - 1)
NonShared(t) == SubSeq(t.types, 1, Len(t.types) - t.shared)

\* is_gemma4_mtp accepts a checkpoint by its model type or its architecture.
IsMtp(c) == c.type \/ c.architecture

\* A field that is there, an integer and positive; 0 stands for any that is not.
Given(n) == n > 0

OrderedEmbeddingsOK(c) ==
    c.ordered => /\ Given(c.centroids) /\ Given(c.topK)
                 /\ c.vocab % c.centroids = 0 /\ c.topK <= c.centroids

\* Gemma4MTPAssistantMetadata.from_config; topVocab is -1 where it is not given.
MetadataOK(c) ==
    /\ ~c.ownModelFile
    /\ c.type /\ c.textType
    /\ Given(c.vocab) /\ c.topVocab \in {-1, c.vocab}
    /\ Given(c.hidden) /\ Given(c.backbone) /\ Given(c.layers)
    /\ Len(c.types) = c.layers /\ ToSet(c.types) \subseteq LayerTypes
    /\ c.architecture
    /\ OrderedEmbeddingsOK(c)

\* What the model itself refuses when it is built: own KV, per-layer inputs.
ModelBuilds(c) == c.kvShared \in {-1, c.layers} /\ c.perLayerInput = 0

\* validate_compatible_with: the assistant's layers end as the target's do.
Compatible(c, t) ==
    /\ c.vocab = t.vocab /\ c.backbone = t.hidden
    /\ IsSuffix(c.types, NonShared(t))

\* The config is checked before weights are read, and again as it was loaded.
Preflight(c, t) == c.config /\ MetadataOK(c) /\ Compatible(c, t)
LoadsUncached(c, t) == Preflight(c, t) /\ ModelBuilds(c)

Runtime(name) == [name |-> name, binding |-> << >>]

\* Gemma4MTPKVSharingPlan: the first layer of the type instead of the last.
FirstOfType(type, t) == Min({i \in DOMAIN NonShared(t) : NonShared(t)[i] = type})
\* The last non-shared target layer of the type.
SourceLayer(type, t) == Max({i \in DOMAIN NonShared(t) : NonShared(t)[i] = type})
SharingPlan(name, t) ==
    LET types == MtAssistants[name].types
    IN  [i \in DOMAIN types |-> SourceLayer(types[i], t)]

\* A new engine process state for requests: none runs across a load.
Restarted ==
    /\ MtFresh(mtReq', mtKV')
    /\ mtDrafted' = {} /\ mtEligible' = {}

\* load: the runner's assistant is dropped first, so a load that raises
\* leaves none; the cache keeps what it has.
LoadTarget(t, name) ==
    /\ mtLoads < MtMaxLoads
    /\ mtLoads' = mtLoads + 1
    /\ mtTarget' = [args |-> t, generation |-> 0]
    /\ IF ~IsMtp(MtAssistants[name]) \/ ~TargetMetadataOK(t)
       THEN mtRuntime' = << >> /\ UNCHANGED mtCache
       ELSE IF name \in DOMAIN mtCache
       THEN /\ mtRuntime' = IF Compatible(MtAssistants[name], t)
                            THEN <<mtCache[name]>> ELSE << >>
            /\ UNCHANGED mtCache
       ELSE IF LoadsUncached(MtAssistants[name], t)
       THEN /\ mtRuntime' = <<Runtime(name)>>
            /\ mtCache' = [n \in DOMAIN mtCache \cup {name} |->
                              IF n = name THEN Runtime(name) ELSE mtCache[n]]
       ELSE mtRuntime' = << >> /\ UNCHANGED mtCache
    /\ Restarted
    /\ UNCHANGED mtSteps

\* install_gemma4_mtp_kv_sharing: the runner's runtime becomes a copy bound to
\* the new KV cache; only the SDPA backend has one to share.
SetUpKVCache ==
    /\ mtTarget # NoTarget
    /\ mtTarget.generation = 0
    /\ mtTarget' = [mtTarget EXCEPT !.generation = mtLoads]
    /\ IF mtRuntime # << >> /\ mtTarget.args.backend = "sdpa"
       THEN mtRuntime' = <<[mtRuntime[1] EXCEPT !.binding =
                <<[plan |-> SharingPlan(mtRuntime[1].name, mtTarget.args),
                   generation |-> mtLoads]>>]>>
       ELSE UNCHANGED mtRuntime
    /\ Restarted
    /\ UNCHANGED <<mtCache, mtLoads, mtSteps>>

\* The runner serves with its assistant: the cache is set up, and setting it
\* up did not raise.
Serving ==
    /\ mtTarget # NoTarget /\ mtTarget.generation > 0
    /\ mtRuntime # << >> /\ mtTarget.args.backend = "sdpa"

-----------------------------------------------------------------------------
(* A step: the rows the scheduler packs and what the target samples.       *)

MtDecodes(q) == q.gen > 0 /\ q.computed = Len(q.tokens) - 1
NoRows == [n |-> 0, accepted |-> 0, next |-> 0]
MtRowsOf(q) ==
    {NoRows} \cup
    (IF q.status = "gone" THEN {}
     ELSE IF MtDecodes(q)
     THEN {[n |-> 1 + k, accepted |-> a, next |-> t] :
              k \in 0..Len(q.spec), a \in 0..Len(q.spec), t \in 0..2}
     ELSE {[n |-> m, accepted |-> 0, next |-> t] :
              m \in 1..(Len(q.tokens) - q.computed), t \in 0..2})
MtRows(q) ==
    {row \in MtRowsOf(q) :
        /\ row.n > 0 => row.accepted < row.n
        /\ MtDecodes(q) /\ row.accepted < row.n - 1 => row.next # 0}
MtPlans == {plan \in [MtReqs -> UNION {MtRows(mtReq[r]) : r \in MtReqs}] :
               /\ \A r \in MtReqs : plan[r] \in MtRows(mtReq[r])
               /\ \E r \in MtReqs : plan[r].n > 0}

MtSamples(q, row) == row.n > 0 /\ (MtDecodes(q) \/ q.computed + row.n = Len(q.tokens))
MtVerified(q, row) ==
    IF ~MtSamples(q, row) THEN << >>
    ELSE [i \in 1..row.accepted |-> 0] \o <<row.next>>

\* The tokens a row feeds the target, from position q.computed on.
Fed(q, row) ==
    IF MtDecodes(q) THEN <<Last(q.tokens)>> \o SubSeq(q.spec, 1, row.n - 1)
    ELSE SubSeq(q.tokens, q.computed + 1, q.computed + row.n)

MtWritten(kv, q, row) ==
    IF row.n = 0 THEN kv
    ELSE SubSeq(kv, 1, q.computed) \o Fed(q, row)
             \o SubSeq(kv, q.computed + row.n + 1, Len(kv))

\* The packed batch: decode segments first, then prefill chunks.
Order(plan) ==
    SetToSortSeq({r \in MtReqs : plan[r].n > 0},
                 LAMBDA r, s : IF MtDecodes(mtReq[r]) = MtDecodes(mtReq[s]) THEN r < s
                               ELSE MtDecodes(mtReq[r]))
MtStartRow(plan, r) ==
    LET order == Order(plan)
        before == {i \in DOMAIN order : \E j \in DOMAIN order : j > i /\ order[j] = r}
    IN  MapThenSumSet(LAMBDA i : plan[order[i]].n, before)
HiddenRows(plan) ==
    FlattenSeq([i \in DOMAIN Order(plan) |->
        [k \in 1..plan[Order(plan)[i]].n |->
            [req |-> Order(plan)[i], position |-> mtReq[Order(plan)[i]].computed + k - 1]]])

\* needs_target_hidden_states: kept when a row of the step will sample.
KeepsHidden(plan) == \E r \in MtReqs : MtSamples(mtReq[r], plan[r])

MtAfter(plan) ==
    [r \in MtReqs |->
        LET q == mtReq[r]
            out == MtVerified(q, plan[r])
        IN  IF plan[r].n = 0 THEN q
            ELSE [q EXCEPT
                !.status = "running", !.tokens = @ \o out, !.gen = @ + Len(out),
                !.computed = IF MtDecodes(q) THEN @ + Len(out) ELSE @ + plan[r].n,
                !.spec = << >>]]

Stops(out) == \E i \in DOMAIN out : out[i] = 2

\* can_draft_greedy.
CanDraft(r, q, out) == q.gen < MtMaxTokens /\ ~Stops(out) /\ r \notin MtSampled

-----------------------------------------------------------------------------
(* Seeds and the recurrence over the target's KV.                          *)

\* build_gemma4_mtp_draft_seeds: the row that sampled the last token.
Seed(r, plan) ==
    LET offset == IF MtDecodes(mtReq[r]) THEN plan[r].accepted ELSE plan[r].n - 1
    IN  [row |-> MtStartRow(plan, r) + offset,
         position |-> mtReq[r].computed + offset]

\* propose_draft_token_ids: each round reads the KV of the chosen layers up to
\* the seed's position and is fed the token and hidden state of the last one.
Recurrence(token, hidden, width) ==
    LET round(done, i) ==
            Append(done, IF i = 1 THEN [token |-> token, hidden |-> hidden]
                         ELSE [token |-> 0, hidden |-> [round |-> i - 1]])
    IN  FoldLeft(round, << >>, [i \in 1..width |-> i])

Bound == mtRuntime # << >> /\ mtRuntime[1].binding # << >>

Draft(r, seed, plan, after, kv, width) ==
    [req |-> r,
     rounds |-> Recurrence(Last(after[r].tokens), HiddenRows(plan)[seed.row + 1], width),
     attended |-> SubSeq(kv[r], 1, seed.position + 1),
     layers |-> mtRuntime[1].binding[1].plan,
     generation |-> mtRuntime[1].binding[1].generation]

MtSeeded(plan, after) ==
    {r \in MtReqs : MtSamples(mtReq[r], plan[r])
                    /\ CanDraft(r, after[r], MtVerified(mtReq[r], plan[r]))}
MtProposed(plan, after, kv, width) ==
    IF width = 0 \/ ~Bound \/ ~KeepsHidden(plan) THEN {}
    ELSE {Draft(r, Seed(r, plan), plan, after, kv, width) : r \in MtSeeded(plan, after)}

MtOver(q, out) == q.gen >= MtMaxTokens \/ Stops(out)
MtDrafts(drafted, r) ==
    IF \E d \in drafted : d.req = r
    THEN [i \in 1..Len((CHOOSE d \in drafted : d.req = r).rounds) |-> 0] ELSE << >>

MtStep(plan, width) ==
    /\ Serving
    /\ \E after \in {MtAfter(plan)} :
       \E kv \in {[r \in MtReqs |-> MtWritten(mtKV[r], mtReq[r], plan[r])]} :
       \E drafted \in {MtProposed(plan, after, kv, width)} :
          /\ mtKV' = kv
          /\ mtDrafted' = drafted
          /\ mtEligible' = IF width = 0 THEN {} ELSE MtSeeded(plan, after)
          /\ mtReq' = [r \in MtReqs |->
                IF plan[r].n > 0 /\ MtOver(after[r], MtVerified(mtReq[r], plan[r]))
                THEN [after[r] EXCEPT !.status = "gone"]
                ELSE IF plan[r].n > 0
                THEN [after[r] EXCEPT !.spec = MtDrafts(drafted, r)]
                ELSE after[r]]
    /\ UNCHANGED <<mtTarget, mtCache, mtRuntime, mtLoads>>

\* Preempted, and back with whatever prefix is still cached.
MtPreempt(r, cached) ==
    /\ mtReq[r].status = "running"
    /\ cached < mtReq[r].computed
    /\ mtReq' = [mtReq EXCEPT ![r].status = "waiting", ![r].computed = cached,
                              ![r].spec = << >>]
    /\ mtKV' = [mtKV EXCEPT ![r] = SubSeq(@, 1, cached)]
    /\ mtDrafted' = {} /\ mtEligible' = {}
    /\ UNCHANGED <<mtTarget, mtCache, mtRuntime, mtLoads>>

MtNext ==
    \/ \E t \in MtTargets, name \in DOMAIN MtAssistants : LoadTarget(t, name)
    \/ SetUpKVCache
    \/ /\ mtSteps < MtMaxSteps /\ mtSteps' = mtSteps + 1
       /\ \/ \E plan \in MtPlans, width \in {0, MtWidth} : MtStep(plan, width)
          \/ \E r \in MtReqs : \E cached \in 0..mtReq[r].computed : MtPreempt(r, cached)

MtSpec == MtInit /\ [][MtNext]_mtVars

-----------------------------------------------------------------------------
(* Every draft is made from what the target committed: its first input is  *)
(* the hidden state of the row that sampled the request's last token, it   *)
(* attends to the KV of the committed tokens before it and to none of a    *)
(* rejected draft, in the current cache, in the last target layer of each  *)
(* assistant layer's kind that has KV of its own; and no request that      *)
(* could be drafted for goes without.  What the process shares between     *)
(* runners is bound to no cache and fit to be loaded                       *)
(* (v1/gemma4_mtp.py:68-152, 199-237, v1/spec_decode.py:309-364).          *)
MtpDraftsFromTarget ==
    /\ \A d \in mtDrafted :
          LET tokens == mtReq[d.req].tokens
              kinds == MtAssistants[mtRuntime[1].name].types
              target == mtTarget.args
          IN  /\ d.rounds[1].token = Last(tokens)
              /\ d.rounds[1].hidden = [req |-> d.req, position |-> Len(tokens) - 2]
              /\ d.attended = Front(tokens)
              /\ d.generation = mtTarget.generation
              /\ Len(d.layers) = Len(kinds)
              /\ \A i \in DOMAIN kinds :
                    /\ d.layers[i] \in 1..(Len(target.types) - target.shared)
                    /\ target.types[d.layers[i]] = kinds[i]
                    /\ \A j \in (d.layers[i] + 1)..(Len(target.types) - target.shared) :
                          target.types[j] # kinds[i]
    /\ mtEligible = {d.req : d \in mtDrafted}
    /\ \A name \in DOMAIN mtCache :
          mtCache[name].binding = << >>
          /\ MetadataOK(MtAssistants[name]) /\ ModelBuilds(MtAssistants[name])

=============================================================================
