----------------------------- MODULE BlockDraft -----------------------------
(***************************************************************************)
(* Block drafting with scheduler-owned draft KV: DFlash and DSpark         *)
(* (v1/block_draft_proposer.py, v1/block_draft_paged.py, v1/dflash*.py,    *)
(* v1/dspark*.py).  A step first projects the target's captured hidden     *)
(* states of every committed row into the draft's own pages, then drafts   *)
(* one block of an anchor and masks per eligible request: the block's KV   *)
(* is written behind the committed prefix, read back by the block's own    *)
(* queries, and overwritten by committed features once verified.           *)
(*                                                                         *)
(* Pages hold contents: the feature of a token history, or the KV of a     *)
(* temporary block.  A draft records what each of its queries attended to, *)
(* so a stale block, a page of another history, a rejected row or a cut    *)
(* window shows.  The target accepts any prefix of a draft: an accepted    *)
(* draft token is 0, a correction or bonus token 1.                        *)
(***************************************************************************)
EXTENDS Integers, Sequences, FiniteSets, SequencesExt, FiniteSetsExt

CONSTANTS
    BdReqs,          \* request ids: integers, in the order a step packs them
    BdPrompts,       \* [BdReqs -> prompt token sequences]
    BdConstrained,   \* choices of the requests with structured outputs
    BdCheckpoints,   \* draft checkpoints, see Loads
    BdCaching,       \* settings of enable_prefix_caching
    BdTargetLayers,  \* decoder layers of the target
    BdPageSize, BdPages,
    BdTargetLen,     \* max_model_len of the target
    BdDraftLen,      \* positions the draft may hold
    BdMaxTokens,     \* max_tokens of a request
    BdBucket,        \* smallest gather bucket, 256 in the code
    BdBoundary,      \* MLX's reduction boundary, 1024 in the code
    BdMaxSteps       \* bound: engine steps, preemptions and reuses

ASSUME BlockDraftAssumption ==
    /\ BdReqs \subseteq Nat /\ IsFiniteSet(BdReqs)
    /\ {BdPageSize, BdPages, BdTargetLen, BdDraftLen, BdMaxTokens, BdBucket,
        BdBoundary, BdTargetLayers} \subseteq Nat \ {0}
    /\ BdCaching \subseteq BOOLEAN /\ BdConstrained \subseteq SUBSET BdReqs
    /\ BdMaxSteps \in Nat

VARIABLES
    draftEngine, \* the loaded drafter
    reqs,        \* the scheduler's requests, with RequestState
    hashed,      \* prefix cache: page -> the history it is published for
    draftKV,     \* page -> offset -> content of the draft's KV
    validEnds,   \* _valid_ends
    dropped,     \* ids the next step announces as finished or preempted
    blocksDrafted, \* the drafts of the last step, with what they attended to
    draftFault,  \* propose raised
    bdSteps

bdVars == <<draftEngine, reqs, hashed, draftKV, validEnds, dropped,
            blocksDrafted, draftFault, bdSteps>>

NoWindow == -1
NoEnd == -1
Unwritten == [kind |-> "none", hist |-> << >>, at |-> 0, note |-> << >>]
NewRequest == [status |-> "waiting", tokens |-> << >>, computed |-> 0,
         blocks |-> << >>, drafts |-> 0, generated |-> 0, sampled |-> FALSE,
         constrained |-> FALSE]

-----------------------------------------------------------------------------
(* Loading a checkpoint.                                                   *)

\* z-lab DFlash: taps name decoder outputs, full attention only, and the
\* trained block includes the anchor.
LoadsDFlash(c) ==
    /\ c.format = "dflash"
    /\ c.k \in 1..(c.trained - 1)
    /\ c.taps # << >> /\ \A t \in Range(c.taps) : t \in 0..(BdTargetLayers - 1)
    /\ Range(c.kinds) \subseteq {"full"}

Increasing(taps) == \A i \in 1..(Len(taps) - 1) : taps[i] < taps[i + 1]

\* A standalone DSpark checkpoint: the same, with ordered taps.
LoadsStandalone(c) ==
    /\ c.format = "dspark"
    /\ c.k \in 1..c.trained
    /\ c.taps # << >> /\ Increasing(c.taps)
    /\ \A t \in Range(c.taps) : t \in 0..(BdTargetLayers - 1)
    /\ Range(c.kinds) \subseteq {"full"}

\* A Speculators DSpark checkpoint: taps name interior entries of the
\* hidden-state tuple, layers may slide.
LoadsSpeculators(c) ==
    /\ c.format = "speculators"
    /\ c.k \in 1..c.trained
    /\ c.taps # << >> /\ Increasing(c.taps)
    /\ \A t \in Range(c.taps) : t \in 1..(BdTargetLayers - 1)
    /\ "sliding" \in Range(c.kinds) => c.window >= 1

Loads(c) == LoadsDFlash(c) \/ LoadsStandalone(c) \/ LoadsSpeculators(c)

\* target_layer_ids: decoder indices, whatever the checkpoint counts from.
TargetLayerIds(c) ==
    IF c.format = "speculators" THEN [i \in DOMAIN c.taps |-> c.taps[i] - 1]
    ELSE c.taps

\* What the capture hands back per tap: the observed output of a decoder,
\* the last one through the target's final norm.
Captured(c) ==
    [i \in DOMAIN c.taps |->
        LET id == TargetLayerIds(c)[i] + 1
        IN  IF id = BdTargetLayers THEN <<"normed", id>> ELSE <<"raw", id>>]

Drafter(c, caching) ==
    [extra |-> IF c.format = "dflash" THEN 1 ELSE 0,
     k |-> c.k,
     features |-> Captured(c),
     windows |-> [i \in DOMAIN c.kinds |->
                     IF c.kinds[i] = "sliding" THEN c.window ELSE NoWindow],
     causal |-> c.format = "speculators" /\ ~c.nonCausal,
     markov |-> c.format # "dflash",
     caching |-> caching,
     wanted |-> [i \in DOMAIN c.taps |->
                    LET entry == IF c.format = "speculators" THEN c.taps[i]
                                 ELSE c.taps[i] + 1
                    IN  IF entry = BdTargetLayers THEN <<"normed", entry>>
                        ELSE <<"raw", entry>>]]

BdInit ==
    /\ \E c \in BdCheckpoints, caching \in BdCaching :
          Loads(c) /\ draftEngine = Drafter(c, caching)
    /\ \E constrained \in BdConstrained :
          reqs = [r \in BdReqs |-> [NewRequest EXCEPT
                     !.tokens = BdPrompts[r], !.constrained = r \in constrained]]
    /\ hashed = [g \in 1..BdPages |-> << >>]
    /\ draftKV = [g \in 1..BdPages |-> [o \in 0..(BdPageSize - 1) |-> Unwritten]]
    /\ validEnds = [r \in BdReqs |-> NoEnd]
    /\ dropped = {}
    /\ blocksDrafted = {}
    /\ draftFault = FALSE
    /\ bdSteps = 0

-----------------------------------------------------------------------------
(* The scheduler: prefix hits, pages for the step and its lookahead.       *)

PagesFor(positions) == (positions + BdPageSize - 1) \div BdPageSize
Hist(tokens, p) == SubSeq(tokens, 1, p + 1)

\* The page the cache offers for the i-th full block of a history.
CachedPages(st, tokens, i) ==
    {g \in 1..BdPages : st.hashed[g] = SubSeq(tokens, 1, i * BdPageSize)}
LongestHit(st, tokens) ==
    Max({0} \cup {n \in 1..((Len(tokens) - 1) \div BdPageSize) :
                     \A i \in 1..n : CachedPages(st, tokens, i) # {}})

InUse(st) == UNION {Range(st.reqs[r].blocks) : r \in BdReqs}
Unused(st) == (1..BdPages) \ InUse(st)
Plain(st) == {g \in Unused(st) : st.hashed[g] = << >>}

\* A request's blocks grown to cover so many positions, fresh pages first;
\* a page taken from the cache is no longer offered.
Grown(st, r, positions) ==
    LET short == PagesFor(positions) - Len(st.reqs[r].blocks)
        ranked == SetToSortSeq(Unused(st), LAMBDA g, h :
            \/ g \in Plain(st) /\ h \notin Plain(st)
            \/ (g \in Plain(st) <=> h \in Plain(st)) /\ g < h)
        taken == SubSeq(ranked, 1, short)
    IN  [st EXCEPT !.reqs[r].blocks = @ \o taken,
                   !.hashed = [g \in 1..BdPages |->
                       IF g \in Range(taken) THEN << >> ELSE @[g]]]

\* allocate_slots: room for the step's tokens and the draft's lookahead,
\* full blocks of known tokens published at once.
Scheduled(st, r, n, hit) ==
    LET q == st.reqs[r]
        start == IF q.status = "waiting" THEN hit * BdPageSize ELSE q.computed
        shared == IF q.status = "waiting"
                  THEN [i \in 1..hit |-> Min(CachedPages(st, q.tokens, i))]
                  ELSE q.blocks
        held == [st EXCEPT !.reqs[r].status = "running",
                           !.reqs[r].computed = start,
                           !.reqs[r].blocks = shared]
        grown == Grown(held, r, Min({BdTargetLen,
                     start + n + draftEngine.k + draftEngine.extra}))
        full == Min({start + n, Len(q.tokens)}) \div BdPageSize
        blocks == grown.reqs[r].blocks
    IN  [grown EXCEPT !.hashed =
            [g \in 1..BdPages |->
                IF draftEngine.caching /\ \E i \in 1..full : blocks[i] = g
                THEN SubSeq(q.tokens, 1, BdPageSize *
                            (CHOOSE i \in 1..full : blocks[i] = g))
                ELSE @[g]]]

\* What a step may give a request: a chunk behind a prefix hit, the rest of
\* a prefill, or its last token with some of its drafts, of which the target
\* accepts some.
Skipped == [n |-> 0, hit |-> 0, accepted |-> 0]
Shares(q) ==
    {Skipped} \cup
    (IF q.status = "gone" THEN {}
     ELSE IF q.sampled
     THEN {[n |-> 1 + d, hit |-> 0, accepted |-> a] :
              d \in 0..q.drafts, a \in 0..q.drafts}
     ELSE {[n |-> m, hit |-> h, accepted |-> 0] :
              m \in 1..(Len(q.tokens) - q.computed),
              h \in (IF q.status = "waiting" /\ draftEngine.caching
                     THEN 0..((Len(q.tokens) - 1) \div BdPageSize) ELSE {0})})
Plans ==
    LET choices == UNION {Shares(reqs[r]) : r \in BdReqs}
    IN  {f \in [BdReqs -> choices] :
            /\ \E r \in BdReqs : f[r].n > 0
            /\ \A r \in BdReqs :
                  f[r] \in Shares(reqs[r]) /\ (f[r].accepted > 0 => f[r].accepted < f[r].n)}

\* Whether the pages suffice for one more request of the step.
Fits(st, r, n, hit) ==
    LET q == st.reqs[r]
        start == IF q.status = "waiting" THEN hit * BdPageSize ELSE q.computed
        kept == IF q.status = "waiting" THEN hit ELSE Len(q.blocks)
        taken == IF q.status = "waiting"
                 THEN {Min(CachedPages(st, q.tokens, i)) : i \in 1..hit} ELSE {}
    IN  /\ q.status = "waiting" =>
               /\ hit <= (IF draftEngine.caching THEN LongestHit(st, q.tokens) ELSE 0)
               /\ start + n <= Len(q.tokens)
        /\ PagesFor(Min({BdTargetLen,
               start + n + draftEngine.k + draftEngine.extra})) - kept
               <= Cardinality(Unused(st) \ taken)

-----------------------------------------------------------------------------
(* The target's rows: decode segments first, then prefill chunks.          *)

Ascending(S) == SetToSortSeq(S, <)

\* One packed segment: the input tokens of a request from its start, and how
\* many of its rows the step commits.
SpanOf(st, r, n, accepted) ==
    LET q == st.reqs[r] IN
    [req |-> r, decode |-> q.sampled, start |-> q.computed, rows |-> n,
     inputs |-> q.tokens \o [i \in 1..(IF q.sampled THEN n - 1 ELSE 0) |-> 0],
     kept |-> IF q.sampled THEN accepted + 1 ELSE n,
     final |-> q.sampled \/ q.computed + n = Len(q.tokens)]

\* The packed feature rows of the step.
FeatureRows(segments) ==
    FlattenSeq([i \in DOMAIN segments |->
        [j \in 1..segments[i].rows |->
            [kind |-> "ctx", at |-> segments[i].start + j - 1,
             hist |-> Hist(segments[i].inputs, segments[i].start + j - 1),
             note |-> draftEngine.features]]])

\* Row offsets counted over committed rows only: rejected rows shift them.
StartRowOfKept(segments, i) ==
    FoldLeft(LAMBDA n, s : n + s.kept, 0, SubSeq(segments, 1, i - 1))

\* segment.start_row and cu_seqlens: the row a segment starts at.
StartRow(segments, i) ==
    FoldLeft(LAMBDA n, s : n + s.rows, 0, SubSeq(segments, 1, i - 1))

-----------------------------------------------------------------------------
(* Committing target features.                                             *)

\* _slots: the page and offset of a position, in the scheduler's table.
Has(blocks, positions) == PagesFor(positions) <= Len(blocks)
PageOf(blocks, p) == blocks[p \div BdPageSize + 1]

WrittenKV(kv, blocks, start, contents) ==
    [g \in 1..BdPages |->
        IF \A i \in DOMAIN blocks : blocks[i] # g THEN kv[g]
        ELSE LET base == ((CHOOSE i \in DOMAIN blocks : blocks[i] = g) - 1) * BdPageSize
             IN  [o \in 0..(BdPageSize - 1) |->
                    IF base + o - start + 1 \in DOMAIN contents
                    THEN contents[base + o - start + 1] ELSE kv[g][o]]]

\* The committed end a segment must start at: a prefill may begin at the
\* scheduler's cache hit, anything else where the last commit ended.
InitialEnd(s) == IF ~s.decode /\ draftEngine.caching THEN s.start ELSE 0
ExpectedEnd(ends, s) ==
    IF ends[s.req] = NoEnd THEN InitialEnd(s) ELSE ends[s.req]

CommitEnd(s) == Min({s.start + s.kept, BdDraftLen})
Ingests(s) == s.start < CommitEnd(s)

\* ingest and write_context, over all segments of the step.
Committed(st, segments) ==
    LET rows == FeatureRows(segments)
        put(m, i) ==
            LET s == segments[i]
                first == StartRow(segments, i)
                row == SubSeq(rows, first + 1, first + CommitEnd(s) - s.start)
            IN  IF Ingests(s)
                THEN WrittenKV(m, st.reqs[s.req].blocks, s.start, row) ELSE m
    IN  [st EXCEPT
            !.kv = FoldLeftDomain(put, @, segments),
            !.ends = [r \in BdReqs |->
                IF \E i \in DOMAIN segments :
                       segments[i].req = r /\ Ingests(segments[i])
                THEN CommitEnd(CHOOSE s \in Range(segments) : s.req = r)
                ELSE @[r]],
            !.fault = @ \/ \E s \in Range(segments) :
                /\ Ingests(s)
                /\ \/ s.start # ExpectedEnd(st.ends, s)
                   \/ ~Has(st.reqs[s.req].blocks, CommitEnd(s))]

-----------------------------------------------------------------------------
(* Drafting one block.                                                     *)

\* The longest draft a request may still have verified.
LimitOf(q, width) == Min({width, BdMaxTokens - q.generated - 1})
Drafting(st, segments, width) ==
    {r \in {s.req : s \in {x \in Range(segments) : x.final}} :
        /\ ~st.reqs[r].constrained
        /\ LimitOf(st.reqs[r], width) >= 1
        /\ Len(st.reqs[r].tokens) - 1 + width + draftEngine.extra <= BdDraftLen}

\* Gather buckets of the sliding layers.
PowerOfTwo(n) == Min({x \in {1, 2, 4, 8, 16, 32} : x >= n})
GatherSpan(longest, window, span) ==
    LET needed == Min({longest, window}) + span
        boundary == Max({BdBoundary, PowerOfTwo(needed)})
    IN  Min({Max({BdBucket, PowerOfTwo(needed)}),
             IF needed = boundary THEN boundary ELSE boundary - 1,
             window + span, BdDraftLen})

\* The positions a query of the block reads in a layer: the paged kernel's
\* inclusive bounds, or the gathered window anchored at the block's start.
Queried(layer, end, span, slot, longest) ==
    LET window == draftEngine.windows[layer]
        start == Max({0, end - window})
        maxWindow == Max(Range(draftEngine.windows))
        gathered == Min({window + span, GatherSpan(longest, maxWindow, span)})
    IN  IF window = NoWindow THEN 0..(end + span - 1)
        ELSE {p \in start..(start + gathered - 1) :
                 /\ p < end + span
                 /\ draftEngine.causal => p <= end + slot}

\* The temporary KV of a block slot.
BlockKV(q, slot, span) ==
    [kind |-> "block", hist |-> q.tokens, at |-> slot, note |-> <<<<"block", span>>>>]

\* What a draft token was made of: the position its slot predicts, the token
\* a sequential head corrects it with, and what its query attended to.
DraftToken(kv, q, i, span, longest) ==
    LET end == Len(q.tokens) - 1
        slot == i - 1 + draftEngine.extra
    IN  [position |-> IF draftEngine.extra = 1 THEN end + slot ELSE end + slot + 1,
         after |-> IF draftEngine.markov THEN end + i - 1 ELSE NoEnd,
         sees |-> [layer \in DOMAIN draftEngine.windows |->
             {<<p, kv[PageOf(q.blocks, p)][p % BdPageSize]>> :
                 p \in Queried(layer, end, span, slot, longest)}]]

\* One rectangular batch as wide as the largest remaining budget, each
\* request returned no more than it can verify.
Drafted(st, segments, asked) ==
    LET who == Drafting(st, segments, asked)
        width == Max({LimitOf(st.reqs[r], asked) : r \in who})
        span == width + draftEngine.extra
        end(r) == Len(st.reqs[r].tokens) - 1
        longest == Max({end(r) : r \in who})
        broken == \E r \in who :
            \/ end(r) # (IF st.ends[r] = NoEnd THEN 0 ELSE st.ends[r])
            \/ ~Has(st.reqs[r].blocks, end(r) + span)
        kv == FoldLeft(LAMBDA m, r :
                  WrittenKV(m, st.reqs[r].blocks, end(r),
                          [j \in 1..span |-> BlockKV(st.reqs[r], j - 1, span)]),
                  st.kv, Ascending(who))
        count(r) == Min({width, LimitOf(st.reqs[r], asked)})
    IN  IF who = {} THEN [st EXCEPT !.made = {}]
        ELSE IF broken THEN [st EXCEPT !.fault = TRUE, !.made = {}]
        ELSE [st EXCEPT
            !.kv = kv,
            !.made = {[req |-> r, span |-> span,
                       drafts |-> [i \in 1..count(r) |->
                           DraftToken(kv, st.reqs[r], i, span, longest)]] : r \in who},
            !.reqs = [r \in BdReqs |->
                [@[r] EXCEPT !.drafts = IF r \in who THEN count(r) ELSE @]]]

-----------------------------------------------------------------------------
(* A step, and the requests that come and go.                              *)

\* Verification's output, appended to the request.
SampledStep(st, segments) ==
    [st EXCEPT !.reqs = [r \in BdReqs |->
        IF ~\E s \in Range(segments) : s.req = r THEN @[r]
        ELSE LET s == CHOOSE x \in Range(segments) : x.req = r
                 out == IF ~s.final THEN << >>
                        ELSE IF s.decode THEN [i \in 1..(s.kept - 1) |-> 0] \o <<1>>
                        ELSE <<0>>
             IN  [@[r] EXCEPT !.computed = s.start + s.kept,
                              !.tokens = @ \o out,
                              !.generated = @ + Len(out),
                              !.sampled = s.final,
                              !.drafts = 0]]]

\* Requests at their token or length limit leave; the next step hears of it.
Over(q) == q.generated >= BdMaxTokens \/ Len(q.tokens) >= BdTargetLen
Retired(st) ==
    [st EXCEPT !.reqs = [r \in BdReqs |->
        IF @[r].status = "running" /\ Over(@[r])
        THEN [@[r] EXCEPT !.status = "gone", !.blocks = << >>, !.drafts = 0]
        ELSE @[r]]]

\* release_requests: metadata only, the pages are the scheduler's.
ReleasedEnds(ends, ids) == [r \in BdReqs |-> IF r \in ids THEN NoEnd ELSE ends[r]]

\* The scheduler's plan over the ids in order; not fitting ends it.
PlannedStep(plan) ==
    LET start == [reqs |-> reqs, hashed |-> hashed, kv |-> draftKV,
                  ends |-> ReleasedEnds(validEnds, dropped), made |-> {},
                  fault |-> FALSE, ok |-> TRUE]
        next(st, r) ==
            IF ~st.ok \/ plan[r].n = 0 THEN st
            ELSE IF Fits(st, r, plan[r].n, plan[r].hit)
            THEN Scheduled(st, r, plan[r].n, plan[r].hit)
            ELSE [st EXCEPT !.ok = FALSE]
    IN  FoldLeft(next, start, Ascending(BdReqs))

\* The segments of a plan, decodes first.
StepSpans(st, plan) ==
    LET ids == {r \in BdReqs : plan[r].n > 0}
        order == Ascending({r \in ids : reqs[r].sampled})
                     \o Ascending({r \in ids : ~reqs[r].sampled})
    IN  [i \in DOMAIN order |->
            SpanOf(st, order[i], plan[order[i]].n, plan[order[i]].accepted)]

\* release_requests, the target's forward, sampling, and propose: commit,
\* then draft.  A commit that raises writes nothing.
BlockStep(plan) ==
    \E planned \in {PlannedStep(plan)} :
    /\ planned.ok
    /\ \E segments \in {StepSpans(planned, plan)} :
       \E committed \in {SampledStep(Committed(planned, segments), segments)} :
       \E width \in 0..draftEngine.k :
       \E proposed \in {IF committed.fault THEN [committed EXCEPT !.kv = planned.kv]
                        ELSE Drafted(committed, segments, width)} :
       \E after \in {Retired(proposed)} :
          /\ reqs' = after.reqs
          /\ hashed' = after.hashed
          /\ draftKV' = after.kv
          /\ validEnds' = after.ends
          /\ blocksDrafted' = after.made
          /\ draftFault' = after.fault
          /\ dropped' = {s.req : s \in {x \in Range(segments) :
                                        after.reqs[x.req].status = "gone"}}
    /\ bdSteps' = bdSteps + 1
    /\ UNCHANGED draftEngine

\* The scheduler preempts: pages go back, the tokens are recomputed.
PreemptBlock(r) ==
    /\ reqs[r].status = "running"
    /\ reqs' = [reqs EXCEPT ![r] = [@ EXCEPT !.status = "waiting",
                   !.computed = 0, !.blocks = << >>, !.drafts = 0,
                   !.sampled = FALSE]]
    /\ dropped' = dropped \cup {r}
    /\ blocksDrafted' = {}
    /\ bdSteps' = bdSteps + 1
    /\ UNCHANGED <<draftEngine, hashed, draftKV, validEnds, draftFault>>

\* A finished id is handed to a new request, perhaps before the runner hears
\* of the finish.
ReuseId(r, other) ==
    /\ reqs[r].status = "gone"
    /\ reqs' = [reqs EXCEPT ![r] = [NewRequest EXCEPT
                   !.tokens = BdPrompts[other],
                   !.constrained = reqs[other].constrained]]
    /\ blocksDrafted' = {}
    /\ bdSteps' = bdSteps + 1
    /\ UNCHANGED <<draftEngine, hashed, draftKV, validEnds, dropped, draftFault>>

BdNext ==
    /\ ~draftFault /\ bdSteps < BdMaxSteps
    /\ \/ \E plan \in Plans : BlockStep(plan)
       \/ \E r \in BdReqs : PreemptBlock(r)
       \/ \E r, other \in BdReqs : ReuseId(r, other)

BdSpec == BdInit /\ [][BdNext]_bdVars

-----------------------------------------------------------------------------
(* What a draft may be made of.                                            *)

Feature(tokens, p) ==
    [kind |-> "ctx", hist |-> Hist(tokens, p), at |-> p, note |-> draftEngine.wanted]

\* The model's own forward over a dense prefix: a prefix window anchored at
\* the block, and in sliding layers a causal block when the checkpoint says.
Attended(q, layer, slot, span) ==
    LET end == Len(q.tokens) - 1
        window == draftEngine.windows[layer]
        first == IF window = NoWindow THEN 0 ELSE Max({0, end - window})
        last == IF window # NoWindow /\ draftEngine.causal THEN slot ELSE span - 1
    IN  {<<p, Feature(q.tokens, p)>> : p \in first..(end - 1)}
            \cup {<<end + j, BlockKV(q, j, span)>> : j \in 0..last}

\* Every draft token predicts the position it is verified at, follows the
\* token before it, and was computed from the committed target features of
\* its own request's history and its own block only, as the dense forward
\* would; no draft is longer than the request can have verified; a page
\* published for a history holds that history's features, whoever reads it;
\* and no step raises - whatever was rejected, preempted, resumed behind a
\* cached prefix, shared, paused or cut at the draft's context limit
\* (v1/block_draft_proposer.py:170-306, v1/block_draft_paged.py:97-322).
DraftsFollowCommitted ==
    /\ ~draftFault
    /\ \A b \in blocksDrafted :
          LET q == reqs[b.req]
              end == Len(q.tokens) - 1
          IN  /\ q.generated + Len(b.drafts) < BdMaxTokens
              /\ \A i \in DOMAIN b.drafts :
                    /\ b.drafts[i].position = end + i
                    /\ b.drafts[i].after \in {NoEnd, end + i - 1}
                    /\ \A layer \in DOMAIN draftEngine.windows :
                          b.drafts[i].sees[layer] =
                              Attended(q, layer, i - 1 + draftEngine.extra, b.span)
    /\ \A g \in 1..BdPages : hashed[g] # << >> =>
          \A o \in 0..(BdPageSize - 1) :
              LET p == Len(hashed[g]) - BdPageSize + o
              IN  p < BdDraftLen => draftKV[g][o] = Feature(hashed[g], p)
=============================================================================
