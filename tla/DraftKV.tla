------------------------------- MODULE DraftKV -------------------------------
(***************************************************************************)
(* The draft model's KV cache, DraftModelProposer of                       *)
(* vllm_metal/v1/draft_model_proposer.py: which committed positions it     *)
(* holds (_draft_seq_lens), the ledger of speculative writes that lets the *)
(* next ingest skip accepted drafts (_spec_kv_writes), and the deferred    *)
(* ingest of steps that draft nothing.                                     *)
(*                                                                         *)
(* A cell of the cache holds what its KV was computed from: the token of   *)
(* its own position behind the tokens the forward attended to. The draft   *)
(* model always predicts Draft. What the target commits is arbitrary, so   *)
(* a draft may be accepted, or rejected and followed by tokens that happen *)
(* to equal later drafts.                                                  *)
(*                                                                         *)
(* The vLLM scheduler is external: it owns the block tables and the prefix *)
(* cache, decides the width of every step and preempts. Scheduling is      *)
(* synchronous, as speculative decoding requires.                          *)
(***************************************************************************)
EXTENDS Naturals, Sequences, FiniteSets, SequencesExt

CONSTANTS
    Req,
    NumBlocks,        \* blocks of the scheduler's pool
    BlockSize,
    PromptLen,        \* tokens of every prompt; all prompts are equal
    MaxLen,           \* tokens after which a request is complete
    Widths,           \* widths that the dynamic schedule may ask for
    Configs,          \* [deferred, limit]: zero-width steps defer their
                      \* ingest; context limit of the draft model
    IngestChunk,      \* VLLM_METAL_SPEC_INGEST_CHUNK; 0: one forward
    DecodeIngestMax,  \* _DECODE_INGEST_MAX_TOKENS
    SameStepHits,     \* a request may hit blocks that its own step computes
    MaxPreempts       \* bound: preemptions in a behaviour

ASSUME DraftAssumption ==
    /\ NumBlocks \in Nat \ {0} /\ BlockSize \in Nat \ {0}
    /\ PromptLen \in Nat \ {0} /\ MaxLen \in Nat /\ MaxLen > PromptLen
    /\ Widths \subseteq Nat /\ Widths # {}
    /\ Configs \subseteq [deferred : BOOLEAN, limit : Nat \ {0}] /\ Configs # {}
    /\ IngestChunk \in Nat /\ DecodeIngestMax \in Nat
    /\ SameStepHits \in BOOLEAN /\ MaxPreempts \in Nat

VARIABLES
    config,    \* the configuration, fixed at start-up
    kv,        \* the draft cache
    draftLen,  \* _draft_seq_lens; Absent when there is no entry
    ledger,    \* _spec_kv_writes: per request, position -> [block, token]
    req,       \* requests as the runner and the scheduler know them
    batch,     \* the step being scheduled: n tokens of r from start on, a prefill
               \* chunk, or the last token and the drafts to verify
    cached,    \* prefix cache: blocks and the tokens they were hashed from
    fresh,     \* entries that the step being scheduled adds to it
    error,     \* a RuntimeError of the proposer
    preempts

draftVars == <<config, kv, draftLen, ledger, req, batch, cached, fresh, error, preempts>>

Token == {0, 1}
Draft == 0
Absent == MaxLen + 99  \* larger than any length
Block == 1..NumBlocks
Lookahead == Max(Widths)  \* num_lookahead_tokens
NoWrites == [p \in {} |-> [block |-> 1, token |-> Draft]]

Smaller(a, b) == IF a < b THEN a ELSE b
BlocksFor(positions) == (positions + BlockSize - 1) \div BlockSize

Cell(row, pos) == <<row[pos \div BlockSize + 1], pos % BlockSize>>
Known(r) == Len(req[r].tokens)
Batched(r) == \E i \in DOMAIN batch : batch[i].r = r

-----------------------------------------------------------------------------
(* The scheduler. *)

InUse == UNION {{req[r].row[i] : i \in DOMAIN req[r].row} : r \in Req}

(* Blocks without a cached prefix are handed out first. *)
NextFree(n, used) ==
    LET free == Block \ used
        plain == free \ {e.block : e \in cached \cup fresh}
        Ahead(b) == IF b \in plain THEN {c \in plain : c < b}
                    ELSE plain \cup {c \in free : c < b}
    IN  [i \in 1..n |-> CHOOSE b \in free : Cardinality(Ahead(b)) = i - 1]

(* The blocks that n more tokens fill, known tokens only. *)
Filled(q, n) ==
    IF config.deferred THEN {}
    ELSE {[block |-> q.row[i], prefix |-> SubSeq(q.tokens, 1, i * BlockSize)] :
            i \in 1..(Smaller(q.computed + n, Len(q.tokens)) \div BlockSize)}

(* Whatever KV is left in a block, its next owner may not rely on it. *)
Forget(cells, blocks) ==
    [c \in DOMAIN cells |-> IF c[1] \in blocks THEN <<>> ELSE cells[c]]

(* Put n tokens of r into the step, with room for the drafts to come.      *)
(* Running requests are served before waiting ones.                        *)
Schedule(r, q, n, drafts) ==
    LET need == BlocksFor(q.computed + n + Lookahead)
        more == IF need > Len(q.row) THEN need - Len(q.row) ELSE 0
        used == InUse \cup {q.row[i] : i \in DOMAIN q.row}
        new == NextFree(more, used)
        grown == [q EXCEPT !.row = @ \o new]
        keep == {e \in cached : \A i \in DOMAIN new : e.block # new[i]}
        admitted == req[r].phase = "waiting"
    IN  /\ Cardinality(Block \ used) >= more
        /\ admitted \/ \A i \in DOMAIN batch : ~batch[i].admitted
        /\ kv' = Forget(kv, {new[i] : i \in DOMAIN new})
        /\ req' = [req EXCEPT ![r] = grown]
        /\ batch' = Append(batch, [r |-> r, start |-> q.computed, n |-> n,
                                   drafts |-> drafts, decode |-> q.phase = "decode",
                                   admitted |-> admitted])
        /\ cached' = keep
        /\ fresh' = fresh \cup {e \in Filled(grown, n) :
                                  \A c \in keep \cup fresh : c.prefix # e.prefix}

Hittable == cached \cup (IF SameStepHits THEN fresh ELSE {})

(* Full blocks of r's tokens that are cached, leaving a token to compute.  *)
HitBlocks(r) ==
    LET Hit(i) == \E e \in Hittable : e.prefix = SubSeq(req[r].tokens, 1, i * BlockSize)
    IN  {n \in 0..((Known(r) - 1) \div BlockSize) : \A i \in 1..n : Hit(i)}

Waiting == {r \in Req : req[r].phase = "waiting"}

HitRow(r, hits) ==
    [i \in 1..hits |-> (CHOOSE e \in Hittable :
                          e.prefix = SubSeq(req[r].tokens, 1, i * BlockSize)).block]

(* A new or preempted request starts behind its longest cached prefix, or  *)
(* at zero when it opts out of the cache. A state that is resumed keeps    *)
(* the num_computed_tokens it was made with.                               *)
Admit(r, hits, n) ==
    /\ error = "none"
    /\ r \in Waiting
    /\ n \in {1, Known(r) - hits * BlockSize}
    /\ \E hit \in {hits * BlockSize, req[r].hit} \ {Absent} :
          Schedule(r, [req[r] EXCEPT !.phase = "prefill", !.computed = hits * BlockSize,
                                     !.hit = hit, !.row = HitRow(r, hits)],
                   n, <<>>)
    /\ UNCHANGED <<config, draftLen, ledger, error, preempts>>

SchedulePrefill(r, n) ==
    /\ error = "none"
    /\ req[r].phase = "prefill"
    /\ ~Batched(r)
    /\ n \in {1, Known(r) - req[r].computed}
    /\ Schedule(r, req[r], n, <<>>)
    /\ UNCHANGED <<config, draftLen, ledger, error, preempts>>

(* The drafts of the last step are verified, or dropped. *)
ScheduleDecode(r, drafts) ==
    /\ error = "none"
    /\ req[r].phase = "decode"
    /\ Known(r) < MaxLen
    /\ ~Batched(r)
    /\ Schedule(r, [req[r] EXCEPT !.drafts = <<>>], 1 + Len(drafts), drafts)
    /\ UNCHANGED <<config, draftLen, ledger, error, preempts>>

(* release_requests: the runner forgets what the draft cache held before   *)
(* the next proposal.                                                      *)
ReleaseNothing(r) == UNCHANGED <<draftLen, ledger>>

ReleaseRequests(r) ==
    /\ draftLen' = [draftLen EXCEPT ![r] = Absent]
    /\ ledger' = [ledger EXCEPT ![r] = NoWrites]

(* A running request gives its blocks back. *)
Leave(r, q) ==
    /\ error = "none"
    /\ ~Batched(r)
    /\ req' = [req EXCEPT ![r] = [q EXCEPT !.computed = 0, !.row = <<>>, !.drafts = <<>>]]
    /\ kv' = Forget(kv, {b \in Block : /\ \A i \in Req : ~\E j \in DOMAIN req'[i].row :
                                                          req'[i].row[j] = b
                                     /\ \A e \in cached \cup fresh : e.block # b})
    /\ ReleaseRequests(r)
    /\ UNCHANGED <<config, batch, cached, fresh, error>>

Preempt(r) ==
    /\ preempts < MaxPreempts
    /\ preempts' = preempts + 1
    /\ req[r].phase \in {"prefill", "decode"}
    /\ Leave(r, [req[r] EXCEPT !.phase = "waiting"])

Finish(r) ==
    /\ req[r].phase = "decode"
    /\ Known(r) >= MaxLen
    /\ Leave(r, [req[r] EXCEPT !.phase = "done", !.tokens = <<>>, !.hit = Absent])
    /\ UNCHANGED preempts

-----------------------------------------------------------------------------
(* The target's forward and verification. *)

(* verify_greedy: accepted drafts, then a correction or the bonus token.   *)
Outcomes(row) ==
    IF row.decode
    THEN {Append(SubSeq(row.drafts, 1, a), t) :
            a \in 0..Len(row.drafts), t \in Token}
           \ {Append(SubSeq(row.drafts, 1, a), row.drafts[a + 1]) :
                a \in 0..(Len(row.drafts) - 1)}
    ELSE IF row.start + row.n < Known(row.r) THEN {<<>>} ELSE {<<t>> : t \in Token}

Sampled(row, out) ==
    LET q == req[row.r] IN
    [q EXCEPT !.tokens = @ \o out,
              !.computed = row.start + (IF row.decode THEN Len(out) ELSE row.n),
              !.phase = IF out # <<>> THEN "decode" ELSE @]

-----------------------------------------------------------------------------
(* propose. The operators take the requests as sampled, the rows of the    *)
(* step with the decodes first, and the width k.                           *)

Seeded(r, at) == IF draftLen[r] = Absent THEN at ELSE draftLen[r]

(* Mutant of Defers: lazy ingest although prefix caching shares the blocks. *)
DefersAlways(k) == k = 0

(* The ingest of a zero-width step waits when no prefix cache can hand its *)
(* blocks to another request.                                              *)
Defers(k) == k = 0 /\ config.deferred

(* A deferred ingest only remembers where the later one has to start.      *)
RememberStart(reqs, rows) ==
    [r \in Req |->
        IF \E i \in DOMAIN rows : rows[i].r = r
        THEN LET row == rows[CHOOSE i \in DOMAIN rows : rows[i].r = r]
             IN  Seeded(r, IF row.decode THEN reqs[r].hit ELSE row.start)
        ELSE draftLen[r]]

(* draft_eligible_requests and the input-fit bound. *)
Drafts(q, sampled, k) ==
    /\ k > 0
    /\ q.greedy
    /\ sampled
    /\ Len(q.tokens) < MaxLen
    /\ Len(q.tokens) - 1 + k <= config.limit

(* _speculative_kv_valid_through: a position is skipped while its token    *)
(* and its block are those of the recorded write.                          *)
SkipThrough(q, writes, from, committed) ==
    LET Ok(p) == p \in DOMAIN writes /\ writes[p] = [block |-> Cell(q.row, p)[1],
                                                     token |-> q.tokens[p + 1]]
    IN  Max({p \in from..committed : \A i \in from..(p - 1) : Ok(i)})

(* _make_decode_plan and _make_prefill_plan: what a row ingests. A plan    *)
(* with nothing to ingest is no plan. The last committed token always runs *)
(* in a decode plan: its logits are the first draft.                       *)
Plan(reqs, row, k) ==
    LET q == reqs[row.r]
        drafting == Drafts(q, q.phase = "decode", k)
        upto == IF row.decode THEN Len(q.tokens)
                ELSE row.start + row.n + (IF drafting THEN 1 ELSE 0)
        committed == Smaller(upto, config.limit)
        from == Seeded(row.r, IF row.decode THEN q.hit ELSE row.start)
        skipped == IF row.decode
                   THEN Smaller(SkipThrough(q, ledger[row.r], from, committed), committed - 1)
                   ELSE from
    IN  [r |-> row.r, seed |-> from, committed |-> committed, drafting |-> drafting,
         empty |-> from >= committed,
         from |-> IF from >= committed THEN from ELSE skipped]

(* A chunk behind the context limit does not even seed an entry. *)
Unseen(row) == ~row.decode /\ row.start >= config.limit

Plans(reqs, rows, k) == [i \in DOMAIN rows |-> Plan(reqs, rows[i], k)]

(* Mutant of TooFewBlocks: asks for room for the last draft, which is      *)
(* never written.                                                          *)
TooFewForAll(reqs, plan, k) ==
    /\ ~plan.empty
    /\ BlocksFor(plan.committed + (IF plan.drafting THEN k ELSE 0))
         > Len(reqs[plan.r].row)

(* validate_scheduler_blocks *)
TooFewBlocks(reqs, plan, k) ==
    /\ ~plan.empty
    /\ BlocksFor(plan.committed + (IF plan.drafting THEN k - 1 ELSE 0))
         > Len(reqs[plan.r].row)

(* One position written by a forward that attends to all before it. *)
WriteAt(q, pos, token) ==
    [at |-> Cell(q.row, pos),
     before |-> IF pos = 0 THEN <<>> ELSE Cell(q.row, pos - 1), token |-> token]

Store(cells, w) ==
    [cells EXCEPT ![w.at] = Append(IF w.before = <<>> THEN <<>> ELSE cells[w.before],
                                   w.token)]

(* Rounds of a cold ingest: at most a chunk of every plan per forward.     *)
Chunk(plans) ==
    LET longest == Max({plans[i].committed - plans[i].from : i \in DOMAIN plans})
    IN  IF longest <= DecodeIngestMax \/ IngestChunk = 0 THEN longest ELSE IngestChunk

Round(reqs, plans, first, size) ==
    FlattenSeq([i \in DOMAIN plans |->
        LET q == reqs[plans[i].r]
            start == plans[i].from + first
            end == Smaller(start + size, plans[i].committed)
        IN  [j \in 1..(IF end > start THEN end - start ELSE 0) |->
               WriteAt(q, start + j - 1, q.tokens[start + j])]])

(* _ingest_and_draft_first, then the lookahead steps: step i feeds the     *)
(* i-th draft at the i-th position behind the committed ones.              *)
Ingested(reqs, plans) ==
    LET size == Chunk(plans)
        rounds == Max({(plans[i].committed - plans[i].from + size - 1) \div size :
                         i \in DOMAIN plans})
    IN  FoldLeft(Store, kv,
            FlattenSeq([i \in 1..rounds |-> Round(reqs, plans, (i - 1) * size, size)]))

LookedAhead(cells, reqs, plans, k) ==
    FoldLeft(Store, cells,
        FlattenSeq([s \in 1..(IF k > 0 THEN k - 1 ELSE 0) |->
            [i \in DOMAIN plans |->
                WriteAt(reqs[plans[i].r], plans[i].committed + s - 1, Draft)]]))

(* The last draft is never fed, so its position is not written. *)
Recorded(q, plan, k) ==
    [p \in plan.committed..(plan.committed + k - 2) |->
        [block |-> Cell(q.row, p)[1], token |-> Draft]]

PlanOf(plans, r) == plans[CHOOSE i \in DOMAIN plans : plans[i].r = r]
Planned(plans, r) == \E i \in DOMAIN plans : plans[i].r = r

Propose(reqs, rows, k) ==
    LET seen == Plans(reqs, SelectSeq(rows, LAMBDA row : ~Unseen(row)), k)
        plans == SelectSeq(seen, LAMBDA p : ~p.empty)
        drafting == SelectSeq(plans, LAMBDA p : p.drafting)
    IN  IF Defers(k)
        THEN /\ draftLen' = RememberStart(reqs, rows)
             /\ req' = reqs
             /\ UNCHANGED <<kv, ledger, error>>
        ELSE IF \E i \in DOMAIN plans : TooFewBlocks(reqs, plans[i], k)
        THEN /\ error' = "too few blocks"
             /\ req' = reqs
             /\ UNCHANGED <<kv, draftLen, ledger>>
        ELSE /\ kv' = IF plans = <<>> THEN kv
                      ELSE LookedAhead(Ingested(reqs, plans), reqs, drafting, k)
             /\ draftLen' = [r \in Req |->
                    IF Planned(plans, r) THEN PlanOf(plans, r).committed
                    ELSE IF Planned(seen, r) THEN PlanOf(seen, r).seed ELSE draftLen[r]]
             /\ ledger' = [r \in Req |->
                    IF Planned(drafting, r) THEN Recorded(reqs[r], PlanOf(drafting, r), k)
                    ELSE ledger[r]]
             /\ req' = [r \in Req |->
                    IF Planned(drafting, r)
                    THEN [reqs[r] EXCEPT !.drafts = [i \in 1..k |-> Draft]] ELSE reqs[r]]
             /\ UNCHANGED error

(* The rest of a step: the target samples every row, then drafts. The      *)
(* scheduler leaves no decoding request out of a step.                     *)
Execute(k, outs) ==
    /\ error = "none"
    /\ batch # <<>>
    /\ \A r \in Req : req[r].phase = "decode" /\ Known(r) < MaxLen => Batched(r)
    /\ LET sampled == [r \in Req |->
               IF Batched(r)
               THEN LET i == CHOOSE j \in DOMAIN batch : batch[j].r = r
                    IN  Sampled(batch[i], outs[i])
               ELSE req[r]]
           rows == SelectSeq(batch, LAMBDA row : row.decode)
                     \o SelectSeq(batch, LAMBDA row : ~row.decode)
       IN  Propose(sampled, rows, k)
    /\ batch' = <<>>
    /\ cached' = cached \cup fresh
    /\ fresh' = {}
    /\ UNCHANGED <<config, preempts>>

Outputs ==
    {outs \in [DOMAIN batch -> UNION {Outcomes(batch[i]) : i \in DOMAIN batch}] :
        \A i \in DOMAIN batch : outs[i] \in Outcomes(batch[i])}

DraftInit ==
    /\ config \in Configs
    /\ kv = [c \in Block \X (0..(BlockSize - 1)) |-> <<>>]
    /\ draftLen = [r \in Req |-> Absent]
    /\ ledger = [r \in Req |-> NoWrites]
    /\ req \in [Req -> {[phase |-> "waiting", tokens |-> [i \in 1..PromptLen |-> 0],
                         computed |-> 0, hit |-> Absent, row |-> <<>>, drafts |-> <<>>,
                         greedy |-> g] : g \in BOOLEAN}]
    /\ batch = <<>> /\ cached = {} /\ fresh = {}
    /\ error = "none" /\ preempts = 0

DraftNext ==
    \/ \E r \in Waiting : \E hits \in {0, Max(HitBlocks(r))}, n \in 1..Known(r) :
          Admit(r, hits, n)
    \/ \E r \in Req : \E n \in 1..Known(r) : SchedulePrefill(r, n)
    \/ \E r \in Req : \E drafts \in {<<>>, req[r].drafts} : ScheduleDecode(r, drafts)
    \/ \E r \in Req : Preempt(r)
    \/ \E r \in Req : Finish(r)
    \/ \E k \in Widths : \E outs \in Outputs : Execute(k, outs)

DraftSpec == DraftInit /\ [][DraftNext]_draftVars

-----------------------------------------------------------------------------
(* What must not go wrong. *)

Holds(r, pos) == kv[Cell(req[r].row, pos)] = SubSeq(req[r].tokens, 1, pos + 1)

(* The next ingest, or the next draft, of a running request attends to the *)
(* positions before _draft_seq_lens: each holds the KV of the committed    *)
(* token behind the committed prefix, after rejected drafts, skipped       *)
(* ingests, deferred steps, preemption and shared prefixes.                *)
TrackedKVValid ==
    \A r \in Req :
        req[r].row # <<>> /\ ~Batched(r) /\ draftLen[r] # Absent =>
            \A pos \in 0..(Smaller(draftLen[r], config.limit) - 1) : Holds(r, pos)

(* A block that a later request may be handed as a cache hit holds the     *)
(* draft KV of exactly the tokens it was cached for, up to the draft       *)
(* model's context limit, also where the rows that computed it could not   *)
(* draft and where lookahead had written into it.                          *)
CachedKVValid ==
    \A e \in cached : \A o \in 0..(BlockSize - 1) :
        LET pos == Len(e.prefix) - BlockSize + o IN
        pos < config.limit => kv[<<e.block, o>>] = SubSeq(e.prefix, 1, pos + 1)

(* The blocks the scheduler reserves for the lookahead always suffice.     *)
NoProposerError == error = "none"

=============================================================================
