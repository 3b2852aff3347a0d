---------------------------- MODULE HybridState ----------------------------
(***************************************************************************)
(* The recurrent ("operator") state of hybrid models: PagedStateCache      *)
(* (attention/caches/state_cache.py), AlignStateManager                    *)
(* (attention/state/align.py), the lazy GDN kernels that defer their state *)
(* updates (attention/impls/linear.py, gdn_lazy.py), the acceptance fixup  *)
(* of speculative decoding (gdn_spec.py) and the runtime that joins them   *)
(* (attention/runtime/hybrid.py).                                          *)
(*                                                                         *)
(* State slabs and attention KV share one pool of scheduler-owned blocks.  *)
(* A kernel may leave its new state rows parked as a pending update over   *)
(* the pool; the model follows one state layer, whose conv and recurrent   *)
(* components each have a pool and a pending update. What a slab holds is  *)
(* the text it summarises: requests share their first Shared tokens, so a  *)
(* prefix checkpoint of one may serve another. The scheduler is external:  *)
(* it allocates, frees, caches and copies blocks between two steps.        *)
(***************************************************************************)
EXTENDS Integers, Sequences, FiniteSets, Subsequences

CONSTANTS
    Req, Block,
    BlockSize,     \* state checkpoint stride in align mode
    PromptLen,     \* tokens of a prompt
    Shared,        \* prompt tokens that all requests have in common
    MaxLen,        \* bound: tokens of a request
    MaxDraft,      \* num_speculative_tokens
    MaxPreempts,   \* bound: preemptions in a behaviour
    NoBlock

ASSUME HybridAssumption ==
    /\ IsFiniteSet(Req)
    /\ BlockSize \in Nat /\ BlockSize > 1   \* a multiple of 8 (block_tables.py:9-18)
    /\ PromptLen \in Nat \ {0} /\ Shared \in 0..PromptLen
    /\ MaxLen \in Nat \ {0}
    /\ MaxDraft \in Nat /\ MaxPreempts \in Nat
    /\ NoBlock \notin Block

VARIABLES
    mode,       \* mamba_cache_mode: "none" or "align"
    deferring,  \* whether the layer's policy defers multi-request prefills
    conv, rec,  \* the two components of the layer: pool and pending update
    stash,      \* spec_verify_stash: the step's segments that verify drafts
    needs,      \* _needs_materialize
    step,       \* segments of the forward whose sampling is still due: tokens
                \* start..start+n of r, state read from block src, left in dst
    req,        \* requests, as the scheduler and the runner track them
    released,   \* requests to report finished or preempted in the next step
    zeroing,    \* new_block_ids_to_zero of the next step
    copies,     \* kv_cache_block_copies of the next step
    cached,     \* the scheduler's prefix cache: checkpoints by content
    preempts

cacheVars == <<conv, rec, stash, needs>>
schedVars == <<req, released, zeroing, copies, cached, preempts>>
hybridVars == <<mode, deferring, cacheVars, step, schedVars>>

(* What a block holds: the state after the first `depth` tokens of a text, *)
(* the attention KV of a request (depth -1), or bytes that mean nothing.   *)
Junk == [of |-> "junk", depth |-> 0]
StateOf(r, n) == [of |-> IF n <= Shared THEN "prefix" ELSE r, depth |-> n]
Zero == [of |-> "prefix", depth |-> 0]
KVOf(r) == [of |-> r, depth |-> -1]

Stride == IF mode = "align" THEN BlockSize ELSE MaxLen
BlockOf(n) == (n - 1) \div Stride   \* index of the block of the n-th token

-----------------------------------------------------------------------------
(* PagedStateCache: one component. *)

Scatter(pool, slots, rows) ==
    [b \in Block |-> IF b \in Elems(slots)
                     THEN rows[CHOOSE i \in DOMAIN slots : slots[i] = b]
                     ELSE pool[b]]

(* apply_pending_*_state *)
Applied(k) == [pool |-> Scatter(k.pool, k.slots, k.rows), slots |-> <<>>, rows |-> <<>>]

(* discard_pending_states *)
Discarded(k) == [k EXCEPT !.slots = <<>>, !.rows = <<>>]

(* set_pending_*_state: an older pending update goes to the pool first. *)
Parked(k, slots, rows) == [pool |-> Applied(k).pool, slots |-> slots, rows |-> rows]

(* Mutant of Flushed: pending updates are left where they are. *)
FlushedNever(k, touched) == k

(* apply_pending_states(slot_ids) *)
Flushed(k, touched) == IF Elems(k.slots) \cap touched # {} THEN Applied(k) ELSE k

(* pending_*_state: only the very same slot list reads the compact rows. *)
Matches(k, slots) == k.slots # <<>> /\ k.slots = slots

(* *_state_for_decode: the component after the view was taken, and the     *)
(* state rows it shows, request by request.                                *)
Viewed(k, slots) == IF Matches(k, slots) THEN k ELSE Applied(k)
View(k, slots) ==
    IF Matches(k, slots) THEN k.rows
    ELSE [i \in DOMAIN slots |-> Applied(k).pool[slots[i]]]

Zeroed(k, blocks) ==
    [k EXCEPT !.pool = [b \in Block |-> IF b \in blocks THEN Zero ELSE @[b]]]

(* Every source is read before a destination is written. *)
Copied(k, pairs) ==
    [k EXCEPT !.pool = [b \in Block |->
        IF \E p \in pairs : p[2] = b THEN @[(CHOOSE p \in pairs : p[2] = b)[1]] ELSE @[b]]]

Ends(pairs) == {p[1] : p \in pairs} \cup {p[2] : p \in pairs}

(* zero_slots and hybrid zero_blocks; copy_slots and hybrid copy_blocks. *)
ZeroSlots(k, blocks) == Zeroed(Flushed(k, blocks), blocks)
CopySlots(k, pairs) == Copied(Flushed(k, Ends(pairs)), pairs)

-----------------------------------------------------------------------------
(* AlignStateManager.populate_step_context, for the segments of a step. *)

Slots(segs) == [i \in DOMAIN segs |-> segs[i].dst]

Populated(k, segs) ==
    LET settled == IF mode = "align" THEN Applied(k) ELSE k
        fresh == {s.dst : s \in {t \in Elems(segs) : t.start = 0}}
        moved == {<<s.src, s.dst>> : s \in {t \in Elems(segs) : t.start # 0 /\ t.src # t.dst}}
    IN  CopySlots(ZeroSlots(settled, fresh), moved)

-----------------------------------------------------------------------------
(* The state layer's forward. *)

(* The state a kernel computes from `from` over the first n tokens of a    *)
(* segment: it means something only if `from` is the segment's own state   *)
(* and no rejected draft is among the tokens.                              *)
Advanced(from, seg, n) ==
    IF from = StateOf(seg.r, seg.start) /\ n <= seg.commit
    THEN StateOf(seg.r, seg.start + n) ELSE Junk

RowsFrom(states, segs) == [i \in DOMAIN segs |-> Advanced(states[i], segs[i], segs[i].n)]
PoolRows(k, segs) == RowsFrom([i \in DOMAIN segs |-> k.pool[segs[i].dst]], segs)

(* spec_verify_stash keeps the segments that verify drafts. *)
Verifying(segs) == Part(segs, {i \in DOMAIN segs : segs[i].decode /\ segs[i].n > 1})

IsSpecVerify(segs) == \E i \in DOMAIN segs : segs[i].decode /\ segs[i].n > 1
AllDecode(segs) == \A i \in DOMAIN segs : segs[i].decode
OneTokenEach(segs) == \A i \in DOMAIN segs : segs[i].n = 1

(* _run_conv: a plain decode writes through and drops the rows it read;    *)
(* any other batch parks its rows over the pool it read.                   *)
ConvAfter(k, segs) ==
    IF AllDecode(segs) /\ ~IsSpecVerify(segs)
    THEN LET rows == RowsFrom(View(k, Slots(segs)), segs)
             seen == Viewed(k, Slots(segs))
         IN  [Discarded(seen) EXCEPT !.pool = Scatter(@, Slots(segs), rows)]
    ELSE LET settled == Applied(k) IN Parked(settled, Slots(segs), PoolRows(settled, segs))

(* Mutant of DefersScatter: a verify span is treated like a prefill. *)
DefersByPolicy(segs) == deferring /\ Len(segs) > 1

(* _should_defer_recurrent_prefill_state *)
DefersScatter(segs) == IsSpecVerify(segs) \/ (deferring /\ Len(segs) > 1)

(* _run_recurrent: a plain decode parks its rows in place of those it read;*)
(* a prefill or verify batch parks or scatters them; a batch whose prefill *)
(* is of single tokens takes the in-place fallback.                        *)
RecAfter(k, segs) ==
    IF AllDecode(segs) /\ ~IsSpecVerify(segs)
    THEN Parked(Discarded(Viewed(k, Slots(segs))), Slots(segs),
                RowsFrom(View(k, Slots(segs)), segs))
    ELSE LET settled == Applied(k)
             rows == PoolRows(settled, segs)
         IN  IF ~OneTokenEach(segs) /\ DefersScatter(segs)
             THEN Parked(settled, Slots(segs), rows)
             ELSE [settled EXCEPT !.pool = Scatter(@, Slots(segs), rows)]

(* Attention layers write the KV of every scheduled request. *)
WithKV(k, segs) ==
    [k EXCEPT !.pool = [b \in Block |->
        IF \E s \in Elems(segs) : req[s.r].kv = b
        THEN KVOf((CHOOSE s \in Elems(segs) : req[s.r].kv = b).r) ELSE @[b]]]

-----------------------------------------------------------------------------
(* apply_spec_decode_acceptance *)

(* Mutant of MergedRows: the new rows replace the first ones. *)
MergedRowsInOrder(k, slots, updates) ==
    [i \in DOMAIN k.rows |-> IF i \in DOMAIN slots THEN updates[i] ELSE k.rows[i]]

(* _merge_state_rows: a new row replaces the saved row of its own slot. *)
MergedRows(k, slots, updates) ==
    [i \in DOMAIN k.rows |->
        IF k.slots[i] \in Elems(slots)
        THEN updates[CHOOSE j \in DOMAIN slots : slots[j] = k.slots[i]] ELSE k.rows[i]]

(* _rescan_layer_to_accepted: the partially accepted spans are scanned     *)
(* again from the pool, up to their committed rows, and merged into the    *)
(* update that the forward parked.                                         *)
Rescanned(k, partial) ==
    LET slots == Slots(partial)
        updates == [i \in DOMAIN partial |->
                      Advanced(k.pool[slots[i]], partial[i], partial[i].commit)]
    IN  IF k.slots # <<>>
        THEN [k EXCEPT !.rows = MergedRows(k, slots, updates)]
        ELSE Parked(k, slots, updates)

Accepted(k) ==
    LET partial == Part(stash, {i \in DOMAIN stash : stash[i].commit < stash[i].n}) IN
    IF partial = <<>> THEN k ELSE Rescanned(k, partial)

-----------------------------------------------------------------------------
(* The scheduler, between two steps. *)

Live == {r \in Req : req[r].phase \in {"prefill", "decode"}}
RowBlocks(r) == {req[r].row[i] : i \in DOMAIN req[r].row}
Free == Block \ ((UNION {RowBlocks(r) \cup {req[r].kv} : r \in Req}) \cup Ends(copies))
Uncache(b) == {e \in cached : e.block # b}
EmptyRow == [i \in {} |-> NoBlock]

(* The longest cached checkpoint that leaves a token to compute. *)
Hits(r) == {e \in cached : e.content.depth < req[r].known
                         /\ e.content = StateOf(r, e.content.depth)}

(* A request is admitted, or again after a preemption, with a new block    *)
(* for its attention KV. A prefix hit gives it the checkpoint's block, or  *)
(* a copy of it.                                                           *)
Admit(r, hit, b, cow) ==
    /\ step = <<>>
    /\ req[r].phase = "out" /\ r \notin released
    /\ b \in Free
    /\ b \notin {e.block : e \in hit}
    /\ hit \in {{}} \cup {{e} : e \in Hits(r)}
    /\ cow \in Free \cup {NoBlock} /\ (cow # NoBlock => hit # {} /\ cow # b
                                      /\ cow \notin {e.block : e \in hit})
    /\ LET depth == IF hit = {} THEN 0 ELSE (CHOOSE e \in hit : TRUE).content.depth
           from == IF hit = {} THEN NoBlock ELSE (CHOOSE e \in hit : TRUE).block
           into == IF cow = NoBlock THEN from ELSE cow
       IN  /\ req' = [req EXCEPT ![r] =
                 [@ EXCEPT !.phase = "prefill", !.computed = depth, !.kv = b,
                           !.row = IF hit = {} THEN EmptyRow
                                   ELSE [i \in {BlockOf(depth)} |-> into]]]
           /\ copies' = IF cow = NoBlock THEN copies ELSE copies \cup {<<from, cow>>}
           /\ cached' = {e \in cached : e.block \notin {b, cow}}
    /\ zeroing' = zeroing \cup {b}
    /\ UNCHANGED <<mode, deferring, cacheVars, step, released, preempts>>

(* The i-th block of r's row, for the last token of its next step; a       *)
(* prefill may skip blocks, a decode may not. Blocks before the one that   *)
(* holds the request's state are given up.                                 *)
Grow(r, b, i) ==
    /\ step = <<>>
    /\ r \in Live /\ b \in Free /\ req[r].known <= MaxLen
    /\ i \notin DOMAIN req[r].row
    /\ LET ahead == DOMAIN req[r].row \cap (BlockOf(req[r].computed + 1)..MaxLen) IN
       ahead = (IF req[r].phase = "decode" THEN BlockOf(req[r].computed + 1)..(i - 1) ELSE {})
    /\ i \in BlockOf(req[r].computed + 1)..BlockOf(req[r].known + req[r].drafts)
    /\ LET kept == {j \in DOMAIN req[r].row : j >= BlockOf(req[r].computed)}
       IN  req' = [req EXCEPT ![r].row =
                     [j \in kept \cup {i} |-> IF j = i THEN b ELSE @[j]]]
    /\ cached' = Uncache(b)
    /\ UNCHANGED <<mode, deferring, cacheVars, step, released, zeroing, copies, preempts>>

(* A request that has run at least once leaves. *)
Gone(r, phase) ==
    /\ step = <<>>
    /\ r \in Live /\ req[r].kv \notin zeroing
    /\ req' = [req EXCEPT ![r] = [@ EXCEPT !.phase = phase, !.computed = 0, !.drafts = 0,
                                          !.row = EmptyRow, !.kv = NoBlock]]
    /\ released' = released \cup {r}
    /\ UNCHANGED <<mode, deferring, cacheVars, step, zeroing, copies, cached>>

Finish(r) == Gone(r, "done") /\ UNCHANGED preempts
Preempt(r) == preempts < MaxPreempts /\ preempts' = preempts + 1 /\ Gone(r, "out")

-----------------------------------------------------------------------------
(* The runner: _start_paged_forward, then _sample_paged_batch. *)

(* Mutant of DraftCap: one draft more than the block has room for. *)
DraftCapOffByOne(next) ==
    IF mode = "align" /\ BlockSize > 1 THEN BlockSize - (next % BlockSize) ELSE MaxDraft

(* _hybrid_draft_caps: the next span stays in the block that starts it. *)
DraftCap(next) ==
    IF mode = "align" /\ BlockSize > 1 THEN BlockSize - (next % BlockSize) - 1 ELSE MaxDraft

(* Tokens that a step may compute of r; the scheduler ends the chunks of a *)
(* prefill on block boundaries when it keeps checkpoints.                  *)
Schedulable(r) ==
    {n \in 1..(req[r].known + req[r].drafts - req[r].computed) :
        /\ req[r].known <= MaxLen
        /\ BlockOf(req[r].computed + n) \in DOMAIN req[r].row
        /\ (req[r].phase = "prefill" /\ mode = "align") =>
              \/ (req[r].computed + n) % BlockSize = 0
              \/ req[r].computed + n = req[r].known}

SegmentOf(r, n, commit) ==
    [r |-> r, start |-> req[r].computed, n |-> n, commit |-> commit,
     decode |-> req[r].phase = "decode",
     src |-> IF req[r].computed = 0 THEN NoBlock ELSE req[r].row[BlockOf(req[r].computed)],
     dst |-> req[r].row[BlockOf(req[r].computed + n)]]

(* Segments of r; commit is how many rows verification will commit.        *)
Segments(r) ==
    {SegmentOf(r, p[1], p[2]) :
        p \in {q \in Schedulable(r) \X (1..(MaxLen + 1)) :
               q[2] <= q[1] /\ (req[r].phase = "prefill" => q[2] = q[1])}}

(* Batches: decode segments come before prefill segments. *)
Batches ==
    {segs \in UNION {[1..k -> UNION {Segments(r) : r \in Live}] : k \in 1..Cardinality(Live)} :
        /\ \A i, j \in DOMAIN segs : i < j =>
              segs[i].r # segs[j].r /\ (segs[j].decode => segs[i].decode)
        /\ \A r \in Live : req[r].kv \in zeroing => \E i \in DOMAIN segs : segs[i].r = r}

(* The component after zero_blocks, copy_blocks, populate_step_context and *)
(* the attention layers of the forward.                                    *)
Prepared(k, segs) ==
    WithKV(Populated(CopySlots(ZeroSlots(k, zeroing), copies), segs), segs)

Forward(segs) ==
    /\ step = <<>>
    /\ conv' = ConvAfter(Prepared(conv, segs), segs)
    /\ rec' = RecAfter(Prepared(rec, segs), segs)
    /\ stash' = Verifying(segs)
    /\ needs' = (needs \/ released # {} \/ mode = "align")
    /\ step' = segs
    /\ released' = {} /\ zeroing' = {} /\ copies' = {}
    /\ UNCHANGED <<mode, deferring, req, cached, preempts>>

(* A request after its segment was sampled, with drafts for the next step. *)
After(q, seg, drafts) ==
    LET computed == seg.start + seg.commit
        sampled == IF seg.decode THEN seg.commit ELSE IF computed = q.known THEN 1 ELSE 0
        known == q.known + sampled
    IN  [q EXCEPT !.computed = computed,
                  !.known = known,
                  !.phase = IF sampled > 0 THEN "decode" ELSE @,
                  !.drafts = IF sampled > 0 /\ known + drafts <= MaxLen THEN drafts ELSE 0]

Settled(k) == IF needs THEN Applied(k) ELSE k

(* The drafter proposes at most `drafts` tokens for a request.             *)
Sample(drafts) ==
    /\ step # <<>>
    /\ conv' = Settled(Accepted(conv))
    /\ rec' = Settled(Accepted(rec))
    /\ stash' = <<>> /\ needs' = FALSE
    /\ step' = <<>>
    /\ req' = [r \in Req |->
                 IF \E s \in Elems(step) : s.r = r
                 THEN LET seg == CHOOSE s \in Elems(step) : s.r = r
                          cap == DraftCap(seg.start + seg.commit)
                      IN  After(req[r], seg, IF drafts < cap THEN drafts ELSE cap)
                 ELSE req[r]]
    (* The scheduler caches the checkpoint of a step that ends a block. *)
    /\ cached' = cached \cup
          {[content |-> StateOf(s.r, s.start + s.commit),
            block |-> req[s.r].row[BlockOf(s.start + s.commit)]] :
              s \in {t \in Elems(step) :
                       /\ mode = "align" /\ (t.start + t.commit) % BlockSize = 0
                       /\ \A e \in cached : e.content # StateOf(t.r, t.start + t.commit)}}
    /\ UNCHANGED <<mode, deferring, released, zeroing, copies, preempts>>

(* Sleep with nothing running: release_kv_memory, then restore_kv_memory   *)
(* with a fresh pool; the scheduler resets its prefix cache.               *)
Sleep ==
    /\ step = <<>> /\ Live = {}
    /\ LET fresh(k) == [Discarded(k) EXCEPT !.pool = [b \in Block |-> Zero]]
       IN  conv' = fresh(conv) /\ rec' = fresh(rec)
    /\ needs' = FALSE
    /\ cached' = {}
    /\ UNCHANGED <<mode, deferring, stash, step, req, released, zeroing, copies, preempts>>

Fresh == [pool |-> [b \in Block |-> Zero], slots |-> <<>>, rows |-> <<>>]

HybridInit ==
    /\ mode \in {"none", "align"} /\ deferring \in BOOLEAN
    /\ conv = Fresh /\ rec = Fresh
    /\ stash = <<>> /\ needs = FALSE /\ step = <<>>
    /\ req = [r \in Req |-> [phase |-> "out", known |-> PromptLen, computed |-> 0,
                             row |-> EmptyRow, kv |-> NoBlock, drafts |-> 0]]
    /\ released = {} /\ zeroing = {} /\ copies = {} /\ cached = {}
    /\ preempts = 0

HybridNext ==
    \/ \E r \in Req, hit \in SUBSET cached, b \in Block, cow \in Block \cup {NoBlock} :
          Cardinality(hit) <= 1 /\ Admit(r, hit, b, cow)
    \/ \E r \in Req, b \in Block, i \in 0..MaxLen : Grow(r, b, i)
    \/ \E r \in Req : Finish(r)
    \/ \E r \in Req : Preempt(r)
    \/ \E segs \in Batches : Forward(segs)
    \/ \E drafts \in 0..MaxDraft : Sample(drafts)
    \/ Sleep

HybridSpec == HybridInit /\ [][HybridNext]_hybridVars

-----------------------------------------------------------------------------
(* What must not go wrong. *)

(* The state a decode kernel would be shown of block b.                    *)
Current(k, b) ==
    IF b \in Elems(k.slots)
    THEN k.rows[CHOOSE i \in DOMAIN k.slots : k.slots[i] = b] ELSE k.pool[b]

(* Between two steps the authoritative state of a running request, in the  *)
(* pool or parked by whichever kernel ran last, summarises exactly the     *)
(* tokens it has computed: through prefill, decode, rejected drafts,       *)
(* reordered batches and blocks inherited from other requests.             *)
StateFollowsTokens ==
    step = <<>> =>
        \A r \in Live : req[r].computed > 0 =>
            LET b == req[r].row[BlockOf(req[r].computed)] IN
            (\A p \in copies : p[2] # b) =>
                /\ Current(conv, b) = StateOf(r, req[r].computed)
                /\ Current(rec, b) = StateOf(r, req[r].computed)

(* A checkpoint in the prefix cache keeps the state it was cached for, in  *)
(* both components, whatever steps other requests run: a prefix hit never  *)
(* restores stale or overwritten state.                                    *)
CheckpointsExact ==
    \A e \in cached : conv.pool[e.block] = e.content /\ rec.pool[e.block] = e.content

(* A parked update of a block's former owner never lands on attention KV   *)
(* that another request has written since the block changed hands.         *)
KVSurvivesStateWrites ==
    \A r \in Live :
        (req[r].kv \notin zeroing) =>
            conv.pool[req[r].kv] = KVOf(r) /\ rec.pool[req[r].kv] = KVOf(r)

(* Until verification has decided how much of a span to keep, the pool     *)
(* still holds the state before the span, the point a rescan starts from.  *)
RollbackPointKept ==
    \A i \in DOMAIN stash :
        /\ conv.pool[stash[i].dst] = StateOf(stash[i].r, stash[i].start)
        /\ rec.pool[stash[i].dst] = StateOf(stash[i].r, stash[i].start)

=============================================================================
