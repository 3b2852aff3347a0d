---------------------------- MODULE PagedAttention ----------------------------
(***************************************************************************)
(* One attention layer over the paged KV cache (attention/context.py,      *)
(* attention/impls/sdpa.py and its lanes, metal/paged_attention.cpp).      *)
(*                                                                         *)
(* A forward packs decode rows and prefill chunks into one sequence,       *)
(* writes their K/V by slot and then routes the rows to kernels that each  *)
(* address rows, sequences and blocks their own way: per-token, split-KV,  *)
(* verification-window, tiled and NAX prefill, mixed batches cut in two,   *)
(* dequantised TurboQuant prefill over gathered pages, and the recompute   *)
(* of image blocks. Kernel arithmetic is abstracted: a row's output is the *)
(* set of cached entries it read.                                          *)
(***************************************************************************)
EXTENDS Integers, Sequences, FiniteSets, SequencesExt, FiniteSetsExt

CONSTANTS
    AtTables,     \* request -> its scheduler blocks (a shared prefix: the same
                  \* blocks); requests are 1..n
    AtStarts,     \* the initial computed lengths to try
    AtLayers,     \* the layers and machines to try (see atLayer)
    AtBlock,      \* tokens of a scheduler block
    AtPrompt, AtMaxLen, AtImage,   \* AtImage: the image block, <<first, end>>
    AtWindowQ,    \* longest verification window
    AtBatched,    \* max_num_batched_tokens
    AtBQ, AtNaxBQ, AtPart, AtWindowRows,   \* kernel tile sizes
    AtMinWork,    \* kMixedDecodeMinWork
    AtMinPrefill, \* min_prefill_tokens
    AtMaxSteps    \* bound: forwards

ASSUME AttentionAssumption ==
    {AtBlock, AtPrompt, AtMaxLen, AtBQ, AtNaxBQ, AtPart, AtWindowRows,
     AtMinPrefill} \subseteq Nat \ {0}

VARIABLES
    atLayer,   \* [turbo, kernelBlock, window (0: none), image, tiled, nax,
               \*  merge, split, gqa, limit]
    atFirst,   \* each request's first_prefill_start
    atLen,     \* the scheduler's num_computed_tokens
    atToken,   \* request -> position -> the forward that last ran it
    atKV,      \* slot -> <<owner, position, forward>>
    atOut,     \* rows of the last forward: [req, pos, seen], seen: one per lane
    atSpace,   \* what the last forward dequantised: its bytes, and whether
               \*  a request that qualified was refused
    atStep

atVars == <<atLayer, atFirst, atLen, atToken, atKV, atOut, atSpace, atStep>>

AtReqs == DOMAIN AtTables
Slot(table, size, p) == (table[(p \div size) + 1] * size) + (p % size)
Owner(r, p) == Min({x \in AtReqs : AtTables[x][(p \div AtBlock) + 1] = AtTables[r][(p \div AtBlock) + 1]})
CeilDiv(a, b) == (a + b - 1) \div b

AtInit ==
    /\ atLayer \in AtLayers
    /\ atLen \in AtStarts /\ atFirst = atLen
    /\ atToken = [r \in AtReqs |-> [p \in 0..AtMaxLen - 1 |-> 0]]
    /\ atKV = [s \in {Slot(AtTables[r], AtBlock, p) : r \in AtReqs, p \in 0..AtMaxLen - 1} |->
                 LET held == {x \in AtReqs \X (0..AtMaxLen - 1) :
                                /\ Slot(AtTables[x[1]], AtBlock, x[2]) = s
                                /\ x[2] < atLen[x[1]]}
                 IN  IF held = {} THEN <<>>
                     ELSE LET x == CHOOSE x \in held : TRUE
                          IN  <<Owner(x[1], x[2]), x[2], 0>>]
    /\ atOut = <<>> /\ atSpace = [bytes |-> 0, refused |-> FALSE] /\ atStep = 0

-----------------------------------------------------------------------------
(* Packing (prepare_grouped). A segment is [req, first, n, decode, block],  *)
(* block: the range its rows may attend in both directions, or <<>>.        *)

ExpandedWindow(x) == [i \in 1..x.n |-> [x EXCEPT !.first = @ + i - 1, !.n = 1]]
Segments(decodes, prefills) ==
    (IF atLayer.merge THEN decodes
     ELSE FlattenSeq([i \in DOMAIN decodes |-> ExpandedWindow(decodes[i])]))
    \o prefills

\* An image block is kept when this chunk ends it and either starts it or is
\* the first to reach it; a diffusion canvas is a chunk that is its own block.
BlockOfChunk(r, first, n) ==
    IF atLayer.image = "none" THEN <<>>
    ELSE IF atLayer.image = "canvas" THEN <<first, first + n>>
    ELSE IF /\ AtImage[1] < first + n /\ first < AtImage[2] /\ AtImage[2] <= first + n
            /\ AtImage[1] >= first \/ AtImage[1] < atFirst[r]
         THEN AtImage ELSE <<>>

DecodeSegment(r, n) == [req |-> r, first |-> atLen[r], n |-> n, decode |-> TRUE, block |-> <<>>]
PrefillSegment(r, n) == [req |-> r, first |-> atLen[r], n |-> n, decode |-> FALSE,
                         block |-> BlockOfChunk(r, atLen[r], n)]

RowsOf(x) == [i \in 1..x.n |-> [req |-> x.req, pos |-> x.first + i - 1, block |-> x.block]]

-----------------------------------------------------------------------------
(* Kernel metadata: a batch is [n, cu, ctx, tables] over its segments.      *)

Ratio == AtBlock \div atLayer.kernelBlock
KernelTable(t) ==
    [b \in 1..Len(t) * Ratio |-> (t[((b - 1) \div Ratio) + 1] * Ratio) + ((b - 1) % Ratio)]
Cumulative(lens) == [i \in 0..Len(lens) |-> MapThenSumSet(LAMBDA j: lens[j], 1..i)]
Batch(segs) ==
    [n |-> Len(segs), cu |-> Cumulative([i \in DOMAIN segs |-> segs[i].n]),
     ctx |-> [i \in DOMAIN segs |-> segs[i].first + segs[i].n],
     tables |-> [i \in DOMAIN segs |-> KernelTable(AtTables[segs[i].req])]]

Rows(B) == B.cu[B.n]
SeqLen(B, i) == B.cu[i] - B.cu[i - 1]
Longest(B) == Max({SeqLen(B, i) : i \in 1..B.n})
MaxSeqLen(B) == Max({B.ctx[i] : i \in 1..B.n})

FindSeq(B, q) == Max({i \in 1..B.n : B.cu[i - 1] <= q})

\* The position each row is rotated to: one batch of offsets when every segment
\* has one row, else each segment from its own offset.
RotaryPositions(B, segs) ==
    IF B.n > 1 /\ Rows(B) = B.n THEN [q \in 1..B.n |-> segs[q].first]
    ELSE [q \in 1..Rows(B) |-> LET i == FindSeq(B, q - 1)
                               IN  segs[i].first + q - 1 - B.cu[i - 1]]

\* reshape_and_cache and tq_encode: K/V by the scheduler's slot mapping.
Written(rows, rotary, step) ==
    LET slot(q) == Slot(AtTables[rows[q].req], AtBlock, rows[q].pos)
    IN  [s \in DOMAIN atKV |->
           LET at == {q \in DOMAIN rows : slot(q) = s}
           IN  IF at = {} THEN atKV[s]
               ELSE <<Owner(rows[Max(at)].req, rows[Max(at)].pos), rotary[Max(at)], step>>]

\* build_mm_prefix_rows: the inclusive block of each row, {} when it has none;
\* one-token blocks are dropped, and no row at all means no ranges.
MmPrefixRows(rows) ==
    LET range(i) == LET b == rows[i].block
                    IN  IF b = <<>> \/ b[2] - b[1] <= 1 THEN {}
                        ELSE IF rows[i].pos \in b[1]..b[2] - 1 THEN b[1]..b[2] - 1 ELSE {}
        all == [i \in DOMAIN rows |-> range(i)]
    IN  IF \A i \in DOMAIN rows : all[i] = {} THEN <<>> ELSE all

\* What a call tells the native code: d, dtok and dmax describe the decode
\* prefix (-1, 0, 0 when absent), plan its lengths (<<>>: none).
NoRouting == [d |-> -1, dtok |-> 0, dmax |-> 0, plan |-> <<>>]
WholeBatchRouting(B, segs, windowQ) ==
    LET requests == Cardinality({segs[i].req : i \in {j \in DOMAIN segs : segs[j].decode}})
        tokens   == MapThenSumSet(LAMBDA j: segs[j].n, {j \in DOMAIN segs : segs[j].decode})
        longest  == Max({0} \cup {segs[j].first + segs[j].n : j \in {k \in DOMAIN segs : segs[k].decode}})
        ordinary == requests = tokens /\ windowQ = 1 /\ atLayer.gqa # "disabled"
        planned  == \/ requests > 1 /\ requests = Rows(B) /\ requests = B.n
                    \/ 0 < requests /\ requests < B.n /\ Rows(B) > requests
    IN  [d |-> requests, dtok |-> tokens, dmax |-> longest,
         plan |-> IF ordinary /\ planned THEN SubSeq(B.ctx, 1, requests) ELSE <<>>]

PlanMax(c) == Max({c.plan[i] : i \in DOMAIN c.plan})
PlanTotal(c) == FoldSeq(+, 0, c.plan)

-----------------------------------------------------------------------------
(* Kernels. Each returns, for every row of its batch, the set of           *)
(* <<threadgroup, slots read>> that write the row.                         *)

RowPos(B, i, q) == B.ctx[i] - (B.cu[i] - q)
Reads(B, i, q, cap, ranges) ==
    LET p    == RowPos(B, i, q)
        keys == {k \in 0..B.ctx[i] - 1 :
                   /\ k < cap
                   /\ k <= p \/ (ranges # <<>> /\ k \in ranges[q + 1])
                   /\ atLayer.window = 0 \/ p - k < atLayer.window}
    IN  {Slot(B.tables[i], atLayer.kernelBlock, k) : k \in keys}

\* Threadgroup g writes the rows rowsOf(g) of sequence seqOf(g).
ByRow(B, groups, seqOf(_), rowsOf(_), cap, ranges) ==
    [q \in 1..Rows(B) |->
       {<<g, Reads(B, seqOf(g), q - 1, cap, ranges)>> : g \in {h \in groups : q - 1 \in rowsOf(h)}}]

PerToken(B, rows, cap) ==
    ByRow(B, 0..rows - 1, LAMBDA q: FindSeq(B, q), LAMBDA q: {q}, cap, <<>>)

WindowGroups(B, windowQ, cap) ==
    LET subs == CeilDiv(windowQ, AtWindowRows)
        rowsOf(g) == LET i == (g \div subs) + 1
                         from == B.cu[i - 1] + ((g % subs) * AtWindowRows)
                     IN  from..Min({from + AtWindowRows, B.cu[i]}) - 1
    IN  ByRow(B, 0..B.n * subs - 1, LAMBDA g: (g \div subs) + 1, rowsOf, cap, <<>>)

\* Prefill tiles: q-block g of the grid belongs to the last sequence whose
\* first block cu / BQ + index is at or before it.
QBlocks(B, BQ, offset, ranges) ==
    LET start(i)  == (B.cu[i - 1] \div BQ) + i - 1
        seqOf(g)  == Max({i \in 1..B.n : start(i) <= g})
        rowsOf(g) == LET i == seqOf(g)
                         from == B.cu[i - 1] + (g - start(i)) * BQ
                     IN  from..Min({from + BQ, B.cu[i]}) - 1
    IN  ByRow(B, offset..(Rows(B) \div BQ) + B.n - 1, seqOf, rowsOf, AtMaxLen, ranges)

\* Split-KV and GQA decode read whole partitions of the length they were told.
Partitioned(max) == CeilDiv(max, AtPart) * AtPart

-----------------------------------------------------------------------------
(* The primitive: validation, routing and dispatch. A call c is a routing  *)
(* with windowQ, max (max_seq_len), ranges and turbo.                      *)

Accepted(B, c) ==
    /\ c.plan # <<>> =>
         /\ PlanMax(c) <= c.max
         /\ \/ Len(c.plan) = Rows(B) /\ Len(c.plan) = B.n
            \/ Len(c.plan) = c.d /\ c.dtok = c.d /\ c.d < B.n /\ PlanMax(c) <= c.dmax
    /\ c.ranges # <<>> =>
         ~c.turbo /\ atLayer.tiled /\ c.windowQ <= 1 /\ Rows(B) > B.n
    /\ c.windowQ > 1 => Longest(B) = c.windowQ

\* The split-KV gate and the GQA budget depend on the machine: atLayer.
GqaRows(B, c) ==
    /\ atLayer.gqa = "on" /\ c.windowQ <= 1 /\ atLayer.window = 0 /\ Rows(B) = B.n
    /\ \/ B.n = 1 /\ c.d \in {-1, 1}
       \/ B.n > 1 /\ c.d = B.n /\ c.dtok = B.n /\ c.plan # <<>>

DecodeDispatch(B, c) ==
    LET window == Rows(B) > B.n /\ c.windowQ > 1
        split  == atLayer.split /\ (Rows(B) = B.n \/ window)
        cap    == IF GqaRows(B, c) \/ split THEN Partitioned(c.max) ELSE AtMaxLen
    IN  IF window THEN WindowGroups(B, c.windowQ, cap) ELSE PerToken(B, Rows(B), cap)

DecodeWork(c) == IF Len(c.plan) = c.d THEN PlanTotal(c) ELSE c.dmax

UseNax(B, c) == /\ atLayer.nax /\ Rows(B) > B.n /\ c.windowQ <= 1
                /\ ~c.turbo /\ c.ranges = <<>>
UseTiled(B, c) == atLayer.tiled /\ Rows(B) > B.n /\ c.windowQ <= 1 /\ ~c.turbo
PrefillBQ(B, c) == IF UseNax(B, c) THEN AtNaxBQ ELSE AtBQ

SplitsMixed(B, c) ==
    /\ UseNax(B, c) \/ UseTiled(B, c)
    /\ 0 < c.d /\ c.d < B.n /\ c.dtok = c.d
    /\ DecodeWork(c) >= AtMinWork

\* The decode prefix is a pure decode batch of the first d sequences.
Prefix(B, d) == [n |-> d, cu |-> [i \in 0..d |-> B.cu[i]],
                 ctx |-> SubSeq(B.ctx, 1, d), tables |-> SubSeq(B.tables, 1, d)]
PrefixMax(c) == IF Len(c.plan) = c.d THEN PlanMax(c) ELSE Min({c.max, c.dmax})
\* Mutant: without the padding block each decode row takes.
FirstPrefillBlockPacked(c, BQ) == c.dtok \div BQ
FirstPrefillBlock(c, BQ) == (c.dtok \div BQ) + c.d

MixedDispatch(B, c) ==
    LET decode  == DecodeDispatch(Prefix(B, c.d), [c EXCEPT !.max = PrefixMax(c)])
        prefill == QBlocks(B, PrefillBQ(B, c), FirstPrefillBlock(c, PrefillBQ(B, c)), c.ranges)
    IN  [q \in 1..Rows(B) |->
           {<<<<"prefill", x[1]>>, x[2]>> : x \in prefill[q]}
           \cup (IF q <= c.dtok THEN {<<<<"decode", x[1]>>, x[2]>> : x \in decode[q]} ELSE {})]

Primitive(B, c) ==
    IF ~Accepted(B, c) THEN [q \in 1..Rows(B) |-> {}]
    ELSE IF SplitsMixed(B, c) THEN MixedDispatch(B, c)
    ELSE IF UseNax(B, c) THEN QBlocks(B, AtNaxBQ, 0, <<>>)
    ELSE IF UseTiled(B, c) THEN QBlocks(B, AtBQ, 0, c.ranges)
    ELSE DecodeDispatch(B, c)

-----------------------------------------------------------------------------
(* TurboQuant prefill: requests with enough query rows read a dequantised  *)
(* copy of their pages, as many as fit the reserved workspace; the others  *)
(* read the compressed cache in a batch of their own.                      *)

TokenBytes == 2
RoutingBytes(rows) == rows
SplitMetadataBytes(n, fallback, width) == 2 * n + 2 + fallback * (width + 1)

\* What the worker reserves before it sizes the KV cache.
WorkspaceUpperBound(kernelBlock) ==
    LET n          == Cardinality(AtReqs)
        queries    == Min({AtBatched, n * AtMaxLen})
        candidates == Min({n, queries \div AtMinPrefill})
        tokens     == CeilDiv(AtMaxLen, AtBlock) * AtBlock
        width      == tokens \div kernelBlock
        held       == candidates * (tokens * TokenBytes + width)
    IN  IF AtMaxLen < AtMinPrefill \/ candidates = 0 THEN 0
        ELSE IF n = 1 THEN held
        ELSE held + RoutingBytes(queries) + SplitMetadataBytes(n, n, width)

TableWidth(B) == Max({Len(B.tables[i]) : i \in 1..B.n})
Candidates(B) == SetToSortSeq({i \in 1..B.n : SeqLen(B, i) >= AtMinPrefill}, <)
KernelBlocksOf(B, i) == SubSeq(B.tables[i], 1, CeilDiv(B.ctx[i], atLayer.kernelBlock))

\* select_rows: admit in order what still fits; shared pages count once.
SelectRows(B, limit, split) ==
    LET bytes == atLayer.kernelBlock * TokenBytes
        admit(s, i) ==
            LET wanted == KernelBlocksOf(B, i)
                new    == SelectSeq(wanted, LAMBDA b: b \notin Range(s.pool))
                width  == Max({s.width, Len(wanted)})
                cost   == (Len(s.pool) + Len(new)) * bytes + (Len(s.ids) + 1) * width
                          + (IF split THEN SplitMetadataBytes(B.n, B.n - Len(s.ids) - 1, TableWidth(B))
                             ELSE 0)
            IN  IF Len(wanted) > Max({0, limit}) \div bytes \/ cost > limit THEN s
                ELSE [pool |-> s.pool \o new, ids |-> Append(s.ids, i), width |-> width]
    IN  FoldLeft(admit, [pool |-> <<>>, ids |-> <<>>, width |-> 0], Candidates(B))

\* The plan: the rows admitted, first as if the whole batch fits, then with
\* the cost of a split reserved.
TurboQuantPlan(B) ==
    LET mustSplit == Len(Candidates(B)) < B.n
        reserved  == atLayer.limit - RoutingBytes(Rows(B))
        first     == SelectRows(B, IF mustSplit THEN reserved ELSE atLayer.limit, mustSplit)
    IN  IF ~mustSplit /\ 0 < Len(first.ids) /\ Len(first.ids) < B.n
        THEN SelectRows(B, reserved, TRUE) ELSE first

PlanBytes(B, plan) ==
    LET rest == B.n - Len(plan.ids)
    IN  IF plan.ids = <<>> THEN 0
        ELSE Len(plan.pool) * atLayer.kernelBlock * TokenBytes + Len(plan.ids) * plan.width
             + (IF rest > 0 THEN RoutingBytes(Rows(B)) + SplitMetadataBytes(B.n, rest, TableWidth(B))
                ELSE 0)

SubBatch(B, ids, tables) ==
    [n |-> Len(ids), cu |-> Cumulative([i \in DOMAIN ids |-> SeqLen(B, ids[i])]),
     ctx |-> [i \in DOMAIN ids |-> B.ctx[ids[i]]], tables |-> tables]
RowIndices(B, ids) ==
    FlattenSeq([i \in DOMAIN ids |-> [j \in 1..SeqLen(B, ids[i]) |-> B.cu[ids[i] - 1] + j]])

\* Row j of the materialised pool holds the cache row its page was read from.
PoolSlot(plan, a) ==
    LET b == plan.pool[(a \div atLayer.kernelBlock) + 1]
    IN  ((b \div Ratio) * AtBlock) + ((b % Ratio) * atLayer.kernelBlock) + (a % atLayer.kernelBlock)
Dequantised(plan, rows) ==
    [q \in DOMAIN rows |-> {<<x[1], {PoolSlot(plan, a) : a \in x[2]}>> : x \in rows[q]}]

Call(routing, windowQ, max, ranges, turbo) ==
    routing @@ [windowQ |-> windowQ, max |-> max, ranges |-> ranges, turbo |-> turbo]

TurboQuantPrefill(B, plan) ==
    LET rest   == SelectSeq([i \in 1..B.n |-> i], LAMBDA i: i \notin Range(plan.ids))
        index(b) == CHOOSE j \in DOMAIN plan.pool : plan.pool[j] = b
        table(i) == [k \in DOMAIN KernelBlocksOf(B, i) |-> index(KernelBlocksOf(B, i)[k]) - 1]
        pages  == SubBatch(B, plan.ids, [i \in DOMAIN plan.ids |-> table(plan.ids[i])])
        others == SubBatch(B, rest, [i \in DOMAIN rest |-> B.tables[rest[i]]])
        dense  == Dequantised(plan, Primitive(pages, Call(NoRouting, 1, MaxSeqLen(pages), <<>>, FALSE)))
        order  == RowIndices(B, plan.ids) \o RowIndices(B, rest)
    IN  IF rest = <<>> THEN dense
        ELSE LET out == dense \o Primitive(others, Call(NoRouting, 1, MaxSeqLen(others), <<>>, TRUE))
             IN  [q \in 1..Rows(B) |-> out[CHOOSE p \in DOMAIN order : order[p] = q]]

-----------------------------------------------------------------------------
(* The recompute of block rows over gathered K/V (bidi_prefill).           *)

BidiKeys(first, pos, block) ==
    LET origin == IF atLayer.image = "canvas" THEN block[1] ELSE first
        keys   == (IF atLayer.window = 0 THEN 0 ELSE Max({0, origin - atLayer.window + 1}))
    IN  {k \in keys..block[2] - 1 :
           /\ k <= pos \/ k \in block[1]..block[2] - 1
           /\ atLayer.window = 0 \/
                (IF atLayer.image = "canvas" THEN block[1] ELSE pos) - k < atLayer.window}

\* Rows of an active block are spliced over the kernel's.
Recomputed(B, rows, out) ==
    [q \in DOMAIN out |->
       LET x == rows[q]
           i == FindSeq(B, q - 1)
           a == Max({B.ctx[i] - SeqLen(B, i), x.block[1]})
       IN  IF x.block = <<>> \/ x.pos \notin x.block[1]..x.block[2] - 1 THEN out[q]
           ELSE {<<"recompute", {Slot(B.tables[i], atLayer.kernelBlock, k) :
                                   k \in BidiKeys(a, x.pos, x.block)}>>}]

\* Sliding layers with a window anchored at the block never use the kernel.
RecomputesBlocks ==
    atLayer.image = "recompute" \/ (atLayer.image = "canvas" /\ atLayer.window > 0)

-----------------------------------------------------------------------------
\* sdpa_forward after the write: one layer over the packed rows.
Attend(B, segs, rows, windowQ) ==
    LET ranges == IF RecomputesBlocks THEN <<>> ELSE MmPrefixRows(rows)
        wide   == Rows(B) > B.n
        plan   == TurboQuantPlan(B)
        max    == MaxSeqLen(B)
        call(routing) == Call(routing, windowQ, max, ranges, atLayer.turbo)
        dense  == /\ atLayer.turbo /\ wide /\ windowQ = 1 /\ atLayer.window = 0
                  /\ atLayer.limit > 0 /\ Candidates(B) # <<>> /\ plan.ids # <<>>
    IN  IF dense THEN TurboQuantPrefill(B, plan)
        ELSE IF atLayer.turbo /\ wide THEN Primitive(B, call(NoRouting))
        ELSE LET out == Primitive(B, call(WholeBatchRouting(B, segs, windowQ)))
             IN  IF RecomputesBlocks THEN Recomputed(B, rows, out) ELSE out

Forward(decodes, prefills) ==
    LET segs    == Segments(decodes, prefills)
        rows    == FlattenSeq([i \in DOMAIN segs |-> RowsOf(segs[i])])
        B       == Batch(segs)
        windowQ == IF prefills # <<>> \/ ~atLayer.merge THEN 1 ELSE Longest(B)
        kv      == Written(rows, RotaryPositions(B, segs), atStep + 1)
        out     == Attend(B, segs, rows, windowQ)
    IN  /\ atKV' = kv
        /\ atOut' = [q \in DOMAIN rows |->
                       [req |-> rows[q].req, pos |-> rows[q].pos, block |-> rows[q].block,
                        seen |-> {<<x[1], {kv[s] : s \in x[2]}>> : x \in out[q]}]]
        /\ atSpace' = IF atLayer.turbo /\ windowQ = 1 /\ Rows(B) > B.n /\ atLayer.window = 0
                      THEN [bytes |-> PlanBytes(B, TurboQuantPlan(B)),
                            refused |-> Len(TurboQuantPlan(B).ids) < Len(Candidates(B))]
                      ELSE [bytes |-> 0, refused |-> FALSE]
        /\ atToken' = [r \in AtReqs |-> [p \in 0..AtMaxLen - 1 |->
                         IF \E q \in DOMAIN rows : rows[q].req = r /\ rows[q].pos = p
                         THEN atStep + 1 ELSE atToken[r][p]]]

\* The requests of a step, and how many of their rows it computes.
Schedules ==
    {n \in [AtReqs -> 0..AtMaxLen] :
       /\ SumFunction(n) \in 1..AtBatched
       /\ \A r \in AtReqs :
            IF atLen[r] >= AtPrompt
            THEN n[r] <= Min({AtWindowQ, AtMaxLen - atLen[r]})
            ELSE n[r] <= AtPrompt - atLen[r]}

AttnStep ==
    /\ atStep < AtMaxSteps
    /\ \E n \in Schedules :
         LET inBatch(S) == SetToSortSeq({r \in S : n[r] > 0}, <)
             decoding   == inBatch({r \in AtReqs : atLen[r] >= AtPrompt})
             prefilling == inBatch({r \in AtReqs : atLen[r] < AtPrompt})
         IN  /\ Forward([i \in DOMAIN decoding |-> DecodeSegment(decoding[i], n[decoding[i]])],
                        [i \in DOMAIN prefilling |-> PrefillSegment(prefilling[i], n[prefilling[i]])])
             /\ \E kept \in [Range(decoding) -> 1..AtWindowQ] :
                  /\ \A r \in Range(decoding) : kept[r] <= n[r]
                  /\ atLen' = [r \in AtReqs |-> atLen[r] +
                                 (IF r \in Range(decoding) THEN kept[r] ELSE n[r])]
    /\ atStep' = atStep + 1
    /\ UNCHANGED <<atLayer, atFirst>>

AtNext == AttnStep
AtSpec == AtInit /\ [][AtNext]_atVars

-----------------------------------------------------------------------------
\* The keys row x may see: itself and what is before it, the rest of its block,
\* and no more than the window.
Visible(x) ==
    LET inBlock == x.block # <<>> /\ x.pos \in x.block[1]..x.block[2] - 1
        origin  == IF atLayer.image = "canvas" /\ inBlock THEN x.block[1] ELSE x.pos
    IN  {k \in 0..AtMaxLen - 1 :
           /\ k <= x.pos \/ (inBlock /\ k \in x.block[1]..x.block[2] - 1)
           /\ atLayer.window = 0 \/ origin - k < atLayer.window}

\* The primitive refuses block ranges when no segment has two rows.
ForwardRefused == atOut # <<>> /\ \A q \in DOMAIN atOut : atOut[q].seen = {}
LoneBlockRow ==
    /\ \E q \in DOMAIN atOut : atOut[q].block # <<>>
    /\ \A p, q \in DOMAIN atOut : p # q /\ atOut[p].req = atOut[q].req => atOut[q].pos >= AtPrompt

\* Whatever the batch was made of and however its rows were split over kernels,
\* each row is written once, from exactly the K/V its request last computed at
\* the positions the row may see; TurboQuant prefill stays inside the workspace
\* the worker reserved, which is enough for every request that qualifies. A
\* forward is refused only for the last row of a block, alone (BlockRowsServed).
AttentionReadsItsContext ==
    /\ IF ForwardRefused THEN LoneBlockRow
       ELSE \A q \in DOMAIN atOut :
              LET x == atOut[q]
              IN  /\ Cardinality(x.seen) = 1
                  /\ \A s \in x.seen :
                       s[2] = {<<Owner(x.req, k), k, atToken[x.req][k]>> : k \in Visible(x)}
    /\ atSpace.bytes <= atLayer.limit
    /\ atLayer.limit = WorkspaceUpperBound(atLayer.kernelBlock) => ~atSpace.refused

\* A batch without a multi-token segment never carries block ranges to the
\* tiled kernel (mm_prefix.py): false, for the one row a prefix-cache hit leaves
\* of a longer block.
BlockRowsServed == ~ForwardRefused

=============================================================================
