------------------------- MODULE HybridState_proofs -------------------------
(***************************************************************************)
(* The recurrent state of hybrid models follows the tokens, in both modes, *)
(* for any requests, blocks, block size, prompt and number of drafts.      *)
(***************************************************************************)
EXTENDS HybridState, Subsequences_proofs, FiniteSetTheorems

-----------------------------------------------------------------------------
(* The inductive invariant. *)

Content == [of : Req \cup {"junk", "prefix"}, depth : Int]
Component == [pool : [Block -> Content], slots : Seq(Block), rows : Seq(Content)]
Segment == [r : Req, start : Nat, n : Nat, commit : Nat, decode : BOOLEAN,
            src : Block \cup {NoBlock}, dst : Block]

(* A pending update has one row for each of its slots. *)
Whole(k) == k \in Component /\ Len(k.rows) = Len(k.slots) /\ Distinct(k.slots)

IsRow(row) ==
    /\ row = [i \in DOMAIN row |-> row[i]]
    /\ DOMAIN row \subseteq Nat /\ \A i \in DOMAIN row : row[i] \in Block

HybridTypes ==
    /\ mode \in {"none", "align"} /\ deferring \in BOOLEAN
    /\ Whole(conv) /\ Whole(rec)
    /\ step \in Seq(Segment) /\ stash = Verifying(step) /\ needs \in BOOLEAN
    /\ req = [r \in Req |-> req[r]]
    /\ \A r \in Req :
          /\ DOMAIN req[r] = {"phase", "known", "computed", "row", "kv", "drafts"}
          /\ req[r].phase \in {"out", "prefill", "decode", "done"}
          /\ req[r].known \in Nat \ {0} /\ req[r].computed \in Nat /\ req[r].drafts \in Nat
          /\ IsRow(req[r].row) /\ req[r].kv \in Block \cup {NoBlock}
    /\ zeroing \subseteq Block /\ copies \subseteq Block \X Block
    /\ cached \subseteq [content : Content, block : Block]
    /\ released \subseteq Req /\ preempts \in Nat

(* What a request has computed, knows and may verify next. *)
Progress ==
    \A r \in Req :
        IF r \in Live
        THEN /\ req[r].kv \in Block
             /\ req[r].computed <= MaxLen
             /\ req[r].computed > 0 => BlockOf(req[r].computed) \in DOMAIN req[r].row
             /\ req[r].known + req[r].drafts <= MaxLen \/ req[r].drafts = 0
             /\ req[r].phase = "prefill" =>
                   /\ req[r].computed < req[r].known /\ req[r].drafts = 0
                   /\ mode = "align" => req[r].computed % BlockSize = 0
             /\ req[r].phase = "decode" =>
                   /\ req[r].known = req[r].computed + 1
                   /\ mode = "align" => (req[r].computed % BlockSize) + req[r].drafts < BlockSize
        ELSE /\ req[r].kv = NoBlock /\ req[r].row = EmptyRow
             /\ req[r].computed = 0 /\ req[r].drafts = 0

(* The blocks that the next tokens of a request are written to. *)
Ahead(r) == {i \in DOMAIN req[r].row : i >= BlockOf(req[r].computed + 1)}

(* They are the request's alone, and so is the block of its attention KV.  *)
BlocksOwned ==
    \A r \in Live :
        /\ \A i \in Ahead(r) :
              /\ \A q \in Live \ {r} : req[r].row[i] \notin RowBlocks(q)
              /\ \A q \in Live : req[r].row[i] # req[q].kv
              /\ \A j \in DOMAIN req[r].row \ {i} : req[r].row[j] # req[r].row[i]
              /\ \A e \in cached : e.block # req[r].row[i]
              /\ req[r].row[i] \notin Ends(copies)
        /\ \A q \in Live : req[r].kv \notin RowBlocks(q) /\ (q # r => req[r].kv # req[q].kv)
        /\ \A e \in cached : e.block # req[r].kv
        /\ req[r].kv \notin Ends(copies)

(* Only checkpoints are shared and copied, and only by who is about to run. *)
CheckpointsKept ==
    /\ cached # {} => mode = "align"
    /\ \A e \in cached : /\ e.content.depth \in 1..MaxLen /\ e.content.depth % BlockSize = 0
                         /\ \A p \in copies : p[2] # e.block
    /\ copies # {} => mode = "align" /\ step = <<>>
    /\ \A p, q \in copies : p[1] # q[2] /\ (p[2] = q[2] => p = q)
    /\ copies # {} => \E r \in Live : req[r].kv \in zeroing
    /\ \A b \in zeroing : \E r \in Live : req[r].kv = b
    /\ step # <<>> => zeroing = {} /\ (mode = "align" => needs)

StepSound ==
    /\ \A i \in DOMAIN step : step[i].r \in Live /\ step[i] \in Segments(step[i].r)
    /\ \A i, j \in DOMAIN step : step[i].r = step[j].r => i = j

StateBlock(r) == req[r].row[BlockOf(req[r].computed)]

(* Where the state of a request is: behind the copy that is due. *)
Source(b) == IF \E p \in copies : p[2] = b THEN (CHOOSE p \in copies : p[2] = b)[1] ELSE b

(* What a component holds whether a step runs or not. *)
Kept(k) ==
    /\ \A e \in cached : k.pool[e.block] = e.content /\ e.block \notin Elems(k.slots)
    /\ \A r \in Live : req[r].kv \notin zeroing =>
          k.pool[req[r].kv] = KVOf(r) /\ req[r].kv \notin Elems(k.slots)
    /\ \A r \in Live : req[r].computed > 0 /\ (\A i \in DOMAIN step : step[i].r # r) =>
          Current(k, Source(StateBlock(r))) = StateOf(r, req[r].computed)

(* Between two steps nothing is parked over checkpoints; during a step what *)
(* is parked is the step's, and a span to verify can be scanned again.      *)
Parking(k) ==
    IF step = <<>> THEN mode = "align" => k.slots = <<>>
    ELSE /\ k.slots \in {<<>>, Slots(step)}
         /\ \A i \in DOMAIN step :
               /\ step[i].commit = step[i].n =>
                     Current(k, step[i].dst) = StateOf(step[i].r, step[i].start + step[i].n)
               /\ step[i].decode /\ step[i].n > 1 =>
                     /\ k.slots = Slots(step)
                     /\ k.pool[step[i].dst] = StateOf(step[i].r, step[i].start)

HybridInv ==
    /\ HybridTypes /\ Progress /\ BlocksOwned /\ CheckpointsKept /\ StepSound
    /\ Kept(conv) /\ Kept(rec) /\ Parking(conv) /\ Parking(rec)

-----------------------------------------------------------------------------
(* Arithmetic of blocks. *)

LEMMA DivModUnique ==
    ASSUME NEW F \in Nat \ {0}, NEW q \in Int, NEW s \in 0..(F - 1)
    PROVE  ((F * q) + s) \div F = q /\ ((F * q) + s) % F = s
  OBVIOUS

LEMMA DivMod ==
    ASSUME NEW F \in Nat \ {0}, NEW n \in Int
    PROVE  /\ (n \div F) \in Int /\ (n % F) \in 0..(F - 1)
           /\ n = (F * (n \div F)) + (n % F)
           /\ n \in Nat => (n \div F) \in Nat
  OBVIOUS

(* Quotients grow with what is divided. *)
LEMMA DivMonotone ==
    ASSUME NEW F \in Nat \ {0}, NEW a \in Int, NEW b \in Int, a <= b
    PROVE  a \div F <= b \div F
  <1> DEFINE p == a \div F
             q == b \div F
             s == a % F
             t == b % F
  <1>1. p \in Int /\ s \in 0..(F - 1) /\ a = (F * p) + s
    BY DivMod
  <1>2. q \in Int /\ t \in 0..(F - 1) /\ b = (F * q) + t
    BY DivMod
  <1> HIDE DEF p, q, s, t
  <1>3. SUFFICES ASSUME q + 1 <= p PROVE FALSE
    BY <1>1, <1>2 DEF p, q
  <1>4. F * (q + 1) <= F * p /\ F * (q + 1) = (F * q) + F
    BY <1>1, <1>2, <1>3
  <1> QED BY <1>1, <1>2, <1>4

LEMMA StrideType == Stride \in Nat \ {0}
  BY HybridAssumption DEF Stride

LEMMA BlockOfType ==
    ASSUME NEW n \in Nat
    PROVE  BlockOf(n) \in Int /\ (n > 0 => BlockOf(n) \in Nat)
  BY StrideType, DivMod DEF BlockOf

LEMMA BlockOfMonotone ==
    ASSUME NEW m \in Nat, NEW n \in Nat, m <= n
    PROVE  BlockOf(m) <= BlockOf(n)
  <1>1. m - 1 \in Int /\ n - 1 \in Int /\ m - 1 <= n - 1
    OBVIOUS
  <1> QED BY <1>1, StrideType, DivMonotone DEF BlockOf

(* A request with a state of its own keeps it in one block. *)
LEMMA OneBlock ==
    ASSUME mode # "align", NEW n \in 1..MaxLen
    PROVE  BlockOf(n) = 0
  <1>1. Stride = MaxLen /\ MaxLen \in Nat \ {0}
    BY HybridAssumption DEF Stride
  <1>2. n - 1 \in 0..(MaxLen - 1) /\ n - 1 = (MaxLen * 0) + (n - 1)
    BY <1>1
  <1>3. (n - 1) \div MaxLen = 0
    BY <1>1, <1>2, DivModUnique
  <1> QED BY <1>1, <1>3 DEF BlockOf

(* A full block is followed by another. *)
LEMMA FullBlock ==
    ASSUME mode = "align", NEW n \in Nat \ {0}, n % BlockSize = 0
    PROVE  BlockOf(n) < BlockOf(n + 1)
  <1>1. Stride = BlockSize /\ BlockSize \in Nat \ {0} /\ BlockSize > 1
    BY HybridAssumption DEF Stride
  <1> DEFINE q == n \div BlockSize
  <1>2. q \in Int /\ n = (BlockSize * q) + 0
    BY <1>1, DivMod
  <1>3. BlockOf(n + 1) = q
    BY <1>1 DEF BlockOf
  <1> HIDE DEF q
  <1>4. n - 1 = (BlockSize * (q - 1)) + (BlockSize - 1) /\ q - 1 \in Int /\ BlockSize - 1 \in 0..(BlockSize - 1)
    BY <1>1, <1>2
  <1>5. (n - 1) \div BlockSize = q - 1
    <2>1. ((BlockSize * (q - 1)) + (BlockSize - 1)) \div BlockSize = q - 1
      BY ONLY <1>1, <1>4, DivModUnique
    <2> QED BY ONLY <1>4, <2>1
  <1> QED BY <1>1, <1>2, <1>3, <1>5 DEF BlockOf

(* A span that its cap keeps inside a block. *)
LEMMA SpanInBlock ==
    ASSUME mode = "align", NEW a \in Nat, NEW d \in Nat, (a % BlockSize) + d < BlockSize
    PROVE  BlockOf(a + 1 + d) = BlockOf(a + 1)
  <1>1. Stride = BlockSize /\ BlockSize \in Nat \ {0}
    BY HybridAssumption DEF Stride
  <1> DEFINE q == a \div BlockSize
             s == a % BlockSize
  <1>2. q \in Int /\ s \in 0..(BlockSize - 1) /\ a = (BlockSize * q) + s
    BY <1>1, DivMod
  <1>3. s + d < BlockSize
    OBVIOUS
  <1>4. BlockOf(a + 1) = q /\ BlockOf(a + 1 + d) = (a + d) \div BlockSize
    <2>1. (a + 1) - 1 = a /\ (a + 1 + d) - 1 = a + d
      OBVIOUS
    <2> QED BY <1>1, <2>1 DEF BlockOf
  <1> HIDE DEF q, s
  <1>5. a + d = (BlockSize * q) + (s + d) /\ s + d \in 0..(BlockSize - 1)
    BY <1>1, <1>2, <1>3
  <1>6. (a + d) \div BlockSize = q
    BY <1>1, <1>2, <1>5, DivModUnique
  <1> QED BY <1>4, <1>6

-----------------------------------------------------------------------------
(* Components: what each operation does to the state a kernel would see.   *)

LEMMA WholeShape ==
    ASSUME NEW k, Whole(k)
    PROVE  /\ k = [pool |-> k.pool, slots |-> k.slots, rows |-> k.rows]
           /\ k.pool = [b \in Block |-> k.pool[b]] /\ \A b \in Block : k.pool[b] \in Content
           /\ k.slots \in Seq(Block) /\ k.rows \in Seq(Content) /\ DOMAIN k.slots = DOMAIN k.rows
           /\ Elems(k.slots) \subseteq Block
  <1>1. k \in Component /\ Len(k.rows) = Len(k.slots)
    BY DEF Whole
  <1> HIDE DEF Content
  <1>2. k = [pool |-> k.pool, slots |-> k.slots, rows |-> k.rows]
    BY <1>1 DEF Component
  <1>3. k.pool \in [Block -> Content] /\ k.slots \in Seq(Block) /\ k.rows \in Seq(Content)
    BY <1>1 DEF Component
  <1>4. DOMAIN k.slots = 1..Len(k.slots) /\ DOMAIN k.rows = 1..Len(k.rows)
    BY <1>3
  <1>5. Elems(k.slots) \subseteq Block
    BY <1>3 DEF Elems
  <1> QED BY <1>1, <1>2, <1>3, <1>4, <1>5

LEMMA PoolExcept ==
    ASSUME NEW k \in Component, NEW x \in [Block -> Content], NEW m, m = [k EXCEPT !.pool = x]
    PROVE  m \in Component /\ m.pool = x /\ m.slots = k.slots /\ m.rows = k.rows
  <1> DEFINE Pools == [Block -> Content]
             Lists == Seq(Block)
             Rows == Seq(Content)
  <1>1. k \in [pool : Pools, slots : Lists, rows : Rows] /\ x \in Pools
    BY DEF Component
  <1>2. Component = [pool : Pools, slots : Lists, rows : Rows]
    BY DEF Component
  <1> HIDE DEF Pools, Lists, Rows
  <1> QED BY <1>1, <1>2

LEMMA RowsExcept ==
    ASSUME NEW k \in Component, NEW z \in Seq(Content), NEW m, m = [k EXCEPT !.rows = z]
    PROVE  m \in Component /\ m.pool = k.pool /\ m.slots = k.slots /\ m.rows = z
  <1> DEFINE Pools == [Block -> Content]
             Lists == Seq(Block)
             Rows == Seq(Content)
  <1>1. k \in [pool : Pools, slots : Lists, rows : Rows] /\ z \in Rows
    BY DEF Component
  <1>2. Component = [pool : Pools, slots : Lists, rows : Rows]
    BY DEF Component
  <1> HIDE DEF Pools, Lists, Rows
  <1> QED BY <1>1, <1>2

(* The row of a slot, and the pool elsewhere. *)
LEMMA CurrentFacts ==
    ASSUME NEW k, Whole(k)
    PROVE  /\ \A i \in DOMAIN k.slots : Current(k, k.slots[i]) = k.rows[i]
           /\ \A b \in Block : b \notin Elems(k.slots) => Current(k, b) = k.pool[b]
           /\ \A b \in Block : Current(k, b) \in Content
  <1>1. k.slots \in Seq(Block) /\ k.rows \in Seq(Content) /\ DOMAIN k.slots = DOMAIN k.rows
        /\ \A b \in Block : k.pool[b] \in Content
    BY WholeShape
  <1>2. ASSUME NEW i \in DOMAIN k.slots PROVE Current(k, k.slots[i]) = k.rows[i]
    <2>1. k.slots[i] \in Elems(k.slots)
      BY DEF Elems
    <2>2. (CHOOSE j \in DOMAIN k.slots : k.slots[j] = k.slots[i]) = i
      BY DEF Whole, Distinct
    <2> QED BY <2>1, <2>2 DEF Current
  <1>3. ASSUME NEW b \in Block, b \notin Elems(k.slots) PROVE Current(k, b) = k.pool[b]
    BY <1>3 DEF Current
  <1>4. ASSUME NEW b \in Block PROVE Current(k, b) \in Content
    <2>1. CASE b \notin Elems(k.slots)
      BY <1>1, <1>3, <2>1
    <2>2. CASE b \in Elems(k.slots)
      <3>1. PICK i \in DOMAIN k.slots : b = k.slots[i]
        BY <2>2 DEF Elems
      <3>2. k.rows[i] \in Content
        <4> HIDE DEF Content
        <4> QED BY <1>1
      <3> QED BY <1>2, <3>1, <3>2
    <2> QED BY <2>1, <2>2
  <1> QED BY <1>2, <1>3, <1>4

(* Two whole components with nothing parked differ in their pools only. *)
LEMMA Settles ==
    ASSUME NEW pool, pool \in [Block -> Content], NEW m, m = [pool |-> pool, slots |-> <<>>, rows |-> <<>>]
    PROVE  /\ Whole(m) /\ m.slots = <<>> /\ Elems(m.slots) = {} /\ m.pool = pool
           /\ \A b \in Block : Current(m, b) = pool[b]
  <1>1. <<>> \in Seq(Block) /\ <<>> \in Seq(Content) /\ Len(<<>>) = 0 /\ Distinct(<<>>) /\ Elems(<<>>) = {}
    <2> HIDE DEF Content
    <2> QED BY DEF Distinct, Elems
  <1>2. m \in Component
    <2> HIDE DEF Content
    <2> QED BY <1>1 DEF Component
  <1> QED BY <1>1, <1>2 DEF Whole, Current

(* apply_pending_*_state: the pool takes what was parked. *)
LEMMA AppliedFacts ==
    ASSUME NEW k, Whole(k), NEW m, m = Applied(k)
    PROVE  /\ Whole(m) /\ m.slots = <<>> /\ Elems(m.slots) = {}
           /\ \A b \in Block : m.pool[b] = Current(k, b) /\ Current(m, b) = Current(k, b)
  <1> DEFINE pool == Scatter(k.pool, k.slots, k.rows)
  <1>1. pool = [b \in Block |-> Current(k, b)]
    BY DEF Scatter, Current
  <1>2. pool \in [Block -> Content]
    <2> HIDE DEF Content, pool
    <2> QED BY <1>1, CurrentFacts
  <1>3. m = [pool |-> pool, slots |-> <<>>, rows |-> <<>>]
    BY DEF Applied
  <1> HIDE DEF pool
  <1>4. Whole(m) /\ m.slots = <<>> /\ Elems(m.slots) = {} /\ m.pool = pool
        /\ \A b \in Block : Current(m, b) = pool[b]
    BY ONLY <1>2, <1>3, Settles
  <1> QED BY <1>1, <1>4

(* discard_pending_states: the pool is the state. *)
LEMMA DiscardedFacts ==
    ASSUME NEW k, Whole(k), NEW m, m = Discarded(k)
    PROVE  /\ Whole(m) /\ m.slots = <<>> /\ m.pool = k.pool /\ Elems(m.slots) = {}
           /\ \A b \in Block : Current(m, b) = k.pool[b]
  <1>1. k \in Component /\ <<>> \in Seq(Block) /\ <<>> \in Seq(Content)
    <2> HIDE DEF Content
    <2> QED BY DEF Whole
  <1>2. k.pool \in [Block -> Content]
    <2> HIDE DEF Content
    <2> QED BY <1>1 DEF Component
  <1>3. m \in Component /\ m.pool = k.pool /\ m.slots = <<>> /\ m.rows = <<>>
    <2>1. PICK none : none = <<>>
      OBVIOUS
    <2>2. m = [k EXCEPT !.slots = none, !.rows = none]
      BY <2>1 DEF Discarded
    <2> DEFINE Pools == [Block -> Content]
               Lists == Seq(Block)
               Rows == Seq(Content)
    <2>3. k \in [pool : Pools, slots : Lists, rows : Rows] /\ none \in Lists /\ none \in Rows
      BY <1>1, <2>1 DEF Component
    <2>4. Component = [pool : Pools, slots : Lists, rows : Rows]
      BY DEF Component
    <2> HIDE DEF Pools, Lists, Rows
    <2>5. m \in Component /\ m.pool = k.pool /\ m.slots = none /\ m.rows = none
      BY ONLY <2>2, <2>3, <2>4
    <2> QED BY <2>1, <2>5
  <1>4. Len(<<>>) = 0 /\ Distinct(<<>>) /\ Elems(<<>>) = {}
    BY DEF Distinct, Elems
  <1> QED BY <1>3, <1>4 DEF Whole, Current

(* set_pending_*_state: what was parked before is in the pool. *)
LEMMA ParkedFacts ==
    ASSUME NEW k, Whole(k), NEW slots \in Seq(Block), Distinct(slots),
           NEW rows \in Seq(Content), Len(rows) = Len(slots), NEW m, m = Parked(k, slots, rows)
    PROVE  /\ Whole(m) /\ m.slots = slots /\ m.rows = rows
           /\ \A b \in Block : m.pool[b] = Current(k, b)
           /\ \A i \in DOMAIN slots : Current(m, slots[i]) = rows[i]
           /\ \A b \in Block : b \notin Elems(slots) => Current(m, b) = Current(k, b)
  <1> DEFINE a == Applied(k)
  <1>1. Whole(a) /\ \A b \in Block : a.pool[b] = Current(k, b)
    BY AppliedFacts
  <1>2. m = [pool |-> a.pool, slots |-> slots, rows |-> rows]
    BY DEF Parked
  <1> HIDE DEF a
  <1>3. a.pool \in [Block -> Content]
    <2> HIDE DEF Content
    <2> QED BY <1>1, WholeShape
  <1>4. Whole(m)
    <2> HIDE DEF Content
    <2> QED BY <1>2, <1>3 DEF Whole, Component
  <1>5. /\ \A i \in DOMAIN m.slots : Current(m, m.slots[i]) = m.rows[i]
        /\ \A b \in Block : b \notin Elems(m.slots) => Current(m, b) = m.pool[b]
    BY <1>4, CurrentFacts
  <1> QED BY <1>1, <1>2, <1>4, <1>5

(* Writing the pool of a component. *)
LEMMA PoolWritten ==
    ASSUME NEW k, Whole(k), NEW pool, pool \in [Block -> Content],
           NEW m, m = [k EXCEPT !.pool = pool]
    PROVE  /\ Whole(m) /\ m.slots = k.slots /\ m.pool = pool
           /\ \A b \in Block : b \in Elems(k.slots) => Current(m, b) = Current(k, b)
           /\ \A b \in Block : b \notin Elems(k.slots) => Current(m, b) = pool[b]
  <1>1. k \in Component /\ <<>> \in Seq(Block) /\ <<>> \in Seq(Content)
    <2> HIDE DEF Content
    <2> QED BY DEF Whole
  <1>2. m \in Component /\ m.pool = pool /\ m.slots = k.slots /\ m.rows = k.rows
    BY <1>1, PoolExcept
  <1>3. Whole(m)
    BY <1>2 DEF Whole
  <1> QED BY <1>2, <1>3 DEF Current

(* apply_pending_states: nothing stays parked over the blocks touched. *)
LEMMA FlushedFacts ==
    ASSUME NEW k, Whole(k), NEW touched, NEW m, m = Flushed(k, touched)
    PROVE  /\ Whole(m) /\ m.slots \in {<<>>, k.slots}
           /\ Elems(m.slots) \cap touched = {} /\ Elems(m.slots) \subseteq Elems(k.slots)
           /\ \A b \in Block : Current(m, b) = Current(k, b)
  <1>1. CASE Elems(k.slots) \cap touched # {}
    <2>1. m = Applied(k)
      BY <1>1 DEF Flushed
    <2> QED BY <2>1, AppliedFacts
  <1>2. CASE Elems(k.slots) \cap touched = {}
    BY <1>2 DEF Flushed
  <1> QED BY <1>1, <1>2

(* zero_slots *)
LEMMA ZeroFacts ==
    ASSUME NEW k, Whole(k), NEW blocks, blocks \subseteq Block, NEW m, m = ZeroSlots(k, blocks)
    PROVE  /\ Whole(m) /\ m.slots \in {<<>>, k.slots}
           /\ Elems(m.slots) \cap blocks = {} /\ Elems(m.slots) \subseteq Elems(k.slots)
           /\ \A b \in blocks : Current(m, b) = Zero
           /\ \A b \in Block : b \notin blocks => Current(m, b) = Current(k, b)
  <1> DEFINE f == Flushed(k, blocks)
             pool == [b \in Block |-> IF b \in blocks THEN Zero ELSE f.pool[b]]
  <1>1. /\ Whole(f) /\ f.slots \in {<<>>, k.slots} /\ Elems(f.slots) \cap blocks = {}
        /\ Elems(f.slots) \subseteq Elems(k.slots)
        /\ \A b \in Block : Current(f, b) = Current(k, b)
    BY FlushedFacts
  <1>2. m = [f EXCEPT !.pool = pool]
    BY DEF ZeroSlots, Zeroed
  <1> HIDE DEF f
  <1>3. Zero \in Content /\ \A b \in Block : f.pool[b] \in Content
    <2>1. Zero \in Content
      BY DEF Zero, Content
    <2> HIDE DEF Content
    <2> QED BY <1>1, <2>1, WholeShape
  <1>4. pool \in [Block -> Content]
    <2> HIDE DEF Content
    <2> QED BY <1>3
  <1>5. /\ \A b \in blocks : pool[b] = Zero
        /\ \A b \in Block : b \notin blocks => pool[b] = f.pool[b]
    OBVIOUS
  <1> HIDE DEF pool
  <1>6. /\ Whole(m) /\ m.slots = f.slots
        /\ \A b \in Block : b \in Elems(f.slots) => Current(m, b) = Current(f, b)
        /\ \A b \in Block : b \notin Elems(f.slots) => Current(m, b) = pool[b]
    BY ONLY <1>1, <1>2, <1>4, PoolWritten
  <1>7. \A b \in Block : b \notin Elems(f.slots) => Current(f, b) = f.pool[b]
    BY <1>1, CurrentFacts
  <1> QED BY <1>1, <1>5, <1>6, <1>7

(* copy_slots: every block gets the state of its source. *)
LEMMA CopyFacts ==
    ASSUME NEW k, Whole(k), NEW pairs, pairs \subseteq Block \X Block,
           \A p, q \in pairs : p[2] = q[2] => p = q,
           NEW m, m = CopySlots(k, pairs)
    PROVE  /\ Whole(m) /\ m.slots \in {<<>>, k.slots}
           /\ Elems(m.slots) \subseteq Elems(k.slots)
           /\ \A p \in pairs : Current(m, p[2]) = Current(k, p[1])
           /\ \A b \in Block : (\A p \in pairs : p[2] # b) => Current(m, b) = Current(k, b)
  <1> DEFINE f == Flushed(k, Ends(pairs))
             pool == [b \in Block |->
                        IF \E p \in pairs : p[2] = b
                        THEN f.pool[(CHOOSE p \in pairs : p[2] = b)[1]] ELSE f.pool[b]]
  <1>1. /\ Whole(f) /\ f.slots \in {<<>>, k.slots} /\ Elems(f.slots) \cap Ends(pairs) = {}
        /\ Elems(f.slots) \subseteq Elems(k.slots)
        /\ \A b \in Block : Current(f, b) = Current(k, b)
    BY FlushedFacts
  <1>2. m = [f EXCEPT !.pool = pool]
    BY DEF CopySlots, Copied
  <1> HIDE DEF f
  <1>3. \A p \in pairs : p[1] \in Block /\ p[2] \in Block
                         /\ p[1] \in Ends(pairs) /\ p[2] \in Ends(pairs)
    BY DEF Ends
  <1>4. \A b \in Block : f.pool[b] \in Content
    <2> HIDE DEF Content
    <2> QED BY <1>1, WholeShape
  <1>5. \A p \in pairs : pool[p[2]] = f.pool[p[1]]
    <2> TAKE p \in pairs
    <2>1. (CHOOSE q \in pairs : q[2] = p[2]) = p
      OBVIOUS
    <2> QED BY <1>3, <2>1
  <1>6. \A b \in Block : (\A p \in pairs : p[2] # b) => pool[b] = f.pool[b]
    OBVIOUS
  <1>7. pool \in [Block -> Content]
    <2>1. pool = [b \in Block |-> pool[b]]
      OBVIOUS
    <2>2. \A b \in Block : pool[b] \in Content
      <3> HIDE DEF Content, pool
      <3> QED BY <1>3, <1>4, <1>5, <1>6
    <2> HIDE DEF Content, pool
    <2> QED BY <2>1, <2>2
  <1> HIDE DEF pool
  <1>8. /\ Whole(m) /\ m.slots = f.slots
        /\ \A b \in Block : b \in Elems(f.slots) => Current(m, b) = Current(f, b)
        /\ \A b \in Block : b \notin Elems(f.slots) => Current(m, b) = pool[b]
    BY ONLY <1>1, <1>2, <1>7, PoolWritten
  <1>9. \A b \in Block : b \notin Elems(f.slots) => Current(f, b) = f.pool[b]
    BY <1>1, CurrentFacts
  <1>10. \A p \in pairs : Current(m, p[2]) = Current(k, p[1])
    <2> TAKE p \in pairs
    <2>1. p[1] \notin Elems(f.slots) /\ p[2] \notin Elems(f.slots)
      BY <1>1, <1>3
    <2> QED BY <1>1, <1>3, <1>5, <1>8, <1>9, <2>1
  <1> QED BY <1>1, <1>6, <1>8, <1>9, <1>10

(* Attention layers write the KV of the segments' requests, nothing else. *)
LEMMA KVFacts ==
    ASSUME NEW k, Whole(k), NEW segs \in Seq(Segment),
           \A s \in Elems(segs) : req[s.r].kv \in Block,
           \A s, t \in Elems(segs) : req[s.r].kv = req[t.r].kv => s.r = t.r,
           NEW m, m = WithKV(k, segs)
    PROVE  /\ Whole(m) /\ m.slots = k.slots
           /\ \A s \in Elems(segs) : m.pool[req[s.r].kv] = KVOf(s.r)
           /\ \A b \in Block : (\A s \in Elems(segs) : req[s.r].kv # b) =>
                 m.pool[b] = k.pool[b] /\ Current(m, b) = Current(k, b)
  <1> DEFINE pool == [b \in Block |->
                        IF \E s \in Elems(segs) : req[s.r].kv = b
                        THEN KVOf((CHOOSE s \in Elems(segs) : req[s.r].kv = b).r)
                        ELSE k.pool[b]]
  <1>1. m = [k EXCEPT !.pool = pool]
    BY DEF WithKV
  <1>2. \A s \in Elems(segs) : s.r \in Req
    <2>1. \A i \in DOMAIN segs : segs[i] \in Segment
      OBVIOUS
    <2>2. \A s \in Segment : s.r \in Req
      BY DEF Segment
    <2> QED BY <2>1, <2>2 DEF Elems
  <1>3. ASSUME NEW s \in Elems(segs) PROVE pool[req[s.r].kv] = KVOf(s.r)
    <2> DEFINE t == CHOOSE t \in Elems(segs) : req[t.r].kv = req[s.r].kv
    <2>1. t \in Elems(segs) /\ req[t.r].kv = req[s.r].kv
      OBVIOUS
    <2>2. t.r = s.r
      BY <2>1
    <2>3. pool[req[s.r].kv] = KVOf(t.r)
      OBVIOUS
    <2> QED BY <2>2, <2>3
  <1>4. ASSUME NEW b \in Block, \A s \in Elems(segs) : req[s.r].kv # b PROVE pool[b] = k.pool[b]
    BY <1>4
  <1>5. pool \in [Block -> Content]
    <2>1. pool = [b \in Block |-> pool[b]]
      OBVIOUS
    <2>2. ASSUME NEW b \in Block PROVE pool[b] \in Content
      <3>1. CASE \E s \in Elems(segs) : req[s.r].kv = b
        <4>1. PICK s \in Elems(segs) : req[s.r].kv = b
          BY <3>1
        <4>2. pool[b] = KVOf(s.r) /\ s.r \in Req
          BY <1>2, <1>3, <4>1
        <4> QED BY <4>2 DEF KVOf, Content
      <3>2. CASE \A s \in Elems(segs) : req[s.r].kv # b
        <4>1. pool[b] = k.pool[b]
          BY <1>4, <3>2
        <4> QED BY <4>1, WholeShape
      <3> QED BY <3>1, <3>2
    <2> HIDE DEF pool
    <2> QED BY <2>1, <2>2
  <1> HIDE DEF pool
  <1>6. /\ Whole(m) /\ m.slots = k.slots /\ m.pool = pool
        /\ \A b \in Block : b \in Elems(k.slots) => Current(m, b) = Current(k, b)
        /\ \A b \in Block : b \notin Elems(k.slots) => Current(m, b) = pool[b]
    BY ONLY <1>1, <1>5, Whole(k), PoolWritten
  <1>7. \A b \in Block : b \notin Elems(k.slots) => Current(k, b) = k.pool[b]
    BY CurrentFacts
  <1> QED BY <1>3, <1>4, <1>6, <1>7

-----------------------------------------------------------------------------
(* Kernels: what a forward leaves in a component. *)

Ran(p, segs, m) ==
    /\ Whole(m) /\ m.slots \in {<<>>, Slots(segs)}
    /\ \A i \in DOMAIN segs :
          Current(m, segs[i].dst) = Advanced(Current(p, segs[i].dst), segs[i], segs[i].n)
    /\ \A b \in Block : b \notin Elems(Slots(segs)) => Current(m, b) = Current(p, b)
    /\ IsSpecVerify(segs) =>
          /\ m.slots = Slots(segs)
          /\ \A i \in DOMAIN segs : m.pool[segs[i].dst] = Current(p, segs[i].dst)

LEMMA SlotsFacts ==
    ASSUME NEW segs \in Seq(Segment), \A i \in DOMAIN segs : segs[i].dst \in Block
    PROVE  /\ Slots(segs) \in Seq(Block) /\ Len(Slots(segs)) = Len(segs)
           /\ DOMAIN Slots(segs) = DOMAIN segs
           /\ \A i \in DOMAIN segs : Slots(segs)[i] = segs[i].dst
  <1>1. DOMAIN segs = 1..Len(segs) /\ Len(segs) \in Nat
    OBVIOUS
  <1>2. Slots(segs) \in [1..Len(segs) -> Block]
    BY <1>1 DEF Slots
  <1> QED BY <1>1, <1>2 DEF Slots

LEMMA AdvancedType ==
    ASSUME NEW from, NEW seg \in Segment, NEW n \in Nat
    PROVE  Advanced(from, seg, n) \in Content
  <1>1. seg.r \in Req /\ seg.start \in Nat
    BY DEF Segment
  <1>2. Junk \in Content /\ StateOf(seg.r, seg.start + n) \in Content
    BY <1>1 DEF Junk, StateOf, Content
  <1> QED BY <1>2 DEF Advanced

LEMMA RowsFromFacts ==
    ASSUME NEW segs \in Seq(Segment), NEW states, NEW rows, rows = RowsFrom(states, segs)
    PROVE  /\ rows \in Seq(Content) /\ Len(rows) = Len(segs)
           /\ \A i \in DOMAIN segs : rows[i] = Advanced(states[i], segs[i], segs[i].n)
  <1>1. DOMAIN segs = 1..Len(segs) /\ Len(segs) \in Nat /\ \A i \in DOMAIN segs : segs[i] \in Segment
    OBVIOUS
  <1>2. \A i \in DOMAIN segs : segs[i].n \in Nat
    BY <1>1 DEF Segment
  <1>3. rows = [i \in 1..Len(segs) |-> Advanced(states[i], segs[i], segs[i].n)]
    BY <1>1 DEF RowsFrom
  <1>4. \A i \in 1..Len(segs) : Advanced(states[i], segs[i], segs[i].n) \in Content
    BY <1>1, <1>2, AdvancedType
  <1>5. rows \in [1..Len(segs) -> Content]
    BY <1>3, <1>4
  <1> QED BY <1>1, <1>3, <1>5

(* The view of a component is the state of the slots, parked or not. *)
LEMMA ViewFacts ==
    ASSUME NEW k, Whole(k), NEW slots \in Seq(Block), NEW seen, seen = Viewed(k, slots)
    PROVE  /\ Whole(seen) /\ \A b \in Block : Current(seen, b) = Current(k, b)
           /\ \A b \in Block : b \notin Elems(slots) => seen.pool[b] = Current(k, b)
           /\ \A i \in DOMAIN slots : View(k, slots)[i] = Current(k, slots[i])
  <1>1. CASE Matches(k, slots)
    <2>1. k.slots = slots /\ seen = k /\ View(k, slots) = k.rows
      BY <1>1 DEF Matches, Viewed, View
    <2> QED BY <2>1, CurrentFacts
  <1>2. CASE ~Matches(k, slots)
    <2> DEFINE a == Applied(k)
    <2>1. Whole(a) /\ \A b \in Block : a.pool[b] = Current(k, b) /\ Current(a, b) = Current(k, b)
      BY AppliedFacts
    <2>2. seen = a /\ View(k, slots) = [i \in DOMAIN slots |-> a.pool[slots[i]]]
      BY <1>2 DEF Viewed, View
    <2> HIDE DEF a
    <2>3. \A i \in DOMAIN slots : slots[i] \in Block
      OBVIOUS
    <2> QED BY <2>1, <2>2, <2>3
  <1> QED BY <1>1, <1>2

(* Rows written to the pool of a component with nothing parked. *)
LEMMA ScatterFacts ==
    ASSUME NEW pool \in [Block -> Content], NEW slots \in Seq(Block), Distinct(slots),
           NEW rows \in Seq(Content), Len(rows) = Len(slots), NEW new, new = Scatter(pool, slots, rows)
    PROVE  /\ new \in [Block -> Content]
           /\ \A i \in DOMAIN slots : new[slots[i]] = rows[i]
           /\ \A b \in Block : b \notin Elems(slots) => new[b] = pool[b]
  <1>1. DOMAIN slots = DOMAIN rows /\ \A i \in DOMAIN slots : slots[i] \in Block /\ rows[i] \in Content
    OBVIOUS
  <1>2. new = [b \in Block |-> IF b \in Elems(slots)
                              THEN rows[CHOOSE i \in DOMAIN slots : slots[i] = b] ELSE pool[b]]
    BY DEF Scatter
  <1>3. ASSUME NEW i \in DOMAIN slots PROVE new[slots[i]] = rows[i]
    <2>1. slots[i] \in Elems(slots)
      BY DEF Elems
    <2>2. (CHOOSE j \in DOMAIN slots : slots[j] = slots[i]) = i
      BY DEF Distinct
    <2> QED BY <1>1, <1>2, <2>1, <2>2
  <1>4. ASSUME NEW b \in Block, b \notin Elems(slots) PROVE new[b] = pool[b]
    BY <1>2, <1>4
  <1>5. ASSUME NEW b \in Block PROVE new[b] \in Content
    <2>1. CASE b \in Elems(slots)
      <3>1. PICK i \in DOMAIN slots : b = slots[i]
        BY <2>1 DEF Elems
      <3> QED BY <1>1, <1>3, <3>1
    <2>2. CASE b \notin Elems(slots)
      BY <1>4, <2>2
    <2> QED BY <2>1, <2>2
  <1> QED BY <1>2, <1>3, <1>4, <1>5

(* A kernel that parks its rows over the pool it read. *)
LEMMA ParkedRan ==
    ASSUME NEW p, Whole(p), NEW segs \in Seq(Segment), \A i \in DOMAIN segs : segs[i].dst \in Block,
           Distinct(Slots(segs)),
           NEW settled, settled = Applied(p), NEW m, m = Parked(settled, Slots(segs), PoolRows(settled, segs))
    PROVE  Ran(p, segs, m)
  <1> DEFINE slots == Slots(segs)
             states == [i \in DOMAIN segs |-> settled.pool[segs[i].dst]]
             rows == RowsFrom(states, segs)
  <1>1. /\ slots \in Seq(Block) /\ Len(slots) = Len(segs)
        /\ DOMAIN slots = DOMAIN segs /\ \A i \in DOMAIN segs : slots[i] = segs[i].dst
    BY SlotsFacts
  <1>2. Whole(settled) /\ \A b \in Block : settled.pool[b] = Current(p, b) /\ Current(settled, b) = Current(p, b)
    BY AppliedFacts
  <1>3. PoolRows(settled, segs) = rows
    BY DEF PoolRows
  <1>4. /\ rows \in Seq(Content) /\ Len(rows) = Len(segs)
        /\ \A i \in DOMAIN segs : rows[i] = Advanced(states[i], segs[i], segs[i].n)
    BY RowsFromFacts
  <1>5. \A i \in DOMAIN segs : states[i] = Current(p, segs[i].dst)
    BY <1>2
  <1> HIDE DEF slots, states, rows
  <1>6. Distinct(slots) /\ m = Parked(settled, slots, rows) /\ Len(rows) = Len(slots)
    BY <1>1, <1>3, <1>4 DEF slots
  <1>7. /\ Whole(m) /\ m.slots = slots
        /\ \A b \in Block : m.pool[b] = Current(settled, b)
        /\ \A i \in DOMAIN slots : Current(m, slots[i]) = rows[i]
        /\ \A b \in Block : b \notin Elems(slots) => Current(m, b) = Current(settled, b)
    BY ONLY <1>1, <1>2, <1>4, <1>6, ParkedFacts
  <1>8. \A i \in DOMAIN segs : Current(m, segs[i].dst) = Advanced(Current(p, segs[i].dst), segs[i], segs[i].n)
    BY <1>1, <1>4, <1>5, <1>7
  <1> QED BY <1>1, <1>2, <1>7, <1>8 DEF Ran, slots

(* A kernel that writes its rows through to the pool, what it read being   *)
(* dropped or in the pool already.                                         *)
LEMMA ScatteredRan ==
    ASSUME NEW p, Whole(p), NEW segs \in Seq(Segment), \A i \in DOMAIN segs : segs[i].dst \in Block,
           Distinct(Slots(segs)), ~IsSpecVerify(segs),
           NEW seen, Whole(seen), \A b \in Block : b \notin Elems(Slots(segs)) => seen.pool[b] = Current(p, b),
           seen.slots = <<>>,
           NEW states, \A i \in DOMAIN segs : states[i] = Current(p, segs[i].dst),
           NEW pool, pool = Scatter(seen.pool, Slots(segs), RowsFrom(states, segs)),
           NEW m, m = [seen EXCEPT !.pool = pool]
    PROVE  Ran(p, segs, m)
  <1> DEFINE slots == Slots(segs)
             rows == RowsFrom(states, segs)
  <1>1. /\ slots \in Seq(Block) /\ Len(slots) = Len(segs)
        /\ DOMAIN slots = DOMAIN segs /\ \A i \in DOMAIN segs : slots[i] = segs[i].dst
    BY SlotsFacts
  <1>2. /\ rows \in Seq(Content) /\ Len(rows) = Len(segs)
        /\ \A i \in DOMAIN segs : rows[i] = Advanced(states[i], segs[i], segs[i].n)
    BY RowsFromFacts
  <1>3. seen.pool \in [Block -> Content]
    BY WholeShape
  <1> HIDE DEF slots, rows
  <1>4. Distinct(slots) /\ pool = Scatter(seen.pool, slots, rows) /\ Len(rows) = Len(slots)
    BY <1>1, <1>2 DEF slots, rows
  <1>5. /\ pool \in [Block -> Content]
        /\ \A i \in DOMAIN slots : pool[slots[i]] = rows[i]
        /\ \A b \in Block : b \notin Elems(slots) => pool[b] = seen.pool[b]
    BY ONLY <1>1, <1>2, <1>3, <1>4, ScatterFacts
  <1>6. /\ Whole(m) /\ m.slots = <<>>
        /\ \A b \in Block : b \notin Elems(seen.slots) => Current(m, b) = pool[b]
    BY ONLY <1>5, Whole(seen), seen.slots = <<>>, m = [seen EXCEPT !.pool = pool], PoolWritten
  <1>7. Elems(seen.slots) = {}
    BY DEF Elems
  <1>8. \A i \in DOMAIN segs : Current(m, segs[i].dst) = Advanced(Current(p, segs[i].dst), segs[i], segs[i].n)
    <2> TAKE i \in DOMAIN segs
    <2>1. segs[i].dst \in Block /\ i \in DOMAIN slots /\ slots[i] = segs[i].dst
      BY <1>1
    <2>2. Current(m, segs[i].dst) = rows[i]
      BY <1>5, <1>6, <1>7, <2>1
    <2>3. rows[i] = Advanced(states[i], segs[i], segs[i].n)
      BY <1>2
    <2> QED BY <2>2, <2>3
  <1>9. \A b \in Block : b \notin Elems(slots) => Current(m, b) = Current(p, b)
    BY <1>5, <1>6, <1>7 DEF slots
  <1> QED BY <1>6, <1>8, <1>9 DEF Ran, slots

(* _run_conv *)
LEMMA ConvRan ==
    ASSUME NEW p, Whole(p), NEW segs \in Seq(Segment), \A i \in DOMAIN segs : segs[i].dst \in Block,
           Distinct(Slots(segs)), NEW m, m = ConvAfter(p, segs)
    PROVE  Ran(p, segs, m)
  <1>1. CASE AllDecode(segs) /\ ~IsSpecVerify(segs)
    <2> DEFINE slots == Slots(segs)
               seen == Viewed(p, slots)
               d == Discarded(seen)
               states == View(p, slots)
               pool == Scatter(d.pool, slots, RowsFrom(states, segs))
    <2>1. /\ slots \in Seq(Block) /\ DOMAIN slots = DOMAIN segs
          /\ \A i \in DOMAIN segs : slots[i] = segs[i].dst
      BY SlotsFacts
    <2> HIDE DEF slots
    <2>2. /\ Whole(seen) /\ \A b \in Block : b \notin Elems(slots) => seen.pool[b] = Current(p, b)
          /\ \A i \in DOMAIN slots : states[i] = Current(p, slots[i])
      BY <2>1, ViewFacts
    <2> HIDE DEF seen
    <2>3. Whole(d) /\ d.slots = <<>> /\ d.pool = seen.pool
      BY <2>2, DiscardedFacts
    <2>4. m = [d EXCEPT !.pool = pool]
      BY <1>1 DEF ConvAfter, slots, seen
    <2> HIDE DEF d, states
    <2>5. \A i \in DOMAIN segs : states[i] = Current(p, segs[i].dst)
      BY <2>1, <2>2
    <2>6. \A b \in Block : b \notin Elems(Slots(segs)) => d.pool[b] = Current(p, b)
      BY <2>2, <2>3 DEF slots
    <2>7. pool = Scatter(d.pool, Slots(segs), RowsFrom(states, segs))
      BY DEF slots
    <2> HIDE DEF pool
    <2> QED BY <1>1, <2>3, <2>4, <2>5, <2>6, <2>7, ScatteredRan
  <1>2. CASE ~(AllDecode(segs) /\ ~IsSpecVerify(segs))
    <2>1. m = Parked(Applied(p), Slots(segs), PoolRows(Applied(p), segs))
      BY <1>2 DEF ConvAfter
    <2> QED BY <2>1, ParkedRan
  <1> QED BY <1>1, <1>2

(* _run_recurrent *)
LEMMA RecRan ==
    ASSUME NEW p, Whole(p), NEW segs \in Seq(Segment), \A i \in DOMAIN segs : segs[i].dst \in Block,
           Distinct(Slots(segs)), NEW m, m = RecAfter(p, segs)
    PROVE  Ran(p, segs, m)
  <1> DEFINE settled == Applied(p)
  <1>1. CASE AllDecode(segs) /\ ~IsSpecVerify(segs)
    <2> DEFINE slots == Slots(segs)
               seen == Viewed(p, slots)
               d == Discarded(seen)
               states == View(p, slots)
               rows == RowsFrom(states, segs)
    <2>1. /\ slots \in Seq(Block) /\ DOMAIN slots = DOMAIN segs /\ Len(slots) = Len(segs)
          /\ \A i \in DOMAIN segs : slots[i] = segs[i].dst
      BY SlotsFacts
    <2>2. m = Parked(d, slots, rows)
      BY <1>1 DEF RecAfter
    <2>3. Distinct(slots)
      OBVIOUS
    <2> HIDE DEF slots
    <2>4. /\ Whole(seen) /\ \A b \in Block : b \notin Elems(slots) => seen.pool[b] = Current(p, b)
          /\ \A i \in DOMAIN slots : states[i] = Current(p, slots[i])
      BY <2>1, ViewFacts
    <2> HIDE DEF seen
    <2>5. Whole(d) /\ \A b \in Block : Current(d, b) = seen.pool[b]
      BY <2>4, DiscardedFacts
    <2> HIDE DEF d, states
    <2>6. /\ rows \in Seq(Content) /\ Len(rows) = Len(slots)
          /\ \A i \in DOMAIN segs : rows[i] = Advanced(states[i], segs[i], segs[i].n)
      BY <2>1, RowsFromFacts
    <2> HIDE DEF rows
    <2>7. /\ Whole(m) /\ m.slots = slots
          /\ \A i \in DOMAIN slots : Current(m, slots[i]) = rows[i]
          /\ \A b \in Block : b \notin Elems(slots) => Current(m, b) = Current(d, b)
      BY ONLY <2>1, <2>2, <2>3, <2>5, <2>6, ParkedFacts
    <2>8. \A i \in DOMAIN segs : Current(m, segs[i].dst) = Advanced(Current(p, segs[i].dst), segs[i], segs[i].n)
      BY <2>1, <2>4, <2>6, <2>7
    <2>9. \A b \in Block : b \notin Elems(slots) => Current(m, b) = Current(p, b)
      BY <2>4, <2>5, <2>7
    <2> QED BY <1>1, <2>7, <2>8, <2>9 DEF Ran, slots
  <1>2. CASE ~(AllDecode(segs) /\ ~IsSpecVerify(segs)) /\ ~OneTokenEach(segs) /\ DefersScatter(segs)
    <2>1. m = Parked(settled, Slots(segs), PoolRows(settled, segs))
      BY <1>2 DEF RecAfter
    <2> QED BY <2>1, ParkedRan
  <1>3. CASE ~(AllDecode(segs) /\ ~IsSpecVerify(segs)) /\ ~(~OneTokenEach(segs) /\ DefersScatter(segs))
    <2> DEFINE states == [i \in DOMAIN segs |-> settled.pool[segs[i].dst]]
               pool == Scatter(settled.pool, Slots(segs), RowsFrom(states, segs))
    <2>1. m = [settled EXCEPT !.pool = pool]
      BY <1>3 DEF RecAfter, PoolRows
    <2>2. ~IsSpecVerify(segs)
      BY <1>3 DEF IsSpecVerify, OneTokenEach, DefersScatter
    <2>3. Whole(settled) /\ settled.slots = <<>> /\ \A b \in Block : settled.pool[b] = Current(p, b)
      BY AppliedFacts
    <2> HIDE DEF settled
    <2>4. \A i \in DOMAIN segs : states[i] = Current(p, segs[i].dst)
      BY <2>3
    <2> HIDE DEF states
    <2>5. pool = Scatter(settled.pool, Slots(segs), RowsFrom(states, segs))
      OBVIOUS
    <2> HIDE DEF pool
    <2> QED BY <2>1, <2>2, <2>3, <2>4, <2>5, ScatteredRan
  <1> QED BY <1>1, <1>2, <1>3

-----------------------------------------------------------------------------
(* apply_spec_decode_acceptance *)

LEMMA VerifyingElems ==
    ASSUME NEW segs \in Seq(Segment)
    PROVE  /\ Verifying(segs) \in Seq(Segment)
           /\ \A s : s \in Elems(Verifying(segs)) <=> s \in Elems(segs) /\ s.decode /\ s.n > 1
  <1> DEFINE I == {i \in DOMAIN segs : segs[i].decode /\ segs[i].n > 1}
  <1>1. I = {i \in DOMAIN segs : segs[i].decode /\ segs[i].n > 1} /\ Verifying(segs) = Part(segs, I)
    BY DEF Verifying
  <1> HIDE DEF I
  <1>2. /\ Part(segs, I) \in Seq(Segment)
        /\ \A s : s \in Elems(Part(segs, I)) <=> \E i \in DOMAIN segs : i \in I /\ s = segs[i]
    BY PartElems
  <1>3. \A s : (\E i \in DOMAIN segs : i \in I /\ s = segs[i])
               <=> s \in Elems(segs) /\ s.decode /\ s.n > 1
    <2>1. ASSUME NEW s, NEW i \in DOMAIN segs, i \in I, s = segs[i]
          PROVE  s \in Elems(segs) /\ s.decode /\ s.n > 1
      BY <1>1, <2>1 DEF Elems
    <2>2. ASSUME NEW s, s \in Elems(segs), s.decode, s.n > 1
          PROVE  \E i \in DOMAIN segs : i \in I /\ s = segs[i]
      BY <1>1, <2>2 DEF Elems
    <2> QED BY <2>1, <2>2
  <1> QED BY <1>1, <1>2, <1>3

(* The spans that were accepted in part. *)
Partial == Part(stash, {i \in DOMAIN stash : stash[i].commit < stash[i].n})

LEMMA PartialElems ==
    ASSUME step \in Seq(Segment), stash = Verifying(step)
    PROVE  /\ Partial \in Seq(Segment)
           /\ \A s : s \in Elems(Partial) <=>
                s \in Elems(step) /\ s.decode /\ s.n > 1 /\ s.commit < s.n
  <1> DEFINE I == {i \in DOMAIN stash : stash[i].commit < stash[i].n}
  <1>1. I = {i \in DOMAIN stash : stash[i].commit < stash[i].n} /\ Partial = Part(stash, I)
    BY DEF Partial
  <1> HIDE DEF I
  <1>2. stash \in Seq(Segment) /\ \A s : s \in Elems(stash) <=> s \in Elems(step) /\ s.decode /\ s.n > 1
    BY VerifyingElems
  <1>3. /\ Part(stash, I) \in Seq(Segment)
        /\ \A s : s \in Elems(Part(stash, I)) <=> \E i \in DOMAIN stash : i \in I /\ s = stash[i]
    BY <1>2, PartElems
  <1>4. \A s : s \in Elems(Part(stash, I)) <=> s \in Elems(stash) /\ s.commit < s.n
    <2>1. ASSUME NEW s, NEW i \in DOMAIN stash, i \in I, s = stash[i]
          PROVE  s \in Elems(stash) /\ s.commit < s.n
      BY <1>1, <2>1 DEF Elems
    <2>2. ASSUME NEW s, s \in Elems(stash), s.commit < s.n
          PROVE  \E i \in DOMAIN stash : i \in I /\ s = stash[i]
      BY <1>1, <2>2 DEF Elems
    <2> QED BY <1>3, <2>1, <2>2, Zenon
  <1>5. Partial \in Seq(Segment)
    BY <1>1, <1>3, Zenon
  <1>6. \A s : s \in Elems(Partial) <=>
           s \in Elems(step) /\ s.decode /\ s.n > 1 /\ s.commit < s.n
    BY <1>1, <1>2, <1>4, Zenon
  <1> QED BY <1>2, <1>5, <1>6, Zenon

(* After acceptance every segment's state is that of its committed tokens. *)
LEMMA AcceptedFacts ==
    ASSUME NEW k, Whole(k), step \in Seq(Segment), stash = Verifying(step),
           \A i \in DOMAIN step : step[i].dst \in Block, Distinct(Slots(step)),
           \A i \in DOMAIN step : step[i].commit \in 1..step[i].n /\ (~step[i].decode => step[i].commit = step[i].n),
           step # <<>>, Parking(k), NEW m, m = Accepted(k)
    PROVE  /\ Whole(m) /\ m.slots = k.slots /\ m.pool = k.pool
           /\ \A i \in DOMAIN step :
                 Current(m, step[i].dst) = StateOf(step[i].r, step[i].start + step[i].commit)
           /\ \A b \in Block : b \notin Elems(Slots(step)) => Current(m, b) = Current(k, b)
  <1> DEFINE slots == Slots(Partial)
             updates == [i \in DOMAIN Partial |->
                           Advanced(k.pool[slots[i]], Partial[i], Partial[i].commit)]
             rows == MergedRows(k, slots, updates)
  <1>1. /\ Partial \in Seq(Segment)
        /\ \A s : s \in Elems(Partial) <=>
             s \in Elems(step) /\ s.decode /\ s.n > 1 /\ s.commit < s.n
    BY PartialElems
  <1>2. \A i \in DOMAIN step : step[i] \in Elems(step) /\ step[i] \in Segment
    BY DEF Elems
  <1>3. \A s \in Segment : s.start \in Nat /\ s.n \in Nat /\ s.commit \in Nat /\ s.r \in Req
    BY DEF Segment
  <1>4. /\ Slots(step) \in Seq(Block) /\ DOMAIN Slots(step) = DOMAIN step
        /\ \A i \in DOMAIN step : Slots(step)[i] = step[i].dst
    BY SlotsFacts
  <1>5. CASE Partial = <<>>
    <2>1. m = k
      BY <1>5 DEF Accepted, Partial
    <2>2. Elems(Partial) = {}
      BY <1>5 DEF Elems
    <2>3. \A i \in DOMAIN step : step[i].commit = step[i].n
      <3> TAKE i \in DOMAIN step
      <3>1. ~(step[i].decode /\ step[i].n > 1 /\ step[i].commit < step[i].n)
        BY <1>1, <1>2, <2>2
      <3> QED BY <1>2, <1>3, <3>1
    <2> QED BY <2>1, <2>3 DEF Parking
  <1>6. CASE Partial # <<>>
    <2>1. PICK s : s \in Elems(Partial)
      <3>1. Len(Partial) > 0
        BY <1>1, <1>6
      <3>2. Partial[1] \in Elems(Partial)
        BY <1>1, <3>1 DEF Elems
      <3> QED BY <3>2
    <2>2. PICK x \in DOMAIN step : step[x].decode /\ step[x].n > 1
      BY <1>1, <2>1 DEF Elems
    <2>3. k.slots = Slots(step)
      BY <2>2 DEF Parking
    <2>4. k.slots # <<>>
      BY <1>4, <2>2, <2>3
    <2>5. m = [k EXCEPT !.rows = rows]
      BY <1>6, <2>4 DEF Accepted, Rescanned, Partial
    <2>6. \A i \in DOMAIN Partial : Partial[i] \in Elems(Partial) /\ Partial[i] \in Segment
      BY <1>1 DEF Elems
    <2>7. /\ DOMAIN slots = DOMAIN Partial /\ \A j \in DOMAIN Partial : slots[j] = Partial[j].dst
      BY DEF Slots
    <2>8. k.rows \in Seq(Content) /\ DOMAIN k.slots = DOMAIN k.rows
      BY WholeShape
    <2>9. rows = [i \in DOMAIN k.rows |->
                    IF k.slots[i] \in Elems(slots)
                    THEN updates[CHOOSE j \in DOMAIN slots : slots[j] = k.slots[i]] ELSE k.rows[i]]
      BY DEF MergedRows
    <2>10. \A j \in DOMAIN Partial : updates[j] = Advanced(k.pool[Partial[j].dst], Partial[j], Partial[j].commit)
      BY <2>7
    <2> HIDE DEF slots, updates, rows
    <2>11. ASSUME NEW i \in DOMAIN step, step[i] \in Elems(Partial)
           PROVE  rows[i] = StateOf(step[i].r, step[i].start + step[i].commit)
      <3>1. PICK l \in DOMAIN Partial : step[i] = Partial[l]
        BY <2>11 DEF Elems
      <3>2. slots[l] = k.slots[i] /\ i \in DOMAIN k.rows /\ k.slots[i] \in Elems(slots)
        BY <1>4, <2>3, <2>7, <2>8, <3>1 DEF Elems
      <3>3. PICK j \in DOMAIN slots : slots[j] = k.slots[i] /\ rows[i] = updates[j]
        BY <2>7, <2>9, <3>2
      <3>4. Partial[j] = step[i]
        <4>1. PICK y \in DOMAIN step : Partial[j] = step[y]
          BY <1>1, <2>6, <2>7, <3>3 DEF Elems
        <4>2. Slots(step)[y] = Slots(step)[i]
          BY <1>4, <2>3, <2>7, <3>3, <4>1
        <4>3. y = i
          BY <1>4, <4>2 DEF Distinct
        <4> QED BY <4>1, <4>3
      <3>5. k.pool[step[i].dst] = StateOf(step[i].r, step[i].start)
        BY <1>1, <2>11 DEF Parking
      <3>6. rows[i] = Advanced(k.pool[step[i].dst], step[i], step[i].commit)
        BY <2>7, <2>10, <3>3, <3>4
      <3> QED BY <1>2, <1>3, <3>5, <3>6 DEF Advanced
    <2>12. ASSUME NEW i \in DOMAIN step, step[i] \notin Elems(Partial)
           PROVE  rows[i] = StateOf(step[i].r, step[i].start + step[i].commit)
      <3>1. k.slots[i] \notin Elems(slots)
        <4> SUFFICES ASSUME k.slots[i] \in Elems(slots) PROVE FALSE
          OBVIOUS
        <4>1. PICK j \in DOMAIN Partial : Partial[j].dst = step[i].dst
          BY <1>4, <2>3, <2>7 DEF Elems
        <4>2. PICK y \in DOMAIN step : Partial[j] = step[y]
          BY <1>1, <2>6 DEF Elems
        <4>3. Slots(step)[y] = Slots(step)[i]
          BY <1>4, <4>1, <4>2
        <4>4. y = i
          BY <1>4, <4>3 DEF Distinct
        <4> QED BY <2>6, <2>12, <4>2, <4>4
      <3>2. rows[i] = k.rows[i] /\ Current(k, k.slots[i]) = k.rows[i]
        BY <1>4, <2>3, <2>8, <2>9, <3>1, CurrentFacts
      <3>3. ~(step[i].decode /\ step[i].n > 1 /\ step[i].commit < step[i].n)
        BY <1>1, <1>2, <2>12
      <3>4. step[i].commit = step[i].n
        BY <1>2, <1>3, <3>3
      <3>5. Current(k, step[i].dst) = StateOf(step[i].r, step[i].start + step[i].n)
        BY <3>4 DEF Parking
      <3> QED BY <1>4, <2>3, <3>2, <3>4, <3>5
    <2>13. \A i \in DOMAIN step : rows[i] = StateOf(step[i].r, step[i].start + step[i].commit)
      BY <2>11, <2>12
    <2>14. rows \in Seq(Content) /\ Len(rows) = Len(k.slots)
      <3>1. DOMAIN k.rows = 1..Len(k.rows) /\ Len(k.rows) \in Nat /\ Len(k.slots) = Len(k.rows)
        BY <2>8 DEF Whole
      <3>2. ASSUME NEW i \in 1..Len(k.rows) PROVE rows[i] \in Content
        <4>1. i \in DOMAIN step
          BY <1>4, <2>3, <2>8, <3>1
        <4>2. rows[i] = StateOf(step[i].r, step[i].start + step[i].commit)
          BY <2>13, <4>1
        <4>3. step[i].r \in Req /\ step[i].start + step[i].commit \in Nat
          BY <1>2, <1>3, <4>1
        <4>4. \A r \in Req, n \in Nat : StateOf(r, n) \in Content
          BY DEF StateOf, Content
        <4> QED BY ONLY <4>2, <4>3, <4>4
      <3>3. rows \in [1..Len(k.rows) -> Content]
        BY <2>9, <3>1, <3>2
      <3>4. PICK l \in Nat : l = Len(k.rows) /\ l = Len(k.slots)
        BY <3>1
      <3>5. rows \in [1..l -> Content]
        BY <3>3, <3>4
      <3>6. rows \in Seq(Content) /\ Len(rows) = l
        BY ONLY <3>5, <3>4
      <3> QED BY ONLY <3>4, <3>6
    <2>15. k \in Component
      BY DEF Whole
    <2>16. m \in Component /\ m.pool = k.pool /\ m.slots = k.slots /\ m.rows = rows
      BY <2>5, <2>14, <2>15, RowsExcept
    <2>17. Whole(m)
      BY <2>14, <2>16 DEF Whole
    <2>18. \A i \in DOMAIN step : Current(m, step[i].dst) = rows[i]
      BY <1>4, <2>3, <2>16, <2>17, CurrentFacts
    <2>19. \A b \in Block : b \notin Elems(Slots(step)) => Current(m, b) = Current(k, b)
      BY <2>3, <2>16 DEF Current
    <2> QED BY <2>13, <2>16, <2>17, <2>18, <2>19
  <1> QED BY <1>5, <1>6

-----------------------------------------------------------------------------
(* Segments of a step. *)

HybridBooks == HybridTypes /\ Progress /\ BlocksOwned /\ CheckpointsKept /\ StepSound

SegmentSound(s) ==
    /\ s \in Segment /\ s.r \in Live /\ s.start = req[s.r].computed
    /\ s.decode <=> req[s.r].phase = "decode"
    /\ s.n >= 1 /\ s.commit \in 1..s.n /\ (~s.decode => s.commit = s.n)
    /\ s.start + s.n <= MaxLen /\ s.start + s.n <= req[s.r].known + req[s.r].drafts
    /\ BlockOf(s.start + s.n) \in Ahead(s.r) /\ s.dst = req[s.r].row[BlockOf(s.start + s.n)]
    /\ s.dst \in Block
    /\ BlockOf(s.start + s.commit) = BlockOf(s.start + s.n)
    /\ s.start > 0 => s.src = StateBlock(s.r) /\ s.src \in Block /\ (mode # "align" => s.src = s.dst)
    /\ ~s.decode /\ mode = "align" =>
          (s.start + s.n) % BlockSize = 0 \/ s.start + s.n = req[s.r].known

(* What a live request is known to be. *)
LEMMA LiveFacts ==
    ASSUME HybridTypes, Progress, NEW r \in Live
    PROVE  /\ r \in Req /\ req[r].phase \in {"prefill", "decode"}
           /\ req[r].known \in Nat \ {0} /\ req[r].computed \in Nat /\ req[r].drafts \in Nat
           /\ req[r].kv \in Block /\ req[r].computed <= MaxLen /\ IsRow(req[r].row)
           /\ \A i \in DOMAIN req[r].row : req[r].row[i] \in RowBlocks(r) /\ req[r].row[i] \in Block
           /\ RowBlocks(r) \subseteq Block
           /\ req[r].computed > 0 => BlockOf(req[r].computed) \in DOMAIN req[r].row
                                     /\ StateBlock(r) \in RowBlocks(r) /\ StateBlock(r) \in Block
           /\ req[r].known + req[r].drafts <= MaxLen \/ req[r].drafts = 0
           /\ req[r].phase = "prefill" =>
                 /\ req[r].computed < req[r].known /\ req[r].drafts = 0
                 /\ mode = "align" => req[r].computed % BlockSize = 0
           /\ req[r].phase = "decode" =>
                 /\ req[r].known = req[r].computed + 1
                 /\ mode = "align" => (req[r].computed % BlockSize) + req[r].drafts < BlockSize
  <1>1. r \in Req /\ req[r].phase \in {"prefill", "decode"}
    BY DEF Live
  <1>2. /\ req[r].known \in Nat \ {0} /\ req[r].computed \in Nat /\ req[r].drafts \in Nat
        /\ IsRow(req[r].row)
    BY <1>1 DEF HybridTypes
  <1>3. \A i \in DOMAIN req[r].row : req[r].row[i] \in RowBlocks(r) /\ req[r].row[i] \in Block
    BY <1>2 DEF IsRow, RowBlocks
  <1>4. RowBlocks(r) \subseteq Block
    BY <1>3 DEF RowBlocks
  <1>5. /\ req[r].kv \in Block
        /\ req[r].computed <= MaxLen
        /\ req[r].computed > 0 => BlockOf(req[r].computed) \in DOMAIN req[r].row
        /\ req[r].known + req[r].drafts <= MaxLen \/ req[r].drafts = 0
        /\ req[r].phase = "prefill" =>
              /\ req[r].computed < req[r].known /\ req[r].drafts = 0
              /\ mode = "align" => req[r].computed % BlockSize = 0
        /\ req[r].phase = "decode" =>
              /\ req[r].known = req[r].computed + 1
              /\ mode = "align" => (req[r].computed % BlockSize) + req[r].drafts < BlockSize
    BY <1>1 DEF Progress
  <1>6. req[r].computed > 0 => StateBlock(r) \in RowBlocks(r) /\ StateBlock(r) \in Block
    BY <1>3, <1>5 DEF StateBlock
  <1> QED BY <1>1, <1>2, <1>3, <1>4, <1>5, <1>6

LEMMA SegmentFacts ==
    ASSUME HybridTypes, Progress, NEW r \in Live, NEW s \in Segments(r)
    PROVE  SegmentSound(s) /\ s.r = r
  <1>1. PICK n \in Schedulable(r) : \E commit \in 1..(MaxLen + 1) :
           /\ commit <= n /\ (req[r].phase = "prefill" => commit = n)
           /\ s = SegmentOf(r, n, commit)
    BY DEF Segments
  <1>2. PICK commit \in 1..(MaxLen + 1) :
           /\ commit <= n /\ (req[r].phase = "prefill" => commit = n)
           /\ s = SegmentOf(r, n, commit)
    BY <1>1
  <1> DEFINE start == req[r].computed
             q == req[r]
  <1>3. /\ r \in Req /\ q.phase \in {"prefill", "decode"} /\ start \in Nat
        /\ q.known \in Nat \ {0} /\ q.drafts \in Nat /\ start <= MaxLen
        /\ \A i \in DOMAIN q.row : q.row[i] \in Block
        /\ start > 0 => BlockOf(start) \in DOMAIN q.row
        /\ q.known + q.drafts <= MaxLen \/ q.drafts = 0
        /\ q.phase = "prefill" => start < q.known /\ q.drafts = 0
        /\ q.phase = "decode" =>
              /\ q.known = start + 1
              /\ mode = "align" => (start % BlockSize) + q.drafts < BlockSize
    BY LiveFacts
  <1>4. /\ n \in 1..(q.known + q.drafts - start) /\ q.known <= MaxLen
        /\ BlockOf(start + n) \in DOMAIN q.row
        /\ (q.phase = "prefill" /\ mode = "align") =>
              (start + n) % BlockSize = 0 \/ start + n = q.known
    BY <1>1 DEF Schedulable
  <1>5. /\ s.r = r /\ s.start = start /\ s.n = n /\ s.commit = commit
        /\ s.decode = (q.phase = "decode")
        /\ s.src = (IF start = 0 THEN NoBlock ELSE q.row[BlockOf(start)])
        /\ s.dst = q.row[BlockOf(start + n)]
        /\ s = [r |-> r, start |-> start, n |-> n, commit |-> commit,
                decode |-> q.phase = "decode", src |-> s.src, dst |-> s.dst]
    BY <1>2 DEF SegmentOf
  <1> HIDE DEF start, q
  <1>6. MaxLen \in Nat \ {0}
    BY HybridAssumption
  <1>7. n \in Nat /\ n >= 1 /\ commit \in 1..n /\ commit \in Nat /\ start + n \in Nat /\ start + 1 \in Nat
        /\ start + n <= q.known + q.drafts /\ start + n <= MaxLen
    BY <1>2, <1>3, <1>4, <1>6
  <1>8. s.dst \in Block /\ (start > 0 => s.src \in Block) /\ s.src \in Block \cup {NoBlock}
    BY <1>3, <1>4, <1>5
  <1>9. s \in Segment
    <2>1. r \in Req /\ start \in Nat /\ n \in Nat /\ commit \in Nat /\ (q.phase = "decode") \in BOOLEAN
      BY <1>3, <1>7
    <2> QED BY ONLY <1>5, <1>8, <2>1 DEF Segment
  <1>10. BlockOf(start + n) \in Ahead(r)
    <2>1. BlockOf(start + 1) <= BlockOf(start + n) /\ start + 1 <= start + n
      BY <1>3, <1>7, BlockOfMonotone
    <2> QED BY <1>4, <2>1 DEF Ahead, start, q
  <1>11. BlockOf(start + commit) = BlockOf(start + n)
    <2>1. CASE mode # "align"
      <3>1. start + commit \in 1..MaxLen /\ start + n \in 1..MaxLen
        BY <1>3, <1>6, <1>7
      <3> QED BY <2>1, <3>1, OneBlock
    <2>2. CASE mode = "align" /\ q.phase = "prefill"
      <3>1. commit = n
        BY <1>2, <2>2 DEF q
      <3> QED BY <3>1
    <2>3. CASE mode = "align" /\ q.phase = "decode"
      <3>1. n <= 1 + q.drafts /\ (start % BlockSize) + q.drafts < BlockSize
        BY <1>3, <1>7, <2>3
      <3>2. BlockSize \in Nat \ {0} /\ (start % BlockSize) \in Nat
        BY <1>3, HybridAssumption
      <3>3. (start % BlockSize) + (n - 1) < BlockSize /\ (start % BlockSize) + (commit - 1) < BlockSize
        BY <1>3, <1>7, <3>1, <3>2
      <3>4. n - 1 \in Nat /\ commit - 1 \in Nat /\ start + 1 + (n - 1) = start + n
            /\ start + 1 + (commit - 1) = start + commit
        BY <1>3, <1>7
      <3>5. BlockOf(start + 1 + (n - 1)) = BlockOf(start + 1)
        BY <1>3, <2>3, <3>3, <3>4, SpanInBlock
      <3>6. BlockOf(start + 1 + (commit - 1)) = BlockOf(start + 1)
        BY <1>3, <2>3, <3>3, <3>4, SpanInBlock
      <3> QED BY <3>4, <3>5, <3>6
    <2> QED BY <1>3, <2>1, <2>2, <2>3
  <1>12. mode # "align" /\ start > 0 => s.src = s.dst
    <2> SUFFICES ASSUME mode # "align", start > 0 PROVE s.src = s.dst
      OBVIOUS
    <2>1. start \in 1..MaxLen /\ start + n \in 1..MaxLen
      BY <1>3, <1>6, <1>7
    <2>2. BlockOf(start) = BlockOf(start + n)
      BY <2>1, OneBlock
    <2> QED BY <1>3, <1>5, <2>2
  <1>13. start > 0 => s.src = StateBlock(r)
    BY <1>5 DEF StateBlock, q, start
  <1>14. ~s.decode => commit = n /\ q.phase = "prefill"
    BY <1>2, <1>3, <1>5 DEF q
  <1> QED
    BY <1>4, <1>5, <1>7, <1>8, <1>9, <1>10, <1>11, <1>12, <1>13, <1>14 DEF SegmentSound, q, start

(* Segments of different requests write different blocks. *)
LEMMA SlotsDistinct ==
    ASSUME HybridTypes, Progress, BlocksOwned, NEW segs \in Seq(Segment),
           \A i \in DOMAIN segs : SegmentSound(segs[i]),
           \A i, j \in DOMAIN segs : segs[i].r = segs[j].r => i = j
    PROVE  Distinct(Slots(segs))
  <1>1. DOMAIN Slots(segs) = DOMAIN segs /\ \A i \in DOMAIN segs : Slots(segs)[i] = segs[i].dst
    BY DEF Slots
  <1>2. ASSUME NEW i \in DOMAIN segs, NEW j \in DOMAIN segs, segs[i].r # segs[j].r
        PROVE  segs[i].dst # segs[j].dst
    <2> DEFINE s == segs[i]
               t == segs[j]
    <2>1. /\ s.r \in Live /\ BlockOf(s.start + s.n) \in Ahead(s.r) /\ s.dst = req[s.r].row[BlockOf(s.start + s.n)]
      BY DEF SegmentSound
    <2>2. /\ t.r \in Live /\ BlockOf(t.start + t.n) \in Ahead(t.r) /\ t.dst = req[t.r].row[BlockOf(t.start + t.n)]
      BY DEF SegmentSound
    <2> HIDE DEF s, t
    <2>3. s.dst \notin RowBlocks(t.r)
      BY <1>2, <2>1, <2>2 DEF BlocksOwned, s, t
    <2>4. t.dst \in RowBlocks(t.r)
      BY <2>2 DEF Ahead, RowBlocks
    <2> QED BY <2>3, <2>4 DEF s, t
  <1> QED BY <1>1, <1>2 DEF Distinct

LEMMA BatchFacts ==
    ASSUME HybridBooks, NEW segs \in Batches
    PROVE  /\ segs \in Seq(Segment) /\ segs # <<>>
           /\ \A i \in DOMAIN segs : SegmentSound(segs[i]) /\ segs[i] \in Segments(segs[i].r)
           /\ \A i, j \in DOMAIN segs : segs[i].r = segs[j].r => i = j
           /\ Distinct(Slots(segs))
           /\ \A r \in Live : req[r].kv \in zeroing => \E i \in DOMAIN segs : segs[i].r = r
  <1>1. HybridTypes /\ Progress /\ BlocksOwned
    BY DEF HybridBooks
  <1>2. Cardinality(Live) \in Nat
    <2>1. Live \subseteq Req /\ IsFiniteSet(Req)
      BY HybridAssumption DEF Live
    <2> QED BY <2>1, FS_Subset, FS_CardinalityType
  <1>3. PICK k \in 1..Cardinality(Live) : segs \in [1..k -> UNION {Segments(r) : r \in Live}]
    BY DEF Batches
  <1>4. k \in Nat /\ k >= 1
    BY <1>2
  <1>5. ASSUME NEW i \in 1..k
        PROVE  SegmentSound(segs[i]) /\ segs[i] \in Segments(segs[i].r)
    <2>1. PICK r \in Live : segs[i] \in Segments(r)
      BY <1>3
    <2> QED BY <1>1, <2>1, SegmentFacts
  <1>6. \A i \in 1..k : segs[i] \in Segment
    BY <1>5 DEF SegmentSound
  <1>7. segs \in Seq(Segment) /\ DOMAIN segs = 1..k /\ segs # <<>>
    <2>1. segs \in [1..k -> Segment]
      BY <1>3, <1>6
    <2> QED BY <1>4, <2>1
  <1>8. /\ \A i, j \in DOMAIN segs : i < j => segs[i].r # segs[j].r
        /\ \A r \in Live : req[r].kv \in zeroing => \E i \in DOMAIN segs : segs[i].r = r
    BY DEF Batches
  <1>9. \A i, j \in DOMAIN segs : segs[i].r = segs[j].r => i = j
    <2> TAKE i \in DOMAIN segs, j \in DOMAIN segs
    <2>1. i \in Nat /\ j \in Nat
      BY <1>4, <1>7
    <2> QED BY <1>8, <2>1
  <1>10. Distinct(Slots(segs))
    BY <1>1, <1>5, <1>7, <1>9, SlotsDistinct
  <1> QED BY <1>5, <1>7, <1>8, <1>9, <1>10

-----------------------------------------------------------------------------
(* What the forward's kernels find: the state of every segment in its slot, *)
(* and everything that was to be kept.                                      *)

Ready(p, segs) ==
    /\ Whole(p) /\ (mode = "align" => p.slots = <<>>)
    /\ \A i \in DOMAIN segs : Current(p, segs[i].dst) = StateOf(segs[i].r, segs[i].start)
    /\ \A r \in Live : req[r].computed > 0 /\ (\A i \in DOMAIN segs : segs[i].r # r) =>
          Current(p, StateBlock(r)) = StateOf(r, req[r].computed)
    /\ \A r \in Live : p.pool[req[r].kv] = KVOf(r) /\ req[r].kv \notin Elems(p.slots)
    /\ \A e \in cached : p.pool[e.block] = e.content /\ e.block \notin Elems(p.slots)

(* zero_blocks and copy_blocks: each request's state is where it reads it. *)
LEMMA CopiesDone ==
    ASSUME HybridBooks, step = <<>>, NEW k, Whole(k), Kept(k), Parking(k),
           NEW m, m = CopySlots(ZeroSlots(k, zeroing), copies)
    PROVE  /\ Whole(m) /\ (mode = "align" => m.slots = <<>>)
           /\ \A r \in Live : req[r].computed > 0 => Current(m, StateBlock(r)) = StateOf(r, req[r].computed)
           /\ \A r \in Live : /\ req[r].kv \notin Elems(m.slots)
                              /\ req[r].kv \notin zeroing => Current(m, req[r].kv) = KVOf(r)
           /\ \A e \in cached : Current(m, e.block) = e.content
  <1> DEFINE z == ZeroSlots(k, zeroing)
  <1>1. HybridTypes /\ Progress /\ BlocksOwned /\ CheckpointsKept
    BY DEF HybridBooks
  <1>2. zeroing \subseteq Block /\ copies \subseteq Block \X Block
        /\ \A e \in cached : e.block \in Block
    BY <1>1 DEF HybridTypes
  <1>3. /\ Whole(z) /\ z.slots \in {<<>>, k.slots}
        /\ Elems(z.slots) \cap zeroing = {} /\ Elems(z.slots) \subseteq Elems(k.slots)
        /\ \A b \in Block : b \notin zeroing => Current(z, b) = Current(k, b)
    BY <1>2, ZeroFacts
  <1>4. \A p, q \in copies : p[2] = q[2] => p = q
    BY <1>1 DEF CheckpointsKept
  <1> HIDE DEF z
  <1>5. m = CopySlots(z, copies)
    BY DEF z
  <1>6. /\ Whole(m) /\ m.slots \in {<<>>, z.slots}
        /\ Elems(m.slots) \subseteq Elems(z.slots)
        /\ \A p \in copies : Current(m, p[2]) = Current(z, p[1])
        /\ \A b \in Block : (\A p \in copies : p[2] # b) => Current(m, b) = Current(z, b)
    BY ONLY <1>2, <1>3, <1>4, <1>5, CopyFacts
  <1>7. mode = "align" => m.slots = <<>>
    BY <1>3, <1>6 DEF Parking
  <1>8. \A b \in zeroing : \E q \in Live : req[q].kv = b
    BY <1>1 DEF CheckpointsKept
  <1>9. ASSUME NEW r \in Live, req[r].computed > 0
        PROVE  Current(m, StateBlock(r)) = StateOf(r, req[r].computed)
    <2> DEFINE b == StateBlock(r)
    <2>1. b \in Block /\ b \in RowBlocks(r)
      BY <1>1, <1>9, LiveFacts
    <2>2. Current(k, Source(b)) = StateOf(r, req[r].computed)
      BY <1>9 DEF Kept
    <2>3. \A q \in Live : req[q].kv # b
      BY <1>1, <2>1 DEF BlocksOwned
    <2> HIDE DEF b
    <2>4. CASE \E p \in copies : p[2] = b
      <3> DEFINE p == CHOOSE p \in copies : p[2] = b
      <3>1. p \in copies /\ p[2] = b /\ Source(b) = p[1]
        BY <2>4 DEF Source
      <3> HIDE DEF p
      <3>2. p[1] \in Ends(copies) /\ p[1] \in Block
        BY <1>2, <3>1 DEF Ends
      <3>3. p[1] \notin zeroing
        BY <1>1, <1>8, <3>2 DEF BlocksOwned
      <3> QED BY <1>3, <1>6, <2>2, <3>1, <3>2, <3>3 DEF b
    <2>5. CASE \A p \in copies : p[2] # b
      <3>1. Source(b) = b
        BY <2>5 DEF Source
      <3>2. b \notin zeroing
        BY <1>8, <2>3
      <3> QED BY <1>3, <1>6, <2>1, <2>2, <2>5, <3>1, <3>2 DEF b
    <2> QED BY <2>4, <2>5
  <1>10. ASSUME NEW r \in Live
         PROVE  /\ req[r].kv \notin Elems(m.slots)
                /\ req[r].kv \notin zeroing => Current(m, req[r].kv) = KVOf(r)
    <2>1. req[r].kv \in Block
      BY <1>1, LiveFacts
    <2>2. CASE req[r].kv \in zeroing
      BY <1>3, <1>6, <2>2
    <2>3. CASE req[r].kv \notin zeroing
      <3>1. k.pool[req[r].kv] = KVOf(r) /\ req[r].kv \notin Elems(k.slots)
        BY <2>3 DEF Kept
      <3>2. Current(k, req[r].kv) = KVOf(r)
        BY <2>1, <3>1, CurrentFacts
      <3>3. req[r].kv \notin Ends(copies)
        BY <1>1 DEF BlocksOwned
      <3>4. \A p \in copies : p[2] # req[r].kv
        BY <3>3 DEF Ends
      <3> QED BY <1>3, <1>6, <2>1, <2>3, <3>1, <3>2, <3>4
    <2> QED BY <2>2, <2>3
  <1>11. ASSUME NEW e \in cached PROVE Current(m, e.block) = e.content
    <2>1. k.pool[e.block] = e.content /\ e.block \notin Elems(k.slots) /\ e.block \in Block
      BY <1>2 DEF Kept
    <2>2. Current(k, e.block) = e.content
      BY <2>1, CurrentFacts
    <2>3. e.block \notin zeroing
      BY <1>1, <1>8 DEF BlocksOwned
    <2>4. \A p \in copies : p[2] # e.block
      BY <1>1 DEF CheckpointsKept
    <2> QED BY <1>3, <1>6, <2>1, <2>2, <2>3, <2>4
  <1> QED BY <1>6, <1>7, <1>9, <1>10, <1>11

(* populate_step_context and the attention layers behind it. *)
LEMMA PreparedReady ==
    ASSUME HybridBooks, step = <<>>, NEW segs \in Batches, NEW k, Whole(k), Kept(k), Parking(k),
           NEW p, p = Prepared(k, segs)
    PROVE  Ready(p, segs)
  <1> DEFINE c == CopySlots(ZeroSlots(k, zeroing), copies)
             settled == IF mode = "align" THEN Applied(c) ELSE c
             fresh == {s.dst : s \in {t \in Elems(segs) : t.start = 0}}
             moved == {<<s.src, s.dst>> : s \in {t \in Elems(segs) : t.start # 0 /\ t.src # t.dst}}
             z == ZeroSlots(settled, fresh)
             w == CopySlots(z, moved)
  <1>1. HybridTypes /\ Progress /\ BlocksOwned /\ CheckpointsKept
    BY DEF HybridBooks
  <1>2. /\ segs \in Seq(Segment)
        /\ \A i \in DOMAIN segs : SegmentSound(segs[i])
        /\ \A i, j \in DOMAIN segs : segs[i].r = segs[j].r => i = j
        /\ \A r \in Live : req[r].kv \in zeroing => \E i \in DOMAIN segs : segs[i].r = r
    BY BatchFacts
  <1>3. \A s \in Elems(segs) : SegmentSound(s)
    BY <1>2 DEF Elems
  <1>4. \A s, t \in Elems(segs) : s.r = t.r => s = t
    BY <1>2 DEF Elems
  <1>5. p = WithKV(w, segs)
    BY DEF Prepared, Populated
  <1>6. /\ Whole(c) /\ (mode = "align" => c.slots = <<>>)
        /\ \A r \in Live : req[r].computed > 0 => Current(c, StateBlock(r)) = StateOf(r, req[r].computed)
        /\ \A r \in Live : /\ req[r].kv \notin Elems(c.slots)
                           /\ req[r].kv \notin zeroing => Current(c, req[r].kv) = KVOf(r)
        /\ \A e \in cached : Current(c, e.block) = e.content
    BY CopiesDone
  <1> HIDE DEF c
  <1>7. /\ Whole(settled) /\ Elems(settled.slots) \subseteq Elems(c.slots)
        /\ (mode = "align" => settled.slots = <<>>)
        /\ \A b \in Block : Current(settled, b) = Current(c, b)
    <2>1. CASE mode = "align"
      <3>1. settled = Applied(c)
        BY <2>1
      <3>2. Whole(settled) /\ settled.slots = <<>> /\ Elems(settled.slots) = {}
            /\ \A b \in Block : Current(settled, b) = Current(c, b)
        BY ONLY <1>6, <3>1, AppliedFacts
      <3> QED BY <3>2
    <2>2. CASE mode # "align"
      BY <1>6, <2>2
    <2> QED BY <2>1, <2>2
  <1> HIDE DEF settled
  (* What the segments write is nobody else's. *)
  <1>8. ASSUME NEW s \in Elems(segs)
        PROVE  /\ s.dst \in Block /\ s.r \in Live
               /\ \A q \in Live : q # s.r => s.dst \notin RowBlocks(q)
               /\ \A q \in Live : s.dst # req[q].kv
               /\ \A e \in cached : e.block # s.dst
    <2>1. /\ s.dst \in Block /\ s.r \in Live /\ s.dst = req[s.r].row[BlockOf(s.start + s.n)]
          /\ BlockOf(s.start + s.n) \in Ahead(s.r)
      BY <1>3 DEF SegmentSound
    <2> QED BY <1>1, <2>1 DEF BlocksOwned
  <1>9. fresh \subseteq Block /\ \A b \in fresh : \E s \in Elems(segs) : b = s.dst /\ s.start = 0
    BY <1>8
  <1>10. \A x \in moved : \E s \in Elems(segs) : /\ s.start # 0 /\ s.src # s.dst /\ x = <<s.src, s.dst>>
                                                 /\ s.src \in Block /\ s.src = StateBlock(s.r)
    <2>1. \A x \in moved : \E s \in Elems(segs) : s.start # 0 /\ s.src # s.dst /\ x = <<s.src, s.dst>>
      OBVIOUS
    <2>2. \A s \in Elems(segs) : s.start # 0 => s.src \in Block /\ s.src = StateBlock(s.r)
      <3> TAKE s \in Elems(segs)
      <3>1. s.start \in Nat
        BY <1>3 DEF SegmentSound, Segment
      <3> QED BY <1>3, <3>1 DEF SegmentSound
    <2> HIDE DEF moved
    <2> QED BY <2>1, <2>2
  <1>11. \A s \in Elems(segs) : /\ s.start = 0 => s.dst \in fresh
                                /\ s.start # 0 /\ s.src # s.dst => <<s.src, s.dst>> \in moved
    OBVIOUS
  <1> HIDE DEF fresh, moved
  <1>12. moved \subseteq Block \X Block
    <2> SUFFICES ASSUME NEW x \in moved PROVE x \in Block \X Block
      OBVIOUS
    <2>1. PICK s \in Elems(segs) : x = <<s.src, s.dst>> /\ s.src \in Block
      BY <1>10
    <2> QED BY <1>8, <2>1
  <1>13. \A x, y \in moved : x[2] = y[2] => x = y
    <2> SUFFICES ASSUME NEW x \in moved, NEW y \in moved, x[2] = y[2] PROVE x = y
      OBVIOUS
    <2>1. PICK s \in Elems(segs) : x = <<s.src, s.dst>>
      BY <1>10
    <2>2. PICK t \in Elems(segs) : y = <<t.src, t.dst>>
      BY <1>10
    <2>3. s.dst = t.dst
      BY <2>1, <2>2
    <2>4. t.dst \in RowBlocks(t.r)
      BY <1>3 DEF SegmentSound, Ahead, RowBlocks
    <2>5. s.r = t.r
      BY <1>8, <2>3, <2>4
    <2> QED BY <1>4, <2>1, <2>2, <2>5
  <1>14. /\ Whole(z) /\ z.slots \in {<<>>, settled.slots}
         /\ Elems(z.slots) \subseteq Elems(settled.slots)
         /\ \A b \in fresh : Current(z, b) = Zero
         /\ \A b \in Block : b \notin fresh => Current(z, b) = Current(settled, b)
    BY <1>7, <1>9, ZeroFacts
  <1> HIDE DEF z
  <1>15. /\ Whole(w) /\ w.slots \in {<<>>, z.slots} /\ Elems(w.slots) \subseteq Elems(z.slots)
         /\ \A x \in moved : Current(w, x[2]) = Current(z, x[1])
         /\ \A b \in Block : (\A x \in moved : x[2] # b) => Current(w, b) = Current(z, b)
    BY <1>12, <1>13, <1>14, CopyFacts
  <1> HIDE DEF w
  (* Blocks that no segment writes keep their state. *)
  <1>16. ASSUME NEW b \in Block, \A s \in Elems(segs) : s.dst # b PROVE Current(w, b) = Current(c, b)
    <2>1. b \notin fresh
      BY <1>9, <1>16
    <2>2. \A x \in moved : x[2] # b
      BY <1>10, <1>16
    <2> QED BY <1>7, <1>14, <1>15, <2>1, <2>2
  <1>17. ASSUME NEW s \in Elems(segs) PROVE Current(w, s.dst) = StateOf(s.r, s.start)
    <2>1. /\ s.start = req[s.r].computed /\ s.start \in Nat /\ s.r \in Live
          /\ s.start > 0 => s.src = StateBlock(s.r) /\ s.src \in Block
      BY <1>3 DEF SegmentSound, Segment
    <2>2. s.start > 0 => StateBlock(s.r) \in RowBlocks(s.r)
      BY <1>1, <2>1, LiveFacts
    <2>3. CASE s.start = 0
      <3>1. Current(z, s.dst) = Zero
        BY <1>11, <1>14, <2>3
      <3>2. ASSUME NEW x \in moved PROVE x[2] # s.dst
        <4>1. PICK t \in Elems(segs) : t.start # 0 /\ x = <<t.src, t.dst>>
          BY <1>10
        <4>2. t.r # s.r
          BY <1>4, <2>3, <4>1
        <4>3. s.dst \in RowBlocks(s.r)
          BY <1>3 DEF SegmentSound, Ahead, RowBlocks
        <4>4. t.dst \notin RowBlocks(s.r)
          BY <1>8, <2>1, <4>2
        <4> QED BY <4>1, <4>3, <4>4
      <3>3. Current(w, s.dst) = Zero
        BY <1>8, <1>15, <3>1, <3>2
      <3>4. 0 <= Shared
        BY HybridAssumption
      <3> QED BY <2>3, <3>3, <3>4 DEF Zero, StateOf
    <2>4. CASE s.start # 0
      <3>1. Current(c, s.src) = StateOf(s.r, s.start) /\ s.src \in RowBlocks(s.r) /\ s.src \in Block
        BY <1>6, <2>1, <2>2, <2>4
      <3>2. s.src \notin fresh
        <4> SUFFICES ASSUME s.src \in fresh PROVE FALSE
          OBVIOUS
        <4>1. PICK t \in Elems(segs) : s.src = t.dst /\ t.start = 0
          BY <1>9
        <4>2. t.r # s.r
          BY <1>4, <2>4, <4>1
        <4> QED BY <1>8, <2>1, <3>1, <4>1, <4>2
      <3>3. Current(z, s.src) = StateOf(s.r, s.start)
        BY <1>7, <1>14, <3>1, <3>2
      <3>4. CASE s.src # s.dst
        <4>1. <<s.src, s.dst>> \in moved
          BY <1>11, <2>4, <3>4
        <4>2. Current(w, <<s.src, s.dst>>[2]) = Current(z, <<s.src, s.dst>>[1])
          BY <1>15, <4>1
        <4> QED BY <3>3, <4>2
      <3>5. CASE s.src = s.dst
        <4>1. ASSUME NEW x \in moved PROVE x[2] # s.dst
          <5>1. PICK t \in Elems(segs) : t.src # t.dst /\ x = <<t.src, t.dst>>
            BY <1>10
          <5>2. t.r # s.r
            BY <1>4, <3>5, <5>1
          <5> QED BY <1>8, <2>1, <3>1, <3>5, <5>1, <5>2
        <4> QED BY <1>15, <3>1, <3>3, <3>5, <4>1
      <3> QED BY <3>4, <3>5
    <2> QED BY <2>3, <2>4
  <1>18. /\ \A s \in Elems(segs) : req[s.r].kv \in Block
         /\ \A s, t \in Elems(segs) : req[s.r].kv = req[t.r].kv => s.r = t.r
    BY <1>1, <1>8, LiveFacts DEF BlocksOwned
  <1>19. /\ Whole(p) /\ p.slots = w.slots
         /\ \A s \in Elems(segs) : p.pool[req[s.r].kv] = KVOf(s.r)
         /\ \A b \in Block : (\A s \in Elems(segs) : req[s.r].kv # b) =>
               p.pool[b] = w.pool[b] /\ Current(p, b) = Current(w, b)
    BY ONLY <1>2, <1>5, <1>15, <1>18, KVFacts
  <1>20. Elems(p.slots) \subseteq Elems(c.slots) /\ (mode = "align" => p.slots = <<>>)
    BY <1>7, <1>14, <1>15, <1>19
  <1>21. ASSUME NEW i \in DOMAIN segs
         PROVE  Current(p, segs[i].dst) = StateOf(segs[i].r, segs[i].start)
    <2>1. segs[i] \in Elems(segs)
      BY DEF Elems
    <2>2. \A s \in Elems(segs) : req[s.r].kv # segs[i].dst
      BY <1>8, <2>1
    <2> QED BY <1>8, <1>17, <1>19, <2>1, <2>2
  <1>22. ASSUME NEW r \in Live, req[r].computed > 0, \A i \in DOMAIN segs : segs[i].r # r
         PROVE  Current(p, StateBlock(r)) = StateOf(r, req[r].computed)
    <2>1. StateBlock(r) \in RowBlocks(r) /\ StateBlock(r) \in Block
      BY <1>1, <1>22, LiveFacts
    <2>2. \A s \in Elems(segs) : s.r # r
      BY <1>22 DEF Elems
    <2>3. \A s \in Elems(segs) : s.dst # StateBlock(r)
      BY <1>8, <2>1, <2>2
    <2>4. \A s \in Elems(segs) : req[s.r].kv # StateBlock(r)
      BY <1>1, <1>8, <2>1 DEF BlocksOwned
    <2> QED BY <1>6, <1>16, <1>19, <1>22, <2>1, <2>3, <2>4
  <1>23. ASSUME NEW r \in Live
         PROVE  p.pool[req[r].kv] = KVOf(r) /\ req[r].kv \notin Elems(p.slots)
    <2>1. req[r].kv \in Block /\ req[r].kv \notin Elems(c.slots)
      BY <1>1, <1>6, LiveFacts
    <2>2. req[r].kv \notin Elems(p.slots) /\ req[r].kv \notin Elems(w.slots)
      BY <1>19, <1>20, <2>1
    <2>3. CASE \E s \in Elems(segs) : s.r = r
      BY <1>19, <2>2, <2>3
    <2>4. CASE \A s \in Elems(segs) : s.r # r
      <3>1. req[r].kv \notin zeroing
        BY <1>2, <2>4 DEF Elems
      <3>2. Current(w, req[r].kv) = KVOf(r)
        BY <1>6, <1>8, <1>16, <2>1, <3>1
      <3>3. \A s \in Elems(segs) : req[s.r].kv # req[r].kv
        BY <1>1, <1>8, <2>4 DEF BlocksOwned
      <3>4. Current(w, req[r].kv) = w.pool[req[r].kv]
        BY <1>15, <2>1, <2>2, CurrentFacts
      <3> QED BY <1>19, <2>1, <2>2, <3>2, <3>3, <3>4
    <2> QED BY <2>3, <2>4
  <1>24. ASSUME NEW e \in cached
         PROVE  p.pool[e.block] = e.content /\ e.block \notin Elems(p.slots)
    <2>1. mode = "align" /\ e.block \in Block
      BY <1>1 DEF CheckpointsKept, HybridTypes
    <2>2. Elems(p.slots) = {} /\ Elems(w.slots) = {}
      BY <1>19, <1>20, <2>1 DEF Elems
    <2>3. Current(w, e.block) = e.content
      BY <1>6, <1>8, <1>16, <2>1
    <2>4. \A s \in Elems(segs) : req[s.r].kv # e.block
      BY <1>1, <1>8 DEF BlocksOwned
    <2>5. Current(w, e.block) = w.pool[e.block]
      BY <1>15, <2>1, <2>2, CurrentFacts
    <2> QED BY <1>19, <2>1, <2>2, <2>3, <2>4, <2>5
  <1> QED BY <1>19, <1>20, <1>21, <1>22, <1>23, <1>24 DEF Ready

(* A forward over a ready component keeps what is not its segments' and    *)
(* leaves their new states, or what a rescan starts from.                  *)
LEMMA RanKept ==
    ASSUME HybridBooks, NEW segs \in Batches, NEW p, Ready(p, segs), NEW m, Ran(p, segs, m)
    PROVE  /\ \A e \in cached : m.pool[e.block] = e.content /\ e.block \notin Elems(m.slots)
           /\ \A r \in Live : m.pool[req[r].kv] = KVOf(r) /\ req[r].kv \notin Elems(m.slots)
           /\ \A r \in Live : req[r].computed > 0 /\ (\A i \in DOMAIN segs : segs[i].r # r) =>
                 Current(m, StateBlock(r)) = StateOf(r, req[r].computed)
           /\ m.slots \in {<<>>, Slots(segs)}
           /\ \A i \in DOMAIN segs :
                 /\ segs[i].commit = segs[i].n =>
                       Current(m, segs[i].dst) = StateOf(segs[i].r, segs[i].start + segs[i].n)
                 /\ segs[i].decode /\ segs[i].n > 1 =>
                       /\ m.slots = Slots(segs)
                       /\ m.pool[segs[i].dst] = StateOf(segs[i].r, segs[i].start)
  <1>1. HybridTypes /\ Progress /\ BlocksOwned
    BY DEF HybridBooks
  <1>2. /\ segs \in Seq(Segment)
        /\ \A i \in DOMAIN segs : SegmentSound(segs[i])
        /\ \A i, j \in DOMAIN segs : segs[i].r = segs[j].r => i = j
    BY BatchFacts
  <1>3. /\ Whole(m) /\ m.slots \in {<<>>, Slots(segs)}
        /\ \A i \in DOMAIN segs :
              Current(m, segs[i].dst) = Advanced(Current(p, segs[i].dst), segs[i], segs[i].n)
        /\ \A b \in Block : b \notin Elems(Slots(segs)) => Current(m, b) = Current(p, b)
        /\ IsSpecVerify(segs) =>
              /\ m.slots = Slots(segs)
              /\ \A i \in DOMAIN segs : m.pool[segs[i].dst] = Current(p, segs[i].dst)
    BY DEF Ran
  <1>4. /\ Whole(p)
        /\ \A i \in DOMAIN segs : Current(p, segs[i].dst) = StateOf(segs[i].r, segs[i].start)
        /\ \A r \in Live : req[r].computed > 0 /\ (\A i \in DOMAIN segs : segs[i].r # r) =>
              Current(p, StateBlock(r)) = StateOf(r, req[r].computed)
        /\ \A r \in Live : p.pool[req[r].kv] = KVOf(r) /\ req[r].kv \notin Elems(p.slots)
        /\ \A e \in cached : p.pool[e.block] = e.content /\ e.block \notin Elems(p.slots)
    BY DEF Ready
  <1>5. ASSUME NEW i \in DOMAIN segs
        PROVE  /\ segs[i].dst \in Block /\ segs[i].r \in Live
               /\ \A q \in Live : q # segs[i].r => segs[i].dst \notin RowBlocks(q)
               /\ \A q \in Live : segs[i].dst # req[q].kv
               /\ \A e \in cached : e.block # segs[i].dst
    <2> DEFINE s == segs[i]
    <2>1. /\ s.dst \in Block /\ s.r \in Live /\ s.dst = req[s.r].row[BlockOf(s.start + s.n)]
          /\ BlockOf(s.start + s.n) \in Ahead(s.r)
      BY <1>2 DEF SegmentSound
    <2> HIDE DEF s
    <2>2. /\ s.dst \in Block /\ s.r \in Live
          /\ \A q \in Live : q # s.r => s.dst \notin RowBlocks(q)
          /\ \A q \in Live : s.dst # req[q].kv
          /\ \A e \in cached : e.block # s.dst
      BY <1>1, <2>1 DEF BlocksOwned
    <2> QED BY <2>2 DEF s
  <1>6. Elems(m.slots) \subseteq Elems(Slots(segs))
    BY <1>3 DEF Elems
  <1>7. \A b : b \in Elems(Slots(segs)) => \E i \in DOMAIN segs : b = segs[i].dst
    BY DEF Elems, Slots
  <1>8. ASSUME NEW b \in Block, b \notin Elems(Slots(segs)), b \notin Elems(p.slots)
        PROVE  m.pool[b] = p.pool[b] /\ b \notin Elems(m.slots)
    <2>1. Current(m, b) = m.pool[b] /\ b \notin Elems(m.slots)
      BY <1>3, <1>6, <1>8, CurrentFacts
    <2>2. Current(p, b) = p.pool[b]
      BY <1>4, <1>8, CurrentFacts
    <2> QED BY <1>3, <1>8, <2>1, <2>2
  <1>9. ASSUME NEW e \in cached
        PROVE  m.pool[e.block] = e.content /\ e.block \notin Elems(m.slots)
    <2>1. e.block \in Block
      BY <1>1 DEF HybridTypes
    <2>2. e.block \notin Elems(Slots(segs))
      BY <1>5, <1>7
    <2> QED BY <1>4, <1>8, <2>1, <2>2
  <1>10. ASSUME NEW r \in Live
         PROVE  m.pool[req[r].kv] = KVOf(r) /\ req[r].kv \notin Elems(m.slots)
    <2>1. req[r].kv \in Block
      BY <1>1, LiveFacts
    <2>2. req[r].kv \notin Elems(Slots(segs))
      BY <1>5, <1>7
    <2> QED BY <1>4, <1>8, <2>1, <2>2
  <1>11. ASSUME NEW r \in Live, req[r].computed > 0, \A i \in DOMAIN segs : segs[i].r # r
         PROVE  Current(m, StateBlock(r)) = StateOf(r, req[r].computed)
    <2>1. StateBlock(r) \in RowBlocks(r) /\ StateBlock(r) \in Block
      BY <1>1, <1>11, LiveFacts
    <2>2. StateBlock(r) \notin Elems(Slots(segs))
      BY <1>5, <1>7, <1>11, <2>1
    <2> QED BY <1>3, <1>4, <1>11, <2>1, <2>2
  <1>12. ASSUME NEW i \in DOMAIN segs, segs[i].commit = segs[i].n
         PROVE  Current(m, segs[i].dst) = StateOf(segs[i].r, segs[i].start + segs[i].n)
    <2>1. segs[i].n \in Nat
      BY <1>2 DEF SegmentSound, Segment
    <2> QED BY <1>3, <1>4, <1>12, <2>1 DEF Advanced
  <1>13. ASSUME NEW i \in DOMAIN segs, segs[i].decode, segs[i].n > 1
         PROVE  m.slots = Slots(segs) /\ m.pool[segs[i].dst] = StateOf(segs[i].r, segs[i].start)
    <2>1. IsSpecVerify(segs)
      BY <1>13 DEF IsSpecVerify
    <2> QED BY <1>3, <1>4, <2>1
  <1> QED BY <1>3, <1>9, <1>10, <1>11, <1>12, <1>13

LEMMA ForwardPreserves ==
    ASSUME HybridInv, NEW segs \in Batches, Forward(segs)
    PROVE  HybridInv'
  <1>1. HybridBooks /\ Kept(conv) /\ Kept(rec) /\ Parking(conv) /\ Parking(rec)
    BY DEF HybridInv, HybridBooks
  <1>2. HybridTypes /\ Progress /\ BlocksOwned /\ CheckpointsKept
    BY <1>1 DEF HybridBooks
  <1>3. /\ step = <<>> /\ stash' = Verifying(segs) /\ step' = segs
        /\ needs' = (needs \/ released # {} \/ mode = "align")
        /\ conv' = ConvAfter(Prepared(conv, segs), segs)
        /\ rec' = RecAfter(Prepared(rec, segs), segs)
        /\ released' = {} /\ zeroing' = {} /\ copies' = {}
        /\ mode' = mode /\ deferring' = deferring /\ req' = req /\ cached' = cached
        /\ preempts' = preempts
    BY DEF Forward
  <1>4. /\ segs \in Seq(Segment) /\ segs # <<>> /\ Distinct(Slots(segs))
        /\ \A i \in DOMAIN segs : SegmentSound(segs[i]) /\ segs[i] \in Segments(segs[i].r)
        /\ \A i, j \in DOMAIN segs : segs[i].r = segs[j].r => i = j
    BY <1>1, BatchFacts
  <1>5. \A i \in DOMAIN segs : segs[i].dst \in Block /\ segs[i].r \in Live
    BY <1>4 DEF SegmentSound
  <1>6. Whole(conv) /\ Whole(rec)
    BY <1>2 DEF HybridTypes
  <1>7. Ready(Prepared(conv, segs), segs) /\ Ready(Prepared(rec, segs), segs)
    BY <1>1, <1>3, <1>6, PreparedReady
  <1>8. Whole(Prepared(conv, segs)) /\ Whole(Prepared(rec, segs))
    BY <1>7 DEF Ready
  <1>9. Ran(Prepared(conv, segs), segs, conv') /\ Ran(Prepared(rec, segs), segs, rec')
    BY <1>3, <1>4, <1>5, <1>8, ConvRan, RecRan
  <1>10. Whole(conv') /\ Whole(rec')
    BY <1>9 DEF Ran
  <1>11. HybridTypes'
    BY <1>2, <1>3, <1>4, <1>10 DEF HybridTypes
  <1>12. Progress'
    <2>1. Live' = Live /\ \A n : BlockOf(n)' = BlockOf(n)
      BY <1>3 DEF Live, BlockOf, Stride
    <2> QED BY <1>2, <1>3, <2>1 DEF Progress
  <1>13. BlocksOwned'
    <2>1. Live' = Live /\ \A r : Ahead(r)' = Ahead(r) /\ RowBlocks(r)' = RowBlocks(r)
      BY <1>3 DEF Live, Ahead, RowBlocks, BlockOf, Stride
    <2>2. Ends(copies)' = {}
      BY <1>3 DEF Ends
    <2> QED BY <1>2, <1>3, <2>1, <2>2 DEF BlocksOwned
  <1>14. CheckpointsKept'
    BY <1>2, <1>3 DEF CheckpointsKept
  <1>15. StepSound'
    <2>1. Live' = Live /\ \A n : BlockOf(n)' = BlockOf(n)
      BY <1>3 DEF Live, BlockOf, Stride
    <2>2. \A r : Schedulable(r)' = Schedulable(r)
      BY <1>3, <2>1 DEF Schedulable
    <2>3. \A r : Segments(r)' = Segments(r)
      BY <1>3, <2>1, <2>2 DEF Segments, SegmentOf
    <2> QED BY <1>3, <1>4, <1>5, <2>1, <2>3 DEF StepSound
  <1>16. ASSUME NEW m, NEW p, Ready(p, segs), Ran(p, segs, m)
         PROVE  /\ \A e \in cached' : m.pool[e.block] = e.content /\ e.block \notin Elems(m.slots)
                /\ \A r \in Live' : m.pool[req'[r].kv] = KVOf(r) /\ req'[r].kv \notin Elems(m.slots)
                /\ \A r \in Live' : req'[r].computed > 0 /\ (\A i \in DOMAIN step' : step'[i].r # r) =>
                      Current(m, StateBlock(r)') = StateOf(r, req'[r].computed)
                /\ m.slots \in {<<>>, Slots(step')}
                /\ \A i \in DOMAIN step' :
                      /\ step'[i].commit = step'[i].n =>
                            Current(m, step'[i].dst) = StateOf(step'[i].r, step'[i].start + step'[i].n)
                      /\ step'[i].decode /\ step'[i].n > 1 =>
                            /\ m.slots = Slots(step')
                            /\ m.pool[step'[i].dst] = StateOf(step'[i].r, step'[i].start)
    <2>1. Live' = Live /\ \A r : StateBlock(r)' = StateBlock(r)
      BY <1>3 DEF Live, StateBlock, BlockOf, Stride
    <2> QED BY <1>1, <1>3, <1>16, <2>1, RanKept
  <1>17. \A b : Source(b)' = b
    BY <1>3 DEF Source
  <1>18. Kept(conv)' /\ Kept(rec)'
    BY <1>7, <1>9, <1>16, <1>17 DEF Kept
  <1>19. Parking(conv)' /\ Parking(rec)'
    BY <1>3, <1>4, <1>7, <1>9, <1>16 DEF Parking
  <1> QED BY <1>11, <1>12, <1>13, <1>14, <1>15, <1>18, <1>19 DEF HybridInv

-----------------------------------------------------------------------------
(* Sampling: what acceptance leaves, and what the requests become.         *)

LEMMA StepFacts ==
    ASSUME HybridBooks, step # <<>>
    PROVE  /\ step \in Seq(Segment) /\ stash = Verifying(step)
           /\ copies = {} /\ zeroing = {} /\ (mode = "align" => needs)
           /\ Distinct(Slots(step))
           /\ \A i, j \in DOMAIN step : step[i].r = step[j].r => i = j
           /\ \A s, t \in Elems(step) : s.r = t.r => s = t
           /\ \A s \in Elems(step) :
                 /\ SegmentSound(s)
                 /\ \A q \in Live : q # s.r => s.dst \notin RowBlocks(q)
                 /\ \A q \in Live : s.dst # req[q].kv
                 /\ \A e \in cached : e.block # s.dst
                 /\ \A j \in DOMAIN req[s.r].row \ {BlockOf(s.start + s.n)} : req[s.r].row[j] # s.dst
  <1>1. HybridTypes /\ Progress /\ BlocksOwned /\ CheckpointsKept /\ StepSound
    BY DEF HybridBooks
  <1>2. /\ step \in Seq(Segment) /\ stash = Verifying(step)
        /\ copies = {} /\ zeroing = {} /\ (mode = "align" => needs)
    BY <1>1 DEF HybridTypes, CheckpointsKept
  <1>3. \A i, j \in DOMAIN step : step[i].r = step[j].r => i = j
    BY <1>1 DEF StepSound
  <1>4. \A i \in DOMAIN step : SegmentSound(step[i])
    BY <1>1, SegmentFacts DEF StepSound
  <1>5. Distinct(Slots(step))
    BY <1>1, <1>2, <1>3, <1>4, SlotsDistinct
  <1>6. ASSUME NEW s \in Elems(step)
        PROVE  /\ SegmentSound(s)
               /\ \A q \in Live : q # s.r => s.dst \notin RowBlocks(q)
               /\ \A q \in Live : s.dst # req[q].kv
               /\ \A e \in cached : e.block # s.dst
               /\ \A j \in DOMAIN req[s.r].row \ {BlockOf(s.start + s.n)} : req[s.r].row[j] # s.dst
    <2>1. SegmentSound(s)
      BY <1>4 DEF Elems
    <2>2. /\ s.r \in Live /\ s.dst = req[s.r].row[BlockOf(s.start + s.n)]
          /\ BlockOf(s.start + s.n) \in Ahead(s.r)
      BY <2>1 DEF SegmentSound
    <2> QED BY <1>1, <2>1, <2>2 DEF BlocksOwned
  <1>7. \A s, t \in Elems(step) : s.r = t.r => s = t
    BY <1>3 DEF Elems
  <1> QED BY <1>2, <1>3, <1>5, <1>6, <1>7

(* What a sampled request becomes. *)
LEMMA AfterFacts ==
    ASSUME HybridBooks, NEW s, SegmentSound(s), NEW drafts \in Nat,
           NEW cap, cap = DraftCap(s.start + s.commit),
           NEW d, d = IF drafts < cap THEN drafts ELSE cap,
           NEW q, q = After(req[s.r], s, d)
    PROVE  /\ DOMAIN q = {"phase", "known", "computed", "row", "kv", "drafts"}
           /\ q.phase \in {"prefill", "decode"}
           /\ q.row = req[s.r].row /\ q.kv = req[s.r].kv
           /\ q.computed = s.start + s.commit /\ q.computed \in 1..MaxLen
           /\ q.known \in Nat \ {0} /\ q.drafts \in Nat
           /\ q.known + q.drafts <= MaxLen \/ q.drafts = 0
           /\ q.phase = "prefill" =>
                 /\ q.computed < q.known /\ q.drafts = 0
                 /\ mode = "align" => q.computed % BlockSize = 0
           /\ q.phase = "decode" =>
                 /\ q.known = q.computed + 1
                 /\ mode = "align" => (q.computed % BlockSize) + q.drafts < BlockSize
  <1> DEFINE r == s.r
             o == req[r]
             c == s.start + s.commit
             sampled == IF s.decode THEN s.commit ELSE IF c = o.known THEN 1 ELSE 0
             known == o.known + sampled
             left == IF sampled > 0 /\ known + d <= MaxLen THEN d ELSE 0
  <1>1. HybridTypes /\ Progress
    BY DEF HybridBooks
  <1>2. /\ s \in Segment /\ r \in Live /\ s.start = o.computed
        /\ s.decode <=> o.phase = "decode"
        /\ s.n >= 1 /\ s.commit \in 1..s.n /\ (~s.decode => s.commit = s.n)
        /\ s.start + s.n <= MaxLen /\ s.start + s.n <= o.known + o.drafts
        /\ ~s.decode /\ mode = "align" =>
              (s.start + s.n) % BlockSize = 0 \/ s.start + s.n = o.known
    BY DEF SegmentSound
  <1>3. s.start \in Nat /\ s.n \in Nat /\ s.commit \in Nat /\ s.decode \in BOOLEAN
    BY <1>2 DEF Segment
  <1>4. /\ r \in Req /\ o.phase \in {"prefill", "decode"}
        /\ o.known \in Nat \ {0} /\ o.drafts \in Nat
        /\ o.phase = "prefill" => o.drafts = 0
        /\ o.phase = "decode" => o.known = o.computed + 1
    BY <1>1, <1>2, LiveFacts
  <1>5. DOMAIN o = {"phase", "known", "computed", "row", "kv", "drafts"}
    BY <1>1, <1>4 DEF HybridTypes
  <1>6. q = [o EXCEPT !.computed = c, !.known = known,
                      !.phase = IF sampled > 0 THEN "decode" ELSE @,
                      !.drafts = left]
    BY DEF After
  <1>7. /\ MaxLen \in Nat /\ BlockSize \in Nat /\ BlockSize > 1 /\ MaxDraft \in Nat
    BY HybridAssumption
  <1> HIDE DEF r, o
  <1>8. c \in 1..MaxLen /\ c \in Nat
    BY <1>2, <1>3, <1>7
  <1>9. (c % BlockSize) \in Nat /\ c % BlockSize < BlockSize
    BY <1>7, <1>8
  <1>10. cap \in Nat /\ (mode = "align" => cap = BlockSize - (c % BlockSize) - 1)
    BY <1>7, <1>8, <1>9 DEF DraftCap
  <1>11. d \in Nat /\ d <= cap
    BY <1>10
  <1>12. sampled \in Nat /\ known \in Nat \ {0} /\ left \in Nat /\ left \in {0, d}
    BY <1>3, <1>4, <1>11
  <1>13. ~s.decode => c = s.start + s.n
    BY <1>2
  <1>14. sampled = 0 => /\ ~s.decode /\ c # o.known /\ known = o.known /\ left = 0
                        /\ c < o.known /\ (mode = "align" => c % BlockSize = 0)
    BY <1>2, <1>3, <1>4, <1>8, <1>13
  <1>15. sampled > 0 => known = c + 1
    BY <1>2, <1>3, <1>4, <1>8
  <1>16. mode = "align" => (c % BlockSize) + left < BlockSize
    BY <1>7, <1>9, <1>10, <1>11, <1>12
  <1>17. known + left <= MaxLen \/ left = 0
    OBVIOUS
  <1> HIDE DEF c, sampled, known, left
  <1>18. /\ DOMAIN q = {"phase", "known", "computed", "row", "kv", "drafts"}
         /\ q.row = o.row /\ q.kv = o.kv /\ q.computed = c /\ q.known = known /\ q.drafts = left
         /\ q.phase = IF sampled > 0 THEN "decode" ELSE o.phase
    BY <1>5, <1>6
  <1>19. q.phase \in {"prefill", "decode"} /\ (q.phase = "prefill" => sampled = 0)
    BY <1>4, <1>12, <1>18
  <1>20. q.phase = "decode" => sampled > 0
    BY <1>2, <1>12, <1>14, <1>18 DEF o
  <1> QED
    BY <1>8, <1>12, <1>14, <1>15, <1>16, <1>17, <1>18, <1>19, <1>20 DEF r, o, c

(* What acceptance and the settling of pending updates leave.              *)
LEMMA SettledFacts ==
    ASSUME HybridBooks, step # <<>>, NEW k, Whole(k), Kept(k), Parking(k),
           NEW m, m = Settled(Accepted(k))
    PROVE  /\ Whole(m) /\ (mode = "align" => m.slots = <<>>)
           /\ \A s \in Elems(step) : /\ Current(m, s.dst) = StateOf(s.r, s.start + s.commit)
                                     /\ mode = "align" => m.pool[s.dst] = StateOf(s.r, s.start + s.commit)
           /\ \A r \in Live : req[r].computed > 0 /\ (\A i \in DOMAIN step : step[i].r # r) =>
                 Current(m, StateBlock(r)) = StateOf(r, req[r].computed)
           /\ \A r \in Live : m.pool[req[r].kv] = KVOf(r) /\ req[r].kv \notin Elems(m.slots)
           /\ \A e \in cached : m.pool[e.block] = e.content /\ e.block \notin Elems(m.slots)
  <1> DEFINE a == Accepted(k)
  <1>1. HybridTypes /\ Progress /\ BlocksOwned /\ CheckpointsKept
    BY DEF HybridBooks
  <1>2. /\ step \in Seq(Segment) /\ stash = Verifying(step)
        /\ copies = {} /\ zeroing = {} /\ (mode = "align" => needs)
        /\ Distinct(Slots(step))
    BY StepFacts
  <1>3. \A s \in Elems(step) :
           /\ SegmentSound(s)
           /\ \A q \in Live : q # s.r => s.dst \notin RowBlocks(q)
    BY StepFacts
  <1>4. \A i \in DOMAIN step : step[i] \in Elems(step)
    BY DEF Elems
  <1>5. \A i \in DOMAIN step : /\ step[i].dst \in Block /\ step[i].commit \in 1..step[i].n
                               /\ ~step[i].decode => step[i].commit = step[i].n
    BY <1>3, <1>4 DEF SegmentSound
  <1>6. /\ Whole(a) /\ a.slots = k.slots /\ a.pool = k.pool
        /\ \A i \in DOMAIN step :
              Current(a, step[i].dst) = StateOf(step[i].r, step[i].start + step[i].commit)
        /\ \A b \in Block : b \notin Elems(Slots(step)) => Current(a, b) = Current(k, b)
    BY <1>2, <1>5, AcceptedFacts
  <1> HIDE DEF a
  <1>7. /\ Whole(m) /\ Elems(m.slots) \subseteq Elems(k.slots)
        /\ \A b \in Block : Current(m, b) = Current(a, b)
        /\ \A b \in Block : b \notin Elems(k.slots) => m.pool[b] = k.pool[b]
        /\ needs => m.slots = <<>> /\ \A b \in Block : m.pool[b] = Current(a, b)
    <2>1. CASE needs
      <3>1. m = Applied(a)
        BY <2>1 DEF Settled, a
      <3>2. /\ Whole(m) /\ m.slots = <<>> /\ Elems(m.slots) = {}
            /\ \A b \in Block : m.pool[b] = Current(a, b) /\ Current(m, b) = Current(a, b)
        BY ONLY <1>6, <3>1, AppliedFacts
      <3>3. \A b \in Block : b \notin Elems(k.slots) => Current(a, b) = k.pool[b]
        BY <1>6, CurrentFacts
      <3> QED BY <3>2, <3>3
    <2>2. CASE ~needs
      <3>1. m = a
        BY <2>2 DEF Settled, a
      <3> QED BY <1>6, <2>2, <3>1
    <2> QED BY <2>1, <2>2
  <1>8. ASSUME NEW s \in Elems(step)
        PROVE  /\ Current(m, s.dst) = StateOf(s.r, s.start + s.commit)
               /\ mode = "align" => m.pool[s.dst] = StateOf(s.r, s.start + s.commit)
    <2>1. PICK i \in DOMAIN step : s = step[i]
      BY DEF Elems
    <2> QED BY <1>2, <1>5, <1>6, <1>7, <2>1
  <1>9. ASSUME NEW r \in Live, req[r].computed > 0, \A i \in DOMAIN step : step[i].r # r
        PROVE  Current(m, StateBlock(r)) = StateOf(r, req[r].computed)
    <2>1. StateBlock(r) \in RowBlocks(r) /\ StateBlock(r) \in Block
      BY <1>1, <1>9, LiveFacts
    <2>2. \A b : b \in Elems(Slots(step)) => \E i \in DOMAIN step : b = step[i].dst
      BY DEF Elems, Slots
    <2>3. StateBlock(r) \notin Elems(Slots(step))
      BY <1>3, <1>4, <1>9, <2>1, <2>2
    <2>4. Source(StateBlock(r)) = StateBlock(r)
      BY <1>2 DEF Source
    <2>5. Current(k, StateBlock(r)) = StateOf(r, req[r].computed)
      BY <1>9, <2>4 DEF Kept
    <2> QED BY <1>6, <1>7, <2>1, <2>3, <2>5
  <1>10. ASSUME NEW r \in Live
         PROVE  m.pool[req[r].kv] = KVOf(r) /\ req[r].kv \notin Elems(m.slots)
    <2>1. req[r].kv \in Block
      BY <1>1, LiveFacts
    <2>2. k.pool[req[r].kv] = KVOf(r) /\ req[r].kv \notin Elems(k.slots)
      BY <1>2 DEF Kept
    <2> QED BY <1>7, <2>1, <2>2
  <1>11. ASSUME NEW e \in cached
         PROVE  m.pool[e.block] = e.content /\ e.block \notin Elems(m.slots)
    <2>1. e.block \in Block
      BY <1>1 DEF HybridTypes
    <2>2. k.pool[e.block] = e.content /\ e.block \notin Elems(k.slots)
      BY DEF Kept
    <2> QED BY <1>7, <2>1, <2>2
  <1> QED BY <1>2, <1>7, <1>8, <1>9, <1>10, <1>11

LEMMA SamplePreserves ==
    ASSUME HybridInv, NEW drafts \in 0..MaxDraft, Sample(drafts)
    PROVE  HybridInv'
  <1> DEFINE New == {[content |-> StateOf(s.r, s.start + s.commit),
                      block |-> req[s.r].row[BlockOf(s.start + s.commit)]] :
                        s \in {t \in Elems(step) :
                                 /\ mode = "align" /\ (t.start + t.commit) % BlockSize = 0
                                 /\ \A e \in cached : e.content # StateOf(t.r, t.start + t.commit)}}
  <1>1. HybridBooks /\ Kept(conv) /\ Kept(rec) /\ Parking(conv) /\ Parking(rec)
    BY DEF HybridInv, HybridBooks
  <1>2. HybridTypes /\ Progress /\ BlocksOwned /\ CheckpointsKept
    BY <1>1 DEF HybridBooks
  <1>3. /\ step # <<>>
        /\ conv' = Settled(Accepted(conv)) /\ rec' = Settled(Accepted(rec))
        /\ stash' = <<>> /\ needs' = FALSE /\ step' = <<>>
        /\ cached' = cached \cup New
        /\ mode' = mode /\ deferring' = deferring /\ released' = released /\ zeroing' = zeroing
        /\ copies' = copies /\ preempts' = preempts
    BY DEF Sample
  <1>4. req' = [r \in Req |->
                  IF \E s \in Elems(step) : s.r = r
                  THEN LET seg == CHOOSE s \in Elems(step) : s.r = r
                           cap == DraftCap(seg.start + seg.commit)
                       IN  After(req[r], seg, IF drafts < cap THEN drafts ELSE cap)
                  ELSE req[r]]
    BY DEF Sample
  <1>5. /\ copies = {} /\ zeroing = {} /\ (mode = "align" => needs)
        /\ \A s, t \in Elems(step) : s.r = t.r => s = t
        /\ \A s \in Elems(step) :
              /\ SegmentSound(s)
              /\ \A q \in Live : q # s.r => s.dst \notin RowBlocks(q)
              /\ \A q \in Live : s.dst # req[q].kv
              /\ \A j \in DOMAIN req[s.r].row \ {BlockOf(s.start + s.n)} : req[s.r].row[j] # s.dst
    BY <1>1, <1>3, StepFacts
  <1>6. \A s \in Elems(step) :
           /\ s.r \in Live /\ s.r \in Req /\ s.dst \in Block
           /\ BlockOf(s.start + s.commit) = BlockOf(s.start + s.n)
           /\ s.dst = req[s.r].row[BlockOf(s.start + s.commit)]
           /\ BlockOf(s.start + s.commit) \in DOMAIN req[s.r].row
           /\ s.start \in Nat /\ s.commit \in Nat /\ s.commit >= 1 /\ s.start = req[s.r].computed
    BY <1>5 DEF SegmentSound, Segment, Ahead, Live
  (* The requests after the step. *)
  <1>7. ASSUME NEW s \in Elems(step)
        PROVE  /\ DOMAIN req'[s.r] = {"phase", "known", "computed", "row", "kv", "drafts"}
               /\ req'[s.r].phase \in {"prefill", "decode"}
               /\ req'[s.r].row = req[s.r].row /\ req'[s.r].kv = req[s.r].kv
               /\ req'[s.r].computed = s.start + s.commit /\ req'[s.r].computed \in 1..MaxLen
               /\ req'[s.r].known \in Nat \ {0} /\ req'[s.r].drafts \in Nat
               /\ req'[s.r].known + req'[s.r].drafts <= MaxLen \/ req'[s.r].drafts = 0
               /\ req'[s.r].phase = "prefill" =>
                     /\ req'[s.r].computed < req'[s.r].known /\ req'[s.r].drafts = 0
                     /\ mode = "align" => req'[s.r].computed % BlockSize = 0
               /\ req'[s.r].phase = "decode" =>
                     /\ req'[s.r].known = req'[s.r].computed + 1
                     /\ mode = "align" => (req'[s.r].computed % BlockSize) + req'[s.r].drafts < BlockSize
    <2> DEFINE cap == DraftCap(s.start + s.commit)
               d == IF drafts < cap THEN drafts ELSE cap
    <2>1. (CHOOSE t \in Elems(step) : t.r = s.r) = s
      BY <1>5
    <2>2. req'[s.r] = After(req[s.r], s, d)
      BY <1>4, <1>6, <2>1
    <2>3. SegmentSound(s) /\ drafts \in Nat
      BY <1>5, HybridAssumption
    <2> QED BY <1>1, <2>2, <2>3, AfterFacts
  <1>8. \A r \in Req : (\A s \in Elems(step) : s.r # r) => req'[r] = req[r]
    BY <1>4
  <1>9. Live' = Live
    <2>1. ASSUME NEW r \in Req PROVE req'[r].phase \in {"prefill", "decode"} <=> req[r].phase \in {"prefill", "decode"}
      <3>1. CASE \E s \in Elems(step) : s.r = r
        BY <1>6, <1>7, <3>1 DEF Live
      <3>2. CASE \A s \in Elems(step) : s.r # r
        BY <1>8, <3>2
      <3> QED BY <3>1, <3>2
    <2> QED BY <2>1 DEF Live
  <1>10. \A r \in Req : req'[r].row = req[r].row /\ req'[r].kv = req[r].kv
    BY <1>7, <1>8
  <1>11. \A n : BlockOf(n)' = BlockOf(n)
    BY <1>3 DEF BlockOf, Stride
  <1>12. \A r \in Live : RowBlocks(r)' = RowBlocks(r)
    BY <1>10 DEF RowBlocks, Live
  <1>13. \A r \in Live : Ahead(r)' \subseteq Ahead(r)
    <2> SUFFICES ASSUME NEW r \in Live, NEW i \in DOMAIN req[r].row, i >= BlockOf(req'[r].computed + 1)
                 PROVE  i >= BlockOf(req[r].computed + 1)
      <3> HIDE DEF New
      <3> QED BY <1>10, <1>11 DEF Ahead, Live
    <2>1. r \in Req /\ req[r].computed \in Nat /\ i \in Nat
      BY <1>2, LiveFacts DEF IsRow
    <2>2. CASE \E s \in Elems(step) : s.r = r
      <3>1. PICK s \in Elems(step) : s.r = r
        BY <2>2
      <3>2. req'[r].computed \in Nat /\ req[r].computed <= req'[r].computed
        BY <1>6, <1>7, <3>1, HybridAssumption
      <3>3. BlockOf(req[r].computed + 1) <= BlockOf(req'[r].computed + 1)
        BY <2>1, <3>2, BlockOfMonotone
      <3>4. BlockOf(req[r].computed + 1) \in Int /\ BlockOf(req'[r].computed + 1) \in Int
        BY <2>1, <3>2, BlockOfType
      <3> QED BY <2>1, <3>3, <3>4
    <2>3. CASE \A s \in Elems(step) : s.r # r
      BY <1>8, <2>1, <2>3
    <2> QED BY <2>2, <2>3
  (* The checkpoints that the step adds. *)
  <1>14. ASSUME NEW e \in New
         PROVE  \E s \in Elems(step) :
                   /\ e = [content |-> StateOf(s.r, s.start + s.commit), block |-> s.dst]
                   /\ mode = "align" /\ (s.start + s.commit) % BlockSize = 0
    <2>1. PICK s \in Elems(step) :
             /\ e = [content |-> StateOf(s.r, s.start + s.commit),
                     block |-> req[s.r].row[BlockOf(s.start + s.commit)]]
             /\ mode = "align" /\ (s.start + s.commit) % BlockSize = 0
      BY <1>14
    <2> QED BY <1>6, <2>1
  <1> HIDE DEF New
  <1>15. HybridTypes'
    <2>1. Whole(conv') /\ Whole(rec')
      <3>1. Whole(conv) /\ Whole(rec)
        BY <1>2 DEF HybridTypes
      <3> QED BY <1>1, <1>3, <3>1, SettledFacts
    <2>2. step' \in Seq(Segment) /\ stash' = Verifying(step')
      <3>1. Verifying(<<>>) = <<>>
        BY PartEmpty DEF Verifying
      <3> HIDE DEF Segment
      <3> QED BY <1>3, <3>1
    <2>3. req' = [r \in Req |-> req'[r]]
      BY <1>4
    <2>4. ASSUME NEW r \in Req
          PROVE  /\ DOMAIN req'[r] = {"phase", "known", "computed", "row", "kv", "drafts"}
                 /\ req'[r].phase \in {"out", "prefill", "decode", "done"}
                 /\ req'[r].known \in Nat \ {0} /\ req'[r].computed \in Nat /\ req'[r].drafts \in Nat
                 /\ IsRow(req'[r].row) /\ req'[r].kv \in Block \cup {NoBlock}
      <3>1. CASE \E s \in Elems(step) : s.r = r
        <4>1. IsRow(req[r].row) /\ req[r].kv \in Block \cup {NoBlock}
          BY <1>2 DEF HybridTypes
        <4>2. \A n \in 1..MaxLen : n \in Nat
          BY HybridAssumption
        <4> QED BY <1>7, <1>10, <3>1, <4>1, <4>2
      <3>2. CASE \A s \in Elems(step) : s.r # r
        BY <1>2, <1>8, <3>2 DEF HybridTypes
      <3> QED BY <3>1, <3>2
    <2>5. cached' \subseteq [content : Content, block : Block]
      <3>1. ASSUME NEW e \in New PROVE e \in [content : Content, block : Block]
        <4>1. PICK s \in Elems(step) : e = [content |-> StateOf(s.r, s.start + s.commit), block |-> s.dst]
          BY <1>14
        <4>2. s.start + s.commit \in Nat /\ s.r \in Req /\ s.dst \in Block
          BY <1>6
        <4>3. StateOf(s.r, s.start + s.commit) \in Content
          BY <4>2 DEF StateOf, Content
        <4> HIDE DEF Content
        <4> QED BY <4>1, <4>2, <4>3
      <3> QED BY <1>2, <1>3, <3>1 DEF HybridTypes
    <2> QED BY <1>2, <1>3, <2>1, <2>2, <2>3, <2>4, <2>5 DEF HybridTypes
  <1>16. Progress'
    <2> SUFFICES ASSUME NEW r \in Req
                 PROVE  IF r \in Live
                        THEN /\ req'[r].kv \in Block
                             /\ req'[r].computed <= MaxLen
                             /\ req'[r].computed > 0 => BlockOf(req'[r].computed) \in DOMAIN req'[r].row
                             /\ req'[r].known + req'[r].drafts <= MaxLen \/ req'[r].drafts = 0
                             /\ req'[r].phase = "prefill" =>
                                   /\ req'[r].computed < req'[r].known /\ req'[r].drafts = 0
                                   /\ mode = "align" => req'[r].computed % BlockSize = 0
                             /\ req'[r].phase = "decode" =>
                                   /\ req'[r].known = req'[r].computed + 1
                                   /\ mode = "align" => (req'[r].computed % BlockSize) + req'[r].drafts < BlockSize
                        ELSE /\ req'[r].kv = NoBlock /\ req'[r].row = EmptyRow
                             /\ req'[r].computed = 0 /\ req'[r].drafts = 0
      BY <1>3, <1>9, <1>11 DEF Progress
    <2>1. CASE \E s \in Elems(step) : s.r = r
      <3>1. PICK s \in Elems(step) : s.r = r
        BY <2>1
      <3>2. r \in Live /\ req[r].kv \in Block
        BY <1>2, <1>6, <3>1, LiveFacts
      <3>3. req'[r].computed \in 1..MaxLen => req'[r].computed <= MaxLen
        BY HybridAssumption
      <3> QED BY <1>6, <1>7, <3>1, <3>2, <3>3
    <2>2. CASE \A s \in Elems(step) : s.r # r
      BY <1>2, <1>8, <2>2 DEF Progress
    <2> QED BY <2>1, <2>2
  <1>17. BlocksOwned'
    <2>1. Ends(copies)' = {}
      BY <1>3, <1>5 DEF Ends
    <2>2. ASSUME NEW r \in Live, NEW i \in Ahead(r)'
          PROVE  /\ \A q \in Live \ {r} : req[r].row[i] \notin RowBlocks(q)
                 /\ \A q \in Live : req[r].row[i] # req[q].kv
                 /\ \A j \in DOMAIN req[r].row \ {i} : req[r].row[j] # req[r].row[i]
                 /\ \A e \in cached' : e.block # req[r].row[i]
      <3>1. i \in Ahead(r)
        BY <1>13, <2>2
      <3>2. ASSUME NEW e \in New PROVE e.block # req[r].row[i]
        <4>1. PICK s \in Elems(step) :
                 /\ e = [content |-> StateOf(s.r, s.start + s.commit), block |-> s.dst]
                 /\ mode = "align" /\ (s.start + s.commit) % BlockSize = 0
          BY <1>14
        <4>2. CASE s.r # r
          <5>1. req[r].row[i] \in RowBlocks(r)
            BY <3>1 DEF Ahead, RowBlocks
          <5> QED BY <1>5, <4>1, <4>2, <5>1
        <4>3. CASE s.r = r
          <5>1. i \in DOMAIN req'[r].row /\ i >= BlockOf(req'[r].computed + 1)
            BY <2>2, <1>11 DEF Ahead
          <5>2. req'[r].computed = s.start + s.commit /\ s.start + s.commit \in Nat \ {0}
            BY <1>6, <1>7, <4>3
          <5>3. BlockOf(s.start + s.commit) < BlockOf(s.start + s.commit + 1)
            BY <4>1, <5>2, FullBlock
          <5>4. BlockOf(s.start + s.commit) \in Int /\ BlockOf(s.start + s.commit + 1) \in Int
            BY <5>2, BlockOfType
          <5>5. i \in Nat /\ i \in DOMAIN req[r].row
            BY <1>2, <3>1, LiveFacts DEF IsRow, Ahead
          <5>6. i # BlockOf(s.start + s.n)
            BY <1>6, <5>1, <5>2, <5>3, <5>4, <5>5
          <5> QED BY <1>5, <4>1, <4>3, <5>5, <5>6
        <4> QED BY <4>2, <4>3
      <3> QED BY <1>2, <1>3, <3>1, <3>2 DEF BlocksOwned
    <2>3. ASSUME NEW r \in Live
          PROVE  /\ \A q \in Live : req[r].kv \notin RowBlocks(q) /\ (q # r => req[r].kv # req[q].kv)
                 /\ \A e \in cached' : e.block # req[r].kv
      <3>1. ASSUME NEW e \in New PROVE e.block # req[r].kv
        BY <1>5, <1>14
      <3> QED BY <1>2, <1>3, <3>1 DEF BlocksOwned
    <2>4. Live \subseteq Req
      BY DEF Live
    <2>5. ASSUME NEW r \in Live, NEW i \in Ahead(r)'
          PROVE  /\ \A q \in Live' \ {r} : req'[r].row[i] \notin RowBlocks(q)'
                 /\ \A q \in Live' : req'[r].row[i] # req'[q].kv
                 /\ \A j \in DOMAIN req'[r].row \ {i} : req'[r].row[j] # req'[r].row[i]
                 /\ \A e \in cached' : e.block # req'[r].row[i]
                 /\ req'[r].row[i] \notin Ends(copies)'
      BY <1>9, <1>10, <1>12, <2>1, <2>2, <2>4, <2>5
    <2>6. ASSUME NEW r \in Live
          PROVE  /\ \A q \in Live' : req'[r].kv \notin RowBlocks(q)' /\ (q # r => req'[r].kv # req'[q].kv)
                 /\ \A e \in cached' : e.block # req'[r].kv
                 /\ req'[r].kv \notin Ends(copies)'
      BY <1>9, <1>10, <1>12, <2>1, <2>3, <2>4, <2>6
    <2> QED BY <1>9, <2>5, <2>6 DEF BlocksOwned
  <1>18. CheckpointsKept'
    <2>1. ASSUME NEW e \in New
          PROVE  mode = "align" /\ e.content.depth \in 1..MaxLen /\ e.content.depth % BlockSize = 0
      <3>1. PICK s \in Elems(step) :
               /\ e = [content |-> StateOf(s.r, s.start + s.commit), block |-> s.dst]
               /\ mode = "align" /\ (s.start + s.commit) % BlockSize = 0
        BY <1>14
      <3>2. e.content.depth = s.start + s.commit
        BY <3>1 DEF StateOf
      <3> QED BY <1>7, <3>1, <3>2
    <2> QED BY <1>2, <1>3, <1>5, <2>1 DEF CheckpointsKept
  <1>19. StepSound'
    BY <1>3 DEF StepSound
  <1>20. ASSUME NEW k, Whole(k), Kept(k), Parking(k), NEW m, m = Settled(Accepted(k))
         PROVE  /\ mode' = "align" => m.slots = <<>>
                /\ \A e \in cached' : m.pool[e.block] = e.content /\ e.block \notin Elems(m.slots)
                /\ \A r \in Live' : m.pool[req'[r].kv] = KVOf(r) /\ req'[r].kv \notin Elems(m.slots)
                /\ \A r \in Live' : req'[r].computed > 0 =>
                      Current(m, StateBlock(r)') = StateOf(r, req'[r].computed)
    <2>1. /\ Whole(m) /\ (mode = "align" => m.slots = <<>>)
          /\ \A s \in Elems(step) : /\ Current(m, s.dst) = StateOf(s.r, s.start + s.commit)
                                    /\ mode = "align" => m.pool[s.dst] = StateOf(s.r, s.start + s.commit)
          /\ \A r \in Live : req[r].computed > 0 /\ (\A i \in DOMAIN step : step[i].r # r) =>
                Current(m, StateBlock(r)) = StateOf(r, req[r].computed)
          /\ \A r \in Live : m.pool[req[r].kv] = KVOf(r) /\ req[r].kv \notin Elems(m.slots)
          /\ \A e \in cached : m.pool[e.block] = e.content /\ e.block \notin Elems(m.slots)
      BY <1>1, <1>3, <1>20, SettledFacts
    <2>2. ASSUME NEW e \in New PROVE m.pool[e.block] = e.content /\ e.block \notin Elems(m.slots)
      <3>1. PICK s \in Elems(step) :
               /\ e = [content |-> StateOf(s.r, s.start + s.commit), block |-> s.dst] /\ mode = "align"
        BY <1>14
      <3>2. Elems(m.slots) = {}
        BY <2>1, <3>1 DEF Elems
      <3> QED BY <2>1, <3>1, <3>2
    <2>3. ASSUME NEW r \in Live, req'[r].computed > 0
          PROVE  Current(m, StateBlock(r)') = StateOf(r, req'[r].computed)
      <3>1. StateBlock(r)' = req'[r].row[BlockOf(req'[r].computed)]
        BY <1>11 DEF StateBlock
      <3>2. CASE \E s \in Elems(step) : s.r = r
        BY <1>6, <1>7, <2>1, <3>1, <3>2
      <3>3. CASE \A s \in Elems(step) : s.r # r
        <4>1. req'[r] = req[r] /\ \A i \in DOMAIN step : step[i].r # r
          BY <1>8, <3>3 DEF Elems, Live
        <4> QED BY <2>1, <2>3, <3>1, <4>1 DEF StateBlock
      <3> QED BY <3>2, <3>3
    <2>4. \A r \in Live : req'[r].kv = req[r].kv
      BY <1>10 DEF Live
    <2> QED BY <1>3, <1>9, <2>1, <2>2, <2>3, <2>4
  <1>21. \A b : Source(b)' = b
    BY <1>3, <1>5 DEF Source
  <1>22. Whole(conv) /\ Whole(rec)
    BY <1>2 DEF HybridTypes
  <1>23. Kept(conv)' /\ Kept(rec)'
    BY <1>1, <1>3, <1>20, <1>21, <1>22 DEF Kept
  <1>24. Parking(conv)' /\ Parking(rec)'
    BY <1>1, <1>3, <1>20, <1>22 DEF Parking
  <1> QED BY <1>15, <1>16, <1>17, <1>18, <1>19, <1>23, <1>24 DEF HybridInv

-----------------------------------------------------------------------------
(* The scheduler between two steps, and the start.                         *)

(* While no step runs and the components are left alone, an action keeps   *)
(* what does not speak of requests, blocks and checkpoints.                *)
LEMMA BetweenSteps ==
    ASSUME HybridInv, step = <<>>, step' = step, conv' = conv, rec' = rec,
           mode' = mode, stash' = stash,
           \A e \in cached' : e \in cached,
           \A q \in Live' : req'[q].kv \notin zeroing' =>
              q \in Live /\ req'[q].kv = req[q].kv /\ req[q].kv \notin zeroing,
           NEW k, k \in {conv, rec},
           \A q \in Live' : req'[q].computed > 0 =>
              Current(k, Source(StateBlock(q))') = StateOf(q, req'[q].computed)
    PROVE  /\ \A e \in cached' : k.pool[e.block] = e.content /\ e.block \notin Elems(k.slots)
           /\ \A q \in Live' : req'[q].kv \notin zeroing' =>
                 k.pool[req'[q].kv] = KVOf(q) /\ req'[q].kv \notin Elems(k.slots)
           /\ mode' = "align" => k.slots = <<>>
  <1>1. Kept(k) /\ Parking(k)
    BY DEF HybridInv
  <1> QED BY <1>1 DEF Kept, Parking

LEMMA GonePreserves ==
    ASSUME HybridInv, NEW r \in Req, NEW phase \in {"out", "done"}, Gone(r, phase),
           preempts' \in Nat
    PROVE  HybridInv'
  <1>1. HybridTypes /\ Progress /\ BlocksOwned /\ CheckpointsKept
    BY DEF HybridInv
  <1>2. /\ step = <<>> /\ r \in Live /\ req[r].kv \notin zeroing
        /\ req' = [req EXCEPT ![r] = [@ EXCEPT !.phase = phase, !.computed = 0, !.drafts = 0,
                                               !.row = EmptyRow, !.kv = NoBlock]]
        /\ released' = released \cup {r}
        /\ mode' = mode /\ deferring' = deferring /\ conv' = conv /\ rec' = rec
        /\ stash' = stash /\ needs' = needs /\ step' = step
        /\ zeroing' = zeroing /\ copies' = copies /\ cached' = cached
    BY DEF Gone, cacheVars
  <1>3. /\ DOMAIN req[r] = {"phase", "known", "computed", "row", "kv", "drafts"}
        /\ req = [q \in Req |-> req[q]] /\ req[r].known \in Nat \ {0}
    BY <1>1 DEF HybridTypes
  <1>4. /\ DOMAIN req'[r] = {"phase", "known", "computed", "row", "kv", "drafts"}
        /\ req'[r].phase = phase /\ req'[r].known = req[r].known /\ req'[r].computed = 0
        /\ req'[r].drafts = 0 /\ req'[r].row = EmptyRow /\ req'[r].kv = NoBlock
    BY <1>2, <1>3
  <1>5. req' = [q \in Req |-> req'[q]] /\ \A q \in Req : q # r => req'[q] = req[q]
    BY <1>2, <1>3
  <1>6. Live' = Live \ {r}
    BY <1>4, <1>5 DEF Live
  <1>7. Live \subseteq Req /\ \A q \in Live' : q # r /\ q \in Live /\ req'[q] = req[q]
    BY <1>5, <1>6 DEF Live
  <1>8. IsRow(EmptyRow)
    BY DEF IsRow, EmptyRow
  <1>9. HybridTypes'
    <2>1. ASSUME NEW q \in Req
          PROVE  /\ DOMAIN req'[q] = {"phase", "known", "computed", "row", "kv", "drafts"}
                 /\ req'[q].phase \in {"out", "prefill", "decode", "done"}
                 /\ req'[q].known \in Nat \ {0} /\ req'[q].computed \in Nat /\ req'[q].drafts \in Nat
                 /\ IsRow(req'[q].row) /\ req'[q].kv \in Block \cup {NoBlock}
      <3>1. CASE q = r
        BY <1>3, <1>4, <1>8, <3>1
      <3>2. CASE q # r
        BY <1>1, <1>5, <3>2 DEF HybridTypes
      <3> QED BY <3>1, <3>2
    <2> QED BY <1>1, <1>2, <1>5, <2>1 DEF HybridTypes
  <1>10. Progress'
    <2>1. \A n : BlockOf(n)' = BlockOf(n)
      BY <1>2 DEF BlockOf, Stride
    <2>2. \A q \in Req : q # r => (q \in Live' <=> q \in Live) /\ req'[q] = req[q]
      BY <1>5, <1>6
    <2>3. r \notin Live'
      BY <1>6
    <2> QED BY <1>1, <1>2, <1>4, <2>1, <2>2, <2>3 DEF Progress
  <1>11. BlocksOwned'
    <2>1. \A q \in Live' : Ahead(q)' = Ahead(q) /\ RowBlocks(q)' = RowBlocks(q)
      BY <1>2, <1>7 DEF Ahead, RowBlocks, BlockOf, Stride
    <2>2. Ends(copies)' = Ends(copies)
      BY <1>2 DEF Ends
    <2> QED BY <1>1, <1>2, <1>7, <2>1, <2>2 DEF BlocksOwned
  <1>12. CheckpointsKept'
    <2>1. copies # {} => \E q \in Live' : req'[q].kv \in zeroing
      BY <1>1, <1>2, <1>5, <1>6, <1>7 DEF CheckpointsKept
    <2>2. \A b \in zeroing : \E q \in Live' : req'[q].kv = b
      BY <1>1, <1>2, <1>5, <1>6, <1>7 DEF CheckpointsKept
    <2> QED BY <1>1, <1>2, <2>1, <2>2 DEF CheckpointsKept
  <1>13. StepSound'
    BY <1>2 DEF StepSound
  <1>14. ASSUME NEW k \in {conv, rec}, NEW q \in Live', req'[q].computed > 0
         PROVE  Current(k, Source(StateBlock(q))') = StateOf(q, req'[q].computed)
    <2>1. StateBlock(q)' = StateBlock(q)
      BY <1>2, <1>7 DEF StateBlock, BlockOf, Stride
    <2>2. Source(StateBlock(q))' = Source(StateBlock(q))
      BY <1>2, <2>1 DEF Source
    <2>3. Kept(k)
      BY DEF HybridInv
    <2> QED BY <1>2, <1>7, <1>14, <2>2, <2>3 DEF Kept
  <1>15. ASSUME NEW k \in {conv, rec}
         PROVE  /\ \A e \in cached' : k.pool[e.block] = e.content /\ e.block \notin Elems(k.slots)
                /\ \A q \in Live' : req'[q].kv \notin zeroing' =>
                      k.pool[req'[q].kv] = KVOf(q) /\ req'[q].kv \notin Elems(k.slots)
                /\ mode' = "align" => k.slots = <<>>
    BY <1>2, <1>7, <1>14, BetweenSteps
  <1>16. Kept(conv)' /\ Kept(rec)'
    BY <1>2, <1>14, <1>15 DEF Kept
  <1>17. Parking(conv)' /\ Parking(rec)'
    BY <1>2, <1>15 DEF Parking
  <1> QED BY <1>9, <1>10, <1>11, <1>12, <1>13, <1>16, <1>17 DEF HybridInv

(* A free block belongs to nobody. *)
LEMMA FreeFacts ==
    ASSUME NEW b \in Free
    PROVE  /\ b \in Block /\ b \notin Ends(copies)
           /\ \A q \in Req : b \notin RowBlocks(q) /\ b # req[q].kv
  <1> DEFINE used == UNION {RowBlocks(q) \cup {req[q].kv} : q \in Req}
             ends == Ends(copies)
  <1>1. Free = Block \ (used \cup ends)
    BY DEF Free
  <1>2. \A q \in Req : \A x \in RowBlocks(q) \cup {req[q].kv} : x \in used
    OBVIOUS
  <1> HIDE DEF used, ends
  <1>3. b \in Block /\ b \notin used /\ b \notin ends
    BY <1>1
  <1>4. \A q \in Req : b \notin RowBlocks(q) \cup {req[q].kv}
    BY <1>2, <1>3
  <1> QED BY <1>3, <1>4 DEF ends

LEMMA GrowPreserves ==
    ASSUME HybridInv, NEW r \in Req, NEW b \in Block, NEW i \in 0..MaxLen, Grow(r, b, i)
    PROVE  HybridInv'
  <1> DEFINE kept == {j \in DOMAIN req[r].row : j >= BlockOf(req[r].computed)}
             row == [j \in kept \cup {i} |-> IF j = i THEN b ELSE req[r].row[j]]
  <1>1. HybridTypes /\ Progress /\ BlocksOwned /\ CheckpointsKept
    BY DEF HybridInv
  <1>2. /\ step = <<>> /\ r \in Live /\ b \in Free /\ i \notin DOMAIN req[r].row
        /\ cached' = {e \in cached : e.block # b}
        /\ mode' = mode /\ deferring' = deferring /\ conv' = conv /\ rec' = rec
        /\ stash' = stash /\ needs' = needs /\ step' = step /\ released' = released
        /\ zeroing' = zeroing /\ copies' = copies /\ preempts' = preempts
    BY DEF Grow, Uncache, cacheVars
  <1>3. req' = [req EXCEPT ![r].row = row]
    BY DEF Grow
  <1>4. /\ DOMAIN req[r] = {"phase", "known", "computed", "row", "kv", "drafts"}
        /\ req = [q \in Req |-> req[q]]
    BY <1>1 DEF HybridTypes
  <1>5. /\ IsRow(req[r].row) /\ req[r].computed \in Nat
        /\ req[r].computed > 0 => BlockOf(req[r].computed) \in DOMAIN req[r].row
    BY <1>1, <1>2, LiveFacts
  <1>6. /\ b \in Block /\ b \notin Ends(copies)
        /\ \A q \in Req : b \notin RowBlocks(q) /\ b # req[q].kv
    BY <1>2, FreeFacts
  <1>7. /\ DOMAIN row = kept \cup {i} /\ row[i] = b
        /\ \A j \in kept : j \in DOMAIN req[r].row /\ j # i /\ row[j] = req[r].row[j]
    BY <1>2
  <1>8. IsRow(row)
    <2>1. i \in Nat /\ kept \subseteq Nat
      BY <1>5, HybridAssumption DEF IsRow
    <2>2. row = [j \in DOMAIN row |-> row[j]]
      OBVIOUS
    <2>3. \A j \in DOMAIN row : row[j] \in Block
      BY <1>5, <1>6, <1>7 DEF IsRow
    <2> QED BY <1>7, <2>1, <2>2, <2>3 DEF IsRow
  <1>9. req[r].computed > 0 => BlockOf(req[r].computed) \in kept
    BY <1>5, BlockOfType
  <1> HIDE DEF row, kept
  <1>10. /\ DOMAIN req'[r] = DOMAIN req[r] /\ req'[r].row = row
         /\ req'[r].phase = req[r].phase /\ req'[r].known = req[r].known
         /\ req'[r].computed = req[r].computed /\ req'[r].drafts = req[r].drafts
         /\ req'[r].kv = req[r].kv
    BY <1>3, <1>4
  <1>11. req' = [q \in Req |-> req'[q]] /\ \A q \in Req : q # r => req'[q] = req[q]
    BY <1>3, <1>4
  <1>12. Live' = Live /\ Live \subseteq Req
    BY <1>10, <1>11 DEF Live
  <1>13. \A n : BlockOf(n)' = BlockOf(n)
    BY <1>2 DEF BlockOf, Stride
  <1>14. \A q \in Req : req'[q].kv = req[q].kv /\ req'[q].computed = req[q].computed
    BY <1>10, <1>11
  <1>15. HybridTypes'
    <2>1. ASSUME NEW q \in Req
          PROVE  /\ DOMAIN req'[q] = {"phase", "known", "computed", "row", "kv", "drafts"}
                 /\ req'[q].phase \in {"out", "prefill", "decode", "done"}
                 /\ req'[q].known \in Nat \ {0} /\ req'[q].computed \in Nat /\ req'[q].drafts \in Nat
                 /\ IsRow(req'[q].row) /\ req'[q].kv \in Block \cup {NoBlock}
      <3>1. CASE q = r
        <4>1. /\ req[r].phase \in {"out", "prefill", "decode", "done"}
              /\ req[r].known \in Nat \ {0} /\ req[r].computed \in Nat /\ req[r].drafts \in Nat
              /\ req[r].kv \in Block \cup {NoBlock}
          BY <1>1 DEF HybridTypes
        <4> QED BY <1>4, <1>8, <1>10, <3>1, <4>1
      <3>2. CASE q # r
        BY <1>1, <1>11, <3>2 DEF HybridTypes
      <3> QED BY <3>1, <3>2
    <2> QED BY <1>1, <1>2, <1>11, <2>1 DEF HybridTypes
  <1>16. Progress'
    <2>1. ASSUME NEW q \in Req, q # r PROVE req'[q] = req[q] /\ (q \in Live' <=> q \in Live)
      BY <1>11, <1>12, <2>1
    <2>2. req[r].computed > 0 => BlockOf(req[r].computed) \in DOMAIN req'[r].row
      BY <1>7, <1>9, <1>10
    <2> QED BY <1>1, <1>2, <1>10, <1>12, <1>13, <2>1, <2>2 DEF Progress
  <1>17. BlocksOwned'
    <2>1. /\ \A q \in Live : q # r => Ahead(q)' = Ahead(q) /\ RowBlocks(q)' = RowBlocks(q)
      BY <1>2, <1>11, <1>12 DEF Ahead, RowBlocks, BlockOf, Stride
    <2>2. RowBlocks(r)' \subseteq RowBlocks(r) \cup {b}
      BY <1>7, <1>10 DEF RowBlocks
    <2>3. Ahead(r)' \subseteq Ahead(r) \cup {i}
      BY <1>7, <1>10, <1>13 DEF Ahead
    <2>4. Ends(copies)' = Ends(copies)
      BY <1>2 DEF Ends
    <2>5. ASSUME NEW q \in Live, NEW j \in Ahead(q)'
          PROVE  /\ \A p \in Live \ {q} : req'[q].row[j] \notin RowBlocks(p)'
                 /\ \A p \in Live : req'[q].row[j] # req[p].kv
                 /\ \A l \in DOMAIN req'[q].row \ {j} : req'[q].row[l] # req'[q].row[j]
                 /\ \A e \in cached' : e.block # req'[q].row[j]
                 /\ req'[q].row[j] \notin Ends(copies)
      <3>1. CASE q # r
        <4>1. j \in Ahead(q) /\ req'[q].row = req[q].row /\ req[q].row[j] \in RowBlocks(q)
          BY <1>11, <1>12, <2>1, <2>5, <3>1 DEF Ahead, RowBlocks
        <4>2. req[q].row[j] # b
          BY <1>6, <1>12, <4>1
        <4> QED BY <1>1, <1>2, <2>1, <2>2, <4>1, <4>2 DEF BlocksOwned
      <3>2. CASE q = r /\ j = i
        <4>1. req'[q].row[j] = b
          BY <1>7, <1>10, <3>2
        <4>2. ASSUME NEW l \in DOMAIN row, l # i PROVE row[l] # b
          <5>1. l \in kept /\ row[l] = req[r].row[l] /\ l \in DOMAIN req[r].row
            BY <1>7, <4>2
          <5>2. req[r].row[l] \in RowBlocks(r)
            BY <5>1 DEF RowBlocks
          <5> QED BY <1>6, <5>1, <5>2
        <4> QED BY <1>2, <1>6, <1>10, <1>12, <2>1, <3>2, <4>1, <4>2
      <3>3. CASE q = r /\ j # i
        <4>1. j \in Ahead(r) /\ j \in kept /\ row[j] = req[r].row[j] /\ req[r].row[j] \in RowBlocks(r)
          <5>1. j \in DOMAIN row
            BY <1>10, <2>5, <3>3 DEF Ahead
          <5> QED BY <1>7, <2>3, <2>5, <3>3, <5>1 DEF RowBlocks
        <4>2. req[r].row[j] # b
          BY <1>6, <4>1
        <4>3. \A l \in DOMAIN row \ {j} : row[l] # row[j]
          BY <1>1, <1>2, <1>7, <4>1, <4>2 DEF BlocksOwned
        <4> QED BY <1>1, <1>2, <1>10, <2>1, <3>3, <4>1, <4>3 DEF BlocksOwned
      <3> QED BY <3>1, <3>2, <3>3
    <2>6. ASSUME NEW q \in Live
          PROVE  /\ \A p \in Live : req[q].kv \notin RowBlocks(p)' /\ (p # q => req[q].kv # req[p].kv)
                 /\ \A e \in cached' : e.block # req[q].kv
                 /\ req[q].kv \notin Ends(copies)
      <3>1. req[q].kv # b
        BY <1>6, <1>12
      <3> QED BY <1>1, <1>2, <2>1, <2>2, <3>1 DEF BlocksOwned
    <2>7. \A q \in Live : req'[q].kv = req[q].kv
      BY <1>12, <1>14
    <2> QED BY <1>12, <2>4, <2>5, <2>6, <2>7 DEF BlocksOwned
  <1>18. CheckpointsKept'
    <2>1. copies # {} => \E q \in Live : req'[q].kv \in zeroing
      BY <1>1, <1>12, <1>14 DEF CheckpointsKept
    <2>2. \A z \in zeroing : \E q \in Live : req'[q].kv = z
      BY <1>1, <1>12, <1>14 DEF CheckpointsKept
    <2> QED BY <1>1, <1>2, <1>12, <2>1, <2>2 DEF CheckpointsKept
  <1>19. StepSound'
    BY <1>2 DEF StepSound
  <1>20. ASSUME NEW k \in {conv, rec}, NEW q \in Live', req'[q].computed > 0
         PROVE  Current(k, Source(StateBlock(q))') = StateOf(q, req'[q].computed)
    <2>1. StateBlock(q)' = StateBlock(q)
      <3>1. CASE q = r
        BY <1>7, <1>9, <1>10, <1>13, <1>20, <3>1 DEF StateBlock
      <3>2. CASE q # r
        BY <1>11, <1>12, <1>13, <3>2 DEF StateBlock
      <3> QED BY <3>1, <3>2
    <2>2. Source(StateBlock(q))' = Source(StateBlock(q))
      BY <1>2, <2>1 DEF Source
    <2>3. Kept(k)
      BY DEF HybridInv
    <2> QED BY <1>2, <1>12, <1>14, <1>20, <2>2, <2>3 DEF Kept
  <1>21. ASSUME NEW k \in {conv, rec}
         PROVE  /\ \A e \in cached' : k.pool[e.block] = e.content /\ e.block \notin Elems(k.slots)
                /\ \A q \in Live' : req'[q].kv \notin zeroing' =>
                      k.pool[req'[q].kv] = KVOf(q) /\ req'[q].kv \notin Elems(k.slots)
                /\ mode' = "align" => k.slots = <<>>
    <2>1. \A q \in Live' : q \in Live /\ req'[q].kv = req[q].kv
      BY <1>12, <1>14
    <2> QED BY <1>2, <1>20, <2>1, BetweenSteps
  <1>22. Kept(conv)' /\ Kept(rec)'
    BY <1>2, <1>20, <1>21 DEF Kept
  <1>23. Parking(conv)' /\ Parking(rec)'
    BY <1>2, <1>21 DEF Parking
  <1> QED BY <1>15, <1>16, <1>17, <1>18, <1>19, <1>22, <1>23 DEF HybridInv

(* The source of a copy, and of a block that none is due for. *)
LEMMA SourceFacts ==
    ASSUME CheckpointsKept
    PROVE  /\ \A p \in copies : Source(p[2]) = p[1]
           /\ \A b : (\A p \in copies : p[2] # b) => Source(b) = b
  <1>1. ASSUME NEW p \in copies PROVE Source(p[2]) = p[1]
    <2>1. \A q \in copies : p[2] = q[2] => p = q
      BY DEF CheckpointsKept
    <2>2. (CHOOSE q \in copies : q[2] = p[2]) = p
      BY <2>1
    <2> QED BY <2>2 DEF Source
  <1> QED BY <1>1 DEF Source

LEMMA AdmitPreserves ==
    ASSUME HybridInv, NEW r \in Req, NEW hit \in SUBSET cached, NEW b \in Block,
           NEW cow \in Block \cup {NoBlock}, Admit(r, hit, b, cow)
    PROVE  HybridInv'
  <1> DEFINE depth == IF hit = {} THEN 0 ELSE (CHOOSE e \in hit : TRUE).content.depth
             from == IF hit = {} THEN NoBlock ELSE (CHOOSE e \in hit : TRUE).block
             into == IF cow = NoBlock THEN from ELSE cow
             row == IF hit = {} THEN EmptyRow ELSE [i \in {BlockOf(depth)} |-> into]
             taken == IF hit = {} THEN {} ELSE {from, into}
  <1>1. HybridTypes /\ Progress /\ BlocksOwned /\ CheckpointsKept
    BY DEF HybridInv
  <1>2. /\ step = <<>> /\ req[r].phase = "out" /\ b \in Free /\ b \notin {e.block : e \in hit}
        /\ hit \in {{}} \cup {{e} : e \in Hits(r)}
        /\ cow \in Free \cup {NoBlock}
        /\ cow # NoBlock => hit # {} /\ cow # b /\ cow \notin {e.block : e \in hit}
        /\ zeroing' = zeroing \cup {b}
        /\ cached' = {e \in cached : e.block \notin {b, cow}}
        /\ mode' = mode /\ deferring' = deferring /\ conv' = conv /\ rec' = rec
        /\ stash' = stash /\ needs' = needs /\ step' = step /\ released' = released
        /\ preempts' = preempts
    BY DEF Admit, cacheVars
  <1>3. copies' = IF cow = NoBlock THEN copies ELSE copies \cup {<<from, cow>>}
    BY DEF Admit
  <1>4. req' = [req EXCEPT ![r] = [@ EXCEPT !.phase = "prefill", !.computed = depth, !.kv = b,
                                            !.row = row]]
    BY DEF Admit
  <1>5. /\ b \in Block /\ b \notin Ends(copies)
        /\ \A q \in Req : b \notin RowBlocks(q) /\ b # req[q].kv
    BY <1>2, FreeFacts
  <1>6. cow # NoBlock => /\ cow \in Block /\ cow \notin Ends(copies)
                         /\ \A q \in Req : cow \notin RowBlocks(q) /\ cow # req[q].kv
    <2> SUFFICES ASSUME cow # NoBlock PROVE cow \in Free
      BY FreeFacts
    <2> QED BY <1>2
  <1>7. /\ r \in Req /\ r \notin Live /\ req[r].drafts = 0 /\ req[r].known \in Nat \ {0}
        /\ DOMAIN req[r] = {"phase", "known", "computed", "row", "kv", "drafts"}
        /\ req = [q \in Req |-> req[q]]
    BY <1>1, <1>2 DEF HybridTypes, Progress, Live
  (* A hit is a checkpoint of the request's own text. *)
  <1>8. hit # {} => \E e \in cached :
           /\ hit = {e} /\ e.content.depth < req[r].known /\ e.content = StateOf(r, depth)
           /\ depth = e.content.depth /\ from = e.block
    <2> SUFFICES ASSUME hit # {}
                 PROVE  \E e \in cached :
                           /\ hit = {e} /\ e.content.depth < req[r].known /\ e.content = StateOf(r, depth)
                           /\ depth = e.content.depth /\ from = e.block
      OBVIOUS
    <2>1. PICK e \in Hits(r) : hit = {e}
      BY <1>2
    <2>2. e \in cached /\ e.content.depth < req[r].known /\ e.content = StateOf(r, e.content.depth)
      BY DEF Hits
    <2>3. (CHOOSE x \in hit : TRUE) = e
      BY <2>1
    <2>4. depth = e.content.depth /\ from = e.block
      BY <2>1, <2>3
    <2> QED BY <2>1, <2>2, <2>4
  <1>9. /\ hit = {} => depth = 0 /\ row = EmptyRow /\ taken = {} /\ cow = NoBlock
        /\ hit # {} => row = [i \in {BlockOf(depth)} |-> into] /\ taken = {from, into}
        /\ into = IF cow = NoBlock THEN from ELSE cow
    BY <1>2
  <1> HIDE DEF depth, from, into, row, taken
  <1>10. /\ depth \in Nat /\ depth <= MaxLen /\ depth < req[r].known
         /\ depth > 0 <=> hit # {}
         /\ mode = "align" => depth % BlockSize = 0
    <2>1. CASE hit = {}
      BY <1>7, <1>9, <2>1, HybridAssumption
    <2>2. CASE hit # {}
      <3>1. PICK e \in cached : e.content.depth < req[r].known /\ depth = e.content.depth
        BY <1>8, <2>2
      <3>2. e.content.depth \in 1..MaxLen /\ e.content.depth % BlockSize = 0
        BY <1>1 DEF CheckpointsKept
      <3> QED BY <2>2, <3>1, <3>2, HybridAssumption
    <2> QED BY <2>1, <2>2
  <1>11. hit # {} => mode = "align" /\ BlockOf(depth) < BlockOf(depth + 1) /\ BlockOf(depth) \in Nat
    <2> SUFFICES ASSUME hit # {} PROVE mode = "align" /\ BlockOf(depth) < BlockOf(depth + 1) /\ BlockOf(depth) \in Nat
      OBVIOUS
    <2>1. mode = "align"
      BY <1>1 DEF CheckpointsKept
    <2> QED BY <1>10, <2>1, FullBlock, BlockOfType
  (* The blocks of the checkpoint are nobody's to write. *)
  <1>12. hit # {} => /\ from \in Block /\ from # b /\ from # cow
                     /\ \A p \in copies : p[2] # from
                     /\ \A q \in Live : from # req[q].kv
                     /\ \A q \in Live : \A i \in Ahead(q) : req[q].row[i] # from
    <2> SUFFICES ASSUME hit # {}
                 PROVE  /\ from \in Block /\ from # b /\ from # cow
                        /\ \A p \in copies : p[2] # from
                        /\ \A q \in Live : from # req[q].kv
                        /\ \A q \in Live : \A i \in Ahead(q) : req[q].row[i] # from
      OBVIOUS
    <2>1. PICK e \in cached : hit = {e} /\ from = e.block
      BY <1>8
    <2>2. from \in Block
      BY <1>1, <2>1 DEF HybridTypes
    <2>3. from # b /\ from # cow
      BY <1>2, <2>1, <2>2, HybridAssumption
    <2> QED BY <1>1, <2>1, <2>2, <2>3 DEF BlocksOwned, CheckpointsKept
  <1>13. \A x \in taken : /\ x \in Block /\ x # b
                          /\ \A q \in Live : x # req[q].kv
                          /\ \A q \in Live : \A i \in Ahead(q) : req[q].row[i] # x
    <2>1. Live \subseteq Req
      BY DEF Live
    <2>2. \A q \in Live : \A i \in Ahead(q) : req[q].row[i] \in RowBlocks(q)
      BY DEF Ahead, RowBlocks
    <2> QED BY <1>2, <1>6, <1>9, <1>12, <2>1, <2>2
  <1>14. Ends(copies)' \subseteq Ends(copies) \cup taken
    <2>1. CASE cow = NoBlock
      BY <1>3, <2>1 DEF Ends
    <2>2. CASE cow # NoBlock
      <3>1. taken = {from, cow} /\ copies' = copies \cup {<<from, cow>>}
        BY <1>2, <1>3, <1>9, <2>2
      <3> QED BY <3>1 DEF Ends
    <2> QED BY <2>1, <2>2
  (* The requests after the admission. *)
  <1>15. /\ DOMAIN req'[r] = {"phase", "known", "computed", "row", "kv", "drafts"}
         /\ req'[r].phase = "prefill" /\ req'[r].known = req[r].known /\ req'[r].computed = depth
         /\ req'[r].drafts = 0 /\ req'[r].row = row /\ req'[r].kv = b
    BY <1>4, <1>7
  <1>16. req' = [q \in Req |-> req'[q]] /\ \A q \in Req : q # r => req'[q] = req[q]
    BY <1>4, <1>7
  <1>17. Live' = Live \cup {r} /\ Live \subseteq Req
    BY <1>15, <1>16 DEF Live
  <1>18. \A n : BlockOf(n)' = BlockOf(n)
    BY <1>2 DEF BlockOf, Stride
  <1>19. \A q \in Live : /\ q # r /\ req'[q] = req[q]
                         /\ Ahead(q)' = Ahead(q) /\ RowBlocks(q)' = RowBlocks(q)
                         /\ StateBlock(q)' = StateBlock(q)
    BY <1>7, <1>16, <1>17, <1>18 DEF Ahead, RowBlocks, StateBlock
  <1>20. /\ IsRow(row)
         /\ depth > 0 => BlockOf(depth) \in DOMAIN row /\ row[BlockOf(depth)] = into
         /\ \A i \in DOMAIN row : row[i] \in taken /\ i < BlockOf(depth + 1) /\ i \in Nat
    <2>1. CASE hit = {}
      BY <1>9, <1>10, <2>1 DEF IsRow, EmptyRow
    <2>2. CASE hit # {}
      <3>1. row = [i \in {BlockOf(depth)} |-> into] /\ taken = {from, into}
        BY <1>9, <2>2
      <3>2. into \in Block
        BY <1>13, <3>1
      <3> QED BY <1>11, <2>2, <3>1, <3>2 DEF IsRow
    <2> QED BY <2>1, <2>2
  <1>21. Ahead(r)' = {}
    <2>1. BlockOf(depth + 1) \in Int
      BY <1>10, BlockOfType
    <2> QED BY <1>15, <1>18, <1>20, <2>1 DEF Ahead
  <1>22. RowBlocks(r)' \subseteq taken
    BY <1>15, <1>20 DEF RowBlocks
  <1>23. HybridTypes'
    <2>1. ASSUME NEW q \in Req
          PROVE  /\ DOMAIN req'[q] = {"phase", "known", "computed", "row", "kv", "drafts"}
                 /\ req'[q].phase \in {"out", "prefill", "decode", "done"}
                 /\ req'[q].known \in Nat \ {0} /\ req'[q].computed \in Nat /\ req'[q].drafts \in Nat
                 /\ IsRow(req'[q].row) /\ req'[q].kv \in Block \cup {NoBlock}
      <3>1. CASE q = r
        BY <1>5, <1>7, <1>10, <1>15, <1>20, <3>1
      <3>2. CASE q # r
        BY <1>1, <1>16, <3>2 DEF HybridTypes
      <3> QED BY <3>1, <3>2
    <2>2. copies' \subseteq Block \X Block
      <3>1. cow # NoBlock => from \in Block /\ cow \in Block
        BY <1>2, <1>6, <1>12
      <3> QED BY <1>1, <1>3, <3>1 DEF HybridTypes
    <2> QED BY <1>1, <1>2, <1>16, <2>1, <2>2 DEF HybridTypes
  <1>24. Progress'
    <2>1. ASSUME NEW q \in Req, q # r PROVE req'[q] = req[q] /\ (q \in Live' <=> q \in Live)
      BY <1>16, <1>17, <2>1
    <2>2. r \in Live'
      BY <1>17
    <2> QED BY <1>1, <1>2, <1>5, <1>10, <1>15, <1>18, <1>20, <2>1, <2>2 DEF Progress
  <1>25. BlocksOwned'
    <2>1. ASSUME NEW q \in Live', NEW i \in Ahead(q)'
          PROVE  /\ \A p \in Live' \ {q} : req'[q].row[i] \notin RowBlocks(p)'
                 /\ \A p \in Live' : req'[q].row[i] # req'[p].kv
                 /\ \A l \in DOMAIN req'[q].row \ {i} : req'[q].row[l] # req'[q].row[i]
                 /\ \A e \in cached' : e.block # req'[q].row[i]
                 /\ req'[q].row[i] \notin Ends(copies)'
      <3>1. q # r /\ q \in Live
        BY <1>17, <1>21, <2>1
      <3>2. req'[q] = req[q] /\ i \in Ahead(q) /\ req[q].row[i] \in RowBlocks(q)
        BY <1>19, <2>1, <3>1 DEF Ahead, RowBlocks
      <3>3. req[q].row[i] \notin taken /\ req[q].row[i] # b
        BY <1>5, <1>13, <1>17, <3>1, <3>2
      <3>4. /\ \A p \in Live \ {q} : req[q].row[i] \notin RowBlocks(p)
            /\ \A p \in Live : req[q].row[i] # req[p].kv
            /\ \A l \in DOMAIN req[q].row \ {i} : req[q].row[l] # req[q].row[i]
            /\ \A e \in cached : e.block # req[q].row[i]
            /\ req[q].row[i] \notin Ends(copies)
        BY <1>1, <3>1, <3>2 DEF BlocksOwned
      <3>5. \A p \in Live' \ {q} : req'[q].row[i] \notin RowBlocks(p)'
        BY <1>17, <1>19, <1>22, <3>2, <3>3, <3>4
      <3>6. \A p \in Live' : req'[q].row[i] # req'[p].kv
        BY <1>15, <1>17, <1>19, <3>2, <3>3, <3>4
      <3> QED BY <1>2, <1>14, <3>2, <3>3, <3>4, <3>5, <3>6
    <2>2. ASSUME NEW q \in Live'
          PROVE  /\ \A p \in Live' : req'[q].kv \notin RowBlocks(p)' /\ (p # q => req'[q].kv # req'[p].kv)
                 /\ \A e \in cached' : e.block # req'[q].kv
                 /\ req'[q].kv \notin Ends(copies)'
      <3>1. CASE q = r
        BY <1>2, <1>5, <1>13, <1>14, <1>15, <1>17, <1>19, <1>22, <3>1
      <3>2. CASE q # r
        <4>1. q \in Live /\ req'[q] = req[q] /\ req[q].kv # b
          BY <1>5, <1>17, <1>19, <3>2
        <4>2. req[q].kv \notin taken
          BY <1>13, <4>1
        <4>3. /\ \A p \in Live : req[q].kv \notin RowBlocks(p) /\ (p # q => req[q].kv # req[p].kv)
              /\ \A e \in cached : e.block # req[q].kv
              /\ req[q].kv \notin Ends(copies)
          BY <1>1, <4>1 DEF BlocksOwned
        <4> QED BY <1>2, <1>14, <1>15, <1>17, <1>19, <1>22, <4>1, <4>2, <4>3
      <3> QED BY <3>1, <3>2
    <2> QED BY <2>1, <2>2 DEF BlocksOwned
  <1>26. \A p \in copies : p[1] \in Ends(copies) /\ p[2] \in Ends(copies)
    BY DEF Ends
  <1>27. \A p \in copies' : \/ p \in copies
                            \/ /\ cow # NoBlock /\ hit # {}
                               /\ p = <<from, cow>> /\ p[1] = from /\ p[2] = cow
    BY <1>2, <1>3
  <1>28. CheckpointsKept'
    <2>1. cached' # {} => mode = "align"
      BY <1>1, <1>2 DEF CheckpointsKept
    <2>2. ASSUME NEW e \in cached'
          PROVE  /\ e.content.depth \in 1..MaxLen /\ e.content.depth % BlockSize = 0
                 /\ \A p \in copies' : p[2] # e.block
      BY <1>1, <1>2, <1>27 DEF CheckpointsKept
    <2>3. copies' # {} => mode = "align"
      BY <1>1, <1>11, <1>27 DEF CheckpointsKept
    <2>4. ASSUME NEW p \in copies', NEW q \in copies'
          PROVE  p[1] # q[2] /\ (p[2] = q[2] => p = q)
      <3>1. CASE p \in copies /\ q \in copies
        BY <1>1, <3>1 DEF CheckpointsKept
      <3>2. CASE p \in copies /\ q \notin copies
        BY <1>6, <1>26, <1>27, <3>2
      <3>3. CASE p \notin copies /\ q \in copies
        BY <1>6, <1>12, <1>26, <1>27, <3>3
      <3>4. CASE p \notin copies /\ q \notin copies
        BY <1>12, <1>27, <3>4
      <3> QED BY <3>1, <3>2, <3>3, <3>4
    <2>5. r \in Live' /\ req'[r].kv = b /\ b \in zeroing'
      BY <1>2, <1>15, <1>17
    <2>6. \A z \in zeroing' : \E q \in Live' : req'[q].kv = z
      <3>1. \A z \in zeroing : \E q \in Live : req[q].kv = z
        BY <1>1 DEF CheckpointsKept
      <3>2. \A z \in zeroing : \E q \in Live' : req'[q].kv = z
        BY <1>17, <1>19, <3>1
      <3> QED BY <1>2, <2>5, <3>2
    <2> QED BY <1>2, <2>1, <2>2, <2>3, <2>4, <2>5, <2>6 DEF CheckpointsKept
  <1>29. StepSound'
    BY <1>2 DEF StepSound
  <1>30. ASSUME NEW k \in {conv, rec}, NEW q \in Live', req'[q].computed > 0
         PROVE  Current(k, Source(StateBlock(q))') = StateOf(q, req'[q].computed)
    <2>1. Kept(k) /\ Whole(k)
      BY <1>1 DEF HybridInv, HybridTypes
    <2>2. /\ \A p \in copies' : Source(p[2])' = p[1]
          /\ \A x : (\A p \in copies' : p[2] # x) => Source(x)' = x
      <3>1. ASSUME NEW p \in copies' PROVE Source(p[2])' = p[1]
        <4>1. \A x \in copies' : p[2] = x[2] => p = x
          BY <1>28 DEF CheckpointsKept
        <4>2. (CHOOSE x \in copies' : x[2] = p[2]) = p
          BY <4>1
        <4> QED BY <4>2 DEF Source
      <3>2. ASSUME NEW x, \A p \in copies' : p[2] # x PROVE Source(x)' = x
        BY <3>2 DEF Source
      <3> QED BY <3>1, <3>2
    <2>3. CASE q # r
      <3>1. q \in Live /\ req'[q] = req[q] /\ StateBlock(q)' = StateBlock(q)
        BY <1>17, <1>19, <2>3
      <3>2. StateBlock(q) \in RowBlocks(q)
        BY <1>1, <1>30, <3>1, LiveFacts
      <3>3. Current(k, Source(StateBlock(q))) = StateOf(q, req[q].computed)
        BY <1>2, <1>30, <2>1, <3>1 DEF Kept
      <3>4. Source(StateBlock(q))' = Source(StateBlock(q))
        <4>1. CASE \E p \in copies : p[2] = StateBlock(q)
          <5>1. PICK p \in copies : p[2] = StateBlock(q)
            BY <4>1
          <5>2. Source(p[2]) = p[1]
            BY <1>1, SourceFacts
          <5>3. p \in copies'
            BY <1>3
          <5>4. Source(p[2])' = p[1]
            BY <2>2, <5>3
          <5> QED BY <3>1, <5>1, <5>2, <5>4 DEF Source
        <4>2. CASE \A p \in copies : p[2] # StateBlock(q)
          <5>1. Source(StateBlock(q)) = StateBlock(q)
            BY <1>1, <4>2, SourceFacts
          <5>2. \A p \in copies' : p[2] # StateBlock(q)
            BY <1>6, <1>17, <1>27, <3>1, <3>2, <4>2
          <5> QED BY <3>1, <5>1, <5>2 DEF Source
        <4> QED BY <4>1, <4>2
      <3> QED BY <3>1, <3>3, <3>4
    <2>4. CASE q = r
      <3>1. hit # {} /\ req'[q].computed = depth
        BY <1>10, <1>15, <1>30, <2>4
      <3>2. StateBlock(q)' = into
        BY <1>15, <1>18, <1>20, <1>30, <2>4 DEF StateBlock
      <3>3. PICK e \in cached : e.content = StateOf(r, depth) /\ from = e.block
        BY <1>8, <3>1
      <3>4. Current(k, from) = StateOf(r, depth)
        <4>1. k.pool[from] = e.content /\ from \notin Elems(k.slots)
          BY <2>1, <3>3 DEF Kept
        <4> QED BY <1>12, <2>1, <3>1, <3>3, <4>1, CurrentFacts
      <3>5. Source(StateBlock(q))' = from
        <4>1. CASE cow = NoBlock
          <5>1. into = from /\ \A p \in copies' : p[2] # from
            BY <1>3, <1>9, <1>12, <3>1, <4>1
          <5> QED BY <3>2, <5>1 DEF Source
        <4>2. CASE cow # NoBlock
          <5>1. into = cow /\ <<from, cow>> \in copies'
            BY <1>3, <1>9, <4>2
          <5>2. PICK p \in copies' : p[1] = from /\ p[2] = cow
            BY <5>1
          <5>3. Source(p[2])' = from
            BY <2>2, <5>2
          <5> QED BY <3>2, <5>1, <5>2, <5>3 DEF Source
        <4> QED BY <4>1, <4>2
      <3> QED BY <2>4, <3>1, <3>4, <3>5
    <2> QED BY <2>3, <2>4
  <1>31. ASSUME NEW k \in {conv, rec}
         PROVE  /\ \A e \in cached' : k.pool[e.block] = e.content /\ e.block \notin Elems(k.slots)
                /\ \A q \in Live' : req'[q].kv \notin zeroing' =>
                      k.pool[req'[q].kv] = KVOf(q) /\ req'[q].kv \notin Elems(k.slots)
                /\ mode' = "align" => k.slots = <<>>
    <2>1. \A q \in Live' : req'[q].kv \notin zeroing' =>
             q \in Live /\ req'[q].kv = req[q].kv /\ req[q].kv \notin zeroing
      BY <1>2, <1>15, <1>17, <1>19
    <2> QED BY <1>2, <1>30, <2>1, BetweenSteps
  <1>32. Kept(conv)' /\ Kept(rec)'
    BY <1>2, <1>30, <1>31 DEF Kept
  <1>33. Parking(conv)' /\ Parking(rec)'
    BY <1>2, <1>31 DEF Parking
  <1> QED BY <1>23, <1>24, <1>25, <1>28, <1>29, <1>32, <1>33 DEF HybridInv

LEMMA SleepPreserves ==
    ASSUME HybridInv, Sleep
    PROVE  HybridInv'
  <1>1. HybridTypes /\ Progress /\ BlocksOwned /\ CheckpointsKept
    BY DEF HybridInv
  <1>2. /\ step = <<>> /\ Live = {}
        /\ conv' = [Discarded(conv) EXCEPT !.pool = [b \in Block |-> Zero]]
        /\ rec' = [Discarded(rec) EXCEPT !.pool = [b \in Block |-> Zero]]
        /\ needs' = FALSE /\ cached' = {}
        /\ mode' = mode /\ deferring' = deferring /\ stash' = stash /\ step' = step
        /\ req' = req /\ released' = released /\ zeroing' = zeroing /\ copies' = copies
        /\ preempts' = preempts
    BY DEF Sleep
  <1>3. Live' = {}
    BY <1>2 DEF Live
  <1>4. ASSUME NEW k, Whole(k), NEW m, m = [Discarded(k) EXCEPT !.pool = [b \in Block |-> Zero]]
        PROVE  Whole(m) /\ m.slots = <<>>
    <2> DEFINE d == Discarded(k)
               pool == [b \in Block |-> Zero]
    <2>1. Whole(d) /\ d.slots = <<>>
      BY <1>4, DiscardedFacts
    <2>2. Zero \in Content
      BY DEF Zero, Content
    <2>3. pool \in [Block -> Content]
      <3> HIDE DEF Content
      <3> QED BY <2>2
    <2>4. m = [d EXCEPT !.pool = pool]
      BY <1>4
    <2> HIDE DEF d, pool
    <2>5. Whole(m) /\ m.slots = d.slots
      BY ONLY <2>1, <2>3, <2>4, PoolWritten
    <2> QED BY <2>1, <2>5
  <1>5. Whole(conv) /\ Whole(rec)
    BY <1>1 DEF HybridTypes
  <1>6. Whole(conv') /\ conv'.slots = <<>> /\ Whole(rec') /\ rec'.slots = <<>>
    BY <1>2, <1>4, <1>5
  <1>7. HybridTypes'
    BY <1>1, <1>2, <1>6 DEF HybridTypes
  <1>8. Progress'
    BY <1>1, <1>2 DEF Progress, Live, BlockOf, Stride
  <1>9. BlocksOwned'
    BY <1>3 DEF BlocksOwned
  <1>10. CheckpointsKept'
    BY <1>1, <1>2, <1>3 DEF CheckpointsKept
  <1>11. StepSound'
    BY <1>2 DEF StepSound
  <1>12. Kept(conv)' /\ Kept(rec)'
    BY <1>2, <1>3 DEF Kept
  <1>13. Parking(conv)' /\ Parking(rec)'
    BY <1>2, <1>6 DEF Parking
  <1> QED BY <1>7, <1>8, <1>9, <1>10, <1>11, <1>12, <1>13 DEF HybridInv

LEMMA HybridStarts == HybridInit => HybridInv
  <1> SUFFICES ASSUME HybridInit PROVE HybridInv
    OBVIOUS
  <1>1. /\ mode \in {"none", "align"} /\ deferring \in BOOLEAN
        /\ conv = Fresh /\ rec = Fresh
        /\ stash = <<>> /\ needs = FALSE /\ step = <<>>
        /\ req = [r \in Req |-> [phase |-> "out", known |-> PromptLen, computed |-> 0,
                                 row |-> EmptyRow, kv |-> NoBlock, drafts |-> 0]]
        /\ released = {} /\ zeroing = {} /\ copies = {} /\ cached = {}
        /\ preempts = 0
    BY DEF HybridInit
  <1>2. Live = {}
    BY <1>1 DEF Live
  <1>3. Whole(Fresh) /\ Fresh.slots = <<>>
    <2> DEFINE pool == [b \in Block |-> Zero]
    <2>1. Zero \in Content
      BY DEF Zero, Content
    <2>2. pool \in [Block -> Content]
      <3> HIDE DEF Content
      <3> QED BY <2>1
    <2>3. Fresh = [pool |-> pool, slots |-> <<>>, rows |-> <<>>]
      BY DEF Fresh
    <2> HIDE DEF pool
    <2> QED BY ONLY <2>2, <2>3, Settles
  <1>4. HybridTypes
    <2>1. Verifying(<<>>) = <<>>
      BY PartEmpty DEF Verifying
    <2>2. step \in Seq(Segment) /\ stash = Verifying(step)
      <3> HIDE DEF Segment
      <3> QED BY <1>1, <2>1
    <2>3. ASSUME NEW r \in Req
          PROVE  /\ DOMAIN req[r] = {"phase", "known", "computed", "row", "kv", "drafts"}
                 /\ req[r].phase \in {"out", "prefill", "decode", "done"}
                 /\ req[r].known \in Nat \ {0} /\ req[r].computed \in Nat /\ req[r].drafts \in Nat
                 /\ IsRow(req[r].row) /\ req[r].kv \in Block \cup {NoBlock}
      BY <1>1, HybridAssumption DEF IsRow, EmptyRow
    <2> QED BY <1>1, <1>3, <2>2, <2>3 DEF HybridTypes
  <1>5. Progress
    BY <1>1, <1>2 DEF Progress
  <1>6. BlocksOwned
    BY <1>2 DEF BlocksOwned
  <1>7. CheckpointsKept
    BY <1>1 DEF CheckpointsKept
  <1>8. StepSound
    BY <1>1 DEF StepSound
  <1>9. Kept(conv) /\ Kept(rec)
    BY <1>1, <1>2 DEF Kept
  <1>10. Parking(conv) /\ Parking(rec)
    BY <1>1, <1>3 DEF Parking
  <1> QED BY <1>4, <1>5, <1>6, <1>7, <1>8, <1>9, <1>10 DEF HybridInv

LEMMA HybridKeeps == HybridInv /\ [HybridNext]_hybridVars => HybridInv'
  <1> SUFFICES ASSUME HybridInv, [HybridNext]_hybridVars PROVE HybridInv'
    OBVIOUS
  <1>1. ASSUME NEW r \in Req, NEW hit \in SUBSET cached, NEW b \in Block,
               NEW cow \in Block \cup {NoBlock}, Admit(r, hit, b, cow)
        PROVE  HybridInv'
    BY <1>1, AdmitPreserves
  <1>2. ASSUME NEW r \in Req, NEW b \in Block, NEW i \in 0..MaxLen, Grow(r, b, i)
        PROVE  HybridInv'
    BY <1>2, GrowPreserves
  <1>3. preempts \in Nat
    BY DEF HybridInv, HybridTypes
  <1>4. ASSUME NEW r \in Req, Finish(r) PROVE HybridInv'
    <2>1. Gone(r, "done") /\ preempts' = preempts
      BY <1>4 DEF Finish
    <2> QED BY <1>3, <2>1, GonePreserves
  <1>5. ASSUME NEW r \in Req, Preempt(r) PROVE HybridInv'
    <2>1. Gone(r, "out") /\ preempts' = preempts + 1
      BY <1>5 DEF Preempt
    <2> QED BY <1>3, <2>1, GonePreserves
  <1>6. ASSUME NEW segs \in Batches, Forward(segs) PROVE HybridInv'
    BY <1>6, ForwardPreserves
  <1>7. ASSUME NEW drafts \in 0..MaxDraft, Sample(drafts) PROVE HybridInv'
    BY <1>7, SamplePreserves
  <1>8. CASE Sleep
    BY <1>8, SleepPreserves
  <1>9. CASE UNCHANGED hybridVars
    <2>1. /\ mode' = mode /\ deferring' = deferring /\ conv' = conv /\ rec' = rec
          /\ stash' = stash /\ needs' = needs /\ step' = step /\ req' = req
          /\ released' = released /\ zeroing' = zeroing /\ copies' = copies
          /\ cached' = cached /\ preempts' = preempts
      BY <1>9 DEF hybridVars, cacheVars, schedVars
    <2>2. /\ \A n : BlockOf(n)' = BlockOf(n)
          /\ Live' = Live
      BY <2>1 DEF BlockOf, Stride, Live
    <2>3. HybridTypes' /\ Progress' /\ CheckpointsKept'
      BY <2>1, <2>2 DEF HybridInv, HybridTypes, Progress, CheckpointsKept
    <2>4. BlocksOwned'
      BY <2>1, <2>2 DEF HybridInv, BlocksOwned, Ahead, RowBlocks, Ends
    <2>5. StepSound'
      BY <2>1, <2>2 DEF HybridInv, StepSound, Segments, Schedulable, SegmentOf
    <2>6. Kept(conv)' /\ Kept(rec)'
      BY <2>1, <2>2 DEF HybridInv, Kept, Source, StateBlock
    <2>7. Parking(conv)' /\ Parking(rec)'
      BY <2>1 DEF HybridInv, Parking
    <2> QED BY <2>3, <2>4, <2>5, <2>6, <2>7 DEF HybridInv
  <1> QED BY <1>1, <1>2, <1>4, <1>5, <1>6, <1>7, <1>8, <1>9 DEF HybridNext

-----------------------------------------------------------------------------
(* What follows for every behaviour.                                       *)

(* The books of the scheduler, the pools and the pending updates agree.    *)
THEOREM HybridInvariance == HybridSpec => []HybridInv
  <1> QED BY HybridStarts, HybridKeeps, PTL DEF HybridSpec

(* A running request's authoritative state, parked or not, is the state of *)
(* exactly the tokens it has computed (state_cache.py, gdn_spec.py).       *)
THEOREM StateFollows == HybridSpec => []StateFollowsTokens
  <1>1. ASSUME HybridInv PROVE StateFollowsTokens
    <2> SUFFICES ASSUME step = <<>>, NEW r \in Live, req[r].computed > 0,
                        \A p \in copies : p[2] # StateBlock(r)
                 PROVE  /\ Current(conv, StateBlock(r)) = StateOf(r, req[r].computed)
                        /\ Current(rec, StateBlock(r)) = StateOf(r, req[r].computed)
      BY DEF StateFollowsTokens, StateBlock
    <2>1. Source(StateBlock(r)) = StateBlock(r)
      BY DEF Source
    <2>2. Kept(conv) /\ Kept(rec)
      BY <1>1 DEF HybridInv
    <2> QED BY <2>1, <2>2 DEF Kept
  <1> QED BY <1>1, HybridInvariance, PTL

(* A cached checkpoint keeps the state it was cached for, in the pool that *)
(* a prefix hit copies from (align.py, hybrid.py copy_blocks).             *)
THEOREM Checkpoints == HybridSpec => []CheckpointsExact
  <1>1. ASSUME HybridInv PROVE CheckpointsExact
    BY <1>1 DEF HybridInv, Kept, CheckpointsExact
  <1> QED BY <1>1, HybridInvariance, PTL

(* No state write, and no pending update applied late, reaches the block   *)
(* that holds a running request's attention KV.                            *)
THEOREM KVSurvives == HybridSpec => []KVSurvivesStateWrites
  <1>1. ASSUME HybridInv PROVE KVSurvivesStateWrites
    BY <1>1 DEF HybridInv, Kept, KVSurvivesStateWrites
  <1> QED BY <1>1, HybridInvariance, PTL

(* While verification is due, the pool holds the state that every span to  *)
(* verify started from (linear.py defers the scatter, gdn_spec.py rescans). *)
THEOREM RollbackPoint == HybridSpec => []RollbackPointKept
  <1>1. ASSUME HybridInv PROVE RollbackPointKept
    <2>1. step \in Seq(Segment) /\ stash = Verifying(step) /\ Parking(conv) /\ Parking(rec)
      BY <1>1 DEF HybridInv, HybridTypes
    <2>2. \A s : s \in Elems(stash) <=> s \in Elems(step) /\ s.decode /\ s.n > 1
      BY <2>1, VerifyingElems
    <2> SUFFICES ASSUME NEW i \in DOMAIN stash
                 PROVE  /\ conv.pool[stash[i].dst] = StateOf(stash[i].r, stash[i].start)
                        /\ rec.pool[stash[i].dst] = StateOf(stash[i].r, stash[i].start)
      BY DEF RollbackPointKept
    <2>3. stash[i] \in Elems(step) /\ stash[i].decode /\ stash[i].n > 1
      BY <2>2 DEF Elems
    <2>4. PICK j \in DOMAIN step : stash[i] = step[j]
      BY <2>3 DEF Elems
    <2>5. step # <<>>
      BY <2>4
    <2> QED BY <2>1, <2>3, <2>4, <2>5 DEF Parking
  <1> QED BY <1>1, HybridInvariance, PTL

=============================================================================
