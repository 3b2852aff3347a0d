-------------------------- MODULE KVOffload_proofs --------------------------
(***************************************************************************)
(* The offload store never changes what a block contains: for any number   *)
(* of requests, blocks, pool rows and steps, and chunks of any size.       *)
(***************************************************************************)
EXTENDS KVOffload, TLAPS

(* What a block or a sub-slot of the pool may hold, stores and index entries. *)
Content == {Junk} \cup (Reqs \X Nat)
Job == [req : Reqs, chunk : Nat, row : PoolRows, job : Nat, blocks : [1..Factor -> Blocks]]
Entry == [req : Reqs, chunk : Nat, row : PoolRows, job : Nat, ready : BOOLEAN]

(* Each variable has its type. *)
OffTypeOK ==
    /\ gpu \in [Blocks -> Content] /\ host \in [PoolRows -> [Subs -> Content]]
    /\ released \in BOOLEAN /\ backed \in BOOLEAN
    /\ stepPhase \in {"closed", "open", "leaked"}
    /\ bound \subseteq Job /\ queue \subseteq Job /\ finished \subseteq 0..steps
    /\ tables \in [Reqs -> Seq(Blocks)] /\ hashes \in [Blocks -> Content]
    /\ index \subseteq Entry /\ asleep \subseteq {"weights", "kv_cache"}
    /\ steps \in Nat /\ upsets \in Nat

(* What sub-slot s of an entry's row is there to hold. *)
ChunkOf(e, s) == <<e.req, (e.chunk - 1) * Factor + s + 1>>

(* The index names each row once and each chunk once. *)
OneEntry ==
    \A e, f \in index :
        e.row = f.row \/ (e.req = f.req /\ e.chunk = f.chunk) => e = f

(* One store waits at most: in the open step, or behind the closed one. *)
StoreQueue ==
    /\ stepPhase = "closed" => bound = {}
    /\ stepPhase # "closed" => queue = {}
    /\ \A j, k \in queue \cup bound : j = k

(* A job number is never used again, not across a sleep either. *)
JobNumbers ==
    /\ \A e \in index : e.job <= steps /\ e.chunk # 0
    /\ \A j \in queue \cup bound : j.job <= steps /\ j.job \notin finished

(* A store that waits for its row's entry finds its blocks as they were;   *)
(* a store whose entry a sleep forgot owns no row.                         *)
StoresHeld ==
    \A j \in queue \cup bound : \A e \in index : e.row = j.row \/ e.job = j.job =>
        /\ e.row = j.row /\ e.job = j.job /\ ~e.ready
        /\ \A s \in Subs : gpu[j.blocks[s + 1]] = ChunkOf(e, s)

(* Rows hold their chunks from the submission of the store, not only when  *)
(* it was reported.                                                        *)
RowsHeld ==
    \A e \in index : e.ready \/ e.job \in finished =>
        \A s \in Subs : host[e.row][s] = ChunkOf(e, s)

(* The prefix cache tells the truth of blocks nobody holds, too. *)
HashesTrue == \A b \in Blocks : hashes[b] # Junk => gpu[b] = hashes[b]

(* Sleep forgets every reference into the cache before its memory goes. *)
SleepClears ==
    /\ asleep # {} => index = {} /\ hashes = Fresh /\ tables = [r \in Reqs |-> <<>>]
    /\ ~backed => released /\ "kv_cache" \in asleep

(* A running request's blocks hold its own content. *)
TablesHeld == \A r \in Reqs : \A i \in DOMAIN tables[r] : gpu[tables[r][i]] = <<r, i>>

(* The inductive invariant. *)
OffInv ==
    /\ OffTypeOK /\ OneEntry /\ StoreQueue /\ JobNumbers /\ StoresHeld /\ RowsHeld
    /\ HashesTrue /\ SleepClears /\ TablesHeld

-----------------------------------------------------------------------------
(* Quotients and remainders. *)

(* Quotient and remainder are unique. *)
LEMMA DivModUnique ==
    ASSUME NEW F \in Nat \ {0}, NEW q \in Int, NEW s \in 0..(F - 1)
    PROVE  ((F * q) + s) \div F = q /\ ((F * q) + s) % F = s
  OBVIOUS

(* Dividing a sum with a multiple of the divisor. *)
LEMMA DivMod ==
    ASSUME NEW F \in Nat \ {0}, NEW n \in Nat
    PROVE  /\ (n \div F) \in Nat /\ (n % F) \in 0..(F - 1)
           /\ n = (F * (n \div F)) + (n % F)
  OBVIOUS

(* Block i of a transfer that starts behind block `start` lands in the     *)
(* chunk and sub-slot that block i of the prompt has.                      *)
LEMMA SameChunk ==
    ASSUME NEW F \in Nat \ {0}, NEW start \in Nat, NEW i \in Nat \ {0}, start < i
    PROVE  /\ ((start % F) + (i - start) - 1) \div F = ((i - 1) \div F) - (start \div F)
           /\ ((start % F) + (i - start) - 1) % F = (i - 1) % F
  <1>1. i - 1 \in Nat
    OBVIOUS
  <1> DEFINE a == start \div F
             b == start % F
             q == (i - 1) \div F
             s == (i - 1) % F
  <1>2. a \in Nat /\ b \in Nat /\ start = (F * a) + b
    BY DivMod
  <1>3. q \in Nat /\ s \in 0..(F - 1) /\ i - 1 = (F * q) + s
    BY <1>1, DivMod
  <1> HIDE DEF a, b, q, s
  <1>4. F * (q - a) = (F * q) - (F * a) /\ F * q \in Int /\ F * a \in Int
    BY <1>2, <1>3
  <1>5. b + (i - start) - 1 = (F * (q - a)) + s /\ q - a \in Int
    BY <1>2, <1>3, <1>4
  <1>6. (b + (i - start) - 1) \div F = q - a /\ (b + (i - start) - 1) % F = s
    BY <1>5, <1>3, DivModUnique
  <1> QED
    BY <1>6 DEF a, b, q, s

(* Block i of a prompt is sub-slot (i - 1) % F of chunk (i - 1) \div F + 1. *)
LEMMA ChunkOfBlock ==
    ASSUME NEW F \in Nat \ {0}, NEW i \in Nat \ {0}
    PROVE  /\ ((i - 1) \div F) \in Nat /\ ((i - 1) % F) \in 0..(F - 1)
           /\ i = (((i - 1) \div F) * F) + ((i - 1) % F) + 1
           /\ \A n \in Nat : i <= n * F => ((i - 1) \div F) + 1 <= n
  <1>1. i - 1 \in Nat
    OBVIOUS
  <1> DEFINE q == (i - 1) \div F
             s == (i - 1) % F
  <1>2. q \in Nat /\ s \in 0..(F - 1) /\ i - 1 = (F * q) + s
    BY <1>1, DivMod
  <1> HIDE DEF q, s
  <1>3. F * q = q * F /\ q * F \in Nat
    BY <1>2
  <1>4. ASSUME NEW n \in Nat, i <= n * F PROVE q + 1 <= n
    <2>1. SUFFICES ASSUME n <= q PROVE FALSE
      BY <1>2
    <2>2. n * F <= q * F
      BY <2>1, <1>2
    <2> QED
      BY <2>2, <1>2, <1>3, <1>4
  <1>5. i = (q * F) + s + 1
    BY <1>2, <1>3
  <1> QED
    BY <1>2, <1>4, <1>5 DEF q, s

-----------------------------------------------------------------------------
(* An empty cache and pool satisfy the invariant. *)
LEMMA OffInitInv == OffInit => OffInv
  <1> SUFFICES ASSUME OffInit PROVE OffInv
    OBVIOUS
  <1>1. Fresh \in [Blocks -> Content] /\ [row \in PoolRows |-> [s \in Subs |-> Junk]] \in [PoolRows -> [Subs -> Content]]
    BY DEF Fresh, Content
  <1>2. [r \in Reqs |-> <<>>] \in [Reqs -> Seq(Blocks)]
    OBVIOUS
  <1>3. OffTypeOK
    BY <1>1, <1>2 DEF OffInit, OffTypeOK
  <1>4. HashesTrue
    BY DEF OffInit, HashesTrue, Fresh
  <1>5. TablesHeld
    BY DEF OffInit, TablesHeld
  <1> QED
    BY <1>3, <1>4, <1>5 DEF OffInit, OffInv, OneEntry, StoreQueue, JobNumbers,
       StoresHeld, RowsHeld, SleepClears

-----------------------------------------------------------------------------
(* Submitting the stores of closed steps gives every row the chunk of its  *)
(* entry, if that was ready or submitted before or is submitted now.       *)
LEMMA StoredRows ==
    ASSUME OffInv
    PROVE  /\ Closing \subseteq queue \cup bound
           /\ Stored(Closing) \in [PoolRows -> [Subs -> Content]]
           /\ \A e \in index :
                e.ready \/ e.job \in finished \cup {j.job : j \in Closing} =>
                  \A s \in Subs : Stored(Closing)[e.row][s] = ChunkOf(e, s)
  <1>1. Closing \subseteq queue \cup bound
    BY DEF Closing
  <1>2. \A j \in Closing : j \in Job /\ \A k \in Closing : j = k
    BY <1>1 DEF OffInv, OffTypeOK, StoreQueue
  <1>3. \A s \in Subs : s + 1 \in 1..Factor
    BY OffloadAssumption DEF Subs
  <1>4. Stored(Closing) \in [PoolRows -> [Subs -> Content]]
    <2>1. ASSUME NEW row \in PoolRows, NEW s \in Subs
          PROVE  (IF \E j \in Closing : j.row = row
                  THEN gpu[(CHOOSE j \in Closing : j.row = row).blocks[s + 1]]
                  ELSE host[row][s]) \in Content
      <3>1. CASE \E j \in Closing : j.row = row
        <4>1. PICK j \in Closing : j.row = row
          BY <3>1
        <4>2. (CHOOSE k \in Closing : k.row = row) \in Closing
          BY <4>1
        <4>3. (CHOOSE k \in Closing : k.row = row).blocks[s + 1] \in Blocks
          BY <4>2, <1>2, <1>3 DEF Job
        <4> QED
          BY <4>3, <3>1 DEF OffInv, OffTypeOK
      <3>2. CASE ~\E j \in Closing : j.row = row
        BY <3>2 DEF OffInv, OffTypeOK
      <3> QED
        BY <3>1, <3>2
    <2> QED
      BY <2>1 DEF Stored
  <1>5. ASSUME NEW e \in index, NEW s \in Subs,
               e.ready \/ e.job \in finished \cup {j.job : j \in Closing}
        PROVE  Stored(Closing)[e.row][s] = ChunkOf(e, s)
    <2>1. e.row \in PoolRows
      BY DEF OffInv, OffTypeOK, Entry
    <2>2. CASE \E j \in Closing : j.row = e.row
      <3>1. PICK j \in Closing : j.row = e.row
        BY <2>2
      <3>2. (CHOOSE k \in Closing : k.row = e.row) = j
        BY <3>1, <1>2
      <3>3. Stored(Closing)[e.row][s] = gpu[j.blocks[s + 1]]
        BY <2>1, <3>1, <3>2 DEF Stored
      <3>4. gpu[j.blocks[s + 1]] = ChunkOf(e, s)
        BY <3>1, <1>1 DEF OffInv, StoresHeld
      <3> QED
        BY <3>3, <3>4
    <2>3. CASE ~\E j \in Closing : j.row = e.row
      <3>1. Stored(Closing)[e.row][s] = host[e.row][s]
        BY <2>1, <2>3 DEF Stored
      <3>2. \A j \in Closing : e.job # j.job
        BY <2>3, <1>1 DEF OffInv, StoresHeld
      <3>3. e.ready \/ e.job \in finished
        BY <3>2, <1>5
      <3> QED
        BY <3>1, <3>3 DEF OffInv, RowsHeld
    <2> QED
      BY <2>2, <2>3
  <1> QED
    BY <1>1, <1>4, <1>5

(* Two blocks that hold something of running requests are different unless *)
(* they are the same block of the same request.                            *)
LEMMA LeftTables ==
    ASSUME OffInv, NEW P
    PROVE  /\ TablesWithout(P) \in [Reqs -> Seq(Blocks)]
           /\ \A q \in Reqs : \A i \in DOMAIN TablesWithout(P)[q] :
                /\ TablesWithout(P)[q][i] \in Held(TablesWithout(P))
                /\ gpu[TablesWithout(P)[q][i]] = <<q, i>>
  <1>1. <<>> \in Seq(Blocks)
    OBVIOUS
  <1>2. TablesWithout(P) \in [Reqs -> Seq(Blocks)]
    BY <1>1 DEF OffInv, OffTypeOK, TablesWithout
  <1>3. ASSUME NEW q \in Reqs, NEW i \in DOMAIN TablesWithout(P)[q]
        PROVE  /\ TablesWithout(P)[q][i] \in Held(TablesWithout(P))
               /\ gpu[TablesWithout(P)[q][i]] = <<q, i>>
    <2>1. TablesWithout(P)[q][i] \in Range(TablesWithout(P)[q])
      BY DEF Range
    <2>2. TablesWithout(P)[q] = tables[q]
      <3>1. CASE q \in P
        <4>1. TablesWithout(P)[q] = <<>>
          BY <3>1 DEF TablesWithout
        <4> QED
          BY <4>1
      <3>2. CASE q \notin P
        BY <3>2 DEF TablesWithout
      <3> QED
        BY <3>1, <3>2
    <2> QED
      BY <2>1, <2>2 DEF Held, OffInv, TablesHeld
  <1> QED
    BY <1>2, <1>3

(* What r starts from: its blocks of an earlier step, or blocks nobody     *)
(* holds in which the prefix cache finds its prompt.                       *)
LEMMA PrefixHeld ==
    ASSUME OffInv, NEW r \in Reqs, NEW P, NEW start \in PrefixLens(r, TablesWithout(P))
    PROVE  LET prefix == PrefixOf(r, TablesWithout(P), start)
           IN  /\ start \in Nat /\ prefix \in Seq(Blocks) /\ Len(prefix) = start
               /\ \A i \in 1..start : gpu[prefix[i]] = <<r, i>>
  <1> DEFINE T == TablesWithout(P)
             prefix == PrefixOf(r, T, start)
  <1>1. T[r] \in Seq(Blocks) /\ \A i \in DOMAIN T[r] : gpu[T[r][i]] = <<r, i>>
    BY LeftTables
  <1> HIDE DEF T
  <1>2. CASE T[r] # <<>>
    <2>1. start = Len(T[r]) /\ prefix = T[r]
      BY <1>2 DEF PrefixLens, PrefixOf, T
    <2> HIDE DEF prefix
    <2>2. /\ start \in Nat /\ prefix \in Seq(Blocks) /\ Len(prefix) = start
          /\ \A i \in 1..start : gpu[prefix[i]] = <<r, i>>
      <3>1. \A t \in Seq(Blocks) : Len(t) \in Nat /\ DOMAIN t = 1..Len(t)
        OBVIOUS
      <3>2. Len(T[r]) \in Nat /\ DOMAIN T[r] = 1..Len(T[r])
        BY <1>1, <3>1
      <3> QED
        BY <1>1, <2>1, <3>2
    <2> QED
      BY <2>2 DEF prefix, T
  <1>3. CASE T[r] = <<>>
    <2>1. /\ start \in Nat
          /\ \A i \in 1..start : \E b \in Blocks \ Held(T) : hashes[b] = <<r, i>>
      <3>1. start \in Cached(r, T)
        BY <1>3 DEF PrefixLens, T
      <3> QED
        BY <3>1, OffloadAssumption DEF Cached
    <2>2. \A i \in 1..start : CachedAt(r, i, T) \in Blocks /\ hashes[CachedAt(r, i, T)] = <<r, i>>
      BY <2>1 DEF CachedAt
    <2>3. \A i \in 1..start : gpu[CachedAt(r, i, T)] = <<r, i>>
      <3>1. \A i \in Nat : <<r, i>> # Junk
        BY DEF Junk
      <3> QED
        BY <2>1, <2>2, <3>1 DEF OffInv, HashesTrue
    <2>4. prefix = [i \in 1..start |-> CachedAt(r, i, T)]
      BY <1>3 DEF PrefixOf
    <2> QED
      BY <2>1, <2>2, <2>3, <2>4 DEF T
  <1> QED
    BY <1>2, <1>3

(* Where the pool fills blocks behind the prefix, its chunks are ready.    *)
LEMMA HitReady ==
    ASSUME NEW r \in Reqs, NEW T, NEW start \in Nat, NEW hit \in HitLens(r, T, start)
    PROVE  /\ hit \in Nat /\ hit >= start
           /\ hit > start => \E n \in Nat : hit = n * Factor /\ \A c \in 1..n : Ready(r, c)
  <1>1. CASE T[r] # <<>>
    BY <1>1 DEF HitLens
  <1>2. CASE T[r] = <<>>
    <2>1. PICK n \in Offloaded(r) : hit = IF n * Factor > start THEN n * Factor ELSE start
      BY <1>2 DEF HitLens
    <2>2. (PromptLen \div Factor) \in Nat
      BY OffloadAssumption, DivMod
    <2>3. n \in Nat /\ \A c \in 1..n : Ready(r, c)
      BY <2>1, <2>2 DEF Offloaded
    <2>4. n * Factor \in Nat
      BY <2>3, OffloadAssumption
    <2> QED
      BY <2>1, <2>3, <2>4
  <1> QED
    BY <1>1, <1>2

(* The rows read hand block i of the prompt what it held. *)
LEMMA LoadedBlock ==
    ASSUME OffInv, NEW r \in Reqs, NEW start \in Nat, NEW n \in Nat,
           \A c \in 1..n : Ready(r, c),
           NEW i \in Nat, start < i, i <= n * Factor
    PROVE  LET slot == SlotOf(RowsRead(r, start, n * Factor), start % Factor, i - start)
           IN  Stored(Closing)[slot[1]][slot[2]] = <<r, i>>
  <1> DEFINE c == ((i - 1) \div Factor) + 1
             s == (i - 1) % Factor
             rows == RowsRead(r, start, n * Factor)
  <1>1. Factor \in Nat \ {0} /\ i \in Nat \ {0}
    BY OffloadAssumption
  <1>2. c \in 1..n /\ s \in Subs /\ i = ((c - 1) * Factor) + s + 1
    <2>1. /\ ((i - 1) \div Factor) \in Nat /\ ((i - 1) % Factor) \in 0..(Factor - 1)
          /\ i = (((i - 1) \div Factor) * Factor) + ((i - 1) % Factor) + 1
          /\ ((i - 1) \div Factor) + 1 <= n
      BY <1>1, ChunkOfBlock
    <2> QED
      BY <2>1 DEF Subs
  <1>3. (start % Factor) + (i - start) - 1 \in Nat /\ (start \div Factor) \in Nat
    BY <1>1, DivMod
  <1>4. /\ ((start % Factor) + (i - start) - 1) \div Factor = c - 1 - (start \div Factor)
        /\ ((start % Factor) + (i - start) - 1) % Factor = s
    <2>1. /\ ((start % Factor) + (i - start) - 1) \div Factor = ((i - 1) \div Factor) - (start \div Factor)
          /\ ((start % Factor) + (i - start) - 1) % Factor = s
      BY <1>1, SameChunk
    <2>2. ((i - 1) \div Factor) = c - 1
      <3>1. ((i - 1) \div Factor) \in Nat
        BY <1>1, ChunkOfBlock
      <3> QED
        BY <3>1
    <2> QED
      BY <2>1, <2>2
  <1>5. (n * Factor) \div Factor = n
    <2>1. n * Factor = (Factor * n) + 0 /\ 0 \in 0..(Factor - 1) /\ n \in Int
      BY <1>1
    <2> QED
      BY <2>1, <1>1, DivModUnique
  <1>6. c - (start \div Factor) \in 1..(n - (start \div Factor))
    <2>1. ((start % Factor) + (i - start) - 1) \div Factor \in Nat
      BY <1>1, <1>3, DivMod
    <2> HIDE DEF c
    <2> QED
      BY <1>2, <1>3, <1>4, <2>1
  <1>7. SlotOf(rows, start % Factor, i - start) = <<RowOf(r, c), s>>
    <2>1. rows[c - (start \div Factor)] = RowOf(r, (start \div Factor) + (c - (start \div Factor)))
      BY <1>5, <1>6 DEF RowsRead
    <2>2. (start \div Factor) + (c - (start \div Factor)) = c
      BY <1>3, <1>2
    <2>3. (c - 1 - (start \div Factor)) + 1 = c - (start \div Factor)
      BY <1>3, <1>2
    <2> HIDE DEF c, s, rows
    <2> QED
      BY <1>4, <2>1, <2>2, <2>3 DEF SlotOf
  <1>8. PICK e \in index : e.req = r /\ e.chunk = c /\ e.ready
    BY <1>2 DEF Ready
  <1>9. RowOf(r, c) = e.row
    <2>1. \A f \in index : f.req = r /\ f.chunk = c => f = e
      BY <1>8 DEF OffInv, OneEntry
    <2> HIDE DEF c
    <2> QED
      BY <1>8, <2>1 DEF RowOf
  <1>10. Stored(Closing)[e.row][s] = ChunkOf(e, s)
    BY <1>2, <1>8, StoredRows
  <1>11. ChunkOf(e, s) = <<r, i>>
    BY <1>2, <1>8 DEF ChunkOf
  <1> QED
    BY <1>7, <1>9, <1>10, <1>11

-----------------------------------------------------------------------------
(* A prefix with other blocks, all different, behind it.                   *)
LEMMA TableOf ==
    ASSUME NEW prefix \in Seq(Blocks), NEW n \in Nat,
           NEW free \in SUBSET (Blocks \ Range(prefix)), NEW added \in [1..n -> free],
           IsInjective(added)
    PROVE  /\ prefix \o added \in Seq(Blocks) /\ Len(prefix \o added) = Len(prefix) + n
           /\ \A i \in 1..Len(prefix) :
                (prefix \o added)[i] = prefix[i] /\ prefix[i] \notin Range(added)
           /\ \A i \in 1..n :
                (prefix \o added)[Len(prefix) + i] = added[i] /\ added[i] \in Range(added)
           /\ Range(added) \subseteq free
           /\ \A i, k \in 1..(Len(prefix) + n) :
                i > Len(prefix) /\ (prefix \o added)[k] = (prefix \o added)[i] => i = k
  <1> DEFINE m == Len(prefix)
             table == prefix \o added
  <1>1. added \in Seq(Blocks) /\ Len(added) = n
    OBVIOUS
  <1>2. m \in Nat /\ DOMAIN prefix = 1..m
    OBVIOUS
  <1>3. /\ table \in Seq(Blocks) /\ Len(table) = m + n
        /\ \A i \in 1..m : table[i] = prefix[i]
        /\ \A i \in 1..n : table[m + i] = added[i]
    BY <1>1, <1>2
  <1>4. Range(added) \subseteq free /\ \A i \in 1..n : added[i] \in Range(added)
    BY DEF Range
  <1>5. \A i \in 1..m : prefix[i] \in Range(prefix) /\ prefix[i] \notin Range(added)
    BY <1>2, <1>4 DEF Range
  <1>6. ASSUME NEW i \in 1..(m + n), NEW k \in 1..(m + n), i > m, table[k] = table[i]
        PROVE  i = k
    <2>1. i - m \in 1..n /\ table[i] = added[i - m]
      <3>1. i - m \in 1..n /\ m + (i - m) = i
        BY <1>2, <1>6
      <3> QED
        BY <1>3, <3>1
    <2>2. k > m
      <3>1. SUFFICES ASSUME k \in 1..m PROVE FALSE
        BY <1>2, <1>6
      <3> QED
        BY <1>3, <1>4, <1>5, <1>6, <2>1, <3>1
    <2>3. k - m \in 1..n /\ table[k] = added[k - m]
      <3>1. k - m \in 1..n /\ m + (k - m) = k
        BY <1>2, <2>2
      <3> QED
        BY <1>3, <3>1
    <2>4. i - m = k - m
      BY <1>6, <2>1, <2>3 DEF IsInjective
    <2> QED
      BY <1>2, <2>4
  <1> QED
    BY <1>3, <1>4, <1>5, <1>6

(* A load fills a block from the slot of its one place in the table. *)
LEMMA LoadedAt ==
    ASSUME NEW pool, NEW rows, NEW table, NEW start \in Nat, NEW last \in Nat,
           NEW i \in (start + 1)..last, table[i] \in Blocks,
           \A k \in (start + 1)..last : table[k] = table[i] => k = i
    PROVE  Loaded(pool, rows, table, start + 1, last)[table[i]]
             = pool[SlotOf(rows, start % Factor, i - start)[1]][
                    SlotOf(rows, start % Factor, i - start)[2]]
  <1> DEFINE b == table[i]
             first == start + 1
             place(c) == CHOOSE k \in first..last : table[k] = c
             slot(k) == SlotOf(rows, (first - 1) % Factor, k - first + 1)
  <1>1. Loaded(pool, rows, table, first, last) =
          [c \in Blocks |-> IF \E k \in first..last : table[k] = c
                            THEN pool[slot(place(c))[1]][slot(place(c))[2]] ELSE gpu[c]]
    BY Zenon DEF Loaded
  <1>2. place(b) = i
    OBVIOUS
  <1>3. first - 1 = start /\ i - first + 1 = i - start
    OBVIOUS
  <1>4. i \in first..last /\ b \in Blocks /\ table[i] = b
    OBVIOUS
  <1> HIDE DEF b, first, place, slot
  <1>5. Loaded(pool, rows, table, first, last)[b] = pool[slot(place(b))[1]][slot(place(b))[2]]
    BY <1>1, <1>4
  <1>6. slot(i) = SlotOf(rows, start % Factor, i - start)
    BY <1>3, Zenon DEF slot
  <1> QED
    BY <1>2, <1>5, <1>6 DEF b, first

(* The chunks that hold the first hit blocks of r's prompt are in the pool. *)
PoolCovers(r, hit) == \E n \in Nat : hit = n * Factor /\ \A c \in 1..n : Ready(r, c)

(* A table of hit + 1 blocks of r, the first start of which hold their     *)
(* content, the others being different from all.                           *)
TableFor(r, start, hit, table) ==
    /\ start \in Nat /\ hit \in Nat /\ hit >= start
    /\ hit > start => PoolCovers(r, hit)
    /\ table \in Seq(Blocks) /\ Len(table) = hit + 1
    /\ \A i \in 1..start : gpu[table[i]] = <<r, i>>
    /\ \A i, k \in 1..(hit + 1) : i > start /\ table[k] = table[i] => i = k

(* New contents of the blocks that suit it. *)
Suits(new, r, start, hit, table) ==
    /\ \A i \in 1..(hit + 1) : new[table[i]] = <<r, i>>
    /\ \A b \in Blocks :
         (\A i \in 1..(hit + 1) : i > start => table[i] # b) => new[b] = gpu[b]

(* A forward behind loads gives every block of its table its own content   *)
(* and leaves the blocks outside of the table's new part alone.            *)
LEMMA ForwardedBlocks ==
    ASSUME OffInv, NEW r \in Reqs, NEW start \in Nat, NEW hit \in Nat, NEW table,
           TableFor(r, start, hit, table)
    PROVE  Suits(Forwarded(Stored(Closing), RowsRead(r, start, hit), r, table, start, hit),
                 r, start, hit, table)
  <1> DEFINE rows == RowsRead(r, start, hit)
             pool == Stored(Closing)
             loaded == Loaded(pool, rows, table, start + 1, hit)
             new == Forwarded(pool, rows, r, table, start, hit)
  <1>0. /\ hit >= start /\ Len(table) = hit + 1 /\ table \in Seq(Blocks)
        /\ \A i \in 1..start : gpu[table[i]] = <<r, i>>
        /\ \A i, k \in 1..(hit + 1) : i > start /\ table[k] = table[i] => i = k
    BY DEF TableFor
  <1>1. \A i \in 1..(hit + 1) : table[i] \in Blocks
    BY <1>0
  <1>2. \A b \in Blocks : new[b] = IF b = table[hit + 1] THEN <<r, hit + 1>> ELSE loaded[b]
    BY DEF Forwarded
  <1>3. \A b \in Blocks : (~\E i \in (start + 1)..hit : table[i] = b) => loaded[b] = gpu[b]
    BY DEF Loaded
  <1>4. ASSUME NEW i \in 1..(hit + 1), i <= start PROVE new[table[i]] = <<r, i>>
    <2>1. table[i] # table[hit + 1] /\ ~\E k \in (start + 1)..hit : table[k] = table[i]
      BY <1>0, <1>4
    <2>2. table[i] \in Blocks /\ gpu[table[i]] = <<r, i>>
      <3>1. i \in 1..start
        BY <1>4
      <3> QED
        BY <1>0, <1>1, <3>1
    <2> HIDE DEF new, loaded
    <2>3. loaded[table[i]] = gpu[table[i]]
      BY <1>3, <2>1, <2>2
    <2>4. new[table[i]] = loaded[table[i]]
      BY <1>2, <2>1, <2>2
    <2> QED
      BY <2>2, <2>3, <2>4
  <1>5. new[table[hit + 1]] = <<r, hit + 1>>
    <2> HIDE DEF new, loaded
    <2> QED
      BY <1>1, <1>2
  <1>6. ASSUME NEW i \in (start + 1)..hit PROVE new[table[i]] = <<r, i>>
    <2>1. table[i] \in Blocks /\ table[i] # table[hit + 1]
      BY <1>0, <1>1
    <2>2. \A k \in (start + 1)..hit : table[k] = table[i] => k = i
      BY <1>0
    <2>3. loaded[table[i]] = pool[SlotOf(rows, start % Factor, i - start)[1]][
                                  SlotOf(rows, start % Factor, i - start)[2]]
      <3> HIDE DEF pool, rows
      <3> QED
        BY <2>1, <2>2, LoadedAt DEF loaded
    <2>4. PICK n \in Nat : hit = n * Factor /\ \A c \in 1..n : Ready(r, c)
      BY DEF TableFor, PoolCovers
    <2>5. i \in Nat /\ start < i /\ i <= n * Factor
      BY <2>4
    <2>6. pool[SlotOf(rows, start % Factor, i - start)[1]][
               SlotOf(rows, start % Factor, i - start)[2]] = <<r, i>>
      <3>1. LET slot == SlotOf(RowsRead(r, start, n * Factor), start % Factor, i - start)
            IN  Stored(Closing)[slot[1]][slot[2]] = <<r, i>>
        BY <2>4, <2>5, LoadedBlock, ZenonT(60)
      <3> QED
        BY <2>4, <3>1
    <2> HIDE DEF new, loaded, pool, rows
    <2> QED
      BY <1>2, <2>1, <2>3, <2>6
  <1>7. ASSUME NEW b \in Blocks, \A i \in 1..(hit + 1) : i > start => table[i] # b
        PROVE  new[b] = gpu[b]
    <2>1. b # table[hit + 1] /\ ~\E i \in (start + 1)..hit : table[i] = b
      BY <1>0, <1>7
    <2> HIDE DEF new, loaded
    <2> QED
      BY <1>2, <1>3, <2>1
  <1>8. \A i \in 1..(hit + 1) : i <= start \/ i = hit + 1 \/ i \in (start + 1)..hit
    OBVIOUS
  <1> HIDE DEF new
  <1>9. \A i \in 1..(hit + 1) : new[table[i]] = <<r, i>>
    BY <1>4, <1>5, <1>6, <1>8
  <1> QED
    BY <1>7, <1>9 DEF Suits, new, pool, rows

(* A step of r that takes the blocks in added behind its prefix. *)
Advances(r, P, start, hit, added) ==
    LET T == TablesWithout(P) IN
    /\ start \in PrefixLens(r, T) /\ hit \in HitLens(r, T, start)
    /\ added \in [1..(hit + 1 - start) -> Blocks \ (Held(T) \cup Range(PrefixOf(r, T, start)))]
    /\ Advance(r, T, Stored(Closing), start, hit, added)

(* What it leaves in the blocks: r's own content in each block of its      *)
(* table, whoever put it there, and the old content outside of the new     *)
(* ones, which nobody holds.                                               *)
BlocksAfter(r, T, hit, added, table) ==
    /\ hit \in Nat /\ table \in Seq(Blocks) /\ Len(table) = hit + 1
    /\ gpu' \in [Blocks -> Content]
    /\ \A i \in 1..(hit + 1) : gpu'[table[i]] = <<r, i>>
    /\ \A b \in Blocks \ Range(added) : gpu'[b] = gpu[b]
    /\ \A b \in Range(added) : b \notin Held(T) /\ \E i \in 1..(hit + 1) : table[i] = b

(* A step's loads and forward leave the blocks so. *)
LEMMA AdvanceBlocks ==
    ASSUME OffInv, NEW r \in Reqs, NEW P, NEW start, NEW hit, NEW added,
           Advances(r, P, start, hit, added)
    PROVE  BlocksAfter(r, TablesWithout(P), hit, added,
                       PrefixOf(r, TablesWithout(P), start) \o added)
  <1> DEFINE T == TablesWithout(P)
             prefix == PrefixOf(r, T, start)
             free == Blocks \ (Held(T) \cup Range(prefix))
             table == prefix \o added
             rows == RowsRead(r, start, hit)
             pool == Stored(Closing)
  <1>1. start \in Nat /\ prefix \in Seq(Blocks) /\ Len(prefix) = start
        /\ \A i \in 1..start : gpu[prefix[i]] = <<r, i>>
    BY PrefixHeld DEF Advances
  <1>2. hit \in Nat /\ hit >= start
    BY <1>1, HitReady DEF Advances
  <1>0. hit > start => PoolCovers(r, hit)
    BY <1>1, HitReady DEF Advances, PoolCovers
  <1>3. IsInjective(added) /\ gpu' = Forwarded(pool, rows, r, table, start, hit)
    BY DEF Advances, Advance
  <1>4. hit + 1 - start \in Nat /\ free \in SUBSET (Blocks \ Range(prefix)) /\ added \in [1..(hit + 1 - start) -> free]
    BY <1>1, <1>2 DEF Advances
  <1> HIDE DEF T, prefix, free, rows, pool, table
  <1>5. /\ table \in Seq(Blocks) /\ Len(table) = start + (hit + 1 - start)
        /\ \A i \in 1..start : table[i] = prefix[i] /\ prefix[i] \notin Range(added)
        /\ \A i \in 1..(hit + 1 - start) : table[start + i] = added[i] /\ added[i] \in Range(added)
        /\ Range(added) \subseteq free
        /\ \A i, k \in 1..(start + (hit + 1 - start)) : i > start /\ table[k] = table[i] => i = k
    <2> DEFINE n == hit + 1 - start
    <2>1. n \in Nat /\ added \in [1..n -> free]
      BY <1>4
    <2> HIDE DEF n
    <2>2. /\ table \in Seq(Blocks) /\ Len(table) = Len(prefix) + n
          /\ \A i \in 1..Len(prefix) : table[i] = prefix[i] /\ prefix[i] \notin Range(added)
          /\ \A i \in 1..n : table[Len(prefix) + i] = added[i] /\ added[i] \in Range(added)
          /\ Range(added) \subseteq free
          /\ \A i, k \in 1..(Len(prefix) + n) : i > Len(prefix) /\ table[k] = table[i] => i = k
      <3>1. prefix \in Seq(Blocks) /\ IsInjective(added) /\ free \in SUBSET (Blocks \ Range(prefix))
        BY <1>1, <1>3, <1>4
      <3> QED
        BY <2>1, <3>1, TableOf, ZenonT(60) DEF table
    <2> QED
      BY <1>1, <2>2 DEF n
  <1>6. start + (hit + 1 - start) = hit + 1
    BY <1>1, <1>2
  <1>7. /\ \A i \in 1..(hit + 1) : table[i] \in Blocks
        /\ \A i \in 1..(hit + 1) : i > start => table[i] \in Range(added)
        /\ \A b \in Range(added) : \E i \in 1..(hit + 1) : i > start /\ table[i] = b
    <2>1. \A i \in 1..(hit + 1) : table[i] \in Blocks
      BY <1>5, <1>6
    <2>2. ASSUME NEW i \in 1..(hit + 1), i > start PROVE table[i] \in Range(added)
      <3>1. i - start \in 1..(hit + 1 - start) /\ start + (i - start) = i
        BY <1>1, <1>2, <2>2
      <3> QED
        BY <3>1, <1>5
    <2>3. ASSUME NEW b \in Range(added) PROVE \E i \in 1..(hit + 1) : i > start /\ table[i] = b
      <3>1. PICK k \in 1..(hit + 1 - start) : added[k] = b
        BY <1>4 DEF Range
      <3>2. start + k \in 1..(hit + 1) /\ start + k > start /\ table[start + k] = b
        BY <1>1, <1>2, <1>5, <3>1
      <3> QED
        BY <3>2
    <2> QED
      BY <2>1, <2>2, <2>3
  <1>8. /\ \A i \in 1..(hit + 1) : gpu'[table[i]] = <<r, i>>
        /\ \A b \in Blocks :
             (\A i \in 1..(hit + 1) : i > start => table[i] # b) => gpu'[b] = gpu[b]
    <2>1. \A i \in 1..start : gpu[table[i]] = <<r, i>>
      BY <1>1, <1>5
    <2>2. TableFor(r, start, hit, table)
      BY <1>0, <1>1, <1>2, <1>5, <1>6, <2>1 DEF TableFor
    <2>3. Suits(Forwarded(pool, rows, r, table, start, hit), r, start, hit, table)
      BY <1>1, <1>2, <2>2, ForwardedBlocks DEF pool, rows
    <2> QED
      BY <1>3, <2>3 DEF Suits
  <1>9. \A b \in Blocks \ Range(added) : gpu'[b] = gpu[b]
    BY <1>7, <1>8
  <1>10. gpu' \in [Blocks -> Content]
    <2>1. gpu' = [b \in Blocks |-> gpu'[b]]
      BY <1>3 DEF Forwarded
    <2>2. ASSUME NEW b \in Blocks PROVE gpu'[b] \in Content
      <3>1. CASE b \notin Range(added)
        BY <1>9, <3>1 DEF OffInv, OffTypeOK
      <3>2. CASE b \in Range(added)
        <4>1. PICK i \in 1..(hit + 1) : table[i] = b
          BY <1>7, <3>2
        <4>2. gpu'[b] = <<r, i>>
          BY <1>8, <4>1
        <4>3. i \in Nat
          BY <1>2
        <4> QED
          BY <4>2, <4>3 DEF Content
      <3> QED
        BY <3>1, <3>2
    <2> QED
      BY <2>1, <2>2
  <1>11. \A b \in Range(added) : b \notin Held(T)
    BY <1>5 DEF free
  <1> QED
    BY <1>2, <1>5, <1>6, <1>7, <1>8, <1>9, <1>10, <1>11 DEF BlocksAfter, table, prefix, T

(* The store a step adds is of a chunk without an entry, whose blocks are  *)
(* blocks of the table.                                                    *)
LEMMA NewStore ==
    ASSUME OffInv, NEW r \in Reqs, NEW table \in Seq(Blocks), NEW reading,
           NEW s \in NewStores(r, table, reading)
    PROVE  /\ s \in Job /\ s.req = r /\ s.job = steps + 1 /\ s.chunk # 0
           /\ \A e \in index : ~(e.req = r /\ e.chunk = s.chunk)
           /\ \A t \in Subs : /\ ((s.chunk - 1) * Factor) + t + 1 \in 1..Len(table)
                              /\ s.blocks[t + 1] = table[((s.chunk - 1) * Factor) + t + 1]
  <1>1. /\ Factor \in Nat \ {0} /\ Len(table) \in Nat /\ steps \in Nat
        /\ (Len(table) \div Factor) \in Nat
        /\ Factor * (Len(table) \div Factor) <= Len(table)
    <2>1. Factor \in Nat \ {0} /\ Len(table) \in Nat /\ steps \in Nat
      BY OffloadAssumption DEF OffInv, OffTypeOK
    <2>2. /\ (Len(table) \div Factor) \in Nat /\ (Len(table) % Factor) \in 0..(Factor - 1)
          /\ Len(table) = (Factor * (Len(table) \div Factor)) + (Len(table) % Factor)
      BY <2>1, DivMod
    <2>3. Factor * (Len(table) \div Factor) \in Nat
      BY <2>1, <2>2
    <2> QED
      BY <2>1, <2>2, <2>3
  <1>2. PICK c \in 1..(Len(table) \div Factor), row \in PoolRows :
          /\ ~\E e \in index : e.req = r /\ e.chunk = c
          /\ s = [req |-> r, chunk |-> c, row |-> row, job |-> steps + 1,
                  blocks |-> [k \in 1..Factor |-> table[((c - 1) * Factor) + k]]]
    BY DEF NewStores
  <1>3. c \in Nat \ {0}
    BY <1>1, <1>2
  <1>4. ASSUME NEW k \in 1..Factor PROVE ((c - 1) * Factor) + k \in 1..Len(table)
    <2>1. c - 1 \in Nat /\ (c - 1) * Factor \in Nat /\ c * Factor = ((c - 1) * Factor) + Factor
      BY <1>1, <1>3
    <2>2. c * Factor <= Factor * (Len(table) \div Factor)
      <3>1. \A F, d, e \in Nat : d <= e => d * F <= F * e
        OBVIOUS
      <3>2. c <= (Len(table) \div Factor)
        BY <1>2
      <3> QED
        BY <1>1, <1>3, <3>1, <3>2
    <2> QED
      BY <1>1, <2>1, <2>2
  <1>5. [k \in 1..Factor |-> table[((c - 1) * Factor) + k]] \in [1..Factor -> Blocks]
    BY <1>4
  <1>6. s \in Job
    <2> DEFINE blocks == [k \in 1..Factor |-> table[((c - 1) * Factor) + k]]
    <2>1. blocks \in [1..Factor -> Blocks] /\ steps + 1 \in Nat /\ c \in Nat
      BY <1>1, <1>3, <1>5
    <2>2. s = [req |-> r, chunk |-> c, row |-> row, job |-> steps + 1, blocks |-> blocks]
      BY <1>2
    <2> HIDE DEF blocks
    <2> QED
      BY <2>1, <2>2 DEF Job
  <1>7. ASSUME NEW t \in Subs
        PROVE  /\ ((s.chunk - 1) * Factor) + t + 1 \in 1..Len(table)
               /\ s.blocks[t + 1] = table[((s.chunk - 1) * Factor) + t + 1]
    <2>1. t + 1 \in 1..Factor /\ t \in Int
      BY <1>1 DEF Subs
    <2>2. s.blocks[t + 1] = table[((c - 1) * Factor) + (t + 1)] /\ s.chunk = c
      BY <1>2, <2>1
    <2>3. ((c - 1) * Factor) + (t + 1) = ((c - 1) * Factor) + t + 1
      <3>1. (c - 1) * Factor \in Int
        BY <1>1, <1>3
      <3> QED
        BY <2>1, <3>1
    <2> QED
      BY <1>4, <2>1, <2>2, <2>3
  <1> QED
    BY <1>2, <1>3, <1>6, <1>7

(* execute_model with tokens. *)
LEMMA ExecuteModelInv ==
    ASSUME OffInv, NEW r \in Reqs, NEW P \in SUBSET Reqs, ExecuteModel(r, P)
    PROVE  OffInv'
  <1> DEFINE T == TablesWithout(P)
  <1>1. PICK start, hit, added : Advances(r, P, start, hit, added)
    BY DEF ExecuteModel, Advances
  <1> DEFINE table == PrefixOf(r, T, start) \o added
  <1>2. BlocksAfter(r, T, hit, added, table)
    BY <1>1, AdvanceBlocks
  <1>3. /\ hit \in Nat /\ table \in Seq(Blocks) /\ Len(table) = hit + 1
        /\ gpu' \in [Blocks -> Content]
        /\ \A i \in 1..(hit + 1) : gpu'[table[i]] = <<r, i>>
        /\ \A b \in Blocks \ Range(added) : gpu'[b] = gpu[b]
        /\ \A b \in Range(added) : b \notin Held(T) /\ \E i \in 1..(hit + 1) : table[i] = b
    <2> HIDE DEF T, table
    <2> QED
      BY <1>2 DEF BlocksAfter
  <1>4. /\ tables' = [T EXCEPT ![r] = table]
        /\ hashes' = [b \in Blocks |-> IF b \in Range(added)
                        THEN <<r, CHOOSE i \in DOMAIN table : table[i] = b>> ELSE hashes[b]]
        /\ \/ bound' = {} /\ index' = index
           \/ \E reading : \E s \in NewStores(r, table, reading) :
                /\ bound' = {s}
                /\ index' = {e \in index : e.row # s.row} \cup
                     {[req |-> s.req, chunk |-> s.chunk, row |-> s.row, job |-> s.job, ready |-> FALSE]}
    BY <1>1 DEF Advances, Advance
  <1>5. /\ asleep = {} /\ host' = Stored(Closing) /\ queue' = {} /\ stepPhase' = "open"
        /\ finished' = finished \cup {j.job : j \in Closing} /\ steps' = steps + 1
        /\ released' = released /\ backed' = backed /\ asleep' = asleep /\ upsets' = upsets
    BY DEF ExecuteModel, Awake
  <1>6. OffTypeOK /\ OneEntry /\ StoreQueue /\ JobNumbers /\ StoresHeld /\ RowsHeld /\ HashesTrue
    BY DEF OffInv
  <1>7. T \in [Reqs -> Seq(Blocks)]
        /\ \A q \in Reqs : \A i \in DOMAIN T[q] : T[q][i] \in Held(T) /\ gpu[T[q][i]] = <<q, i>>
    BY LeftTables
  <1> HIDE DEF T, table
  <1>8. DOMAIN table = 1..(hit + 1) /\ \A i \in 1..(hit + 1) : table[i] \in Blocks
    BY <1>3
  <1>9. (TablesHeld /\ tables \in [Reqs -> Seq(Blocks)])'
    <2>1. tables' \in [Reqs -> Seq(Blocks)]
      BY <1>3, <1>4, <1>7
    <2>2. ASSUME NEW q \in Reqs, NEW i \in DOMAIN tables'[q] PROVE gpu'[tables'[q][i]] = <<q, i>>
      <3>1. CASE q = r
        BY <1>3, <1>4, <1>7, <1>8, <2>2, <3>1
      <3>2. CASE q # r
        <4>1. tables'[q] = T[q]
          BY <1>4, <1>7, <3>2
        <4>2. T[q][i] \in Blocks /\ T[q][i] \in Held(T) /\ gpu[T[q][i]] = <<q, i>>
          BY <1>7, <2>2, <4>1
        <4>3. T[q][i] \notin Range(added)
          BY <1>3, <4>2
        <4> QED
          BY <1>3, <4>1, <4>2, <4>3
      <3> QED
        BY <3>1, <3>2
    <2> QED
      BY <2>1, <2>2 DEF TablesHeld
  <1>10. (HashesTrue /\ hashes \in [Blocks -> Content])'
    <2>1. ASSUME NEW b \in Blocks
          PROVE  hashes'[b] \in Content /\ (hashes'[b] # Junk => gpu'[b] = hashes'[b])
      <3>1. CASE b \in Range(added)
        <4>1. PICK k \in 1..(hit + 1) : table[k] = b
          BY <1>3, <3>1
        <4> DEFINE i == CHOOSE i \in DOMAIN table : table[i] = b
        <4>2. i \in 1..(hit + 1) /\ table[i] = b
          BY <1>8, <4>1
        <4>3. hashes'[b] = <<r, i>>
          BY <1>4, <3>1
        <4> HIDE DEF i
        <4>4. i \in Nat /\ gpu'[b] = <<r, i>>
          BY <1>3, <4>2
        <4> QED
          BY <4>3, <4>4 DEF Content
      <3>2. CASE b \notin Range(added)
        <4>1. hashes'[b] = hashes[b] /\ gpu'[b] = gpu[b]
          BY <1>3, <1>4, <3>2
        <4> QED
          BY <1>6, <4>1 DEF HashesTrue, OffTypeOK
      <3> QED
        BY <3>1, <3>2
    <2>2. hashes' = [b \in Blocks |-> hashes'[b]]
      BY <1>4
    <2>3. hashes' \in [Blocks -> Content]
      <3> HIDE DEF Content
      <3> QED
        BY <2>1, <2>2
    <2> QED
      BY <2>1, <2>3 DEF HashesTrue
  <1>11. /\ Closing \subseteq queue \cup bound
         /\ Stored(Closing) \in [PoolRows -> [Subs -> Content]]
         /\ \A e \in index :
              e.ready \/ e.job \in finished \cup {j.job : j \in Closing} =>
                \A s \in Subs : Stored(Closing)[e.row][s] = ChunkOf(e, s)
    BY StoredRows
  <1>12. /\ steps \in Nat /\ finished' \subseteq 0..steps /\ index \subseteq Entry
         /\ \A e \in index : e.job <= steps /\ e.chunk # 0 /\ e.job # steps + 1
    <2>1. steps \in Nat /\ index \subseteq Entry /\ finished \subseteq 0..steps
      BY <1>6 DEF OffTypeOK
    <2>2. \A j \in Closing : j.job \in 0..steps
      <3>1. \A j \in Closing : j \in Job /\ j.job <= steps
        BY <1>6, <1>11 DEF OffTypeOK, JobNumbers
      <3> QED
        BY <2>1, <3>1 DEF Job
    <2>3. finished' \subseteq 0..steps
      BY <1>5, <2>1, <2>2
    <2>4. \A e \in index : e.job \in Nat /\ e.job <= steps /\ e.chunk # 0
      BY <1>6, <2>1 DEF JobNumbers, Entry
    <2> QED
      BY <2>1, <2>3, <2>4
  <1>13. (/\ bound \subseteq Job /\ index \subseteq Entry /\ finished \subseteq 0..steps
          /\ OneEntry /\ StoreQueue /\ JobNumbers /\ StoresHeld /\ RowsHeld)'
    <2>1. CASE bound' = {} /\ index' = index
      <3>1. queue' \cup bound' = {}
        BY <1>5, <2>1
      <3>2. (bound \subseteq Job /\ index \subseteq Entry /\ finished \subseteq 0..steps)'
        BY <1>5, <1>12, <2>1
      <3>3. OneEntry'
        BY <1>6, <2>1 DEF OneEntry
      <3>4. StoreQueue' /\ StoresHeld'
        BY <1>5, <3>1 DEF StoreQueue, StoresHeld
      <3>5. JobNumbers'
        <4>1. \A e \in index : e.job \in Nat
          BY <1>12 DEF Entry
        <4> QED
          BY <1>5, <1>12, <2>1, <3>1, <4>1 DEF JobNumbers
      <3>6. RowsHeld'
        BY <1>5, <1>11, <2>1 DEF RowsHeld, ChunkOf
      <3> QED
        BY <3>2, <3>3, <3>4, <3>5, <3>6
    <2>2. CASE \E reading : \E s \in NewStores(r, table, reading) :
                 /\ bound' = {s}
                 /\ index' = {e \in index : e.row # s.row} \cup
                      {[req |-> s.req, chunk |-> s.chunk, row |-> s.row, job |-> s.job, ready |-> FALSE]}
      <3>1. PICK reading : \E s \in NewStores(r, table, reading) :
                 /\ bound' = {s}
                 /\ index' = {e \in index : e.row # s.row} \cup
                      {[req |-> s.req, chunk |-> s.chunk, row |-> s.row, job |-> s.job, ready |-> FALSE]}
        BY <2>2
      <3>2. PICK s \in NewStores(r, table, reading) :
                 /\ bound' = {s}
                 /\ index' = {e \in index : e.row # s.row} \cup
                      {[req |-> s.req, chunk |-> s.chunk, row |-> s.row, job |-> s.job, ready |-> FALSE]}
        BY <3>1
      <3> DEFINE new == [req |-> s.req, chunk |-> s.chunk, row |-> s.row, job |-> s.job, ready |-> FALSE]
      <3>3. /\ s \in Job /\ s.req = r /\ s.job = steps + 1 /\ s.chunk # 0
            /\ \A e \in index : ~(e.req = r /\ e.chunk = s.chunk)
            /\ \A t \in Subs : /\ ((s.chunk - 1) * Factor) + t + 1 \in 1..Len(table)
                               /\ s.blocks[t + 1] = table[((s.chunk - 1) * Factor) + t + 1]
        BY <1>3, NewStore
      <3>4. /\ new \in Entry /\ new.job = steps + 1 /\ new.row = s.row /\ ~new.ready
            /\ new.req = r /\ new.chunk = s.chunk
        BY <3>3 DEF Job, Entry
      <3>5. \A e \in index' : e = new \/ (e \in index /\ e.row # s.row)
        BY <3>2
      <3>6. new \in index' /\ bound' = {s} /\ queue' \cup bound' = {s}
        BY <1>5, <3>2
      <3>7. \A t \in Subs : gpu'[s.blocks[t + 1]] = ChunkOf(new, t)
        BY <1>3, <3>3, <3>4 DEF ChunkOf
      <3> HIDE DEF new
      <3>8. (bound \subseteq Job /\ index \subseteq Entry /\ finished \subseteq 0..steps)'
        BY <1>5, <1>12, <3>3, <3>4, <3>5, <3>6
      <3>9. OneEntry'
        BY <1>6, <3>3, <3>4, <3>5 DEF OneEntry
      <3>10. StoreQueue'
        BY <1>5, <3>6 DEF StoreQueue
      <3>11. steps + 1 \notin finished'
        BY <1>12
      <3>12. JobNumbers'
        <4>1. \A e \in index : e.job \in Nat
          BY <1>12 DEF Entry
        <4>2. \A e \in index' : e.job <= steps' /\ e.chunk # 0
          BY <1>5, <1>12, <3>3, <3>4, <3>5, <4>1
        <4> QED
          BY <1>5, <1>12, <3>3, <3>6, <3>11, <4>2 DEF JobNumbers
      <3>13. StoresHeld'
        BY <1>12, <3>3, <3>4, <3>5, <3>6, <3>7 DEF StoresHeld, ChunkOf
      <3>14. RowsHeld'
        BY <1>5, <1>11, <3>4, <3>5, <3>11 DEF RowsHeld, ChunkOf
      <3> QED
        BY <3>8, <3>9, <3>10, <3>12, <3>13, <3>14
    <2> QED
      BY <1>4, <2>1, <2>2
  <1>14. OffTypeOK'
    BY <1>3, <1>5, <1>6, <1>9, <1>10, <1>11, <1>12, <1>13 DEF OffTypeOK
  <1>15. SleepClears'
    BY <1>5 DEF OffInv, SleepClears
  <1> QED
    BY <1>9, <1>10, <1>13, <1>14, <1>15 DEF OffInv

(* What the engine learns of a step's jobs changes which entries are ready *)
(* and nothing else of the index.                                          *)
LEMMA Reported ==
    ASSUME OffTypeOK, NEW done
    PROVE  /\ Reports(done) \subseteq Entry
           /\ \A e \in Reports(done) : \E f \in index :
                /\ e.req = f.req /\ e.chunk = f.chunk /\ e.row = f.row /\ e.job = f.job
                /\ e = (IF f.job \in done THEN [f EXCEPT !.ready = TRUE] ELSE f)
                /\ e.ready => f.ready \/ f.job \in done
  <1>1. ASSUME NEW f \in index
        PROVE  LET e == IF f.job \in done THEN [f EXCEPT !.ready = TRUE] ELSE f
               IN  /\ e \in Entry
                   /\ e.req = f.req /\ e.chunk = f.chunk /\ e.row = f.row /\ e.job = f.job
                   /\ e.ready => f.ready \/ f.job \in done
    <2>1. f \in Entry
      BY DEF OffTypeOK
    <2> QED
      BY <2>1 DEF Entry
  <1> QED
    BY <1>1 DEF Reports

(* Reporting jobs whose rows hold their chunks. *)
LEMMA ReportsInv ==
    ASSUME OffTypeOK, OneEntry, NEW done, NEW pool,
           \A e \in index : e.ready \/ e.job \in done =>
              \A s \in Subs : pool[e.row][s] = ChunkOf(e, s)
    PROVE  /\ \A e, f \in Reports(done) :
                e.row = f.row \/ (e.req = f.req /\ e.chunk = f.chunk) => e = f
           /\ \A e \in Reports(done) : e.ready =>
                \A s \in Subs : pool[e.row][s] = ChunkOf(e, s)
  <1>1. ASSUME NEW e \in Reports(done), NEW f \in Reports(done),
               e.row = f.row \/ (e.req = f.req /\ e.chunk = f.chunk)
        PROVE  e = f
    <2>1. PICK x \in index :
             /\ e.req = x.req /\ e.chunk = x.chunk /\ e.row = x.row
             /\ e = (IF x.job \in done THEN [x EXCEPT !.ready = TRUE] ELSE x)
      BY Reported
    <2>2. PICK y \in index :
             /\ f.req = y.req /\ f.chunk = y.chunk /\ f.row = y.row
             /\ f = (IF y.job \in done THEN [y EXCEPT !.ready = TRUE] ELSE y)
      BY Reported
    <2>3. x = y
      BY <1>1, <2>1, <2>2 DEF OneEntry
    <2> QED
      BY <2>1, <2>2, <2>3
  <1>2. ASSUME NEW e \in Reports(done), e.ready, NEW s \in Subs
        PROVE  pool[e.row][s] = ChunkOf(e, s)
    <2>1. PICK f \in index :
             /\ e.req = f.req /\ e.chunk = f.chunk /\ e.row = f.row
             /\ e.ready => f.ready \/ f.job \in done
      BY Reported
    <2>2. pool[f.row][s] = ChunkOf(f, s)
      BY <1>2, <2>1
    <2> QED
      BY <2>1, <2>2 DEF ChunkOf
  <1> QED
    BY <1>1, <1>2

(* sample_tokens. *)
LEMMA SampleTokensInv == ASSUME OffInv, SampleTokens PROVE OffInv'
  <1>1. /\ stepPhase = "open" /\ queue = {}
        /\ queue' = queue \cup bound /\ bound' = {} /\ stepPhase' = "closed"
        /\ index' = Reports(finished) /\ finished' = {}
        /\ gpu' = gpu /\ host' = host /\ released' = released /\ backed' = backed
        /\ tables' = tables /\ hashes' = hashes /\ asleep' = asleep
        /\ steps' = steps /\ upsets' = upsets /\ queue' \cup bound' = bound
    BY DEF SampleTokens, workerVars, OffInv, StoreQueue
  <1>2. OffTypeOK /\ OneEntry /\ StoreQueue /\ JobNumbers /\ StoresHeld /\ RowsHeld
        /\ HashesTrue /\ SleepClears /\ TablesHeld
    BY DEF OffInv
  <1>3. /\ Reports(finished) \subseteq Entry
        /\ \A e \in Reports(finished) : \E f \in index :
             /\ e.req = f.req /\ e.chunk = f.chunk /\ e.row = f.row /\ e.job = f.job
             /\ e.ready => f.ready \/ f.job \in finished
    BY <1>2, Reported
  <1>4. /\ \A e, f \in Reports(finished) :
             e.row = f.row \/ (e.req = f.req /\ e.chunk = f.chunk) => e = f
        /\ \A e \in Reports(finished) : e.ready =>
             \A s \in Subs : host[e.row][s] = ChunkOf(e, s)
    BY <1>2, ReportsInv DEF RowsHeld
  <1>5. OffTypeOK'
    BY <1>1, <1>2, <1>3 DEF OffTypeOK
  <1>6. OneEntry' /\ RowsHeld'
    BY <1>1, <1>4 DEF OneEntry, RowsHeld, ChunkOf
  <1>7. StoreQueue'
    BY <1>1, <1>2 DEF StoreQueue
  <1>8. JobNumbers'
    BY <1>1, <1>2, <1>3 DEF JobNumbers
  <1>9. StoresHeld'
    <2>1. ASSUME NEW j \in bound, NEW e \in Reports(finished), e.row = j.row \/ e.job = j.job
          PROVE  /\ e.row = j.row /\ e.job = j.job /\ ~e.ready
                 /\ \A s \in Subs : gpu[j.blocks[s + 1]] = ChunkOf(e, s)
      <3>1. PICK f \in index :
              /\ e.req = f.req /\ e.chunk = f.chunk /\ e.row = f.row /\ e.job = f.job
              /\ e.ready => f.ready \/ f.job \in finished
        BY <1>3
      <3>2. /\ f.row = j.row /\ f.job = j.job /\ ~f.ready
            /\ \A s \in Subs : gpu[j.blocks[s + 1]] = ChunkOf(f, s)
        BY <1>2, <2>1, <3>1 DEF StoresHeld
      <3>3. j.job \notin finished
        BY <1>2 DEF JobNumbers
      <3> QED
        BY <3>1, <3>2, <3>3 DEF ChunkOf
    <2> QED
      BY <1>1, <2>1 DEF StoresHeld, ChunkOf
  <1>10. HashesTrue' /\ TablesHeld'
    BY <1>1, <1>2 DEF HashesTrue, TablesHeld
  <1>11. SleepClears'
    <2>1. index = {} => index' = {}
      BY <1>1 DEF Reports
    <2> QED
      BY <1>1, <1>2, <2>1 DEF SleepClears, Fresh
  <1> QED
    BY <1>5, <1>6, <1>7, <1>8, <1>9, <1>10, <1>11 DEF OffInv

(* execute_model raises. *)
LEMMA StepRaisesInv == ASSUME OffInv, StepRaises PROVE OffInv'
  <1>1. /\ stepPhase = "open" /\ stepPhase' = "leaked" /\ upsets' = upsets + 1
        /\ gpu' = gpu /\ host' = host /\ released' = released /\ backed' = backed
        /\ bound' = bound /\ queue' = queue /\ finished' = finished /\ index' = index
        /\ tables' = tables /\ hashes' = hashes /\ asleep' = asleep /\ steps' = steps
    BY DEF StepRaises, workerVars
  <1>2. OffTypeOK'
    BY <1>1 DEF OffInv, OffTypeOK
  <1>3. OneEntry' /\ StoreQueue' /\ JobNumbers' /\ HashesTrue' /\ TablesHeld' /\ SleepClears'
    BY <1>1 DEF OffInv, OneEntry, StoreQueue, JobNumbers, HashesTrue, TablesHeld,
       SleepClears, Fresh
  <1>4. StoresHeld'
    BY <1>1 DEF OffInv, StoresHeld, ChunkOf
  <1>5. RowsHeld'
    BY <1>1 DEF OffInv, RowsHeld, ChunkOf
  <1> QED
    BY <1>2, <1>3, <1>4, <1>5 DEF OffInv

(* execute_model with nothing scheduled. *)
LEMMA NoForwardInv ==
    ASSUME OffInv, NEW P \in SUBSET Reqs, NoForward(P) PROVE OffInv'
  <1> DEFINE done == finished \cup {j.job : j \in Closing}
  <1>1. /\ asleep = {} /\ tables' = TablesWithout(P) /\ host' = Stored(Closing)
        /\ index' = Reports(done) /\ finished' = {}
        /\ queue' = {} /\ bound' = {} /\ stepPhase' = "closed" /\ steps' = steps + 1
        /\ gpu' = gpu /\ released' = released /\ backed' = backed /\ hashes' = hashes
        /\ asleep' = asleep /\ upsets' = upsets
    BY DEF NoForward, Awake
  <1>2. OffTypeOK /\ OneEntry /\ JobNumbers /\ HashesTrue /\ SleepClears
    BY DEF OffInv
  <1>3. /\ Stored(Closing) \in [PoolRows -> [Subs -> Content]]
        /\ \A e \in index : e.ready \/ e.job \in done =>
             \A s \in Subs : Stored(Closing)[e.row][s] = ChunkOf(e, s)
    BY StoredRows
  <1> HIDE DEF done
  <1>4. /\ Reports(done) \subseteq Entry
        /\ \A e \in Reports(done) : \E f \in index : e.chunk = f.chunk /\ e.job = f.job
    BY <1>2, Reported
  <1>5. /\ \A e, f \in Reports(done) :
             e.row = f.row \/ (e.req = f.req /\ e.chunk = f.chunk) => e = f
        /\ \A e \in Reports(done) : e.ready =>
             \A s \in Subs : Stored(Closing)[e.row][s] = ChunkOf(e, s)
    BY <1>2, <1>3, ReportsInv
  <1>6. /\ TablesWithout(P) \in [Reqs -> Seq(Blocks)]
        /\ \A q \in Reqs : \A i \in DOMAIN TablesWithout(P)[q] : gpu[TablesWithout(P)[q][i]] = <<q, i>>
    BY LeftTables
  <1>7. OffTypeOK'
    BY <1>1, <1>2, <1>3, <1>4, <1>6 DEF OffTypeOK
  <1>8. OneEntry' /\ RowsHeld'
    BY <1>1, <1>5 DEF OneEntry, RowsHeld, ChunkOf
  <1>9. StoreQueue' /\ StoresHeld'
    BY <1>1 DEF StoreQueue, StoresHeld
  <1>10. JobNumbers'
    <2>1. \A f \in index : f.job \in Nat /\ f.job <= steps /\ f.chunk # 0
      BY <1>2 DEF OffTypeOK, Entry, JobNumbers
    <2>2. steps \in Nat
      BY <1>2 DEF OffTypeOK
    <2>3. \A e \in index' : e.job <= steps' /\ e.chunk # 0
      BY <1>1, <1>4, <2>1, <2>2
    <2> QED
      BY <1>1, <2>3 DEF JobNumbers
  <1>11. HashesTrue' /\ TablesHeld' /\ SleepClears'
    BY <1>1, <1>2, <1>6 DEF HashesTrue, TablesHeld, SleepClears
  <1> QED
    BY <1>7, <1>8, <1>9, <1>10, <1>11 DEF OffInv

(* sleep, and a worker that refuses to release its cache during a step. *)
LEMMA SleepInv == ASSUME OffInv, Sleep PROVE OffInv'
  <1>1. /\ tables' = [r \in Reqs |-> <<>>] /\ hashes' = Fresh /\ index' = {}
        /\ asleep' = {"weights", "kv_cache"} /\ upsets' = upsets + 1
        /\ stepPhase' = stepPhase /\ bound' = bound /\ queue' = queue /\ finished' = finished
        /\ steps' = steps
    BY DEF Sleep, stepVars
  <1>2. \/ gpu' = gpu /\ host' = host /\ released' = released /\ backed' = backed
        \/ released' = TRUE /\ backed' = FALSE /\ gpu' = Fresh /\ host' \in ReleasedPools
    BY DEF Sleep, ReleaseKVCacheMemory, workerVars
  <1>3. OffTypeOK /\ StoreQueue /\ JobNumbers /\ SleepClears /\ asleep = {}
    BY DEF OffInv, Sleep
  <1>4. Fresh \in [Blocks -> Content]
    BY DEF Fresh, Content
  <1>5. gpu' \in [Blocks -> Content] /\ host' \in [PoolRows -> [Subs -> Content]]
    <2>1. ReleasedPools \subseteq [PoolRows -> [Subs -> Content]]
      BY <1>3 DEF ReleasedPools, OffTypeOK, Content
    <2> QED
      BY <1>2, <1>3, <1>4, <2>1 DEF OffTypeOK
  <1>6. released' \in BOOLEAN /\ backed' \in BOOLEAN
    BY <1>2, <1>3 DEF OffTypeOK
  <1>7. tables' \in [Reqs -> Seq(Blocks)]
    BY <1>1
  <1>8. OffTypeOK'
    BY <1>1, <1>3, <1>4, <1>5, <1>6, <1>7 DEF OffTypeOK
  <1>9. OneEntry' /\ StoreQueue' /\ JobNumbers' /\ StoresHeld' /\ RowsHeld'
    BY <1>1, <1>3 DEF OneEntry, StoreQueue, JobNumbers, StoresHeld, RowsHeld
  <1>10. HashesTrue' /\ TablesHeld'
    BY <1>1 DEF HashesTrue, TablesHeld, Fresh
  <1>11. SleepClears'
    <2>1. ~backed' => released'
      BY <1>2, <1>3 DEF SleepClears
    <2> QED
      BY <1>1, <2>1 DEF SleepClears, Fresh
  <1> QED
    BY <1>8, <1>9, <1>10, <1>11 DEF OffInv

(* wake_up with some of the tags. *)
LEMMA WakeUpInv ==
    ASSUME OffInv, NEW tags \in SUBSET {"weights", "kv_cache"}, WakeUp(tags)
    PROVE  OffInv'
  <1>1. /\ asleep # {} /\ asleep' = asleep \ tags
        /\ host' = host /\ stepPhase' = stepPhase /\ bound' = bound /\ queue' = queue
        /\ finished' = finished /\ tables' = tables /\ hashes' = hashes /\ index' = index
        /\ steps' = steps /\ upsets' = upsets
    BY DEF WakeUp, stepVars
  <1>2. \/ /\ released /\ "kv_cache" \in tags
           /\ released' = FALSE /\ backed' = TRUE /\ gpu' = Fresh
        \/ /\ ~(released /\ "kv_cache" \in tags)
           /\ released' = released /\ backed' = backed /\ gpu' = gpu
    BY DEF WakeUp, Restores
  <1>3. OffTypeOK /\ StoreQueue /\ JobNumbers /\ SleepClears
    BY DEF OffInv
  <1>4. index = {} /\ hashes = Fresh /\ tables = [r \in Reqs |-> <<>>]
    BY <1>1, <1>3 DEF SleepClears
  <1>5. Fresh \in [Blocks -> Content]
    BY DEF Fresh, Content
  <1>6. OffTypeOK'
    BY <1>1, <1>2, <1>3, <1>5 DEF OffTypeOK
  <1>7. OneEntry' /\ StoreQueue' /\ JobNumbers' /\ StoresHeld' /\ RowsHeld'
    BY <1>1, <1>3, <1>4 DEF OneEntry, StoreQueue, JobNumbers, StoresHeld, RowsHeld
  <1>8. HashesTrue' /\ TablesHeld'
    BY <1>1, <1>4 DEF HashesTrue, TablesHeld, Fresh
  <1>9. SleepClears'
    BY <1>1, <1>2, <1>3, <1>4 DEF SleepClears, Fresh
  <1> QED
    BY <1>6, <1>7, <1>8, <1>9 DEF OffInv

-----------------------------------------------------------------------------
(* The invariant holds of the specification: every step of execute_model,  *)
(* sample_tokens, sleep and wake_up keeps it.                              *)
THEOREM OffloadInvariance == OffSpec => []OffInv
  <1>1. OffInit => OffInv
    BY OffInitInv
  <1>2. OffInv /\ [OffNext]_offVars => OffInv'
    <2> SUFFICES ASSUME OffInv, [OffNext]_offVars PROVE OffInv'
      OBVIOUS
    <2>1. CASE UNCHANGED offVars
      <3>1. /\ gpu' = gpu /\ host' = host /\ released' = released /\ backed' = backed
            /\ stepPhase' = stepPhase /\ bound' = bound /\ queue' = queue
            /\ finished' = finished /\ tables' = tables /\ hashes' = hashes
            /\ index' = index /\ asleep' = asleep /\ steps' = steps /\ upsets' = upsets
        BY <2>1 DEF offVars, workerVars, stepVars, schedVars
      <3>2. OffTypeOK' /\ OneEntry' /\ StoreQueue' /\ JobNumbers'
        BY <3>1 DEF OffInv, OffTypeOK, OneEntry, StoreQueue, JobNumbers
      <3>3. StoresHeld' /\ RowsHeld' /\ HashesTrue' /\ SleepClears' /\ TablesHeld'
        BY <3>1 DEF OffInv, StoresHeld, RowsHeld, ChunkOf, HashesTrue, SleepClears,
           TablesHeld, Fresh
      <3> QED
        BY <3>2, <3>3 DEF OffInv
    <2>2. ASSUME NEW r \in Reqs, NEW P \in SUBSET Reqs, ExecuteModel(r, P) PROVE OffInv'
      BY <2>2, ExecuteModelInv
    <2>3. ASSUME NEW P \in SUBSET Reqs, NoForward(P) PROVE OffInv'
      BY <2>3, NoForwardInv
    <2>4. CASE SampleTokens
      BY <2>4, SampleTokensInv
    <2>5. CASE StepRaises
      BY <2>5, StepRaisesInv
    <2>6. CASE Sleep
      BY <2>6, SleepInv
    <2>7. ASSUME NEW tags \in SUBSET {"weights", "kv_cache"}, WakeUp(tags) PROVE OffInv'
      BY <2>7, WakeUpInv
    <2> QED
      BY <2>1, <2>2, <2>3, <2>4, <2>5, <2>6, <2>7 DEF OffNext
  <1> QED
    BY <1>1, <1>2, PTL DEF OffSpec

(* Every block of a running request and every chunk the index offers holds *)
(* what the model computed for it, whatever exceptions, preemptions and    *)
(* sleeps lie between a store and a load, and the cache has its memory     *)
(* when a step may run (kv_offload/worker.py, v1/model_runner.py:1046).    *)
THEOREM OffloadKeeps == OffSpec => []OffloadKeepsContent
  <1>1. OffInv => OffloadKeepsContent
    <2> SUFFICES ASSUME OffInv PROVE OffloadKeepsContent
      OBVIOUS
    <2>1. RequestsHoldTheirKV
      BY DEF OffInv, TablesHeld, SleepClears, RequestsHoldTheirKV
    <2>2. PoolHoldsItsChunks
      BY DEF OffInv, RowsHeld, ChunkOf, PoolHoldsItsChunks
    <2> QED
      BY <2>1, <2>2 DEF OffloadKeepsContent
  <1> QED
    BY <1>1, OffloadInvariance, PTL

=============================================================================
