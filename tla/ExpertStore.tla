----------------------------- MODULE ExpertStore -----------------------------
(***************************************************************************)
(* The LRU store that MoE expert offloading streams experts through:       *)
(* ExpertStore and OffloadedSwitchGLU of vllm_metal/moe_offload.py.        *)
(*                                                                         *)
(* A forward visits the layers in order; each layer asks the store for the *)
(* experts its tokens were routed to, stacks copies of them for its matrix *)
(* products and drops the stack again. An expert of layer l takes          *)
(* ExpertBytes[l]. A read or a conversion that fails raises out of the     *)
(* forward, which ends the engine.                                         *)
(***************************************************************************)
EXTENDS Integers, Sequences, Subsequences

CONSTANTS
    NumExperts,   \* experts of each layer
    ExpertBytes,  \* bytes of one expert, by layer
    CacheBytes,   \* moe_expert_cache_bytes, positive
    MaxGets       \* bound: layers run in a behaviour

ASSUME ExpertAssumption ==
    /\ NumExperts \in Nat \ {0}
    /\ ExpertBytes \in Seq(Nat \ {0}) /\ ExpertBytes # <<>>
    /\ CacheBytes \in Nat \ {0} /\ MaxGets \in Nat

Experts == 0..(NumExperts - 1)
Entry == (1..Len(ExpertBytes)) \X Experts

VARIABLES
    exPhase,   \* "profiling", "serving"; "failed" or "key_error" after one raised
    entries,   \* _entries, least recently used first: <<layer, expert>>
    partial,   \* entries that lack an array
    exBytes,   \* ExpertStore.bytes
    stack,     \* the copies the current layer holds during its forward
    layer,     \* the layer that runs next
    gets

exVars == <<exPhase, entries, partial, exBytes, stack, layer, gets>>

ExInit ==
    /\ exPhase = "profiling" /\ entries = <<>> /\ partial = {} /\ exBytes = 0
    /\ stack = {} /\ layer = 1 /\ gets = 0

Alive == exPhase \in {"profiling", "serving"}

SizeOf(e) == ExpertBytes[e[1]]
BytesOf(seq) == SeqSum([i \in 1..Len(seq) |-> SizeOf(seq[i])])

(* The experts of this layer, and those its tokens touched, in the order   *)
(* of np.unique.                                                           *)
LayerOrder == [i \in 1..NumExperts |-> <<layer, i - 1>>]
Wanted(touched) == Part(LayerOrder, {e + 1 : e \in touched})
Missing(touched) == Without(Wanted(touched), Elems(entries))

(* Mutant of Recency: hits keep their place. *)
RecencyOfMisses(touched) == entries \o Missing(touched)

(* The store after the reads and move_to_end of every expert asked for. *)
Recency(touched) ==
    Without(entries, Elems(Wanted(touched))) \o Wanted(touched)

(* _evict: how many of the oldest entries go. The experts of this call     *)
(* stay even when they alone exceed the budget.                            *)
Enough(seq, total, keep, n) ==
    \/ total - BytesOf(SubSeq(seq, 1, n)) <= CacheBytes
    \/ Len(seq) - n <= keep

Evicted(seq, total, keep) ==
    CHOOSE n \in 0..Len(seq) :
        /\ Enough(seq, total, keep, n)
        /\ \A k \in 0..(n - 1) : ~Enough(seq, total, keep, k)

(* get, and the stacking of OffloadedSwitchGLU.__call__: an entry that is  *)
(* not there, or lacks an array, is a KeyError.                            *)
Get(touched) ==
    LET recent == Recency(touched)
        total == exBytes + BytesOf(Missing(touched))
        gone == Evicted(recent, total, Len(Wanted(touched)))
    IN  /\ Alive /\ stack = {} /\ gets < MaxGets /\ touched # {}
        /\ entries' = SubSeq(recent, gone + 1, Len(recent))
        /\ exBytes' = total - BytesOf(SubSeq(recent, 1, gone))
        /\ stack' = Elems(Wanted(touched)) \cap Elems(entries')
        /\ exPhase' = IF Elems(Wanted(touched)) \subseteq Elems(entries') \ partial
                      THEN exPhase ELSE "key_error"
        /\ gets' = gets + 1
        /\ UNCHANGED <<partial, layer>>

(* A read fails before anything is cached.                                 *)
ReadRaises(touched) ==
    /\ Alive /\ stack = {} /\ gets < MaxGets /\ Missing(touched) # <<>>
    /\ exPhase' = "failed"
    /\ UNCHANGED <<entries, partial, exBytes, stack, layer, gets>>

(* A conversion fails with the first `done` experts complete, some bytes of *)
(* the next one's arrays counted, and the rest missing.                    *)
ConversionRaises(touched, done, some) ==
    LET missing == Missing(touched) IN
    /\ Alive /\ stack = {} /\ gets < MaxGets /\ done < Len(missing)
    /\ some < SizeOf(missing[done + 1])
    /\ entries' = entries \o SubSeq(missing, 1, done + 1)
    /\ partial' = partial \cup {missing[done + 1]}
    /\ exBytes' = exBytes + BytesOf(SubSeq(missing, 1, done)) + some
    /\ exPhase' = "failed"
    /\ UNCHANGED <<stack, layer, gets>>

(* The layer's forward ends and _reset drops the stack. *)
LayerDone ==
    /\ Alive /\ stack # {}
    /\ stack' = {} /\ layer' = IF layer = Len(ExpertBytes) THEN 1 ELSE layer + 1
    /\ UNCHANGED <<exPhase, entries, partial, exBytes, gets>>

(* profile_run clears the store between its dummy forward and serving. *)
Clear ==
    /\ exPhase = "profiling" /\ stack = {} /\ layer = 1
    /\ exPhase' = "serving" /\ entries' = <<>> /\ exBytes' = 0
    /\ UNCHANGED <<partial, stack, layer, gets>>

ExNext ==
    \/ \E touched \in SUBSET Experts : Get(touched) \/ ReadRaises(touched)
    \/ \E touched \in SUBSET Experts : \E done \in 0..(NumExperts - 1) :
          \E some \in 0..(ExpertBytes[layer] - 1) : ConversionRaises(touched, done, some)
    \/ LayerDone \/ Clear

ExSpec == ExInit /\ [][ExNext]_exVars

-----------------------------------------------------------------------------
(* Properties. *)

(* A call never evicts an expert it asked for, the byte count stays that   *)
(* of the entries, and the cache is over its budget only with the experts  *)
(* of its last call, which the running layer holds in full                 *)
(* (moe_offload.py:143-192).                                               *)
ExpertsServed ==
    /\ exPhase # "key_error"
    /\ Alive =>
         /\ exBytes = BytesOf(entries)
         /\ Distinct(entries)
         /\ exBytes > CacheBytes =>
              /\ stack \in {{}, Elems(entries)}
              /\ \A i, j \in DOMAIN entries : entries[i][1] = entries[j][1]

(* Types; and as long as nothing raised, every entry is complete.          *)
ExTypeOK ==
    /\ exPhase \in {"profiling", "serving", "failed", "key_error"}
    /\ entries \in Seq(Entry) /\ partial \subseteq Entry /\ stack \subseteq Entry
    /\ exBytes \in Nat /\ layer \in 1..Len(ExpertBytes) /\ gets \in 0..MaxGets

ExInv ==
    /\ ExTypeOK
    /\ ExpertsServed
    /\ Alive => partial = {}

=============================================================================
