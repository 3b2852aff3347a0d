---------------------------- MODULE FsTier_proofs ----------------------------
(***************************************************************************)
(* The file tier's index, byte count and advertised blocks match the       *)
(* volume (IndexMatchesDisk), and room is made from the oldest removable   *)
(* files (RoomMadeFromOldest): for any keys, finite or not, any cap and    *)
(* any number of jobs, faults and restarts.                                *)
(***************************************************************************)
EXTENDS FsTier, Subsequences_proofs, FiniteSetTheorems

Entry == [key : Key, size : {ShortSize, BlockSize}]

(* Each path is in the index once, and once on the volume. *)
OnePath(idx) == \A i, j \in DOMAIN idx : idx[i].key = idx[j].key => i = j

FsTypes ==
    /\ fsDisk \in Seq(Key) /\ Distinct(fsDisk)
    /\ index \in Seq(Entry) /\ OnePath(index)
    /\ submitted \in Nat

(* A job in flight: as far as it got its blocks are on the volume, and it  *)
(* is done when the last is.                                               *)
JobSound(job) ==
    /\ job = [id |-> job.id, kind |-> job.kind, keys |-> job.keys, done |-> job.done,
              result |-> job.result]
    /\ job.id \in Nat /\ job.id <= submitted
    /\ job.kind \in {"store", "load"}
    /\ job.keys \in Seq(Key) /\ Distinct(job.keys) /\ job.keys # <<>>
    /\ job.done \in 0..Len(job.keys)
    /\ job.result \in {"running", "ok", "failed"}
    /\ job.done < Len(job.keys) <=> job.result # "ok"
    /\ \A i \in 1..job.done : job.keys[i] \in Files

(* No key is in two jobs. *)
JobsApart ==
    \A j, k \in jobs : KeysOf(j) \cap KeysOf(k) # {} => j = k

(* The accounting, as IndexMatchesDisk states it. *)
Accounted ==
    /\ Files \subseteq Indexed \cup Writing
    /\ Indexed \subseteq Files \cup Reading
    /\ \A i \in DOMAIN index :
         index[i].key \in Files => SizeOnDisk(index[i].key) <= index[i].size
    /\ bytes = Total(index)
    /\ advertised \subseteq Indexed

FsInv ==
    /\ FsTypes
    /\ \A job \in jobs : JobSound(job)
    /\ JobsApart
    /\ Accounted

-----------------------------------------------------------------------------
(* Indexes. *)

Size == [e \in Entry |-> e.size]

LEMMA EntryFacts ==
    /\ Size \in [Entry -> Nat]
    /\ \A e \in Entry : Size[e] = e.size /\ e.key \in Key /\ e.size \in {1, 2}
    /\ \A k \in Key : [key |-> k, size |-> BlockSize] \in Entry
                      /\ [key |-> k, size |-> ShortSize] \in Entry
  BY DEF Size, Entry, BlockSize, ShortSize

(* Total adds up the entries' sizes. *)
LEMMA TotalWeighs ==
    ASSUME NEW idx \in Seq(Entry)
    PROVE  Total(idx) = Weigh(idx, Size) /\ Total(idx) \in Nat
  <1>1. \A i \in DOMAIN idx : idx[i] \in Entry
    <2> HIDE DEF Entry
    <2> QED OBVIOUS
  <1>2. \A i \in DOMAIN idx : Size[idx[i]] = idx[i].size
    BY <1>1, EntryFacts
  <1>3. [i \in DOMAIN idx |-> idx[i].size] = [i \in DOMAIN idx |-> Size[idx[i]]]
    BY <1>2
  <1>4. Weigh(idx, Size) \in Nat
    BY EntryFacts, WeighType
  <1> QED
    BY <1>3, <1>4 DEF Total, Weigh

LEMMA KeysOfEntries ==
    ASSUME NEW idx \in Seq(Entry)
    PROVE  /\ \A k : k \in KeysIn(idx) <=> \E e \in Elems(idx) : e.key = k
           /\ Elems(idx) \subseteq Entry /\ KeysIn(idx) \subseteq Key
  <1>1. Elems(idx) \subseteq Entry
    <2> HIDE DEF Entry
    <2> QED BY DEF Elems
  <1>2. \A k : k \in KeysIn(idx) <=> \E e \in Elems(idx) : e.key = k
    BY DEF KeysIn, Elems
  <1> QED
    BY <1>1, <1>2, EntryFacts

(* An index with one entry per path, seen as a set of entries. *)
OneEach(E) == \A e, f \in E : e.key = f.key => e = f

LEMMA OnePathIff ==
    ASSUME NEW idx \in Seq(Entry)
    PROVE  OnePath(idx) <=> Distinct(idx) /\ OneEach(Elems(idx))
  <1>1. ASSUME OnePath(idx) PROVE Distinct(idx) /\ OneEach(Elems(idx))
    BY <1>1 DEF OnePath, Distinct, OneEach, Elems
  <1>2. ASSUME Distinct(idx), OneEach(Elems(idx)),
               NEW i \in DOMAIN idx, NEW j \in DOMAIN idx, idx[i].key = idx[j].key
        PROVE  i = j
    <2>1. idx[i] \in Elems(idx) /\ idx[j] \in Elems(idx)
      BY DEF Elems
    <2> QED
      BY <1>2, <2>1 DEF Distinct, OneEach
  <1> QED
    BY <1>1, <1>2 DEF OnePath

(* What EntriesFor and EntriesBut keep, and that together they are all. *)
LEMMA EntriesKept ==
    ASSUME NEW idx \in Seq(Entry), OnePath(idx), NEW X
    PROVE  /\ EntriesFor(idx, X) \in Seq(Entry) /\ EntriesBut(idx, X) \in Seq(Entry)
           /\ OnePath(EntriesFor(idx, X)) /\ OnePath(EntriesBut(idx, X))
           /\ Elems(EntriesFor(idx, X)) = {e \in Elems(idx) : e.key \in X}
           /\ Elems(EntriesBut(idx, X)) = {e \in Elems(idx) : e.key \notin X}
           /\ KeysIn(EntriesBut(idx, X)) = KeysIn(idx) \ X
           /\ Total(EntriesFor(idx, X)) + Total(EntriesBut(idx, X)) = Total(idx)
  <1> DEFINE I == {i \in DOMAIN idx : idx[i].key \in X}
             J == {i \in DOMAIN idx : idx[i].key \notin X}
             p == EntriesFor(idx, X)
             q == EntriesBut(idx, X)
  <1>1. p = Part(idx, I) /\ q = Part(idx, J)
    BY DEF EntriesFor, EntriesBut
  <1>2. Distinct(idx) /\ OneEach(Elems(idx))
    BY OnePathIff
  <1> HIDE DEF p, q
  <1>3. p \in Seq(Entry) /\ Elems(p) = {e \in Elems(idx) : e.key \in X} /\ Distinct(p)
    <2>1. /\ p \in Seq(Entry) /\ Distinct(p)
          /\ \A x : x \in Elems(p) <=> \E i \in DOMAIN idx : i \in I /\ x = idx[i]
      <3> HIDE DEF I
      <3> QED BY <1>1, <1>2, PartElems
    <2>2. \A x : (\E i \in DOMAIN idx : i \in I /\ x = idx[i]) <=> (x \in Elems(idx) /\ x.key \in X)
      BY DEF Elems
    <2> HIDE DEF I
    <2> QED BY <2>1, <2>2
  <1>4. q \in Seq(Entry) /\ Elems(q) = {e \in Elems(idx) : e.key \notin X} /\ Distinct(q)
    <2>1. /\ q \in Seq(Entry) /\ Distinct(q)
          /\ \A x : x \in Elems(q) <=> \E i \in DOMAIN idx : i \in J /\ x = idx[i]
      <3> HIDE DEF J
      <3> QED BY <1>1, <1>2, PartElems
    <2>2. \A x : (\E i \in DOMAIN idx : i \in J /\ x = idx[i]) <=> (x \in Elems(idx) /\ x.key \notin X)
      BY DEF Elems
    <2> HIDE DEF J
    <2> QED BY <2>1, <2>2
  <1>5. OnePath(p) /\ OnePath(q)
    <2>1. OneEach(Elems(p)) /\ OneEach(Elems(q))
      BY <1>2, <1>3, <1>4 DEF OneEach
    <2> QED BY <1>3, <1>4, <2>1, OnePathIff
  <1>6. KeysIn(q) = KeysIn(idx) \ X
    <2>1. \A k : k \in KeysIn(q) <=> k \in KeysIn(idx) /\ k \notin X
      BY <1>4, KeysOfEntries
    <2> QED BY <2>1
  <1>7. Total(p) + Total(q) = Total(idx)
    <2>1. \A i \in DOMAIN idx : i \in J <=> i \notin I
      OBVIOUS
    <2>2. Weigh(Part(idx, I), Size) + Weigh(Part(idx, J), Size) = Weigh(idx, Size)
      <3> HIDE DEF I, J
      <3> QED BY <2>1, EntryFacts, WeighSplit
    <2> HIDE DEF I, J
    <2> QED BY <1>1, <1>3, <1>4, <2>2, TotalWeighs
  <1> QED
    BY <1>3, <1>4, <1>5, <1>6, <1>7 DEF p, q

(* Indexes with the same entries are as long and as large. *)
LEMMA SameEntries ==
    ASSUME NEW a \in Seq(Entry), NEW b \in Seq(Entry), OnePath(a), OnePath(b),
           Elems(a) = Elems(b)
    PROVE  Len(a) = Len(b) /\ Total(a) = Total(b)
  <1>1. Distinct(a) /\ Distinct(b)
    BY OnePathIff
  <1>2. Len(a) = Len(b) /\ Weigh(a, Size) = Weigh(b, Size)
    BY <1>1, EntryFacts, Rearranged
  <1> QED
    BY <1>2, TotalWeighs

(* move_to_end moves entries; it neither adds, drops nor changes one. *)
LEMMA TouchKeeps ==
    ASSUME NEW idx \in Seq(Entry), OnePath(idx), NEW keys \in Seq(Key), Distinct(keys)
    PROVE  /\ Touch(idx, keys) \in Seq(Entry) /\ OnePath(Touch(idx, keys))
           /\ Elems(Touch(idx, keys)) = Elems(idx)
           /\ Len(Touch(idx, keys)) = Len(idx) /\ Total(Touch(idx, keys)) = Total(idx)
  <1> DEFINE K == {i \in DOMAIN keys : keys[i] \in KeysIn(idx)}
             touched == Part(keys, K)
             At(k) == CHOOSE i \in DOMAIN idx : idx[i].key = k
             rest == EntriesBut(idx, Elems(touched))
             moved == [i \in DOMAIN touched |-> idx[At(touched[i])]]
  <1>1. /\ touched \in Seq(Key) /\ Distinct(touched)
        /\ \A k \in Elems(touched) : k \in KeysIn(idx)
    <2>1. /\ touched \in Seq(Key) /\ Distinct(touched)
          /\ \A x : x \in Elems(touched) <=> \E i \in DOMAIN keys : i \in K /\ x = keys[i]
      <3> HIDE DEF K
      <3> QED BY PartElems
    <2>2. \A k : (\E i \in DOMAIN keys : i \in K /\ k = keys[i]) => k \in KeysIn(idx)
      OBVIOUS
    <2> HIDE DEF touched
    <2> QED BY <2>1, <2>2
  <1>2. Touch(idx, keys) = rest \o moved
    BY DEF Touch
  <1>3. /\ rest \in Seq(Entry) /\ OnePath(rest)
        /\ Elems(rest) = {e \in Elems(idx) : e.key \notin Elems(touched)}
    <2> HIDE DEF touched
    <2> QED BY EntriesKept
  <1> HIDE DEF touched, rest
  <1>4. \A k \in Elems(touched) : At(k) \in DOMAIN idx /\ idx[At(k)].key = k
    BY <1>1 DEF KeysIn
  <1>5. \A i \in DOMAIN touched : touched[i] \in Elems(touched)
    BY DEF Elems
  <1>6. \A i \in DOMAIN moved : moved[i] \in Elems(idx) /\ moved[i].key = touched[i]
    BY <1>4, <1>5 DEF Elems
  <1>7. moved \in Seq(Entry)
    <2>1. DOMAIN touched = 1..Len(touched) /\ Len(touched) \in Nat
      BY <1>1
    <2>2. Elems(idx) \subseteq Entry
      BY KeysOfEntries
    <2>3. \A i \in 1..Len(touched) : moved[i] \in Entry
      BY <1>6, <2>1, <2>2
    <2>4. moved = [i \in 1..Len(touched) |-> moved[i]]
      BY <2>1
    <2> HIDE DEF moved, Entry
    <2>5. moved \in [1..Len(touched) -> Entry]
      BY <2>3, <2>4
    <2> QED BY <2>1, <2>5
  <1>8. Elems(moved) = {e \in Elems(idx) : e.key \in Elems(touched)}
    <2>1. ASSUME NEW x \in Elems(moved) PROVE x \in Elems(idx) /\ x.key \in Elems(touched)
      <3>1. PICK i \in DOMAIN moved : x = moved[i]
        BY DEF Elems
      <3> QED BY <1>5, <1>6, <3>1
    <2>2. ASSUME NEW x \in Elems(idx), x.key \in Elems(touched) PROVE x \in Elems(moved)
      <3>1. PICK i \in DOMAIN touched : touched[i] = x.key
        BY <2>2 DEF Elems
      <3>2. moved[i] \in Elems(idx) /\ moved[i].key = x.key
        BY <1>6, <3>1
      <3>3. moved[i] = x
        BY <3>2, OnePathIff DEF OneEach
      <3> QED BY <3>1, <3>3 DEF Elems
    <2> HIDE DEF moved
    <2> QED BY <2>1, <2>2
  <1>9. Distinct(moved)
    <2>1. ASSUME NEW i \in DOMAIN touched, NEW j \in DOMAIN touched, moved[i] = moved[j]
          PROVE  i = j
      <3>1. touched[i] = touched[j]
        BY <1>6, <2>1
      <3> QED BY <1>1, <3>1 DEF Distinct
    <2>2. DOMAIN moved = DOMAIN touched
      OBVIOUS
    <2> HIDE DEF moved
    <2> QED BY <2>1, <2>2 DEF Distinct
  <1> HIDE DEF moved
  <1>10. /\ rest \o moved \in Seq(Entry) /\ Distinct(rest \o moved)
         /\ Elems(rest \o moved) = Elems(idx)
    <2>1. Elems(rest) \cap Elems(moved) = {} /\ Elems(rest) \cup Elems(moved) = Elems(idx)
      BY <1>3, <1>8
    <2>2. Distinct(rest)
      BY <1>3, OnePathIff
    <2>3. rest \in Seq(Entry) /\ moved \in Seq(Entry) /\ Distinct(moved)
      BY <1>3, <1>7, <1>9
    <2> HIDE DEF Entry
    <2>4. /\ rest \o moved \in Seq(Entry)
          /\ Elems(rest \o moved) = Elems(rest) \cup Elems(moved)
          /\ Distinct(rest) /\ Distinct(moved) /\ Elems(rest) \cap Elems(moved) = {} =>
               Distinct(rest \o moved)
      BY ONLY <2>3, ConcatElems
    <2> QED BY <2>1, <2>2, <2>3, <2>4
  <1> DEFINE t == Touch(idx, keys)
  <1>11. t \in Seq(Entry) /\ OnePath(t) /\ Elems(t) = Elems(idx)
    <2>1. OneEach(Elems(idx))
      BY OnePathIff
    <2>2. t \in Seq(Entry) /\ Distinct(t) /\ Elems(t) = Elems(idx)
      BY <1>2, <1>10
    <2> HIDE DEF t
    <2> QED BY <2>1, <2>2, OnePathIff
  <1> HIDE DEF t
  <1>12. Len(t) = Len(idx) /\ Total(t) = Total(idx)
    BY <1>11, SameEntries
  <1> QED
    BY <1>11, <1>12 DEF t

(* Full blocks weigh BlockSize each. *)
LEMMA FullBlocks ==
    ASSUME NEW idx \in Seq(Entry), \A e \in Elems(idx) : e.size = BlockSize
    PROVE  Weigh(idx, Size) = Len(idx) * BlockSize
  <1> DEFINE Full(q) == \A e \in Elems(q) : e.size = BlockSize
             T == {q \in Seq(Entry) : Full(q) => Weigh(q, Size) = Len(q) * BlockSize}
  <1>1. <<>> \in T
    <2>1. <<>> \in Seq(Entry) /\ Len(<<>>) * BlockSize = 0
      BY DEF BlockSize
    <2>2. Weigh(<<>>, Size) = Len(<<>>) * BlockSize
      BY <2>1, WeighEmpty
    <2> QED BY <2>1, <2>2
  <1>2. ASSUME NEW q \in Seq(Entry), NEW e \in Entry, q \in T PROVE Append(q, e) \in T
    <2>1. Append(q, e) \in Seq(Entry) /\ Elems(Append(q, e)) = Elems(q) \cup {e}
      BY AppendElems
    <2>2. Weigh(Append(q, e), Size) = Weigh(q, Size) + Size[e]
      BY EntryFacts, WeighAppend
    <2>3. Len(Append(q, e)) = Len(q) + 1 /\ Len(q) \in Nat
      <3> HIDE DEF Entry
      <3> QED OBVIOUS
    <2>4. ASSUME Full(Append(q, e))
          PROVE  Weigh(Append(q, e), Size) = Len(Append(q, e)) * BlockSize
      <3>1. Full(q) /\ Size[e] = 2
        BY <2>1, <2>4, EntryFacts DEF BlockSize
      <3>2. Weigh(q, Size) = Len(q) * BlockSize
        BY <1>2, <3>1
      <3> QED BY <2>2, <2>3, <3>1, <3>2 DEF BlockSize
    <2> HIDE DEF Full
    <2> QED BY <2>1, <2>4
  <1> HIDE DEF T
  <1>3. \A q \in Seq(Entry) : q \in T
    BY <1>1, <1>2, SeqSetInduction
  <1> QED
    BY <1>3 DEF T

(* _account_store adds a full-sized entry for each key that had none.      *)
LEMMA AccountAdds ==
    ASSUME NEW idx \in Seq(Entry), OnePath(idx), NEW keys \in Seq(Key), Distinct(keys)
    PROVE  LET new == AccountStore(idx, keys) IN
           /\ new \in Seq(Entry) /\ OnePath(new)
           /\ Elems(idx) \subseteq Elems(new)
           /\ \A e \in Elems(new) : e \notin Elems(idx) => e.size = BlockSize
           /\ KeysIn(new) = KeysIn(idx) \cup Elems(keys)
           /\ Total(new) = Total(idx) + (Len(new) - Len(idx)) * BlockSize
  <1> DEFINE fresh == Without(keys, KeysIn(idx))
             added == [i \in DOMAIN fresh |-> [key |-> fresh[i], size |-> BlockSize]]
             long == idx \o added
             new == AccountStore(idx, keys)
  <1>1. /\ fresh \in Seq(Key) /\ Distinct(fresh)
        /\ Elems(fresh) = Elems(keys) \ KeysIn(idx)
    BY WithoutElems
  <1>2. new = Touch(long, keys)
    BY DEF AccountStore
  <1> HIDE DEF fresh
  <1>3. /\ DOMAIN fresh = 1..Len(fresh) /\ Len(fresh) \in Nat
        /\ \A i \in DOMAIN fresh : fresh[i] \in Key /\ fresh[i] \in Elems(fresh)
    BY <1>1 DEF Elems
  <1>4. /\ added \in Seq(Entry) /\ Len(added) = Len(fresh) /\ Distinct(added)
        /\ DOMAIN added = DOMAIN fresh
    <2>1. \A i \in DOMAIN fresh : added[i] \in Entry /\ added[i].key = fresh[i]
      BY <1>3, EntryFacts
    <2>2. added = [i \in 1..Len(fresh) |-> added[i]]
      BY <1>3
    <2>3. Distinct(added)
      BY <1>1, <2>1 DEF Distinct
    <2> HIDE DEF added, Entry
    <2>4. added \in [1..Len(fresh) -> Entry]
      BY <1>3, <2>1, <2>2
    <2> QED BY <1>3, <2>3, <2>4
  <1>5. /\ \A e \in Elems(added) : e.size = BlockSize /\ e.key \in Elems(fresh)
        /\ \A k \in Elems(fresh) : [key |-> k, size |-> BlockSize] \in Elems(added)
    <2>1. \A i \in DOMAIN fresh : added[i] = [key |-> fresh[i], size |-> BlockSize]
      OBVIOUS
    <2> HIDE DEF added
    <2>2. ASSUME NEW e \in Elems(added)
          PROVE  e.size = BlockSize /\ e.key \in Elems(fresh)
      <3>1. PICK i \in DOMAIN fresh : e = added[i]
        BY <1>4 DEF Elems
      <3>2. e = [key |-> fresh[i], size |-> BlockSize]
        BY <2>1, <3>1
      <3>3. fresh[i] \in Elems(fresh)
        BY <1>3
      <3> QED BY <3>2, <3>3
    <2>3. ASSUME NEW k \in Elems(fresh)
          PROVE  [key |-> k, size |-> BlockSize] \in Elems(added)
      <3>1. PICK i \in DOMAIN fresh : k = fresh[i]
        BY DEF Elems
      <3> QED BY <1>4, <2>1, <3>1 DEF Elems
    <2> QED BY <2>2, <2>3
  <1>6. \A e, f \in Elems(added) : e.key = f.key => e = f
    <2>1. \A e \in Elems(added) : e \in Entry
      BY <1>4, KeysOfEntries
    <2> HIDE DEF added
    <2> QED BY <1>5, <2>1 DEF Entry
  <1> HIDE DEF added
  <1>7. \A e \in Elems(added) : e.key \notin KeysIn(idx)
    BY <1>1, <1>5
  <1>8. Distinct(idx) /\ OneEach(Elems(idx)) /\ \A e \in Elems(idx) : e.key \in KeysIn(idx)
    BY OnePathIff, KeysOfEntries
  <1>9. /\ long \in Seq(Entry) /\ Distinct(long) /\ Len(long) = Len(idx) + Len(added)
        /\ Elems(long) = Elems(idx) \cup Elems(added)
    <2>1. Elems(idx) \cap Elems(added) = {}
      BY <1>7, <1>8
    <2> HIDE DEF Entry
    <2>2. Len(idx \o added) = Len(idx) + Len(added)
      BY <1>4
    <2>3. /\ idx \o added \in Seq(Entry)
          /\ Elems(idx \o added) = Elems(idx) \cup Elems(added)
          /\ Distinct(idx) /\ Distinct(added) /\ Elems(idx) \cap Elems(added) = {} =>
               Distinct(idx \o added)
      BY <1>4, ConcatElems
    <2> QED BY <1>4, <1>8, <2>1, <2>2, <2>3
  <1>10. Total(long) = Total(idx) + Len(added) * BlockSize
    <2>1. Weigh(idx \o added, Size) = Weigh(idx, Size) + Weigh(added, Size)
      BY <1>4, EntryFacts, WeighConcat
    <2>2. Weigh(added, Size) = Len(added) * BlockSize
      BY <1>4, <1>5, FullBlocks
    <2> QED BY <1>4, <1>9, <2>1, <2>2, TotalWeighs
  <1>11. OnePath(long)
    <2>1. OneEach(Elems(long))
      BY <1>6, <1>7, <1>8, <1>9 DEF OneEach
    <2> HIDE DEF long
    <2> QED BY <1>9, <2>1, OnePathIff
  <1> HIDE DEF long, new
  <1>12. /\ new \in Seq(Entry) /\ OnePath(new) /\ Elems(new) = Elems(long)
         /\ Len(new) = Len(long) /\ Total(new) = Total(long)
    BY <1>2, <1>9, <1>11, TouchKeeps
  <1>13. KeysIn(new) = KeysIn(idx) \cup Elems(keys)
    <2>1. \A k : k \in KeysIn(new) <=> \E e \in Elems(idx) \cup Elems(added) : e.key = k
      BY <1>9, <1>12, KeysOfEntries
    <2>2. \A k : k \in KeysIn(idx) <=> \E e \in Elems(idx) : e.key = k
      BY KeysOfEntries
    <2>3. \A k : k \in Elems(fresh) <=> \E e \in Elems(added) : e.key = k
      <3>1. \A k : [key |-> k, size |-> BlockSize].key = k
        OBVIOUS
      <3> QED BY <1>5, <3>1
    <2>4. \A k : k \in KeysIn(new) <=> k \in KeysIn(idx) \/ k \in Elems(fresh)
      BY <2>1, <2>2, <2>3
    <2>5. KeysIn(idx) \cup Elems(fresh) = KeysIn(idx) \cup Elems(keys)
      BY <1>1
    <2> QED BY <2>4, <2>5
  <1>14. Total(new) = Total(idx) + (Len(new) - Len(idx)) * BlockSize
    <2>1. Len(idx) \in Nat /\ Len(added) \in Nat
      BY <1>4
    <2>2. Len(new) - Len(idx) = Len(added)
      BY <1>9, <1>12, <2>1
    <2> QED BY <1>10, <1>12, <2>2
  <1>15. \A e \in Elems(new) : e \notin Elems(idx) => e.size = BlockSize
    BY <1>5, <1>9, <1>12
  <1> QED
    BY <1>9, <1>12, <1>13, <1>14, <1>15 DEF new

-----------------------------------------------------------------------------
(* Evictions. *)

(* One step of the pass of _evict_to, after the first ones gave up freed.  *)
PassStep(f, idx, total, target, keep, i) ==
    f[i - 1] + (IF total - f[i - 1] > target /\ idx[i].key \notin keep THEN idx[i].size ELSE 0)

IsPass(f, idx, total, target, keep) ==
    f = [i \in 0..Len(idx) |-> IF i = 0 THEN 0 ELSE PassStep(f, idx, total, target, keep, i)]

LEMMA PassExists ==
    ASSUME NEW idx \in Seq(Entry), NEW total, NEW target, NEW keep
    PROVE  IsPass(Freed(idx, total, target, keep), idx, total, target, keep)
  <1> DEFINE Step(f, i) == IF i = 0 THEN 0 ELSE PassStep(f, idx, total, target, keep, i)
             T == {k \in Nat : \E f : f = [i \in 0..k |-> Step(f, i)]}
  <1>1. 0 \in T
    <2> DEFINE g == [i \in 0..0 |-> 0]
    <2>1. g = [i \in 0..0 |-> Step(g, i)]
      OBVIOUS
    <2> QED BY <2>1
  <1>2. ASSUME NEW k \in Nat, k \in T PROVE k + 1 \in T
    <2>1. PICK g : g = [i \in 0..k |-> Step(g, i)]
      BY <1>2
    <2> DEFINE h == [i \in 0..(k + 1) |-> IF i = k + 1 THEN Step(g, k + 1) ELSE g[i]]
    <2>2. \A i \in 0..(k + 1) : h[i] = Step(h, i)
      <3> TAKE i \in 0..(k + 1)
      <3>1. CASE i = k + 1
        <4>1. h[i] = Step(g, k + 1) /\ h[i - 1] = g[i - 1] /\ i # 0
          BY <3>1
        <4> QED BY <3>1, <4>1 DEF PassStep
      <3>2. CASE i # k + 1
        <4>1. i \in 0..k /\ (i # 0 => i - 1 \in 0..k)
          BY <3>2
        <4>2. h[i] = g[i] /\ (i # 0 => h[i - 1] = g[i - 1])
          BY <4>1
        <4>3. g[i] = Step(g, i)
          BY <4>1, <2>1, Zenon
        <4> QED BY <4>2, <4>3 DEF PassStep
      <3> QED BY <3>1, <3>2
    <2>3. h = [i \in 0..(k + 1) |-> Step(h, i)]
      BY <2>2
    <2>4. \E f : f = [i \in 0..(k + 1) |-> Step(f, i)]
      <3> HIDE DEF h
      <3> QED BY <2>3, Zenon
    <2>5. k + 1 \in Nat
      OBVIOUS
    <2> QED BY <2>4, <2>5, Zenon
  <1> HIDE DEF T
  <1>3. Len(idx) \in T
    <2>1. Len(idx) \in Nat
      <3> HIDE DEF Entry
      <3> QED OBVIOUS
    <2> QED BY <1>1, <1>2, <2>1, NatSetInduction
  <1>4. \E f : IsPass(f, idx, total, target, keep)
    BY <1>3 DEF T, IsPass
  <1> DEFINE F == CHOOSE f : f = [i \in 0..Len(idx) |->
                    IF i = 0 THEN 0
                    ELSE f[i - 1] + (IF total - f[i - 1] > target /\ idx[i].key \notin keep
                                     THEN idx[i].size ELSE 0)]
  <1>5. IsPass(F, idx, total, target, keep)
    BY <1>4 DEF IsPass, PassStep
  <1>6. Freed(idx, total, target, keep) = F
    BY DEF Freed
  <1> QED
    BY <1>5, <1>6

(* The pass gives up entries one by one: what it freed grows by the size   *)
(* of each victim; it passes over the files of keep and, once the target   *)
(* is met, over all.                                                       *)
LEMMA PassFacts ==
    ASSUME NEW idx \in Seq(Entry), NEW total \in Int, NEW target \in Int, NEW keep
    PROVE  LET f == Freed(idx, total, target, keep) IN
           /\ f[0] = 0 /\ \A i \in 0..Len(idx) : f[i] \in Nat
           /\ \A i \in 1..Len(idx) :
                IF total - f[i - 1] > target /\ idx[i].key \notin keep
                THEN f[i] = f[i - 1] + idx[i].size /\ f[i] # f[i - 1]
                ELSE f[i] = f[i - 1]
           /\ \A i, j \in 0..Len(idx) : i <= j => f[i] <= f[j]
  <1> DEFINE f == Freed(idx, total, target, keep)
             T == {k \in Nat : k \in 0..Len(idx) => f[k] \in Nat /\ \A i \in 0..k : f[i] \in Nat /\ f[i] <= f[k]}
  <1>0. Len(idx) \in Nat /\ DOMAIN idx = 1..Len(idx)
    <2> HIDE DEF Entry
    <2> QED OBVIOUS
  <1>1. f = [i \in 0..Len(idx) |-> IF i = 0 THEN 0 ELSE PassStep(f, idx, total, target, keep, i)]
    BY PassExists DEF IsPass
  <1> HIDE DEF f
  <1>2. \A i \in 0..Len(idx) : f[i] = IF i = 0 THEN 0 ELSE PassStep(f, idx, total, target, keep, i)
    BY <1>1, Zenon
  <1>3. f[0] = 0
    BY <1>0, <1>2
  <1>4. \A i \in 1..Len(idx) : idx[i].size \in {1, 2}
    <2>1. \A i \in 1..Len(idx) : idx[i] \in Entry
      <3> HIDE DEF Entry
      <3> QED BY <1>0
    <2> QED BY <2>1, EntryFacts
  <1>5. \A i \in 1..Len(idx) : i \in 0..Len(idx) /\ i - 1 \in 0..Len(idx) /\ i # 0
    BY <1>0
  <1>6. \A i \in 1..Len(idx) : f[i] = PassStep(f, idx, total, target, keep, i)
    BY <1>2, <1>5
  <1>7. 0 \in T
    BY <1>3
  <1>8. ASSUME NEW k \in Nat, k \in T PROVE k + 1 \in T
    <2>1. SUFFICES ASSUME k + 1 \in 0..Len(idx)
                   PROVE  f[k + 1] \in Nat /\ \A i \in 0..(k + 1) : f[i] \in Nat /\ f[i] <= f[k + 1]
      OBVIOUS
    <2>2. k \in 0..Len(idx) /\ k + 1 \in 1..Len(idx) /\ (k + 1) - 1 = k
      BY <1>0, <2>1
    <2>3. f[k] \in Nat /\ \A i \in 0..k : f[i] \in Nat /\ f[i] <= f[k]
      BY <1>8, <2>2
    <2>4. f[k + 1] = f[k] + (IF total - f[k] > target /\ idx[k + 1].key \notin keep
                             THEN idx[k + 1].size ELSE 0)
      BY <1>6, <2>2 DEF PassStep
    <2>5. f[k + 1] \in Nat /\ f[k] <= f[k + 1]
      BY <1>4, <2>2, <2>3, <2>4
    <2>6. ASSUME NEW i \in 0..(k + 1) PROVE f[i] \in Nat /\ f[i] <= f[k + 1]
      <3>1. CASE i = k + 1
        BY <2>5, <3>1
      <3>2. CASE i # k + 1
        <4>1. i \in 0..k
          BY <3>2
        <4> QED BY <2>3, <2>5, <4>1
      <3> QED BY <3>1, <3>2
    <2> QED BY <2>5, <2>6
  <1> HIDE DEF T
  <1>9. \A k \in Nat : k \in T
    BY <1>7, <1>8, NatSetInduction
  <1>10. \A k \in 0..Len(idx) : f[k] \in Nat /\ \A i \in 0..k : f[i] \in Nat /\ f[i] <= f[k]
    BY <1>9 DEF T
  <1>11. ASSUME NEW i \in 1..Len(idx)
         PROVE  IF total - f[i - 1] > target /\ idx[i].key \notin keep
                THEN f[i] = f[i - 1] + idx[i].size /\ f[i] # f[i - 1]
                ELSE f[i] = f[i - 1]
    <2>1. f[i] = f[i - 1] + (IF total - f[i - 1] > target /\ idx[i].key \notin keep
                             THEN idx[i].size ELSE 0)
      BY <1>6 DEF PassStep
    <2>2. f[i - 1] \in Nat /\ idx[i].size \in {1, 2}
      BY <1>4, <1>5, <1>10
    <2> QED BY <2>1, <2>2
  <1>12. \A i, j \in 0..Len(idx) : i <= j => f[i] <= f[j]
    BY <1>10
  <1> QED
    BY <1>3, <1>10, <1>11, <1>12 DEF f

(* The victims are removable, were taken from the old end, weigh what the  *)
(* pass freed, and are all there were if that was not enough.              *)
LEMMA VictimFacts ==
    ASSUME NEW idx \in Seq(Entry), OnePath(idx), NEW total \in Int, NEW target \in Int, NEW keep
    PROVE  LET gone == Victims(idx, total, target, keep) IN
           /\ gone \subseteq KeysIn(idx) /\ gone \cap keep = {}
           /\ \A i, j \in DOMAIN idx :
                i < j /\ idx[i].key \notin gone /\ idx[j].key \in gone => idx[i].key \in keep
           /\ \/ total - Total(EntriesFor(idx, gone)) <= target
              \/ KeysIn(idx) \ gone \subseteq keep
  <1> DEFINE f == Freed(idx, total, target, keep)
             gone == Victims(idx, total, target, keep)
             I == {i \in DOMAIN idx : idx[i].key \in gone}
             n == Len(idx)
  <1>1. DOMAIN idx = 1..n /\ n \in Nat
    <2> HIDE DEF Entry
    <2> QED OBVIOUS
  <1>2. /\ f[0] = 0 /\ \A i \in 0..n : f[i] \in Nat
        /\ \A i \in 1..n :
             IF total - f[i - 1] > target /\ idx[i].key \notin keep
             THEN f[i] = f[i - 1] + idx[i].size /\ f[i] # f[i - 1]
             ELSE f[i] = f[i - 1]
        /\ \A i, j \in 0..n : i <= j => f[i] <= f[j]
    BY PassFacts
  <1>3. gone = {idx[i].key : i \in {j \in DOMAIN idx : f[j] # f[j - 1]}}
    BY DEF Victims
  <1> HIDE DEF f, gone
  <1>4. \A i \in 1..n : idx[i].key \in gone <=> f[i] # f[i - 1]
    BY <1>1, <1>3 DEF OnePath
  <1>5. gone \subseteq KeysIn(idx) /\ gone \cap keep = {}
    BY <1>1, <1>2, <1>3 DEF KeysIn
  <1>6. ASSUME NEW i \in DOMAIN idx, NEW j \in DOMAIN idx, i < j,
               idx[i].key \notin gone, idx[j].key \in gone
        PROVE  idx[i].key \in keep
    <2>1. total - f[j - 1] > target
      BY <1>1, <1>2, <1>4, <1>6
    <2>2. f[i - 1] <= f[j - 1] /\ f[i - 1] \in Nat /\ f[j - 1] \in Nat
      <3>1. i - 1 \in 0..n /\ j - 1 \in 0..n /\ i - 1 <= j - 1
        BY <1>1, <1>6
      <3> QED BY <1>2, <3>1
    <2>3. total - f[i - 1] > target
      BY <2>1, <2>2
    <2> QED
      BY <1>1, <1>2, <1>4, <1>6, <2>3
  <1>7. Total(EntriesFor(idx, gone)) = f[n]
    <2> DEFINE T == {k \in Nat : k \in 0..n => Weigh(Part(SubSeq(idx, 1, k), I), Size) = f[k]}
    <2>1. 0 \in T
      <3>1. SubSeq(idx, 1, 0) = <<>>
        BY <1>1
      <3>2. Weigh(Part(<<>>, I), Size) = 0
        BY PartEmpty, WeighEmpty
      <3> QED BY <1>2, <3>1, <3>2
    <2>2. ASSUME NEW k \in Nat, k \in T PROVE k + 1 \in T
      <3>1. SUFFICES ASSUME k + 1 \in 0..n
                     PROVE  Weigh(Part(SubSeq(idx, 1, k + 1), I), Size) = f[k + 1]
        OBVIOUS
      <3> DEFINE a == SubSeq(idx, 1, k)
                 e == idx[k + 1]
      <3>2. /\ k \in 0..n /\ k + 1 \in 1..n /\ (k + 1) - 1 = k
            /\ a \in Seq(Entry) /\ Len(a) = k /\ e \in Entry
            /\ SubSeq(idx, 1, k + 1) = Append(a, e)
        <4> HIDE DEF Entry
        <4> QED BY <1>1, <3>1
      <3>3. k + 1 \in I <=> f[k + 1] # f[k]
        BY <1>1, <1>4, <3>2
      <3>4. f[k + 1] # f[k] => f[k + 1] = f[k] + Size[e]
        <4>1. e.size = Size[e]
          BY <3>2, EntryFacts
        <4> HIDE DEF e
        <4> QED BY <1>2, <3>2, <4>1 DEF e
      <3>5. Weigh(Part(a, I), Size) = f[k]
        BY <2>2, <3>2
      <3> HIDE DEF a, e, I
      <3>6. Part(Append(a, e), I) = IF k + 1 \in I THEN Append(Part(a, I), e) ELSE Part(a, I)
        BY <3>2, PartAppend
      <3>7. Part(a, I) \in Seq(Entry)
        BY <3>2, PartElems
      <3>8. Weigh(Append(Part(a, I), e), Size) = Weigh(Part(a, I), Size) + Size[e]
        <4>1. Size \in [Entry -> Nat] /\ e \in Entry
          BY <3>2, EntryFacts
        <4> HIDE DEF Entry, Size
        <4> QED BY <3>7, <4>1, WeighAppend
      <3> QED BY <3>2, <3>3, <3>4, <3>5, <3>6, <3>8
    <2> HIDE DEF T
    <2>3. n \in T
      BY <1>1, <2>1, <2>2, NatSetInduction
    <2>4. Weigh(Part(SubSeq(idx, 1, n), I), Size) = f[n]
      BY <1>1, <2>3 DEF T
    <2>5. SubSeq(idx, 1, n) = idx
      <3> HIDE DEF Entry
      <3> QED BY <1>1
    <2>6. EntriesFor(idx, gone) = Part(idx, I) /\ EntriesFor(idx, gone) \in Seq(Entry)
      BY EntriesKept DEF EntriesFor
    <2> QED BY <2>4, <2>5, <2>6, TotalWeighs
  <1>8. ASSUME total - f[n] > target PROVE KeysIn(idx) \ gone \subseteq keep
    <2>1. ASSUME NEW i \in DOMAIN idx, idx[i].key \notin gone PROVE idx[i].key \in keep
      <3>1. f[i - 1] <= f[n] /\ f[i - 1] \in Nat /\ f[n] \in Nat
        <4>1. i - 1 \in 0..n /\ n \in 0..n /\ i - 1 <= n
          BY <1>1
        <4> QED BY <1>2, <4>1
      <3>2. total - f[i - 1] > target
        BY <1>8, <3>1
      <3> QED BY <1>1, <1>2, <1>4, <2>1, <3>2
    <2> QED BY <2>1 DEF KeysIn
  <1>9. f[n] \in Nat
    BY <1>1, <1>2
  <1> QED
    BY <1>5, <1>6, <1>7, <1>8, <1>9 DEF gone

-----------------------------------------------------------------------------
(* The parts of the invariant as relations between values.                 *)

KeysOfKind(J, kind) == UNION {KeysOf(job) : job \in {j \in J : j.kind = kind}}

Account(files, writing, reading, idx, cut, total, held) ==
    /\ files \subseteq KeysIn(idx) \cup writing
    /\ KeysIn(idx) \subseteq files \cup reading
    /\ \A e \in Elems(idx) :
         e.key \in files => (IF e.key \in cut THEN ShortSize ELSE BlockSize) <= e.size
    /\ total = Total(idx)
    /\ held \subseteq KeysIn(idx)

Sound(job, files, last) ==
    /\ job = [id |-> job.id, kind |-> job.kind, keys |-> job.keys, done |-> job.done,
              result |-> job.result]
    /\ job.id \in Nat /\ job.id <= last
    /\ job.kind \in {"store", "load"}
    /\ job.keys \in Seq(Key) /\ Distinct(job.keys) /\ job.keys # <<>>
    /\ job.done \in 0..Len(job.keys)
    /\ job.result \in {"running", "ok", "failed"}
    /\ job.done < Len(job.keys) <=> job.result # "ok"
    /\ \A i \in 1..job.done : job.keys[i] \in files

Apart(J) == \A j, k \in J : KeysOf(j) \cap KeysOf(k) # {} => j = k

FsParts ==
    /\ FsTypes
    /\ \A job \in jobs : Sound(job, Files, submitted)
    /\ Apart(jobs)
    /\ Account(Files, KeysOfKind(jobs, "store"), KeysOfKind(jobs, "load"), index, short,
               bytes, advertised)

LEMMA InvParts == FsInv <=> FsParts
  <1>1. Writing = KeysOfKind(jobs, "store") /\ Reading = KeysOfKind(jobs, "load")
    BY DEF Writing, Reading, KeysOfKind
  <1>2. \A job : JobSound(job) <=> Sound(job, Files, submitted)
    BY DEF JobSound, Sound
  <1>3. JobsApart <=> Apart(jobs)
    BY DEF JobsApart, Apart
  <1>4. (\A e \in Elems(index) :
           e.key \in Files => (IF e.key \in short THEN ShortSize ELSE BlockSize) <= e.size)
        <=> (\A i \in DOMAIN index :
               index[i].key \in Files => SizeOnDisk(index[i].key) <= index[i].size)
    BY DEF Elems, SizeOnDisk
  <1>5. Accounted <=> Account(Files, Writing, Reading, index, short, bytes, advertised)
    BY <1>4 DEF Accounted, Account, Indexed
  <1> QED
    BY <1>1, <1>2, <1>3, <1>5 DEF FsInv, FsParts

LEMMA InvPartsNext == FsInv' <=> FsParts'
  BY InvParts, PTL

LEMMA KeysOfKindIff ==
    ASSUME NEW J, NEW kind
    PROVE  \A k : k \in KeysOfKind(J, kind) <=> \E j \in J : j.kind = kind /\ k \in KeysOf(j)
  BY DEF KeysOfKind

(* Advancing a job leaves its keys and its kind. *)
LEMMA ReplacedJob ==
    ASSUME NEW J, NEW job \in J, NEW new, new.keys = job.keys, new.kind = job.kind, Apart(J)
    PROVE  LET K == (J \ {job}) \cup {new} IN
           /\ KeysOfKind(K, "store") = KeysOfKind(J, "store")
           /\ KeysOfKind(K, "load") = KeysOfKind(J, "load")
           /\ Apart(K)
  <1> DEFINE K == (J \ {job}) \cup {new}
  <1>1. KeysOf(new) = KeysOf(job)
    BY DEF KeysOf
  <1>2. ASSUME NEW kind PROVE KeysOfKind(K, kind) = KeysOfKind(J, kind)
    <2>1. \A k : (\E j \in K : j.kind = kind /\ k \in KeysOf(j))
                   <=> (\E j \in J : j.kind = kind /\ k \in KeysOf(j))
      BY <1>1
    <2>2. \A k : k \in KeysOfKind(K, kind) <=> k \in KeysOfKind(J, kind)
      <3> HIDE DEF K
      <3> QED BY <2>1, KeysOfKindIff
    <2> QED BY <2>2
  <1>3. Apart(K)
    BY <1>1 DEF Apart
  <1> QED
    BY <1>2, <1>3

(* A job that is gone took its keys, and only its keys, with it. *)
LEMMA RemovedJob ==
    ASSUME NEW J, NEW job \in J, Apart(J), NEW kind, kind # job.kind
    PROVE  /\ KeysOfKind(J \ {job}, job.kind) = KeysOfKind(J, job.kind) \ KeysOf(job)
           /\ KeysOfKind(J \ {job}, kind) = KeysOfKind(J, kind)
           /\ KeysOf(job) \subseteq KeysOfKind(J, job.kind)
           /\ KeysOf(job) \cap KeysOfKind(J, kind) = {}
           /\ Apart(J \ {job})
  <1>1. \A k : k \in KeysOfKind(J \ {job}, job.kind)
                 <=> k \in KeysOfKind(J, job.kind) /\ k \notin KeysOf(job)
    <2> TAKE k
    <2>1. (\E j \in J \ {job} : j.kind = job.kind /\ k \in KeysOf(j))
            <=> (\E j \in J : j.kind = job.kind /\ k \in KeysOf(j)) /\ k \notin KeysOf(job)
      BY DEF Apart
    <2> QED BY <2>1, KeysOfKindIff
  <1>2. /\ KeysOfKind(J \ {job}, kind) = KeysOfKind(J, kind)
        /\ KeysOf(job) \cap KeysOfKind(J, kind) = {}
    <2>1. \A k : (\E j \in J \ {job} : j.kind = kind /\ k \in KeysOf(j))
                   <=> (\E j \in J : j.kind = kind /\ k \in KeysOf(j))
      OBVIOUS
    <2>2. \A k : k \in KeysOfKind(J \ {job}, kind) <=> k \in KeysOfKind(J, kind)
      BY <2>1, KeysOfKindIff
    <2>3. \A k \in KeysOf(job) : ~\E j \in J : j.kind = kind /\ k \in KeysOf(j)
      BY DEF Apart
    <2>4. \A k \in KeysOf(job) : k \notin KeysOfKind(J, kind)
      BY <2>3, KeysOfKindIff
    <2> QED BY <2>2, <2>4
  <1>3. KeysOf(job) \subseteq KeysOfKind(J, job.kind)
    BY KeysOfKindIff
  <1>4. Apart(J \ {job})
    BY DEF Apart
  <1> QED
    BY <1>1, <1>2, <1>3, <1>4

(* A job may be added whose keys are in no other one. *)
LEMMA AddedJob ==
    ASSUME NEW J, NEW new, Apart(J),
           KeysOf(new) \cap (KeysOfKind(J, "store") \cup KeysOfKind(J, "load")) = {},
           \A j \in J : j.kind \in {"store", "load"}
    PROVE  LET K == J \cup {new} IN
           /\ \A kind : KeysOfKind(J, kind) \subseteq KeysOfKind(K, kind)
           /\ KeysOfKind(K, new.kind) = KeysOfKind(J, new.kind) \cup KeysOf(new)
           /\ Apart(K)
  <1> DEFINE K == J \cup {new}
  <1>1. \A k, kind : k \in KeysOfKind(K, kind)
          <=> k \in KeysOfKind(J, kind) \/ (new.kind = kind /\ k \in KeysOf(new))
    <2> TAKE k, kind
    <2>1. (\E j \in K : j.kind = kind /\ k \in KeysOf(j))
            <=> (\E j \in J : j.kind = kind /\ k \in KeysOf(j)) \/ (new.kind = kind /\ k \in KeysOf(new))
      OBVIOUS
    <2> HIDE DEF K
    <2> QED BY <2>1, KeysOfKindIff
  <1>2. \A j \in J : KeysOf(j) \cap KeysOf(new) = {}
    <2> TAKE j \in J
    <2>1. \A k \in KeysOf(j) : k \in KeysOfKind(J, j.kind)
      BY KeysOfKindIff
    <2> QED BY <2>1
  <1>3. Apart(K)
    BY <1>2 DEF Apart
  <1> HIDE DEF K
  <1>4. \A kind : KeysOfKind(J, kind) \subseteq KeysOfKind(K, kind)
    BY <1>1
  <1>5. KeysOfKind(K, new.kind) = KeysOfKind(J, new.kind) \cup KeysOf(new)
    BY <1>1
  <1> QED
    BY <1>3, <1>4, <1>5 DEF K

-----------------------------------------------------------------------------
(* The steps. *)

(* An eviction drops the files and the entries of some indexed keys that   *)
(* are neither pinned nor undeletable, and nothing else.                   *)
LEMMA Evicts ==
    ASSUME NEW idx \in Seq(Entry), OnePath(idx), NEW total \in Int, NEW target \in Int,
           NEW pinned, NEW held, EvictTo(target, idx, total, pinned, held)
    PROVE  \E gone :
             /\ gone \subseteq KeysIn(idx) /\ gone \cap (pinned \cup locked) = {}
             /\ index' = EntriesBut(idx, gone)
             /\ bytes' = total - Total(EntriesFor(idx, gone))
             /\ fsDisk' = Without(fsDisk, gone)
             /\ short' = short \ gone
             /\ advertised' = held \ gone
  <1> DEFINE keep == pinned \cup locked
             gone == IF Cap = 0 THEN {} ELSE Victims(idx, total, target, keep)
  <1>1. gone \subseteq KeysIn(idx) /\ gone \cap keep = {}
    BY VictimFacts
  <1>2. /\ index' = EntriesBut(idx, gone)
        /\ bytes' = total - Total(EntriesFor(idx, gone))
        /\ fsDisk' = Without(fsDisk, gone)
        /\ short' = short \ gone
        /\ advertised' = held \ gone
    BY DEF EvictTo, Survivors, OnRemoved
  <1> HIDE DEF gone
  <1> QED
    BY <1>1, <1>2

(* Dropping entries and files together keeps the account. *)
LEMMA AccountShrinks ==
    ASSUME NEW files, NEW writing, NEW reading, NEW idx \in Seq(Entry), OnePath(idx),
           NEW cut, NEW total, NEW held, NEW gone,
           Account(files, writing, reading, idx, cut, total, held)
    PROVE  Account(files \ gone, writing, reading, EntriesBut(idx, gone), cut \ gone,
                   total - Total(EntriesFor(idx, gone)), held \ gone)
  <1>1. /\ KeysIn(EntriesBut(idx, gone)) = KeysIn(idx) \ gone
        /\ Elems(EntriesBut(idx, gone)) = {e \in Elems(idx) : e.key \notin gone}
        /\ EntriesFor(idx, gone) \in Seq(Entry) /\ EntriesBut(idx, gone) \in Seq(Entry)
        /\ Total(EntriesFor(idx, gone)) + Total(EntriesBut(idx, gone)) = Total(idx)
    BY EntriesKept
  <1>2. total - Total(EntriesFor(idx, gone)) = Total(EntriesBut(idx, gone))
    <2>1. Total(EntriesFor(idx, gone)) \in Nat /\ Total(EntriesBut(idx, gone)) \in Nat
      BY <1>1, TotalWeighs
    <2> QED BY <1>1, <2>1 DEF Account
  <1> QED
    BY <1>1, <1>2 DEF Account

LEMMA InitHolds == FsInit => FsInv
  <1> SUFFICES ASSUME FsInit PROVE FsParts
    BY InvParts
  <1>1. fsDisk = <<>> /\ index = <<>> /\ jobs = {} /\ short = {} /\ bytes = 0
        /\ advertised = {} /\ submitted = 0
    BY DEF FsInit
  <1>2. FsTypes
    BY <1>1 DEF FsTypes, Distinct, OnePath
  <1>3. Total(index) = 0
    <2>1. index \in Seq(Entry) /\ Weigh(<<>>, Size) = 0
      BY <1>1, WeighEmpty
    <2> QED BY <1>1, <2>1, TotalWeighs
  <1>4. Files = {} /\ Elems(index) = {} /\ KeysIn(index) = {}
    BY <1>1 DEF Files, Elems, KeysIn
  <1> QED
    BY <1>1, <1>2, <1>3, <1>4 DEF FsParts, Apart, Account, KeysOfKind

(* Keys a job may name. *)
LEMMA KeyListFacts ==
    ASSUME NEW keys \in KeyLists
    PROVE  keys \in Seq(Key) /\ Distinct(keys) /\ keys # <<>> /\ Len(keys) \in Nat
           /\ Len(keys) > 0
  <1>1. CASE \E k \in Key : keys = <<k>>
    BY <1>1 DEF Distinct
  <1>2. CASE \E p \in {q \in Key \X Key : q[1] # q[2]} : keys = <<p[1], p[2]>>
    <2>1. PICK p \in Key \X Key : p[1] # p[2] /\ keys = <<p[1], p[2]>>
      BY <1>2
    <2>2. p[1] \in Key /\ p[2] \in Key /\ DOMAIN keys = {1, 2} /\ keys[1] = p[1] /\ keys[2] = p[2]
      BY <2>1
    <2> QED BY <2>1, <2>2 DEF Distinct
  <1> QED
    BY <1>1, <1>2 DEF KeyLists

(* A new job has done nothing yet. *)
LEMMA NewJobSound ==
    ASSUME FsTypes, NEW keys \in KeyLists, NEW kind \in {"store", "load"}, NEW files,
           submitted' = submitted + 1
    PROVE  Sound(NewJob(kind, keys), files, submitted')
  <1>1. keys \in Seq(Key) /\ Distinct(keys) /\ keys # <<>> /\ Len(keys) \in Nat /\ Len(keys) > 0
    BY KeyListFacts
  <1>2. submitted \in Nat
    BY DEF FsTypes
  <1> DEFINE job == NewJob(kind, keys)
  <1>3. job = [id |-> submitted + 1, kind |-> kind, keys |-> keys, done |-> 0,
               result |-> "running"]
    BY DEF NewJob
  <1>4. job.id = submitted + 1 /\ job.kind = kind /\ job.keys = keys /\ job.done = 0
        /\ job.result = "running"
    BY <1>3
  <1>5. job = [id |-> job.id, kind |-> job.kind, keys |-> job.keys, done |-> job.done,
               result |-> job.result]
    BY <1>3
  <1> HIDE DEF job
  <1> QED
    BY <1>1, <1>2, <1>4, <1>5 DEF Sound, job

(* Jobs stay sound while the blocks they moved stay. *)
LEMMA StaysSound ==
    ASSUME NEW job, NEW files, NEW more, NEW last \in Nat, NEW later \in Nat, last <= later,
           Sound(job, files, last), KeysOf(job) \cap files \subseteq more
    PROVE  Sound(job, more, later)
  <1>1. \A i \in 1..job.done : job.keys[i] \in KeysOf(job)
    BY DEF Sound, KeysOf, Elems
  <1>2. \A i \in 1..job.done : job.keys[i] \in more
    BY <1>1 DEF Sound
  <1>3. job.id <= later
    BY DEF Sound
  <1> QED
    BY <1>2, <1>3 DEF Sound

(* A job is submitted: its keys are free, and it is in flight after.       *)
LEMMA Submits ==
    ASSUME FsParts, NEW keys \in KeyLists, NEW kind \in {"store", "load"}, CanSubmit(keys),
           jobs' = jobs \cup {NewJob(kind, keys)}
    PROVE  /\ Apart(jobs')
           /\ KeysOfKind(jobs, "store") \subseteq KeysOfKind(jobs', "store")
           /\ KeysOfKind(jobs, "load") \subseteq KeysOfKind(jobs', "load")
  <1> DEFINE new == NewJob(kind, keys)
  <1>1. new.keys = keys /\ new.kind = kind
    BY DEF NewJob
  <1>2. KeysOf(new) \cap (KeysOfKind(jobs, "store") \cup KeysOfKind(jobs, "load")) = {}
    <2>1. KeysOf(new) \cap (Reading \cup Writing) = {}
      BY <1>1 DEF CanSubmit, KeysOf, Elems
    <2>2. Writing = KeysOfKind(jobs, "store") /\ Reading = KeysOfKind(jobs, "load")
      BY DEF Writing, Reading, KeysOfKind
    <2> QED BY <2>1, <2>2
  <1>3. \A j \in jobs : j.kind \in {"store", "load"}
    BY DEF FsParts, Sound
  <1> HIDE DEF new
  <1>4. Apart(jobs)
    BY DEF FsParts
  <1>5. LET K == jobs \cup {new} IN
          /\ \A k : KeysOfKind(jobs, k) \subseteq KeysOfKind(K, k)
          /\ Apart(K)
    BY <1>2, <1>3, <1>4, AddedJob
  <1> QED
    BY <1>5 DEF new

LEMMA SubmitStoreKeeps ==
    ASSUME FsInv, NEW keys \in KeyLists, SubmitStore(keys)
    PROVE  FsInv'
  <1> USE DEF FsParts
  <1>1. FsParts
    BY InvParts
  <1>2. /\ jobs' = jobs \cup {NewJob("store", keys)} /\ CanSubmit(keys)
        /\ EvictTo(RoomFor(keys), index, bytes, Pinned(jobs'), advertised)
        /\ submitted' = submitted + 1
    BY DEF SubmitStore
  <1>3. /\ index \in Seq(Entry) /\ OnePath(index) /\ bytes \in Int /\ RoomFor(keys) \in Int
        /\ fsDisk \in Seq(Key) /\ Distinct(fsDisk) /\ submitted \in Nat
    <2>1. index \in Seq(Entry) /\ OnePath(index) /\ fsDisk \in Seq(Key) /\ Distinct(fsDisk)
          /\ submitted \in Nat
      BY <1>1 DEF FsTypes
    <2>2. bytes = Total(index) /\ Total(index) \in Nat
      BY <1>1, <2>1, TotalWeighs DEF Account
    <2>3. RoomFor(keys) \in Int
      BY KeyListFacts, CapAssumption DEF RoomFor, BlockSize
    <2> QED BY <2>1, <2>2, <2>3
  <1>4. PICK gone :
          /\ gone \cap (Pinned(jobs') \cup locked) = {}
          /\ index' = EntriesBut(index, gone)
          /\ bytes' = bytes - Total(EntriesFor(index, gone))
          /\ fsDisk' = Without(fsDisk, gone)
          /\ short' = short \ gone
          /\ advertised' = advertised \ gone
    <2> DEFINE pinned == Pinned(jobs')
    <2>1. EvictTo(RoomFor(keys), index, bytes, pinned, advertised)
      BY <1>2
    <2> HIDE DEF pinned
    <2>2. \E gone :
             /\ gone \subseteq KeysIn(index) /\ gone \cap (pinned \cup locked) = {}
             /\ index' = EntriesBut(index, gone)
             /\ bytes' = bytes - Total(EntriesFor(index, gone))
             /\ fsDisk' = Without(fsDisk, gone)
             /\ short' = short \ gone
             /\ advertised' = advertised \ gone
      BY <1>3, <2>1, Evicts
    <2> QED BY <2>2 DEF pinned
  <1>5. /\ fsDisk' \in Seq(Key) /\ Distinct(fsDisk') /\ Files' = Files \ gone
    BY <1>3, <1>4, WithoutElems DEF Files
  <1>6. FsTypes'
    BY <1>2, <1>3, <1>4, <1>5, EntriesKept DEF FsTypes
  <1>7. ASSUME NEW job \in jobs' PROVE Sound(job, Files', submitted')
    <2>1. CASE job = NewJob("store", keys)
      BY <1>1, <1>2, <2>1, NewJobSound
    <2>2. CASE job \in jobs
      <3>1. Sound(job, Files, submitted)
        BY <1>1, <2>2
      <3>2. KeysOf(job) \subseteq Pinned(jobs')
        BY DEF Pinned
      <3>3. KeysOf(job) \cap Files \subseteq Files'
        BY <1>4, <1>5, <3>2
      <3> QED BY <1>2, <1>3, <3>1, <3>3, StaysSound
    <2> QED BY <1>2, <2>1, <2>2
  <1>8. /\ Apart(jobs')
        /\ KeysOfKind(jobs, "store") \subseteq KeysOfKind(jobs', "store")
        /\ KeysOfKind(jobs, "load") \subseteq KeysOfKind(jobs', "load")
    BY <1>1, <1>2, Submits
  <1>9. Account(Files', KeysOfKind(jobs, "store"), KeysOfKind(jobs, "load"), index', short',
                bytes', advertised')
    BY <1>1, <1>3, <1>4, <1>5, AccountShrinks
  <1>10. Account(Files', KeysOfKind(jobs', "store"), KeysOfKind(jobs', "load"), index', short',
                bytes', advertised')
    BY <1>8, <1>9 DEF Account
  <1>11. FsParts'
    BY <1>6, <1>7, <1>8, <1>10
  <1> QED
    BY <1>11, InvPartsNext

LEMMA SubmitLoadKeeps ==
    ASSUME FsInv, NEW keys \in KeyLists, SubmitLoad(keys)
    PROVE  FsInv'
  <1> USE DEF FsParts
  <1>1. FsParts
    BY InvParts
  <1>2. /\ jobs' = jobs \cup {NewJob("load", keys)} /\ CanSubmit(keys)
        /\ submitted' = submitted + 1
        /\ UNCHANGED <<fsDisk, short, index, bytes, advertised>>
    BY DEF SubmitLoad
  <1>3. FsTypes' /\ submitted \in Nat /\ Files' = Files
    BY <1>1, <1>2 DEF FsTypes, Files
  <1>4. ASSUME NEW job \in jobs' PROVE Sound(job, Files', submitted')
    <2>1. CASE job = NewJob("load", keys)
      BY <1>1, <1>2, <2>1, NewJobSound
    <2>2. CASE job \in jobs
      BY <1>1, <1>2, <1>3, <2>2, StaysSound
    <2> QED BY <1>2, <2>1, <2>2
  <1>5. /\ Apart(jobs')
        /\ KeysOfKind(jobs, "store") \subseteq KeysOfKind(jobs', "store")
        /\ KeysOfKind(jobs, "load") \subseteq KeysOfKind(jobs', "load")
    BY <1>1, <1>2, Submits
  <1>6. Account(Files', KeysOfKind(jobs', "store"), KeysOfKind(jobs', "load"), index', short',
                bytes', advertised')
    BY <1>1, <1>2, <1>3, <1>5 DEF Account
  <1>7. FsParts'
    BY <1>3, <1>4, <1>5, <1>6
  <1> QED
    BY <1>7, InvPartsNext

(* What a finished store wrote, or found on the volume. *)
LEMMA WrittenFacts ==
    ASSUME NEW job, Sound(job, Files, submitted), job.result # "running"
    PROVE  /\ Written(job) \in Seq(Key) /\ Distinct(Written(job))
           /\ Elems(Written(job)) = KeysOf(job) \cap Files
           /\ job.result = "ok" => KeysOf(job) \subseteq Files
  <1>1. job.keys \in Seq(Key) /\ Distinct(job.keys)
    BY DEF Sound
  <1>2. CASE job.result = "ok"
    <2>1. job.done = Len(job.keys) /\ DOMAIN job.keys = 1..Len(job.keys)
      BY <1>1, <1>2 DEF Sound
    <2>2. KeysOf(job) \subseteq Files
      BY <2>1 DEF KeysOf, Elems, Sound
    <2> QED BY <1>1, <1>2, <2>2 DEF Written, KeysOf
  <1>3. CASE job.result # "ok"
    <2> DEFINE K == {i \in DOMAIN job.keys : job.keys[i] \in Files}
               p == Part(job.keys, K)
    <2>1. /\ p \in Seq(Key) /\ Distinct(p)
          /\ \A x : x \in Elems(p) <=> \E i \in DOMAIN job.keys : i \in K /\ x = job.keys[i]
      <3> HIDE DEF K
      <3> QED BY <1>1, PartElems
    <2>2. \A x : (\E i \in DOMAIN job.keys : i \in K /\ x = job.keys[i])
                   <=> x \in KeysOf(job) \cap Files
      BY DEF KeysOf, Elems
    <2>3. Written(job) = p
      BY <1>3 DEF Written
    <2> HIDE DEF p, K
    <2> QED BY <1>3, <2>1, <2>2, <2>3
  <1> QED
    BY <1>2, <1>3

LEMMA FinishStoreKeeps ==
    ASSUME FsInv, NEW job \in jobs, FinishStore(job)
    PROVE  FsInv'
  <1> USE DEF FsParts
  <1>1. FsParts
    BY InvParts
  <1>2. /\ job.kind = "store" /\ job.result # "running"
        /\ jobs' = jobs \ {job}
        /\ index' = AccountStore(index, Written(job))
        /\ bytes' = bytes + (Len(index') - Len(index)) * BlockSize
        /\ advertised' = IF job.result = "ok" THEN advertised \cup KeysOf(job) ELSE advertised
        /\ UNCHANGED <<fsDisk, short, submitted>>
    BY DEF FinishStore
  <1>3. /\ index \in Seq(Entry) /\ OnePath(index) /\ Sound(job, Files, submitted)
        /\ submitted \in Nat /\ Apart(jobs) /\ Files' = Files
    BY <1>1, <1>2 DEF FsTypes, Files
  <1>4. /\ Written(job) \in Seq(Key) /\ Distinct(Written(job))
        /\ Elems(Written(job)) = KeysOf(job) \cap Files
        /\ job.result = "ok" => KeysOf(job) \subseteq Files
    BY <1>2, <1>3, WrittenFacts
  <1>5. /\ index' \in Seq(Entry) /\ OnePath(index')
        /\ \A e \in Elems(index') : e \notin Elems(index) => e.size = BlockSize
        /\ KeysIn(index') = KeysIn(index) \cup Elems(Written(job))
        /\ Total(index') = Total(index) + (Len(index') - Len(index)) * BlockSize
    <2> DEFINE keys == Written(job)
    <2> HIDE DEF keys
    <2>1. LET new == AccountStore(index, keys) IN
           /\ new \in Seq(Entry) /\ OnePath(new)
           /\ Elems(index) \subseteq Elems(new)
           /\ \A e \in Elems(new) : e \notin Elems(index) => e.size = BlockSize
           /\ KeysIn(new) = KeysIn(index) \cup Elems(keys)
           /\ Total(new) = Total(index) + (Len(new) - Len(index)) * BlockSize
      BY <1>3, <1>4, AccountAdds DEF keys
    <2> QED BY <1>2, <2>1 DEF keys
  <1>6. FsTypes'
    BY <1>1, <1>2, <1>5 DEF FsTypes
  <1>7. /\ KeysOfKind(jobs', "store") = KeysOfKind(jobs, "store") \ KeysOf(job)
        /\ KeysOfKind(jobs', "load") = KeysOfKind(jobs, "load")
        /\ Apart(jobs')
    <2>1. Apart(jobs) /\ job.kind # "load"
      BY <1>2, <1>3
    <2>2. /\ KeysOfKind(jobs \ {job}, job.kind) = KeysOfKind(jobs, job.kind) \ KeysOf(job)
          /\ KeysOfKind(jobs \ {job}, "load") = KeysOfKind(jobs, "load")
          /\ Apart(jobs \ {job})
      BY ONLY <2>1, job \in jobs, RemovedJob
    <2> QED BY <1>2, <2>2
  <1>8. \A j \in jobs' : Sound(j, Files', submitted')
    BY <1>1, <1>2, <1>3
  <1>9. Account(Files, KeysOfKind(jobs, "store"), KeysOfKind(jobs, "load"), index, short,
                bytes, advertised)
    BY <1>1
  <1>10. \A e \in Elems(index') :
           e.key \in Files => (IF e.key \in short THEN ShortSize ELSE BlockSize) <= e.size
    BY <1>5, <1>9 DEF Account, BlockSize, ShortSize
  <1>11. Account(Files', KeysOfKind(jobs', "store"), KeysOfKind(jobs', "load"), index', short',
                 bytes', advertised')
    <2>1. Files \subseteq KeysIn(index') \cup KeysOfKind(jobs', "store")
      BY <1>4, <1>5, <1>7, <1>9 DEF Account
    <2>2. KeysIn(index') \subseteq Files \cup KeysOfKind(jobs', "load")
      BY <1>4, <1>5, <1>7, <1>9 DEF Account
    <2>3. bytes' = Total(index')
      BY <1>2, <1>5, <1>9 DEF Account
    <2>4. advertised' \subseteq KeysIn(index')
      BY <1>2, <1>4, <1>5, <1>9 DEF Account
    <2> QED BY <1>2, <1>3, <1>10, <2>1, <2>2, <2>3, <2>4 DEF Account
  <1>12. FsParts'
    BY <1>6, <1>7, <1>8, <1>11
  <1> QED
    BY <1>12, InvPartsNext

LEMMA FinishLoadKeeps ==
    ASSUME FsInv, NEW job \in jobs, FinishLoad(job)
    PROVE  FsInv'
  <1> USE DEF FsParts
  <1>1. FsParts
    BY InvParts
  <1> DEFINE loaded == SubSeq(job.keys, 1, job.done)
             rest == {job.keys[i] : i \in (job.done + 1)..Len(job.keys)}
             lost == (rest \cap Indexed) \ Files
             kept == EntriesBut(index, lost)
  <1>2. /\ job.kind = "load"
        /\ jobs' = jobs \ {job}
        /\ index' = Touch(kept, loaded)
        /\ bytes' = bytes - Total(EntriesFor(index, lost))
        /\ advertised' = advertised \ lost
        /\ UNCHANGED <<fsDisk, short, submitted>>
    BY DEF FinishLoad, LostBytes, OnRemoved
  <1>3. /\ index \in Seq(Entry) /\ OnePath(index) /\ Sound(job, Files, submitted)
        /\ submitted \in Nat /\ Apart(jobs) /\ Files' = Files
    BY <1>1, <1>2 DEF FsTypes, Files
  <1>4. loaded \in Seq(Key) /\ Distinct(loaded)
    <2>1. job.keys \in Seq(Key) /\ Distinct(job.keys) /\ job.done \in 0..Len(job.keys)
          /\ DOMAIN job.keys = 1..Len(job.keys) /\ Len(job.keys) \in Nat
      BY <1>3 DEF Sound
    <2>2. loaded \in Seq(Key) /\ DOMAIN loaded = 1..job.done
          /\ \A i \in 1..job.done : loaded[i] = job.keys[i]
      BY <2>1
    <2> HIDE DEF loaded
    <2> QED BY <2>1, <2>2 DEF Distinct
  <1>5. \A k \in KeysOf(job) : k \in Files \/ k \in rest
    <2>1. DOMAIN job.keys = 1..Len(job.keys) /\ Len(job.keys) \in Nat /\ job.done \in Nat
      BY <1>3 DEF Sound
    <2>2. \A i \in 1..Len(job.keys) : i \in 1..job.done \/ i \in (job.done + 1)..Len(job.keys)
      BY <2>1
    <2>3. \A i \in 1..job.done : job.keys[i] \in Files
      BY <1>3 DEF Sound
    <2> QED BY <2>1, <2>2, <2>3 DEF KeysOf, Elems
  <1>6. lost \cap Files = {} /\ \A k \in rest : k \in KeysIn(index) /\ k \notin Files => k \in lost
    BY DEF Indexed
  <1> HIDE DEF loaded, rest, lost
  <1>7. /\ kept \in Seq(Entry) /\ OnePath(kept)
        /\ KeysIn(kept) = KeysIn(index) \ lost
    BY <1>3, EntriesKept
  <1>8. Account(Files \ lost, KeysOfKind(jobs, "store"), KeysOfKind(jobs, "load"),
                kept, short \ lost, bytes', advertised')
    BY <1>1, <1>2, <1>3, AccountShrinks
  <1> HIDE DEF kept
  <1>9. /\ index' \in Seq(Entry) /\ OnePath(index') /\ Elems(index') = Elems(kept)
        /\ Total(index') = Total(kept)
    BY <1>2, <1>4, <1>7, TouchKeeps
  <1>10. KeysIn(index') = KeysIn(kept)
    <2>1. \A k : k \in KeysIn(index') <=> k \in KeysIn(kept)
      BY <1>7, <1>9, KeysOfEntries
    <2> QED BY <2>1
  <1>11. /\ KeysOfKind(jobs', "store") = KeysOfKind(jobs, "store")
         /\ KeysOfKind(jobs', "load") = KeysOfKind(jobs, "load") \ KeysOf(job)
         /\ Apart(jobs')
    <2>1. Apart(jobs) /\ job.kind # "store"
      BY <1>2, <1>3
    <2>2. /\ KeysOfKind(jobs \ {job}, job.kind) = KeysOfKind(jobs, job.kind) \ KeysOf(job)
          /\ KeysOfKind(jobs \ {job}, "store") = KeysOfKind(jobs, "store")
          /\ Apart(jobs \ {job})
      BY <2>1, RemovedJob
    <2> QED BY <1>2, <2>2
  <1>12. FsTypes'
    BY <1>1, <1>2, <1>9 DEF FsTypes
  <1>13. Account(Files', KeysOfKind(jobs', "store"), KeysOfKind(jobs', "load"), index', short',
                 bytes', advertised')
    <2>1. Files \ lost = Files
      BY <1>6
    <2>2. KeysIn(index') \subseteq Files \cup KeysOfKind(jobs', "load")
      BY <1>5, <1>6, <1>7, <1>8, <1>10, <1>11, <2>1 DEF Account
    <2>3. \A e \in Elems(index') :
            e.key \in Files => (IF e.key \in short THEN ShortSize ELSE BlockSize) <= e.size
      BY <1>6, <1>8, <1>9, <2>1 DEF Account
    <2> QED BY <1>2, <1>3, <1>8, <1>9, <1>10, <1>11, <2>1, <2>2, <2>3 DEF Account
  <1>14. \A j \in jobs' : Sound(j, Files', submitted')
    BY <1>1, <1>2, <1>3
  <1>15. FsParts'
    BY <1>11, <1>12, <1>13, <1>14
  <1> QED
    BY <1>15, InvPartsNext

(* What Advance changes. *)
LEMMA Advanced ==
    ASSUME NEW i, NEW kind, NEW keys, NEW done, NEW was, NEW result
    PROVE  Advance([id |-> i, kind |-> kind, keys |-> keys, done |-> done, result |-> was], result)
           = [id |-> i, kind |-> kind, keys |-> keys,
              done |-> IF result = "failed" THEN done ELSE done + 1, result |-> result]
  <1> DEFINE job == [id |-> i, kind |-> kind, keys |-> keys, done |-> done, result |-> was]
             d == IF result = "failed" THEN done ELSE done + 1
  <1>1. Advance(job, result) = [job EXCEPT !.done = d, !.result = result]
    BY DEF Advance
  <1> HIDE DEF d
  <1>2. [job EXCEPT !.done = d, !.result = result]
        = [id |-> i, kind |-> kind, keys |-> keys, done |-> d, result |-> result]
    <2>1. [job EXCEPT !.done = d]
          = [id |-> i, kind |-> kind, keys |-> keys, done |-> d, result |-> was]
      OBVIOUS
    <2>2. [[job EXCEPT !.done = d] EXCEPT !.result = result]
          = [job EXCEPT !.done = d, !.result = result]
      OBVIOUS
    <2>3. [[id |-> i, kind |-> kind, keys |-> keys, done |-> d, result |-> was]
             EXCEPT !.result = result]
          = [id |-> i, kind |-> kind, keys |-> keys, done |-> d, result |-> result]
      OBVIOUS
    <2> QED BY ONLY <2>1, <2>2, <2>3, Zenon
  <1> QED
    BY <1>1, <1>2 DEF d

(* A job that failed did not get further. *)
LEMMA FailedJob ==
    ASSUME NEW job, NEW files, NEW last, Sound(job, files, last), job.result = "running"
    PROVE  LET new == Advance(job, "failed") IN
           Sound(new, files, last) /\ new.keys = job.keys /\ new.kind = job.kind
  <1> DEFINE new == Advance(job, "failed")
  <1>1. new = [id |-> job.id, kind |-> job.kind, keys |-> job.keys, done |-> job.done,
               result |-> "failed"]
    <2>1. job = [id |-> job.id, kind |-> job.kind, keys |-> job.keys, done |-> job.done,
                 result |-> job.result]
      BY DEF Sound
    <2>2. Advance([id |-> job.id, kind |-> job.kind, keys |-> job.keys, done |-> job.done,
                   result |-> job.result], "failed")
          = [id |-> job.id, kind |-> job.kind, keys |-> job.keys, done |-> job.done,
             result |-> "failed"]
      BY Advanced
    <2> QED BY <2>1, <2>2
  <1>2. /\ new.id = job.id /\ new.kind = job.kind /\ new.keys = job.keys
        /\ new.done = job.done /\ new.result = "failed"
        /\ new = [id |-> new.id, kind |-> new.kind, keys |-> new.keys, done |-> new.done,
                  result |-> new.result]
    BY <1>1
  <1> HIDE DEF new
  <1>3. job.done < Len(job.keys)
    BY DEF Sound
  <1> QED
    BY <1>2, <1>3 DEF Sound, new

(* A job that moved its next block has one more on the volume.             *)
LEMMA MovedJob ==
    ASSUME NEW job, NEW files, NEW more, NEW last, Sound(job, files, last),
           job.result = "running", files \subseteq more, job.keys[job.done + 1] \in more
    PROVE  LET new == Advance(job, MovedResult(job)) IN
           Sound(new, more, last) /\ new.keys = job.keys /\ new.kind = job.kind
  <1> DEFINE result == MovedResult(job)
             new == Advance(job, result)
  <1>1. result = IF job.done + 1 = Len(job.keys) THEN "ok" ELSE "running"
    BY DEF MovedResult
  <1> HIDE DEF result
  <1>2. result # "failed"
    BY <1>1
  <1>3. new = [id |-> job.id, kind |-> job.kind, keys |-> job.keys, done |-> job.done + 1,
               result |-> result]
    <2>1. job = [id |-> job.id, kind |-> job.kind, keys |-> job.keys, done |-> job.done,
                 result |-> job.result]
      BY DEF Sound
    <2>2. Advance([id |-> job.id, kind |-> job.kind, keys |-> job.keys, done |-> job.done,
                   result |-> job.result], result)
          = [id |-> job.id, kind |-> job.kind, keys |-> job.keys, done |-> job.done + 1,
             result |-> result]
      BY <1>2, Advanced
    <2> QED BY <2>1, <2>2
  <1>4. /\ new.id = job.id /\ new.kind = job.kind /\ new.keys = job.keys
        /\ new.done = job.done + 1 /\ new.result = result
        /\ new = [id |-> new.id, kind |-> new.kind, keys |-> new.keys, done |-> new.done,
                  result |-> new.result]
    BY <1>3
  <1> HIDE DEF new
  <1>5. job.done < Len(job.keys) /\ job.done \in Nat /\ Len(job.keys) \in Nat
    BY DEF Sound
  <1>6. new.done \in 0..Len(job.keys) /\ (new.done < Len(job.keys) <=> result # "ok")
    BY <1>1, <1>4, <1>5
  <1>7. \A i \in 1..new.done : new.keys[i] \in more
    <2> TAKE i \in 1..new.done
    <2>1. i \in 1..job.done \/ i = job.done + 1
      BY <1>4, <1>5
    <2> QED BY <1>4, <2>1 DEF Sound
  <1>8. result \in {"running", "ok", "failed"}
    BY <1>1
  <1> QED
    BY <1>4, <1>6, <1>7, <1>8 DEF Sound, new, result

(* The next block of a running job is one of its keys. *)
LEMMA NextBlock ==
    ASSUME NEW job, NEW files, NEW last, Sound(job, files, last), job.result = "running"
    PROVE  job.keys[job.done + 1] \in KeysOf(job) /\ job.keys[job.done + 1] \in Key
  <1>1. job.keys \in Seq(Key) /\ DOMAIN job.keys = 1..Len(job.keys) /\ Len(job.keys) \in Nat
    BY DEF Sound
  <1>2. job.done + 1 \in DOMAIN job.keys
    BY <1>1 DEF Sound
  <1> QED
    BY <1>1, <1>2 DEF KeysOf, Elems

(* An I/O thread advances a job; the manager has not looked yet.           *)
LEMMA AdvanceKeeps ==
    ASSUME FsParts, NEW job \in jobs, NEW new, jobs' = (jobs \ {job}) \cup {new},
           new.keys = job.keys, new.kind = job.kind, Sound(new, Files', submitted),
           FsTypes',
           Account(Files', KeysOfKind(jobs, "store"), KeysOfKind(jobs, "load"), index, short',
                   bytes, advertised),
           \A j \in jobs : j # job => KeysOf(j) \cap Files \subseteq Files',
           UNCHANGED <<index, bytes, advertised, submitted>>
    PROVE  FsParts'
  <1>1. Apart(jobs) /\ submitted \in Nat
    BY DEF FsParts, FsTypes
  <1>2. LET K == (jobs \ {job}) \cup {new} IN
           /\ KeysOfKind(K, "store") = KeysOfKind(jobs, "store")
           /\ KeysOfKind(K, "load") = KeysOfKind(jobs, "load")
           /\ Apart(K)
    BY <1>1, ReplacedJob
  <1>3. /\ KeysOfKind(jobs', "store") = KeysOfKind(jobs, "store")
        /\ KeysOfKind(jobs', "load") = KeysOfKind(jobs, "load")
        /\ Apart(jobs')
    BY <1>2
  <1>4. ASSUME NEW j \in jobs' PROVE Sound(j, Files', submitted')
    <2>1. CASE j = new
      BY <2>1
    <2>2. CASE j \in jobs /\ j # job
      <3>1. Sound(j, Files, submitted)
        BY <2>2 DEF FsParts
      <3>2. KeysOf(j) \cap Files \subseteq Files'
        BY <2>2
      <3> QED BY <1>1, <3>1, <3>2, StaysSound
    <2> QED BY <2>1, <2>2
  <1>5. Account(Files', KeysOfKind(jobs', "store"), KeysOfKind(jobs', "load"), index', short',
                bytes', advertised')
    BY <1>3
  <1> QED
    BY <1>3, <1>4, <1>5 DEF FsParts

LEMMA WriteBlockKeeps ==
    ASSUME FsInv, NEW job \in jobs, WriteBlock(job)
    PROVE  FsInv'
  <1>1. FsParts
    BY InvParts
  <1> DEFINE k == job.keys[job.done + 1]
             new == Advance(job, MovedResult(job))
  <1>2. /\ job.kind = "store" /\ job.result = "running"
        /\ fsDisk' = IF k \in Files THEN fsDisk ELSE Append(fsDisk, k)
        /\ jobs' = (jobs \ {job}) \cup {new}
        /\ UNCHANGED <<short, index, bytes, advertised, submitted>>
    BY DEF WriteBlock, Replace
  <1>3. /\ fsDisk \in Seq(Key) /\ Distinct(fsDisk) /\ Sound(job, Files, submitted)
        /\ Apart(jobs)
    BY <1>1 DEF FsParts, FsTypes
  <1>4. k \in KeysOf(job) /\ k \in Key
    BY <1>2, <1>3, NextBlock
  <1> HIDE DEF k
  <1>5. fsDisk' \in Seq(Key) /\ Distinct(fsDisk') /\ Files' = Files \cup {k}
    <2>1. CASE k \in Files
      BY <1>2, <1>3, <2>1 DEF Files
    <2>2. CASE k \notin Files
      BY <1>2, <1>3, <1>4, <2>2, AppendElems DEF Files
    <2> QED BY <2>1, <2>2
  <1>6. FsTypes'
    BY <1>1, <1>2, <1>5 DEF FsParts, FsTypes
  <1>7. /\ Sound(new, Files', submitted) /\ new.keys = job.keys /\ new.kind = job.kind
    <2>1. Files \subseteq Files' /\ job.keys[job.done + 1] \in Files'
      BY <1>5 DEF k
    <2>2. job.result = "running" /\ Sound(job, Files, submitted)
      BY <1>2, <1>3
    <2> QED BY ONLY <2>1, <2>2, MovedJob DEF new
  <1> HIDE DEF new
  <1>8. k \in KeysOfKind(jobs, "store") /\ k \notin KeysOfKind(jobs, "load")
    <2>1. k \in KeysOfKind(jobs, "store")
      BY <1>2, <1>4, KeysOfKindIff
    <2>2. ~\E j \in jobs : j.kind = "load" /\ k \in KeysOf(j)
      BY <1>2, <1>3, <1>4 DEF Apart
    <2> QED BY <2>1, <2>2, KeysOfKindIff
  <1>9. Account(Files', KeysOfKind(jobs, "store"), KeysOfKind(jobs, "load"), index, short',
                bytes, advertised)
    <2>1. Account(Files, KeysOfKind(jobs, "store"), KeysOfKind(jobs, "load"), index, short,
                  bytes, advertised)
      BY <1>1 DEF FsParts
    <2>2. k \notin Files => k \notin KeysIn(index)
      BY <1>8, <2>1 DEF Account
    <2>3. \A e \in Elems(index) : e.key \in KeysIn(index)
      <3>1. index \in Seq(Entry)
        BY <1>1 DEF FsParts, FsTypes
      <3> QED BY <3>1, KeysOfEntries
    <2> QED BY <1>2, <1>5, <1>8, <2>1, <2>2, <2>3 DEF Account
  <1>10. \A j \in jobs : j # job => KeysOf(j) \cap Files \subseteq Files'
    BY <1>5
  <1>11. FsParts'
    BY <1>1, <1>2, <1>6, <1>7, <1>9, <1>10, AdvanceKeeps
  <1> QED
    BY <1>11, InvPartsNext

(* A job that fails, or reads a block, leaves the volume alone.            *)
LEMMA JobOnlyKeeps ==
    ASSUME FsInv, NEW job \in jobs, NEW new, jobs' = (jobs \ {job}) \cup {new},
           new.keys = job.keys, new.kind = job.kind, Sound(new, Files, submitted),
           UNCHANGED <<fsDisk, short, index, bytes, advertised, submitted>>
    PROVE  FsInv'
  <1>1. FsParts
    BY InvParts
  <1>2. FsTypes' /\ Files' = Files
    BY <1>1 DEF FsParts, FsTypes, Files
  <1>3. Account(Files', KeysOfKind(jobs, "store"), KeysOfKind(jobs, "load"), index, short',
                bytes, advertised)
    BY <1>1, <1>2 DEF FsParts
  <1>4. FsParts'
    BY <1>1, <1>2, <1>3, AdvanceKeeps
  <1> QED
    BY <1>4, InvPartsNext

LEMMA WriteFailsKeeps ==
    ASSUME FsInv, NEW job \in jobs, WriteFails(job)
    PROVE  FsInv'
  <1> DEFINE new == Advance(job, "failed")
  <1>1. Sound(job, Files, submitted)
    BY InvParts DEF FsParts
  <1>2. job.result = "running" /\ jobs' = (jobs \ {job}) \cup {new}
        /\ UNCHANGED <<fsDisk, short, index, bytes, advertised, submitted>>
    BY DEF WriteFails, Replace
  <1>3. Sound(new, Files, submitted) /\ new.keys = job.keys /\ new.kind = job.kind
    BY <1>1, <1>2, FailedJob
  <1> HIDE DEF new
  <1> QED
    BY <1>2, <1>3, JobOnlyKeeps

LEMMA ReadBlockKeeps ==
    ASSUME FsInv, NEW job \in jobs, ReadBlock(job)
    PROVE  FsInv'
  <1> DEFINE new == Advance(job, MovedResult(job))
  <1>1. Sound(job, Files, submitted)
    BY InvParts DEF FsParts
  <1>2. job.result = "running" /\ jobs' = (jobs \ {job}) \cup {new}
        /\ job.keys[job.done + 1] \in Files
        /\ UNCHANGED <<fsDisk, short, index, bytes, advertised, submitted>>
    BY DEF ReadBlock, Replace
  <1>3. Sound(new, Files, submitted) /\ new.keys = job.keys /\ new.kind = job.kind
    BY <1>1, <1>2, MovedJob
  <1> HIDE DEF new
  <1> QED
    BY <1>2, <1>3, JobOnlyKeeps

LEMMA ReadFailsKeeps ==
    ASSUME FsInv, NEW job \in jobs, ReadFails(job)
    PROVE  FsInv'
  <1>1. FsParts
    BY InvParts
  <1> DEFINE k == job.keys[job.done + 1]
             new == Advance(job, "failed")
             gone == {k} \cap short
  <1>2. /\ job.kind = "load" /\ job.result = "running"
        /\ fsDisk' = Without(fsDisk, gone) /\ short' = short \ gone
        /\ jobs' = (jobs \ {job}) \cup {new}
        /\ UNCHANGED <<index, bytes, advertised, submitted>>
    BY DEF ReadFails, Replace
  <1>3. /\ fsDisk \in Seq(Key) /\ Distinct(fsDisk) /\ Sound(job, Files, submitted)
        /\ Apart(jobs)
    BY <1>1 DEF FsParts, FsTypes
  <1>4. k \in KeysOf(job)
    BY <1>2, <1>3, NextBlock
  <1>5. fsDisk' \in Seq(Key) /\ Distinct(fsDisk') /\ Files' = Files \ gone
    <2> HIDE DEF gone
    <2> QED BY <1>2, <1>3, WithoutElems DEF Files
  <1>6. FsTypes'
    BY <1>1, <1>2, <1>5 DEF FsParts, FsTypes
  <1>7. Sound(new, Files, submitted) /\ new.keys = job.keys /\ new.kind = job.kind
    BY <1>2, <1>3, FailedJob
  <1>8. new.done = job.done
    BY <1>2, <1>3 DEF Advance, Sound
  <1> HIDE DEF new
  <1>9. Sound(new, Files', submitted)
    <2>1. \A i \in 1..job.done : job.keys[i] # k
      <3>1. DOMAIN job.keys = 1..Len(job.keys) /\ Len(job.keys) \in Nat
            /\ job.done \in Nat /\ job.done < Len(job.keys) /\ Distinct(job.keys)
        BY <1>2, <1>3 DEF Sound
      <3>2. \A i \in 1..job.done : i \in DOMAIN job.keys /\ i # job.done + 1
        BY <3>1
      <3>3. job.done + 1 \in DOMAIN job.keys
        BY <3>1
      <3> QED BY <3>1, <3>2, <3>3 DEF Distinct
    <2>2. \A i \in 1..new.done : new.keys[i] \in Files'
      BY <1>5, <1>7, <1>8, <2>1 DEF Sound
    <2> QED BY <1>7, <2>2 DEF Sound
  <1> HIDE DEF k
  <1>10. k \in KeysOfKind(jobs, "load")
    BY <1>2, <1>4, KeysOfKindIff
  <1>11. Account(Files', KeysOfKind(jobs, "store"), KeysOfKind(jobs, "load"), index, short',
                 bytes, advertised)
    <2>1. Account(Files, KeysOfKind(jobs, "store"), KeysOfKind(jobs, "load"), index, short,
                  bytes, advertised)
      BY <1>1 DEF FsParts
    <2> QED BY <1>2, <1>5, <1>10, <2>1 DEF Account
  <1>12. \A j \in jobs : j # job => KeysOf(j) \cap Files \subseteq Files'
    BY <1>3, <1>4, <1>5 DEF Apart
  <1>13. FsParts'
    BY <1>1, <1>2, <1>6, <1>7, <1>9, <1>11, <1>12, AdvanceKeeps
  <1> QED
    BY <1>13, InvPartsNext

(* Cutting a file short leaves it no larger than its entry says.           *)
LEMMA TruncateKeeps ==
    ASSUME FsInv, NEW k \in Key, Truncate(k)
    PROVE  FsInv'
  <1>1. FsParts
    BY InvParts
  <1>2. /\ k \in Files /\ short' = short \cup {k}
        /\ fsDisk' = Append(Without(fsDisk, {k}), k)
        /\ UNCHANGED <<index, bytes, jobs, advertised, submitted>>
    BY DEF Truncate
  <1>3. fsDisk \in Seq(Key) /\ Distinct(fsDisk) /\ index \in Seq(Entry)
    BY <1>1 DEF FsParts, FsTypes
  <1>4. fsDisk' \in Seq(Key) /\ Distinct(fsDisk') /\ Files' = Files
    <2> DEFINE rest == Without(fsDisk, {k})
    <2>1. rest \in Seq(Key) /\ Distinct(rest) /\ Elems(rest) = Elems(fsDisk) \ {k}
      BY <1>3, WithoutElems
    <2> HIDE DEF rest
    <2>2. /\ Append(rest, k) \in Seq(Key) /\ Distinct(Append(rest, k))
          /\ Elems(Append(rest, k)) = Elems(rest) \cup {k}
      BY <2>1, AppendElems
    <2> QED BY <1>2, <2>1, <2>2 DEF Files, rest
  <1>5. FsTypes'
    BY <1>1, <1>2, <1>4 DEF FsParts, FsTypes
  <1>6. Account(Files', KeysOfKind(jobs', "store"), KeysOfKind(jobs', "load"), index', short',
                bytes', advertised')
    <2>1. Account(Files, KeysOfKind(jobs, "store"), KeysOfKind(jobs, "load"), index, short,
                  bytes, advertised)
      BY <1>1 DEF FsParts
    <2>2. \A e \in Elems(index) : e.size \in {1, 2}
      BY <1>3, KeysOfEntries, EntryFacts
    <2>3. \A e \in Elems(index) :
            e.key \in Files => (IF e.key \in short' THEN ShortSize ELSE BlockSize) <= e.size
      BY <1>2, <2>1, <2>2 DEF Account, ShortSize, BlockSize
    <2> QED BY <1>2, <1>4, <2>1, <2>3 DEF Account
  <1>7. FsParts'
    BY <1>1, <1>2, <1>4, <1>5, <1>6 DEF FsParts
  <1> QED
    BY <1>7, InvPartsNext

(* The index of a new process: one entry per file, at the size it has.     *)
LEMMA ExistingStore ==
    ASSUME fsDisk \in Seq(Key), Distinct(fsDisk)
    PROVE  /\ IndexExistingStore \in Seq(Entry) /\ OnePath(IndexExistingStore)
           /\ Account(Files, {}, {}, IndexExistingStore, short, Total(IndexExistingStore), {})
  <1> DEFINE idx == IndexExistingStore
  <1>1. DOMAIN fsDisk = 1..Len(fsDisk) /\ Len(fsDisk) \in Nat
        /\ \A i \in DOMAIN fsDisk : fsDisk[i] \in Key
    OBVIOUS
  <1>2. /\ idx = [i \in 1..Len(fsDisk) |-> idx[i]]
        /\ DOMAIN idx = DOMAIN fsDisk
        /\ \A i \in DOMAIN fsDisk : idx[i] = [key |-> fsDisk[i], size |-> SizeOnDisk(fsDisk[i])]
    BY <1>1 DEF IndexExistingStore
  <1> HIDE DEF idx
  <1>3. \A i \in DOMAIN fsDisk :
          idx[i] \in Entry /\ idx[i].key = fsDisk[i] /\ idx[i].size = SizeOnDisk(fsDisk[i])
    BY <1>1, <1>2 DEF Entry, SizeOnDisk
  <1>4. idx \in Seq(Entry)
    <2> HIDE DEF Entry
    <2>1. idx \in [1..Len(fsDisk) -> Entry]
      BY <1>1, <1>2, <1>3
    <2> QED BY <1>1, <2>1
  <1>5. OnePath(idx)
    <2>1. ASSUME NEW i \in DOMAIN fsDisk, NEW j \in DOMAIN fsDisk, idx[i].key = idx[j].key
          PROVE  i = j
      BY <1>3, <2>1 DEF Distinct
    <2> QED BY <1>2, <2>1 DEF OnePath
  <1>6. KeysIn(idx) = Files
    BY <1>2, <1>3 DEF KeysIn, Files, Elems
  <1>7. \A e \in Elems(idx) : (IF e.key \in short THEN ShortSize ELSE BlockSize) <= e.size
    <2> TAKE e \in Elems(idx)
    <2>1. PICK i \in DOMAIN idx : e = idx[i]
      BY DEF Elems
    <2>2. e.size = IF e.key \in short THEN ShortSize ELSE BlockSize
      BY <1>2, <1>3, <2>1 DEF SizeOnDisk
    <2> QED BY <2>2 DEF ShortSize, BlockSize
  <1> QED
    BY <1>4, <1>5, <1>6, <1>7 DEF Account, idx

(* A new process starts from what the volume holds, and forgets the jobs.  *)
LEMMA RestartKeeps ==
    ASSUME FsInv, Restart
    PROVE  FsInv'
  <1>1. FsParts
    BY InvParts
  <1> DEFINE idx == IndexExistingStore
             total == Total(idx)
  <1>2. jobs' = {} /\ submitted' = submitted /\ EvictTo(Cap, idx, total, {}, {})
    BY DEF Restart
  <1>3. fsDisk \in Seq(Key) /\ Distinct(fsDisk) /\ submitted \in Nat
    BY <1>1 DEF FsParts, FsTypes
  <1>4. idx \in Seq(Entry) /\ OnePath(idx) /\ Account(Files, {}, {}, idx, short, total, {})
    BY <1>3, ExistingStore
  <1> HIDE DEF idx
  <1>5. total \in Int /\ Cap \in Int
    BY <1>4, TotalWeighs, CapAssumption
  <1> HIDE DEF total
  <1>6. PICK gone :
          /\ index' = EntriesBut(idx, gone)
          /\ bytes' = total - Total(EntriesFor(idx, gone))
          /\ fsDisk' = Without(fsDisk, gone)
          /\ short' = short \ gone
          /\ advertised' = {} \ gone
    BY <1>2, <1>4, <1>5, Evicts
  <1>7. fsDisk' \in Seq(Key) /\ Distinct(fsDisk') /\ Files' = Files \ gone
    BY <1>3, <1>6, WithoutElems DEF Files
  <1>8. FsTypes'
    BY <1>2, <1>3, <1>4, <1>6, <1>7, EntriesKept DEF FsTypes
  <1>9. Account(Files', {}, {}, index', short', bytes', advertised')
    BY <1>4, <1>6, <1>7, AccountShrinks
  <1>10. KeysOfKind(jobs', "store") = {} /\ KeysOfKind(jobs', "load") = {}
    BY <1>2 DEF KeysOfKind
  <1>11. FsParts'
    BY <1>2, <1>8, <1>9, <1>10 DEF FsParts, Apart
  <1> QED
    BY <1>11, InvPartsNext

(* The invariant does not look at permissions, nor at the fault count.     *)
LEMMA RestKeeps ==
    ASSUME FsInv, UNCHANGED <<fsDisk, short, index, bytes, jobs, advertised, submitted>>
    PROVE  FsInv'
  <1>1. FsParts
    BY InvParts
  <1>2. FsTypes' /\ Files' = Files
    BY <1>1 DEF FsParts, FsTypes, Files
  <1>3. FsParts'
    BY <1>1, <1>2 DEF FsParts
  <1> QED
    BY <1>3, InvPartsNext

LEMMA StepKeeps == FsInv /\ [FsNext]_fsVars => FsInv'
  <1> SUFFICES ASSUME FsInv, [FsNext]_fsVars PROVE FsInv'
    OBVIOUS
  <1>1. ASSUME NEW keys \in KeyLists, SubmitStore(keys) \/ SubmitLoad(keys) PROVE FsInv'
    BY <1>1, SubmitStoreKeeps, SubmitLoadKeeps
  <1>2. ASSUME NEW job \in jobs, FinishStore(job) \/ FinishLoad(job) PROVE FsInv'
    BY <1>2, FinishStoreKeeps, FinishLoadKeeps
  <1>3. ASSUME NEW job \in jobs, WriteBlock(job) \/ WriteFails(job) PROVE FsInv'
    BY <1>3, WriteBlockKeeps, WriteFailsKeeps
  <1>4. ASSUME NEW job \in jobs, ReadBlock(job) \/ ReadFails(job) PROVE FsInv'
    BY <1>4, ReadBlockKeeps, ReadFailsKeeps
  <1>5. ASSUME NEW k \in Key, Truncate(k) PROVE FsInv'
    BY <1>5, TruncateKeeps
  <1>6. ASSUME NEW k \in Key, Permission(k) PROVE FsInv'
    BY <1>6, RestKeeps DEF Permission
  <1>7. CASE Restart
    BY <1>7, RestartKeeps
  <1>8. CASE UNCHANGED fsVars
    BY <1>8, RestKeeps DEF fsVars
  <1> QED
    BY <1>1, <1>2, <1>3, <1>4, <1>5, <1>6, <1>7, <1>8 DEF FsNext

(* The index, the byte count, the volume and the jobs stay consistent.     *)
THEOREM FsInvariance == FsSpec => []FsInv
  <1>1. FsInit => FsInv
    BY InitHolds
  <1>2. FsInv /\ [FsNext]_fsVars => FsInv'
    BY StepKeeps
  <1> QED
    BY <1>1, <1>2, PTL DEF FsSpec

-----------------------------------------------------------------------------
(* The properties the runs check.                                          *)

(* One entry per path: as many entries as paths. *)
LEMMA OnePathCounts ==
    ASSUME NEW idx \in Seq(Entry), OnePath(idx)
    PROVE  Len(idx) = Cardinality(KeysIn(idx))
  <1> DEFINE n == Len(idx)
             f == [i \in 1..n |-> idx[i].key]
  <1>1. DOMAIN idx = 1..n /\ n \in Nat
    <2> HIDE DEF Entry
    <2> QED OBVIOUS
  <1>2. f \in Injection(1..n, KeysIn(idx))
    <2>1. f \in [1..n -> KeysIn(idx)]
      BY <1>1 DEF KeysIn
    <2>2. \A i, j \in 1..n : f[i] = f[j] => i = j
      BY <1>1 DEF OnePath
    <2> HIDE DEF f
    <2> QED BY <2>1, <2>2 DEF Injection, IsInjective
  <1>3. f \in Surjection(1..n, KeysIn(idx))
    <2>1. \A k \in KeysIn(idx) : \E i \in 1..n : f[i] = k
      BY <1>1 DEF KeysIn
    <2>2. f \in [1..n -> KeysIn(idx)]
      BY <1>1 DEF KeysIn
    <2> HIDE DEF f
    <2> QED BY <2>1, <2>2 DEF Surjection
  <1>4. ExistsBijection(1..n, KeysIn(idx))
    <2> HIDE DEF f
    <2> QED BY <1>2, <1>3 DEF ExistsBijection, Bijection
  <1>5. IsFiniteSet(1..n) /\ Cardinality(1..n) = n
    BY <1>1, FS_Interval
  <1> QED
    BY <1>4, <1>5, FS_Bijection

(* Every file is indexed unless a running store wrote it, every indexed    *)
(* file exists unless a load just lost it, _store_bytes is the sum of the  *)
(* entries and each path has one, and KV event consumers believe in no     *)
(* block that was dropped (_account_store, _evict_to, get_finished_jobs).  *)
THEOREM IndexHonest == FsSpec => []IndexMatchesDisk
  <1>1. FsInv => IndexMatchesDisk
    <2> SUFFICES ASSUME FsInv PROVE IndexMatchesDisk
      OBVIOUS
    <2>1. Accounted /\ index \in Seq(Entry) /\ OnePath(index)
      BY DEF FsInv, FsTypes
    <2>2. Len(index) = Cardinality(Indexed)
      BY <2>1, OnePathCounts DEF Indexed
    <2> QED BY <2>1, <2>2 DEF IndexMatchesDisk, Accounted
  <1> QED
    BY <1>1, FsInvariance, PTL

(* The pass of submit_store: which entries it takes, and how many.         *)
LEMMA Makes ==
    ASSUME NEW idx \in Seq(Entry), OnePath(idx), NEW total \in Int, NEW target \in Int,
           NEW pinned, NEW held, EvictTo(target, idx, total, pinned, held)
    PROVE  /\ index' = EntriesFor(idx, KeysIn(index'))
           /\ fsDisk' = Without(fsDisk, KeysIn(idx) \ KeysIn(index'))
           /\ (KeysIn(idx) \ KeysIn(index')) \cap (pinned \cup locked) = {}
           /\ \A i, j \in DOMAIN idx :
                i < j /\ idx[i].key \in KeysIn(index') /\ idx[j].key \notin KeysIn(index') =>
                  idx[i].key \in pinned \cup locked
           /\ Cap # 0 => \/ bytes' <= target
                         \/ KeysIn(index') \subseteq pinned \cup locked
  <1> DEFINE keep == pinned \cup locked
             gone == IF Cap = 0 THEN {} ELSE Victims(idx, total, target, keep)
  <1>1. /\ gone \subseteq KeysIn(idx) /\ gone \cap keep = {}
        /\ \A i, j \in DOMAIN idx :
             i < j /\ idx[i].key \notin gone /\ idx[j].key \in gone => idx[i].key \in keep
        /\ Cap # 0 => \/ total - Total(EntriesFor(idx, gone)) <= target
                      \/ KeysIn(idx) \ gone \subseteq keep
    BY VictimFacts
  <1>2. /\ index' = EntriesBut(idx, gone)
        /\ bytes' = total - Total(EntriesFor(idx, gone))
        /\ fsDisk' = Without(fsDisk, gone)
    BY DEF EvictTo, Survivors
  <1> HIDE DEF gone
  <1>3. KeysIn(index') = KeysIn(idx) \ gone
    BY <1>2, EntriesKept
  <1>4. \A i \in DOMAIN idx : idx[i].key \in KeysIn(idx)
    BY DEF KeysIn
  <1>5. index' = EntriesFor(idx, KeysIn(index'))
    <2>1. {i \in DOMAIN idx : idx[i].key \in KeysIn(index')}
          = {i \in DOMAIN idx : idx[i].key \notin gone}
      BY <1>3, <1>4
    <2> QED BY <1>2, <2>1 DEF EntriesFor, EntriesBut
  <1>6. gone = KeysIn(idx) \ KeysIn(index')
    BY <1>1, <1>3
  <1> QED
    BY <1>1, <1>2, <1>3, <1>4, <1>5, <1>6

(* The job just submitted is the one with the latest id. *)
LEMMA SubmittedIs ==
    ASSUME FsParts, NEW kind, NEW keys, jobs' = jobs \cup {NewJob(kind, keys)},
           submitted' = submitted + 1
    PROVE  Submitted.kind = kind /\ Submitted.keys = keys
  <1>1. /\ NewJob(kind, keys).id = submitted + 1 /\ NewJob(kind, keys).kind = kind
        /\ NewJob(kind, keys).keys = keys
    BY DEF NewJob
  <1>2. \A job \in jobs : job.id # submitted + 1
    BY DEF FsParts, FsTypes, Sound
  <1>3. Submitted = NewJob(kind, keys)
    BY <1>1, <1>2 DEF Submitted
  <1> QED
    BY <1>1, <1>3

(* submit_store makes the room its job needs, from the oldest files that   *)
(* may go.                                                                 *)
LEMMA StoreMakesRoom ==
    ASSUME FsInv, NEW keys \in KeyLists, SubmitStore(keys)
    PROVE  /\ Files \cap Busy' \subseteq Files'
           /\ (Cap # 0 /\ Submitted.kind = "store") =>
                \/ bytes' + Len(Submitted.keys) * BlockSize <= Cap
                \/ Indexed' \subseteq Busy' \cup locked
           /\ \A i, j \in DOMAIN index :
                (i < j /\ index[i].key \in Indexed' /\ index[j].key \notin Indexed') =>
                   index[i].key \in Busy' \cup locked
           /\ index' = EntriesFor(index, Indexed')
  <1>1. FsParts
    BY InvParts
  <1>2. FsParts'
    BY SubmitStoreKeeps, InvPartsNext
  <1> DEFINE pinned == Pinned(jobs')
  <1>3. /\ jobs' = jobs \cup {NewJob("store", keys)} /\ submitted' = submitted + 1
        /\ EvictTo(RoomFor(keys), index, bytes, pinned, advertised)
    BY DEF SubmitStore
  <1>4. pinned = Busy'
    BY <1>2 DEF Pinned, Busy, Reading, Writing, FsParts, Sound
  <1> HIDE DEF pinned
  <1>5. /\ index \in Seq(Entry) /\ OnePath(index) /\ fsDisk \in Seq(Key)
        /\ bytes \in Int /\ bytes' \in Int /\ RoomFor(keys) \in Int
    <2>1. index \in Seq(Entry) /\ OnePath(index) /\ fsDisk \in Seq(Key) /\ index' \in Seq(Entry)
      BY <1>1, <1>2 DEF FsParts, FsTypes
    <2>2. bytes = Total(index) /\ bytes' = Total(index')
      BY <1>1, <1>2 DEF FsParts, Account
    <2>3. bytes \in Int /\ bytes' \in Int
      BY <2>1, <2>2, TotalWeighs
    <2>4. RoomFor(keys) \in Int
      BY KeyListFacts, CapAssumption DEF RoomFor, BlockSize
    <2> QED BY <2>1, <2>3, <2>4
  <1>6. /\ index' = EntriesFor(index, KeysIn(index'))
        /\ fsDisk' = Without(fsDisk, KeysIn(index) \ KeysIn(index'))
        /\ (KeysIn(index) \ KeysIn(index')) \cap (pinned \cup locked) = {}
        /\ \A i, j \in DOMAIN index :
             i < j /\ index[i].key \in KeysIn(index') /\ index[j].key \notin KeysIn(index') =>
               index[i].key \in pinned \cup locked
        /\ Cap # 0 => \/ bytes' <= RoomFor(keys)
                      \/ KeysIn(index') \subseteq pinned \cup locked
    BY <1>3, <1>5, Makes
  <1>7. Files' = Files \ (KeysIn(index) \ KeysIn(index'))
    BY <1>5, <1>6, WithoutElems DEF Files
  <1>8. Submitted.kind = "store" /\ Submitted.keys = keys
    BY <1>1, <1>3, SubmittedIs
  <1>9. bytes' <= RoomFor(keys) => bytes' + Len(keys) * BlockSize <= Cap
    BY <1>5, KeyListFacts, CapAssumption DEF RoomFor, BlockSize
  <1>10. Indexed' = KeysIn(index')
    BY DEF Indexed
  <1> QED
    BY <1>4, <1>6, <1>7, <1>8, <1>9, <1>10

(* submit_load makes no room. *)
LEMMA LoadMakesNone ==
    ASSUME FsInv, NEW keys \in KeyLists, SubmitLoad(keys)
    PROVE  /\ Files' = Files /\ index' = index
           /\ Submitted.kind = "load"
           /\ index = EntriesFor(index, Indexed)
  <1>1. FsParts
    BY InvParts
  <1>2. Submitted.kind = "load"
    BY <1>1, SubmittedIs DEF SubmitLoad
  <1>3. index \in Seq(Entry)
    BY <1>1 DEF FsParts, FsTypes
  <1>4. {i \in DOMAIN index : index[i].key \in Indexed} = DOMAIN index
    BY DEF Indexed, KeysIn
  <1>5. EntriesFor(index, Indexed) = index
    <2> HIDE DEF Entry
    <2> QED BY <1>3, <1>4, PartAll DEF EntriesFor
  <1> QED
    BY <1>2, <1>5 DEF SubmitLoad, Files

(* Making room deletes no file that a job in flight uses, makes the room   *)
(* unless only pinned or undeletable files are left, and takes the oldest  *)
(* files that may go; the survivors keep their order (submit_store and     *)
(* _evict_to).                                                             *)
THEOREM RoomFromOldest == FsSpec => RoomMadeFromOldest
  <1> DEFINE Room == submitted' # submitted =>
               /\ Files \cap Busy' \subseteq Files'
               /\ (Cap # 0 /\ Submitted.kind = "store") =>
                    \/ bytes' + Len(Submitted.keys) * BlockSize <= Cap
                    \/ Indexed' \subseteq Busy' \cup locked
               /\ \A i, j \in DOMAIN index :
                    (i < j /\ index[i].key \in Indexed' /\ index[j].key \notin Indexed') =>
                       index[i].key \in Busy' \cup locked
               /\ index' = EntriesFor(index, Indexed')
  <1>1. ASSUME FsInv, FsNext PROVE Room
    <2>1. ASSUME NEW keys \in KeyLists, SubmitStore(keys) PROVE Room
      BY <1>1, <2>1, StoreMakesRoom
    <2>2. ASSUME NEW keys \in KeyLists, SubmitLoad(keys) PROVE Room
      <3>1. /\ Files' = Files /\ index' = index /\ Submitted.kind = "load"
            /\ index = EntriesFor(index, Indexed)
        BY <1>1, <2>2, LoadMakesNone
      <3>2. Indexed' = Indexed /\ \A i \in DOMAIN index : index[i].key \in Indexed
        BY <3>1 DEF Indexed, KeysIn
      <3> QED BY <3>1, <3>2
    <2>3. ASSUME NEW job \in jobs,
                 \/ FinishStore(job) \/ FinishLoad(job) \/ WriteBlock(job)
                 \/ WriteFails(job) \/ ReadBlock(job) \/ ReadFails(job)
          PROVE  submitted' = submitted
      BY <2>3 DEF FinishStore, FinishLoad, WriteBlock, WriteFails, ReadBlock, ReadFails
    <2>4. ASSUME NEW k \in Key, Truncate(k) \/ Permission(k) PROVE submitted' = submitted
      BY <2>4 DEF Truncate, Permission
    <2>5. ASSUME Restart PROVE submitted' = submitted
      BY <2>5 DEF Restart
    <2> HIDE DEF Room
    <2>6. ASSUME submitted' = submitted PROVE Room
      BY <2>6 DEF Room
    <2> QED BY <1>1, <2>1, <2>2, <2>3, <2>4, <2>5, <2>6 DEF FsNext
  <1>2. FsInv /\ [FsNext]_fsVars => [Room]_fsVars
    BY <1>1
  <1>3. FsSpec => [][Room]_fsVars
    BY <1>2, FsInvariance, PTL DEF FsSpec
  <1> QED
    BY <1>3 DEF RoomMadeFromOldest

=============================================================================
