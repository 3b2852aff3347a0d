------------------------------- MODULE FsTier -------------------------------
(***************************************************************************)
(* The capped file-system tier of the KV offload store,                    *)
(* MetalFileSystemTierManager of vllm_metal/v1/kv_offload/fs_tier.py.      *)
(*                                                                         *)
(* The scheduler thread owns the LRU index and the ledger of in-flight     *)
(* jobs. The jobs run on upstream's I/O threads, which are external, as is *)
(* the choice of jobs: a key is in at most one in-flight job, and a load   *)
(* may name a block that is gone (lookup answers are cached). A block file *)
(* is named by its key; a complete file occupies BlockSize bytes and a     *)
(* truncated one fewer. One process owns the store directory.              *)
(***************************************************************************)
EXTENDS Integers, Sequences, FiniteSets, Subsequences

CONSTANTS
    Key,        \* offload keys, one block file each
    Cap,        \* _max_store_bytes; 0 disables the cap
    MaxJobs,    \* bound: jobs submitted in a behaviour
    MaxFaults   \* bound: truncations, permission changes and restarts

BlockSize == 2
ShortSize == 1

ASSUME CapAssumption == Cap \in Nat
ASSUME FsBoundAssumption == MaxJobs \in Nat /\ MaxFaults \in Nat

VARIABLES
    (* The volume. *)
    fsDisk,       \* block files, in the order of their modification times
    short,      \* files among them that were truncated
    locked,     \* names whose removal fails with an OSError
    (* The manager. *)
    index,      \* _store_index: [key, size], least recently used first
    bytes,      \* _store_bytes
    jobs,       \* _store_job_paths and _load_job_paths: [id, kind, keys, done,
                \* result], done: blocks moved so far, result: "running" until
                \* the last block moved or the first one failed
    advertised, \* blocks that KV event consumers believe are held here
    submitted,
    faults

fsVars == <<fsDisk, short, locked, index, bytes, jobs, advertised, submitted, faults>>

Files == Elems(fsDisk)
KeysIn(idx) == {idx[i].key : i \in DOMAIN idx}
Indexed == KeysIn(index)
SizeOnDisk(k) == IF k \in short THEN ShortSize ELSE BlockSize

KeysOf(job) == Elems(job.keys)
KeyLists == {<<k>> : k \in Key} \cup {<<p[1], p[2]>> : p \in {q \in Key \X Key : q[1] # q[2]}}

(* _pinned_paths *)
Pinned(J) == UNION {KeysOf(job) : job \in J}

Writing == UNION {KeysOf(job) : job \in {j \in jobs : j.kind = "store"}}
Reading == UNION {KeysOf(job) : job \in {j \in jobs : j.kind = "load"}}

(* The entries of idx for the keys in S, and the others. *)
EntriesFor(idx, S) == Part(idx, {i \in DOMAIN idx : idx[i].key \in S})
EntriesBut(idx, S) == Part(idx, {i \in DOMAIN idx : idx[i].key \notin S})

-----------------------------------------------------------------------------
(* The index. *)

Total(idx) == SeqSum([i \in DOMAIN idx |-> idx[i].size])

(* The eviction pass over idx pops the oldest entry while the total is over *)
(* target, and sets aside the files of keep: freed[i] is what the first i  *)
(* entries gave up.                                                        *)
Freed(idx, total, target, keep) ==
    LET freed[i \in 0..Len(idx)] ==
          IF i = 0 THEN 0
          ELSE freed[i - 1] + (IF total - freed[i - 1] > target /\ idx[i].key \notin keep
                               THEN idx[i].size ELSE 0)
    IN  freed

Victims(idx, total, target, keep) ==
    LET freed == Freed(idx, total, target, keep) IN
    {idx[i].key : i \in {j \in DOMAIN idx : freed[j] # freed[j - 1]}}

(* Mutant of Survivors: the files set aside go to the young end. *)
SurvivorsRequeued(idx, gone, keep) ==
    EntriesBut(idx, gone \cup keep) \o EntriesFor(idx, keep)

(* Files set aside go back to the head in their old order. *)
Survivors(idx, gone, keep) == EntriesBut(idx, gone)

(* Mutant of OnRemoved: nobody is told. *)
OnRemovedSilent(held, gone) == held

(* _on_removed: consumers learn that the blocks left this instance. *)
OnRemoved(held, gone) == held \ gone

(* _evict_to, from the index, byte count and advertised set it finds. *)
EvictTo(target, idx, total, pinned, held) ==
    LET keep == pinned \cup locked
        gone == IF Cap = 0 THEN {} ELSE Victims(idx, total, target, keep)
    IN  /\ index' = Survivors(idx, gone, keep)
        /\ bytes' = total - Total(EntriesFor(idx, gone))
        /\ fsDisk' = Without(fsDisk, gone)
        /\ short' = short \ gone
        /\ advertised' = OnRemoved(held, gone)

(* The files os.walk finds, oldest first, at the size they have. *)
IndexExistingStore == [i \in DOMAIN fsDisk |-> [key |-> fsDisk[i], size |-> SizeOnDisk(fsDisk[i])]]

(* move_to_end of the listed keys that are indexed, in their order. *)
Touch(idx, keys) ==
    LET touched == Part(keys, {i \in DOMAIN keys : keys[i] \in KeysIn(idx)})
        At(k) == CHOOSE i \in DOMAIN idx : idx[i].key = k
    IN  EntriesBut(idx, Elems(touched)) \o [i \in DOMAIN touched |-> idx[At(touched[i])]]

(* _account_store: one entry per path, a new one at the full block size. *)
AccountStore(idx, keys) ==
    LET fresh == Without(keys, KeysIn(idx))
    IN  Touch(idx \o [i \in DOMAIN fresh |-> [key |-> fresh[i], size |-> BlockSize]], keys)

-----------------------------------------------------------------------------
(* The scheduler thread. *)

FsInit ==
    /\ fsDisk = <<>> /\ short = {} /\ locked = {}
    /\ index = <<>> /\ bytes = 0
    /\ jobs = {}
    /\ advertised = {}
    /\ submitted = 0 /\ faults = 0

NewJob(kind, keys) ==
    [id |-> submitted + 1, kind |-> kind, keys |-> keys, done |-> 0, result |-> "running"]

CanSubmit(keys) ==
    /\ submitted < MaxJobs
    /\ \A i \in DOMAIN keys : keys[i] \notin Reading \cup Writing

(* What submit_store asks _evict_to to leave: room for every block of the  *)
(* job. Blocks already stored are over-reserved.                           *)
RoomFor(keys) == Cap - Len(keys) * BlockSize

(* submit_store: the job's own paths are pinned before the eviction. *)
SubmitStore(keys) ==
    /\ CanSubmit(keys)
    /\ jobs' = jobs \cup {NewJob("store", keys)}
    /\ EvictTo(RoomFor(keys), index, bytes, Pinned(jobs'), advertised)
    /\ submitted' = submitted + 1
    /\ UNCHANGED <<locked, faults>>

SubmitLoad(keys) ==
    /\ CanSubmit(keys)
    /\ jobs' = jobs \cup {NewJob("load", keys)}
    /\ submitted' = submitted + 1
    /\ UNCHANGED <<fsDisk, short, locked, index, bytes, advertised, faults>>

(* A failed batch stops at the first bad block: count what is on fsDisk. *)
Written(job) ==
    IF job.result = "ok" THEN job.keys
    ELSE Part(job.keys, {i \in DOMAIN job.keys : job.keys[i] \in Files})

(* One finished store of get_finished_jobs. Upstream advertises the blocks *)
(* of a successful store.                                                  *)
FinishStore(job) ==
    /\ job.kind = "store" /\ job.result # "running"
    /\ jobs' = jobs \ {job}
    /\ index' = AccountStore(index, Written(job))
    /\ bytes' = bytes + (Len(index') - Len(index)) * BlockSize
    /\ advertised' = IF job.result = "ok" THEN advertised \cup KeysOf(job) ELSE advertised
    /\ UNCHANGED <<fsDisk, short, locked, submitted, faults>>

LostBytes(idx, lost) == Total(EntriesFor(idx, lost))

(* One finished load: the blocks before a failure were loaded, and a file  *)
(* upstream deleted at the failure is no longer counted.                   *)
FinishLoad(job) ==
    /\ job.kind = "load" /\ job.result # "running"
    /\ jobs' = jobs \ {job}
    /\ LET loaded == SubSeq(job.keys, 1, job.done)
           rest == {job.keys[i] : i \in (job.done + 1)..Len(job.keys)}
           lost == (rest \cap Indexed) \ Files
       IN  /\ index' = Touch(EntriesBut(index, lost), loaded)
           /\ bytes' = bytes - LostBytes(index, lost)
           /\ advertised' = OnRemoved(advertised, lost)
    /\ UNCHANGED <<fsDisk, short, locked, submitted, faults>>

-----------------------------------------------------------------------------
(* Upstream's I/O threads and the world. *)

Advance(job, result) ==
    [job EXCEPT !.done = IF result = "failed" THEN @ ELSE @ + 1, !.result = result]

Replace(job, result) == jobs' = (jobs \ {job}) \cup {Advance(job, result)}
MovedResult(job) == IF job.done + 1 = Len(job.keys) THEN "ok" ELSE "running"

(* Write the next block; a file that exists is not written again. *)
WriteBlock(job) ==
    /\ job.kind = "store" /\ job.result = "running"
    /\ LET k == job.keys[job.done + 1] IN
       fsDisk' = IF k \in Files THEN fsDisk ELSE Append(fsDisk, k)
    /\ Replace(job, MovedResult(job))
    /\ UNCHANGED <<short, locked, index, bytes, advertised, submitted, faults>>

WriteFails(job) ==
    /\ job.kind = "store" /\ job.result = "running"
    /\ Replace(job, "failed")
    /\ UNCHANGED <<fsDisk, short, locked, index, bytes, advertised, submitted, faults>>

ReadBlock(job) ==
    /\ job.kind = "load" /\ job.result = "running"
    /\ job.keys[job.done + 1] \in Files \ short
    /\ Replace(job, MovedResult(job))
    /\ UNCHANGED <<fsDisk, short, locked, index, bytes, advertised, submitted, faults>>

(* A short file is deleted; one that is missing or unreadable is left. *)
ReadFails(job) ==
    /\ job.kind = "load" /\ job.result = "running"
    /\ LET gone == {job.keys[job.done + 1]} \cap short IN
       /\ fsDisk' = Without(fsDisk, gone)
       /\ short' = short \ gone
    /\ Replace(job, "failed")
    /\ UNCHANGED <<locked, index, bytes, advertised, submitted, faults>>

Fault == faults < MaxFaults /\ faults' = faults + 1

(* A file is cut short behind the manager's back. *)
Truncate(k) ==
    /\ Fault
    /\ k \in Files \ short
    /\ short' = short \cup {k}
    /\ fsDisk' = Append(Without(fsDisk, {k}), k)
    /\ UNCHANGED <<locked, index, bytes, jobs, advertised, submitted>>

(* Removing k starts, or stops, failing. *)
Permission(k) ==
    /\ Fault
    /\ locked' = IF k \in locked THEN locked \ {k} ELSE locked \cup {k}
    /\ UNCHANGED <<fsDisk, short, index, bytes, jobs, advertised, submitted>>

(* The process ends, with whatever jobs it had, and __init__ runs again:   *)
(* the index is what the directory holds, cut down to the cap.             *)
Restart ==
    /\ Fault
    /\ jobs' = {}
    /\ EvictTo(Cap, IndexExistingStore, Total(IndexExistingStore), {}, {})
    /\ UNCHANGED <<locked, submitted>>

FsNext ==
    \/ \E keys \in KeyLists : SubmitStore(keys)
    \/ \E keys \in KeyLists : SubmitLoad(keys)
    \/ \E job \in jobs : FinishStore(job)
    \/ \E job \in jobs : FinishLoad(job)
    \/ \E job \in jobs : WriteBlock(job)
    \/ \E job \in jobs : WriteFails(job)
    \/ \E job \in jobs : ReadBlock(job)
    \/ \E job \in jobs : ReadFails(job)
    \/ \E k \in Key : Truncate(k)
    \/ \E k \in Key : Permission(k)
    \/ Restart

FsSpec == FsInit /\ [][FsNext]_fsVars

-----------------------------------------------------------------------------
(* What must not go wrong. *)

Busy == Reading \cup Writing
Submitted == CHOOSE job \in jobs' : job.id = submitted'

(* The accounting of _account_store, _evict_to and get_finished_jobs stays *)
(* honest between a job's end on an I/O thread and its report: every file  *)
(* is indexed unless a running store wrote it, every indexed file exists   *)
(* unless a load just lost it, no file occupies more than its entry says,  *)
(* and _store_bytes is the sum of the entries, each path counted once. A   *)
(* consumer routing requests by KV events is never left believing in a     *)
(* block that _evict_to or a failed load dropped from the store.           *)
IndexMatchesDisk ==
    /\ Files \subseteq Indexed \cup Writing
    /\ Indexed \subseteq Files \cup Reading
    /\ \A i \in DOMAIN index :
         index[i].key \in Files => SizeOnDisk(index[i].key) <= index[i].size
    /\ bytes = Total(index)
    /\ Len(index) = Cardinality(Indexed)
    /\ advertised \subseteq Indexed

(* Making room for a store deletes no file that a job in flight, or the    *)
(* new job itself, reads or writes; it makes the room the job needs unless *)
(* nothing removable is left: a pinned or undeletable file at the head     *)
(* does not stop the pass; and it takes the oldest removable files: whoever *)
(* survives ahead of a victim was pinned or undeletable, and the survivors *)
(* keep their order, so a later pass starts with the same oldest file      *)
(* (submit_store and _evict_to).                                           *)
RoomMadeFromOldest ==
    [][submitted' # submitted =>
        /\ Files \cap Busy' \subseteq Files'
        /\ (Cap # 0 /\ Submitted.kind = "store") =>
             \/ bytes' + Len(Submitted.keys) * BlockSize <= Cap
             \/ Indexed' \subseteq Busy' \cup locked
        /\ \A i, j \in DOMAIN index :
             (i < j /\ index[i].key \in Indexed' /\ index[j].key \notin Indexed') =>
                index[i].key \in Busy' \cup locked
        /\ index' = EntriesFor(index, Indexed')]_fsVars

(* What submit_store's comment promises: the store never crosses the cap.  *)
StoreNeverCrossesCap ==
    [][(Cap # 0 /\ bytes <= Cap) => bytes' <= Cap]_fsVars

=============================================================================
