----------------------------- MODULE LoRASlots -----------------------------
(***************************************************************************)
(* The LoRA adapters of the Metal runner: MetalLoRARuntime                 *)
(* (vllm_metal/v1/lora/runtime.py), MetalWorkerLoRAManager                 *)
(* (worker_manager.py), MLXLoRAModelManager (model_manager.py) and the     *)
(* routing table of PunicaWrapperMLX (punica_wrapper.py).                  *)
(*                                                                         *)
(* Adapters are registered in an LRU cache of Capacity entries, and        *)
(* resident in one of Slots slots of the wrapped layers, an LRU cache of   *)
(* its own. Weights are a version number: what the adapter's directory     *)
(* held when it was read. The operators below take the manager's state as  *)
(* a record and return it; err is the exception that left the call, and    *)
(* what the call had changed by then stays changed.                        *)
(***************************************************************************)
EXTENDS Integers, Sequences, FiniteSets, Subsequences

CONSTANTS
    Adapter,    \* lora_int_ids: numbers, a step activates them in order
    MaxId,      \* the largest of them
    Slots,      \* max_loras
    Capacity,   \* max_cpu_loras
    Reloaded,   \* bound: adapters that requests may ask to load in place
    MaxRows,    \* bound: rows of a step
    MaxWrites   \* bound: rewrites of adapter directories

ASSUME LoRAAssumption ==
    /\ MaxId \in Nat /\ Adapter \subseteq 1..MaxId
    /\ Slots \in Nat \ {0} /\ Capacity \in Nat /\ Capacity >= Slots
    /\ Reloaded \subseteq Adapter
    /\ MaxRows \in Nat /\ MaxWrites \in Nat

VARIABLES
    mgr,       \* the model manager
    requests,  \* _requests_by_id: how the adapter was last added
    disk,      \* what the adapter's directory holds
    writes,
    ran,       \* rows of the last forward: adapter, and weights applied
    called,    \* an add_lora that raised: adapter, exception, weights before
    failure    \* the exception with which a step stopped the engine

loraVars == <<mgr, requests, disk, writes, ran, called, failure>>

NoAdapter == 0  \* also the id that a row without an adapter is routed by
NoSlot == 0
Unread == 0     \* weights of an empty slot or an unregistered adapter
Bad == 1        \* files that do not load, or do not fit the wrapped layers
Trained(n) == n + 2  \* the weights after n rewrites
(* _last_mapping with the routing that was published for it; a routing     *)
(* whose mapping was forgotten is not read again.                          *)
NothingPublished == [mapping |-> <<>>, routes |-> <<>>]
NoCall == [id |-> NoAdapter, err |-> "none", was |-> Unread]

Slot == 1..Slots
Drop(lru, x) == Without(lru, {x})
ToEnd(lru, x) == Append(Drop(lru, x), x)
Fails(m, error) == [m EXCEPT !.err = error]

-----------------------------------------------------------------------------
(* MLXLoRAModelManager *)

SlotFor(m, id) ==
    IF \E s \in Slot : m.slots[s] = id THEN CHOOSE s \in Slot : m.slots[s] = id ELSE NoSlot

(* deactivate_adapter; the LRU cache unpins what it drops. *)
DeactivateAdapter(m, id) ==
    LET slot == SlotFor(m, id) IN
    IF slot = NoSlot THEN m
    ELSE [m EXCEPT !.act = Drop(@, id), !.actPins = @ \ {id},
                   !.slots[slot] = NoAdapter, !.weights[slot] = Unread,
                   !.enc = IF @ = slot THEN NoSlot ELSE @,
                   !.published = NothingPublished]

(* _commit_adapter_update *)
CommitUpdate(m, id, slot) ==
    [m EXCEPT !.weights[slot] = m.version[id], !.slots[slot] = id, !.published = NothingPublished]

(* _next_activation_slot: a free slot, or that of the least recently used  *)
(* adapter that is not pinned.                                             *)
NextSlot(m) ==
    LET free == {s \in Slot : m.slots[s] = NoAdapter}
        loose == Without(m.act, m.actPins)
    IN  IF free # {} THEN CHOOSE s \in free : \A t \in free : s <= t
        ELSE IF loose = <<>> THEN NoSlot ELSE SlotFor(m, Head(loose))

(* _activate_prepared, into the next slot *)
ActivatePrepared(m, id) ==
    LET slot == NextSlot(m)
        free == IF m.slots[slot] = NoAdapter THEN m ELSE DeactivateAdapter(m, m.slots[slot])
    IN  [CommitUpdate(free, id, slot) EXCEPT
            !.act = ToEnd(@, id),
            !.actPins = IF id \in m.pinned THEN @ \cup {id} ELSE @]

(* Mutant of ActivateAdapter: the registry does not learn of the use. *)
ActivateUntouched(m, id) ==
    IF id \notin Elems(m.reg) THEN Fails(m, "not registered")
    ELSE IF SlotFor(m, id) # NoSlot THEN [m EXCEPT !.act = ToEnd(@, id)]
    ELSE IF NextSlot(m) = NoSlot THEN Fails(m, "all slots pinned")
    ELSE ActivatePrepared(m, id)

(* activate_adapter *)
ActivateAdapter(m, id) ==
    LET touched == [m EXCEPT !.reg = ToEnd(@, id)] IN
    IF id \notin Elems(m.reg) THEN Fails(m, "not registered")
    ELSE IF SlotFor(m, id) # NoSlot THEN [touched EXCEPT !.act = ToEnd(@, id)]
    ELSE IF NextSlot(m) = NoSlot THEN Fails(touched, "all slots pinned")
    ELSE ActivatePrepared(touched, id)

(* remove_adapter *)
RemoveAdapter(m, id) ==
    [DeactivateAdapter([m EXCEPT !.pinned = @ \ {id}], id) EXCEPT
        !.reg = Drop(@, id), !.regPins = @ \ {id}, !.version[id] = Unread]

(* Mutant of AddAdapter: room is made before the adapter is validated. *)
AddBeforeValidation(m, id, weights) ==
    LET loose == Without(m.reg, m.regPins)
        full == Len(m.reg) >= Capacity
        room == IF full
                THEN LET old == Head(loose)
                     IN  DeactivateAdapter([m EXCEPT !.reg = Drop(@, old),
                                                     !.version[old] = Unread], old)
                ELSE m
    IN  IF full /\ loose = <<>> THEN Fails(m, "all registered pinned")
        ELSE IF weights = Bad THEN Fails(room, "malformed")
        ELSE [room EXCEPT !.reg = Append(@, id), !.version[id] = weights]

(* add_adapter of an unregistered adapter: validated, then room is made by *)
(* dropping the least recently used entry that is not pinned.              *)
AddAdapter(m, id, weights) ==
    LET loose == Without(m.reg, m.regPins)
        full == Len(m.reg) >= Capacity
        room == IF full
                THEN LET old == Head(loose)
                     IN  DeactivateAdapter([m EXCEPT !.reg = Drop(@, old),
                                                     !.version[old] = Unread], old)
                ELSE m
    IN  IF weights = Bad THEN Fails(m, "malformed")
        ELSE IF full /\ loose = <<>> THEN Fails(m, "all registered pinned")
        ELSE [room EXCEPT !.reg = Append(@, id), !.version[id] = weights]

(* replace_adapter: the registered weights change before a slot is found.  *)
ReplaceAdapter(m, id, weights) ==
    LET new == [m EXCEPT !.version[id] = weights, !.reg = ToEnd(@, id)] IN
    IF weights = Bad THEN Fails(m, "malformed")
    ELSE IF SlotFor(m, id) # NoSlot
    THEN [CommitUpdate(new, id, SlotFor(m, id)) EXCEPT !.act = ToEnd(@, id)]
    ELSE IF NextSlot(m) = NoSlot THEN Fails(new, "all slots pinned")
    ELSE ActivatePrepared(new, id)

(* pin_adapter: in both caches, after it is made resident. *)
PinAdapter(m, id) ==
    LET here == IF SlotFor(m, id) = NoSlot THEN ActivateAdapter(m, id) ELSE m IN
    IF id \notin Elems(m.reg) THEN Fails(m, "not registered")
    ELSE IF here.err # "none" THEN here
    ELSE [here EXCEPT !.pinned = @ \cup {id}, !.regPins = @ \cup {id},
                      !.actPins = @ \cup {id}]

(* update_metadata: the slot of every row. *)
Routes(m, mapping) ==
    [i \in DOMAIN mapping |->
        IF mapping[i] = NoAdapter THEN NoSlot ELSE SlotFor(m, mapping[i])]

(* Mutant of SetAdapterMapping: any mapping of the same adapters to as     *)
(* many rows counts as published.                                          *)
SetMappingOfSameAdapters(m, mapping) ==
    IF /\ Elems(mapping) = Elems(m.published.mapping)
       /\ Len(mapping) = Len(m.published.mapping) THEN m
    ELSE IF \E i \in DOMAIN mapping : mapping[i] # NoAdapter /\ SlotFor(m, mapping[i]) = NoSlot
    THEN Fails(m, "not active")
    ELSE [m EXCEPT !.published = [mapping |-> mapping, routes |-> Routes(m, mapping)]]

(* set_adapter_mapping: a mapping that is published already is not         *)
(* published again.                                                        *)
SetAdapterMapping(m, mapping) ==
    IF mapping = m.published.mapping THEN m
    ELSE IF \E i \in DOMAIN mapping : mapping[i] # NoAdapter /\ SlotFor(m, mapping[i]) = NoSlot
    THEN Fails(m, "not active")
    ELSE [m EXCEPT !.published = [mapping |-> mapping, routes |-> Routes(m, mapping)]]

-----------------------------------------------------------------------------
(* MetalWorkerLoRAManager *)

(* _add_and_activate *)
AddAndActivate(m, id, weights) ==
    LET added == AddAdapter(m, id, weights)
        active == ActivateAdapter(added, id)
    IN  IF added.err # "none" THEN added
        ELSE IF active.err # "none" THEN RemoveAdapter(active, id)
        ELSE active

(* add_adapter: only an in-place request reads a registered adapter again. *)
WorkerAdd(m, id, inplace) ==
    IF id \notin Elems(m.reg) THEN AddAndActivate(m, id, disk[id])
    ELSE IF inplace THEN ReplaceAdapter(m, id, disk[id])
    ELSE ActivateAdapter(m, id)

(* set_encoder_adapter: activate, then route every encoder row. *)
WorkerEncoder(m, id) ==
    LET active == ActivateAdapter(m, id) IN
    IF active.err # "none" THEN active ELSE [active EXCEPT !.enc = SlotFor(active, id)]

(* The adapters of gone leave their slots, one after the other. *)
Leaving(m, gone) ==
    LET left[s \in 0..Slots] ==
          IF s = 0 THEN m
          ELSE IF m.slots[s] \in gone THEN DeactivateAdapter(left[s - 1], m.slots[s])
          ELSE left[s - 1]
    IN  left[Slots]

(* Mutant of Parted: pinned adapters leave their slots as well. *)
PartedAll(m, requested) == Leaving(m, Adapter \ requested)

(* The residents that the step does not ask for leave, pinned ones stay.   *)
Parted(m, requested) == Leaving(m, Adapter \ (requested \cup m.pinned))

(* _apply: then those it asks for come, in the order of their ids, until   *)
(* one fails.                                                              *)
Apply(m, requested) ==
    LET came[id \in 0..MaxId] ==
          IF id = 0 THEN Parted(m, requested)
          ELSE IF id \in requested /\ came[id - 1].err = "none"
          THEN WorkerAdd(came[id - 1], id, requests[id] = "inplace")
          ELSE came[id - 1]
    IN  came[MaxId]

-----------------------------------------------------------------------------
(* MetalLoRARuntime, as the engine and the runner call it. *)

Weights(m, slot) == IF slot = NoSlot THEN Unread ELSE m.weights[slot]
Settled(m) == [m EXCEPT !.err = "none"]

(* add_lora, or a new request that names the adapter. *)
AddLora(id, inplace) ==
    /\ failure = "none"
    /\ LET m == WorkerAdd(mgr, id, inplace) IN
       /\ mgr' = Settled(m)
       /\ requests' = IF m.err = "none"
                      THEN [requests EXCEPT ![id] = IF inplace THEN "inplace" ELSE "plain"]
                      ELSE requests
       /\ called' = IF m.err = "none" THEN NoCall
                    ELSE [id |-> id, err |-> m.err, was |-> mgr.version[id]]
    /\ ran' = {}
    /\ UNCHANGED <<disk, writes, failure>>

(* remove_lora *)
RemoveLora(id) ==
    /\ failure = "none"
    /\ mgr' = RemoveAdapter(mgr, id)
    /\ requests' = IF id \in Elems(mgr.reg)
                   THEN [requests EXCEPT ![id] = "none"] ELSE requests
    /\ called' = NoCall
    /\ ran' = {}
    /\ UNCHANGED <<disk, writes, failure>>

(* pin_lora *)
PinLora(id) ==
    /\ failure = "none"
    /\ mgr' = Settled(PinAdapter(mgr, id))
    /\ called' = NoCall
    /\ ran' = {}
    /\ UNCHANGED <<requests, disk, writes, failure>>

(* encoder_adapter around the encoding of one request's features: added,   *)
(* routed, encoded, and routed to nothing again. A failure ends the step.  *)
Encode(id, inplace) ==
    /\ failure = "none"
    /\ LET added == WorkerAdd(mgr, id, inplace)
           routed == IF added.err # "none" THEN added ELSE WorkerEncoder(added, id)
       IN  /\ mgr' = [routed EXCEPT !.enc = NoSlot, !.err = "none"]
           /\ requests' = IF added.err = "none"
                          THEN [requests EXCEPT ![id] = IF inplace THEN "inplace" ELSE "plain"]
                          ELSE requests
           /\ ran' = IF routed.err # "none" THEN {}
                     ELSE {[id |-> id, weights |-> Weights(routed, routed.enc)]}
           /\ failure' = routed.err
    /\ called' = NoCall
    /\ UNCHANGED <<disk, writes>>

(* prepare_step and the forward that follows it: a row per token. *)
PrepareStep(mapping) ==
    LET requested == Elems(mapping) \ {NoAdapter}
        applied == Apply(mgr, requested)
    IN  /\ failure = "none"
        /\ \E m \in {IF applied.err # "none" THEN applied
                     ELSE SetAdapterMapping(applied, mapping)} :
              /\ mgr' = Settled(m)
              /\ failure' = m.err
              /\ ran' = IF m.err # "none" THEN {}
                        ELSE {[id |-> mapping[i],
                               weights |-> Weights(mgr', mgr'.published.routes[i])] :
                                 i \in DOMAIN mapping}
        /\ called' = NoCall
        /\ UNCHANGED <<requests, disk, writes>>

(* Rows of requests whose adapter was added and not removed since, at most *)
(* max_loras of them distinct: the scheduler sees to both.                 *)
Mappings ==
    {mapping \in UNION {[1..n -> {NoAdapter} \cup {id \in Adapter : requests[id] # "none"}] :
                          n \in 1..MaxRows} :
        Cardinality(Elems(mapping) \ {NoAdapter}) <= Slots}

(* Somebody trains a new version of an adapter, or breaks it. *)
Rewrite(id, version) ==
    /\ failure = "none"
    /\ writes < MaxWrites
    /\ writes' = writes + 1
    /\ disk' = [disk EXCEPT ![id] = version]
    /\ ran' = {} /\ called' = NoCall
    /\ UNCHANGED <<mgr, requests, failure>>

LoRAInit ==
    /\ mgr = [reg |-> <<>>, regPins |-> {}, act |-> <<>>, actPins |-> {}, pinned |-> {},
              version |-> [id \in Adapter |-> Unread],
              slots |-> [s \in Slot |-> NoAdapter], weights |-> [s \in Slot |-> Unread],
              enc |-> NoSlot, published |-> NothingPublished, err |-> "none"]
    /\ requests = [id \in Adapter |-> "none"]
    /\ disk = [id \in Adapter |-> Trained(0)]
    /\ writes = 0
    /\ ran = {} /\ called = NoCall /\ failure = "none"

LoRANext ==
    \/ \E id \in Adapter, inplace \in BOOLEAN :
          (inplace => id \in Reloaded) /\ AddLora(id, inplace)
    \/ \E id \in Adapter : RemoveLora(id)
    \/ \E id \in Adapter : PinLora(id)
    \/ \E id \in Adapter, inplace \in BOOLEAN :
          (inplace => id \in Reloaded) /\ Encode(id, inplace)
    \/ \E mapping \in Mappings : PrepareStep(mapping)
    \/ \E id \in Adapter, version \in {Trained(writes + 1), Bad} : Rewrite(id, version)

LoRASpec == LoRAInit /\ [][LoRANext]_loraVars

-----------------------------------------------------------------------------
(* What must not go wrong. *)

(* The two caches, the slot table, the pins and the weights in the layers  *)
(* tell one story after any sequence of calls, failed ones included: a     *)
(* resident adapter is registered, in one slot and in the resident LRU,    *)
(* its slot holds the registered weights, an empty slot holds none, and a  *)
(* pinned adapter is resident and pinned in both caches.                   *)
TablesAgree ==
    /\ \A s, t \in Slot : s # t /\ mgr.slots[s] # NoAdapter => mgr.slots[s] # mgr.slots[t]
    /\ Elems(mgr.act) = Elems(mgr.slots) \ {NoAdapter}
    /\ Elems(mgr.act) \subseteq Elems(mgr.reg)
    /\ \A s \in Slot : mgr.weights[s] = IF mgr.slots[s] = NoAdapter THEN Unread
                                        ELSE mgr.version[mgr.slots[s]]
    /\ mgr.pinned = mgr.regPins /\ mgr.pinned = mgr.actPins
    /\ mgr.pinned \subseteq Elems(mgr.act)

(* Every row of a forward, and every encoded feature, runs with the        *)
(* registered weights of its own request's adapter, also when the routing  *)
(* was not published again because the mapping had not changed.            *)
RowsRunTheirAdapter ==
    \A row \in ran :
        row.weights = IF row.id = NoAdapter THEN Unread ELSE mgr.version[row.id]

(* A batch with a row for each of the ids. *)
RowEach(ids) == [id \in 1..MaxId |-> IF id \in ids THEN id ELSE NoAdapter]

(* A step whose adapters fit the slots next to the pinned ones runs: no    *)
(* activation within it evicts another adapter of the same batch for good. *)
BatchServed ==
    failure = "none" =>
        \A requested \in SUBSET {id \in Adapter : requests[id] # "none" /\ disk[id] # Bad} :
            Cardinality(requested \cup mgr.pinned) <= Slots =>
                SetAdapterMapping(Apply(mgr, requested), RowEach(requested)).err = "none"

(* A malformed adapter leaves every cache entry and every slot as it was.  *)
MalformedChangesNothing ==
    [][called'.err = "malformed" =>
         /\ mgr'.version = mgr.version
         /\ mgr'.slots = mgr.slots /\ mgr'.weights = mgr.weights
         /\ mgr'.pinned = mgr.pinned]_loraVars

(* What the tests say of an in-place reload: "A failed replacement must    *)
(* not drop the previous working adapter."                                 *)
FailedReplacementKeepsOld ==
    called.was # Unread => mgr.version[called.id] = called.was

=============================================================================
