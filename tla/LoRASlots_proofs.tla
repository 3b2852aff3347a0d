-------------------------- MODULE LoRASlots_proofs --------------------------
(***************************************************************************)
(* The adapters' tables agree (TablesAgree), each row runs its own         *)
(* adapter's weights (RowsRunTheirAdapter), and a malformed adapter        *)
(* changes nothing (MalformedChangesNothing): for any adapters, slots,     *)
(* capacity, batches and rewrites.                                         *)
(***************************************************************************)
EXTENDS LoRASlots, Subsequences_proofs, FiniteSetTheorems

Fields == {"reg", "regPins", "act", "actPins", "pinned", "version", "slots", "weights",
           "enc", "published", "err"}

MgrTypes(m) ==
    /\ DOMAIN m = Fields
    /\ m.reg \in Seq(Adapter) /\ Distinct(m.reg) /\ m.act \in Seq(Adapter)
    /\ m.slots \in [Slot -> Adapter \cup {NoAdapter}]
    /\ DOMAIN m.weights = Slot /\ DOMAIN m.version = Adapter

(* The tables of a manager, as TablesAgree states it of the one there is.  *)
OneSlot(m) == \A s, t \in Slot : s # t /\ m.slots[s] # NoAdapter => m.slots[s] # m.slots[t]
WeightsTrue(m) ==
    \A s \in Slot : m.weights[s] = IF m.slots[s] = NoAdapter THEN Unread
                                   ELSE m.version[m.slots[s]]
Residents(m) == Elems(m.slots) \ {NoAdapter}

Tables(m) ==
    /\ OneSlot(m)
    /\ Elems(m.act) = Residents(m)
    /\ Elems(m.act) \subseteq Elems(m.reg)
    /\ WeightsTrue(m)
    /\ m.pinned = m.regPins /\ m.pinned = m.actPins
    /\ m.pinned \subseteq Elems(m.act)

(* What is published names the slots of adapters that are resident.        *)
RoutesTrue(m) ==
    /\ DOMAIN m.published.routes = DOMAIN m.published.mapping
    /\ \A i \in DOMAIN m.published.mapping :
         LET id == m.published.mapping[i] IN
         IF id = NoAdapter THEN m.published.routes[i] = NoSlot
         ELSE m.published.routes[i] \in Slot /\ m.slots[m.published.routes[i]] = id

MgrOK(m) == MgrTypes(m) /\ Tables(m) /\ RoutesTrue(m)

-----------------------------------------------------------------------------
(* The caches. *)

LEMMA SlotNumbers ==
    /\ Slot \subseteq Nat /\ NoSlot \notin Slot /\ NoAdapter \notin Adapter
    /\ Slots \in Nat /\ MaxId \in Nat
  BY LoRAAssumption DEF Slot, NoSlot, NoAdapter

LEMMA LruFacts ==
    ASSUME NEW lru \in Seq(Adapter), NEW x \in Adapter
    PROVE  /\ Drop(lru, x) \in Seq(Adapter) /\ Elems(Drop(lru, x)) = Elems(lru) \ {x}
           /\ ToEnd(lru, x) \in Seq(Adapter) /\ Elems(ToEnd(lru, x)) = Elems(lru) \cup {x}
           /\ Distinct(lru) => Distinct(Drop(lru, x)) /\ Distinct(ToEnd(lru, x))
  <1> DEFINE rest == Drop(lru, x)
  <1>1. /\ rest \in Seq(Adapter) /\ Elems(rest) = Elems(lru) \ {x}
        /\ Distinct(lru) => Distinct(rest)
    BY WithoutElems DEF Drop
  <1> HIDE DEF rest
  <1>2. /\ Append(rest, x) \in Seq(Adapter) /\ Elems(Append(rest, x)) = Elems(rest) \cup {x}
        /\ Distinct(rest) => Distinct(Append(rest, x))
    BY <1>1, AppendElems
  <1>3. ToEnd(lru, x) = Append(rest, x)
    BY DEF ToEnd, rest
  <1> QED
    BY <1>1, <1>2, <1>3 DEF rest

(* The adapters in the slots, and where each is. *)
LEMMA ResidentsAre ==
    ASSUME NEW m, MgrTypes(m)
    PROVE  /\ \A id : id \in Residents(m) <=> id # NoAdapter /\ \E s \in Slot : m.slots[s] = id
           /\ Residents(m) \subseteq Adapter
  BY DEF MgrTypes, Residents, Elems

LEMMA SlotForFacts ==
    ASSUME NEW m, MgrTypes(m), NEW id \in Adapter
    PROVE  /\ SlotFor(m, id) # NoSlot <=> id \in Residents(m)
           /\ SlotFor(m, id) # NoSlot => SlotFor(m, id) \in Slot /\ m.slots[SlotFor(m, id)] = id
           /\ OneSlot(m) => \A s \in Slot : m.slots[s] = id => s = SlotFor(m, id)
  <1>1. id # NoAdapter
    BY SlotNumbers
  <1>2. CASE \E s \in Slot : m.slots[s] = id
    <2>1. SlotFor(m, id) = CHOOSE s \in Slot : m.slots[s] = id
      BY <1>2 DEF SlotFor
    <2>2. SlotFor(m, id) \in Slot /\ m.slots[SlotFor(m, id)] = id
      BY <1>2, <2>1
    <2>3. SlotFor(m, id) # NoSlot /\ id \in Residents(m)
      BY <1>1, <2>2, SlotNumbers, ResidentsAre
    <2>4. OneSlot(m) => \A s \in Slot : m.slots[s] = id => s = SlotFor(m, id)
      BY <1>1, <2>2 DEF OneSlot
    <2> QED BY <2>2, <2>3, <2>4
  <1>3. CASE ~\E s \in Slot : m.slots[s] = id
    <2>1. SlotFor(m, id) = NoSlot /\ id \notin Residents(m)
      BY <1>3, ResidentsAre DEF SlotFor
    <2> QED BY <1>3, <2>1
  <1> QED
    BY <1>2, <1>3

(* Neither an error nor the encoder's slot is looked at by the tables.     *)
LEMMA SameTables ==
    ASSUME NEW m, NEW n, MgrOK(m), DOMAIN n = Fields,
           n.reg = m.reg, n.regPins = m.regPins, n.act = m.act, n.actPins = m.actPins,
           n.pinned = m.pinned, n.version = m.version, n.slots = m.slots,
           n.weights = m.weights, n.published = m.published
    PROVE  MgrOK(n)
  <1>1. MgrTypes(n)
    BY DEF MgrOK, MgrTypes
  <1>2. Tables(n)
    <2>1. Tables(m)
      BY DEF MgrOK
    <2>2. OneSlot(n) /\ Residents(n) = Residents(m) /\ WeightsTrue(n)
      BY <2>1 DEF Tables, OneSlot, Residents, WeightsTrue
    <2> QED BY <2>1, <2>2 DEF Tables
  <1>3. RoutesTrue(n)
    BY DEF MgrOK, RoutesTrue
  <1> QED
    BY <1>1, <1>2, <1>3 DEF MgrOK

LEMMA FailsKeeps ==
    ASSUME NEW m, MgrOK(m), NEW error, NEW n, n = Fails(m, error)
    PROVE  MgrOK(n) /\ n.err = error /\ n.version = m.version
  <1>1. DOMAIN m = Fields
    BY DEF MgrOK, MgrTypes
  <1>2. /\ DOMAIN n = Fields /\ n.err = error
        /\ n.reg = m.reg /\ n.regPins = m.regPins /\ n.act = m.act /\ n.actPins = m.actPins
        /\ n.pinned = m.pinned /\ n.version = m.version /\ n.slots = m.slots
        /\ n.weights = m.weights /\ n.published = m.published
    BY <1>1 DEF Fails, Fields
  <1> QED
    BY ONLY <1>2, MgrOK(m), SameTables

(* deactivate_adapter empties the adapter's slot and forgets it in the     *)
(* resident cache, and the routes with it.                                 *)
LEMMA Deactivates ==
    ASSUME NEW m, MgrTypes(m), OneSlot(m), RoutesTrue(m), Elems(m.act) = Residents(m),
           m.actPins \subseteq Elems(m.act), NEW id \in Adapter, NEW n,
           n = DeactivateAdapter(m, id)
    PROVE  /\ MgrTypes(n) /\ RoutesTrue(n)
           /\ n.reg = m.reg /\ n.regPins = m.regPins /\ n.pinned = m.pinned
           /\ n.version = m.version /\ n.err = m.err
           /\ Elems(n.act) = Elems(m.act) \ {id} /\ n.actPins = m.actPins \ {id}
           /\ \A s \in Slot : n.slots[s] = IF m.slots[s] = id THEN NoAdapter ELSE m.slots[s]
           /\ \A s \in Slot : n.weights[s] = IF m.slots[s] = id THEN Unread ELSE m.weights[s]
           /\ Residents(n) = Residents(m) \ {id} /\ OneSlot(n)
  <1> DEFINE slot == SlotFor(m, id)
  <1>1. /\ slot # NoSlot <=> id \in Residents(m)
        /\ slot # NoSlot => slot \in Slot /\ m.slots[slot] = id
        /\ \A s \in Slot : m.slots[s] = id => s = slot
    BY SlotForFacts
  <1>2. CASE slot = NoSlot
    <2>1. n = m
      BY <1>2 DEF DeactivateAdapter
    <2>2. id \notin Residents(m) /\ \A s \in Slot : m.slots[s] # id
      BY <1>1, <1>2, SlotNumbers
    <2> QED BY <2>1, <2>2
  <1>3. CASE slot # NoSlot
    <2> HIDE DEF slot
    <2>1. DOMAIN m = Fields
      BY DEF MgrTypes
    <2>2. n = [m EXCEPT !.act = Drop(@, id), !.actPins = @ \ {id},
                        !.slots[slot] = NoAdapter, !.weights[slot] = Unread,
                        !.enc = IF @ = slot THEN NoSlot ELSE @,
                        !.published = NothingPublished]
      BY <1>3 DEF DeactivateAdapter, slot
    <2>3. /\ DOMAIN n = Fields /\ n.reg = m.reg /\ n.regPins = m.regPins
          /\ n.act = Drop(m.act, id) /\ n.actPins = m.actPins \ {id}
          /\ n.pinned = m.pinned /\ n.version = m.version
          /\ n.slots = [m.slots EXCEPT ![slot] = NoAdapter]
          /\ n.weights = [m.weights EXCEPT ![slot] = Unread]
          /\ n.published = NothingPublished /\ n.err = m.err
      BY <2>1, <2>2 DEF Fields
    <2>4. /\ m.act \in Seq(Adapter) /\ m.slots \in [Slot -> Adapter \cup {NoAdapter}]
          /\ DOMAIN m.weights = Slot
      BY DEF MgrTypes
    <2>5. n.act \in Seq(Adapter) /\ Elems(n.act) = Elems(m.act) \ {id}
      <3>1. Drop(m.act, id) \in Seq(Adapter) /\ Elems(Drop(m.act, id)) = Elems(m.act) \ {id}
        BY <2>4, LruFacts
      <3> QED BY <2>3, <3>1
    <2>6. MgrTypes(n)
      <3>1. n.slots \in [Slot -> Adapter \cup {NoAdapter}] /\ DOMAIN n.weights = Slot
        BY <2>3, <2>4
      <3> QED BY <2>3, <2>5, <3>1 DEF MgrTypes
    <2>7. \A s \in Slot : n.slots[s] = IF m.slots[s] = id THEN NoAdapter ELSE m.slots[s]
      BY <1>1, <1>3, <2>3, <2>4
    <2>8. \A s \in Slot : n.weights[s] = IF m.slots[s] = id THEN Unread ELSE m.weights[s]
      BY <1>1, <1>3, <2>3, <2>4
    <2>9. Residents(n) = Residents(m) \ {id}
      <3>1. \A x : x \in Residents(n) <=> x \in Residents(m) /\ x # id
        BY <2>6, <2>7, ResidentsAre
      <3> QED BY <3>1
    <2>10. OneSlot(n)
      BY <2>7 DEF OneSlot
    <2>11. RoutesTrue(n)
      BY <2>3 DEF RoutesTrue, NothingPublished
    <2> QED BY <2>3, <2>5, <2>6, <2>7, <2>8, <2>9, <2>10, <2>11
  <1> QED
    BY <1>2, <1>3

(* So the tables of the others stay in agreement. *)
LEMMA DeactivateKeeps ==
    ASSUME NEW m, MgrOK(m), NEW id \in Adapter, id \notin m.pinned
    PROVE  LET n == DeactivateAdapter(m, id) IN
           /\ MgrOK(n) /\ n.version = m.version /\ n.err = m.err /\ n.pinned = m.pinned
           /\ n.reg = m.reg
           /\ \A s \in Slot : n.slots[s] = IF m.slots[s] = id THEN NoAdapter ELSE m.slots[s]
           /\ Residents(n) = Residents(m) \ {id}
  <1> DEFINE n == DeactivateAdapter(m, id)
  <1> HIDE DEF n
  <1>1. /\ MgrTypes(n) /\ RoutesTrue(n)
        /\ n.reg = m.reg /\ n.regPins = m.regPins /\ n.pinned = m.pinned
        /\ n.version = m.version /\ n.err = m.err
        /\ Elems(n.act) = Elems(m.act) \ {id} /\ n.actPins = m.actPins \ {id}
        /\ \A s \in Slot : n.slots[s] = IF m.slots[s] = id THEN NoAdapter ELSE m.slots[s]
        /\ \A s \in Slot : n.weights[s] = IF m.slots[s] = id THEN Unread ELSE m.weights[s]
        /\ Residents(n) = Residents(m) \ {id} /\ OneSlot(n)
    BY Deactivates DEF MgrOK, Tables, n
  <1>2. WeightsTrue(n)
    BY <1>1 DEF WeightsTrue, MgrOK, Tables
  <1>3. Tables(n)
    BY <1>1, <1>2 DEF Tables, MgrOK
  <1> QED
    BY <1>1, <1>3 DEF MgrOK, n

-----------------------------------------------------------------------------
(* Activation. *)

(* The next slot is free, or belongs to an adapter that is not pinned.     *)
LEMMA NextSlotFacts ==
    ASSUME NEW m, MgrOK(m), NextSlot(m) # NoSlot
    PROVE  /\ NextSlot(m) \in Slot
           /\ m.slots[NextSlot(m)] # NoAdapter =>
                m.slots[NextSlot(m)] \in Adapter /\ m.slots[NextSlot(m)] \notin m.pinned
  <1> DEFINE free == {s \in Slot : m.slots[s] = NoAdapter}
             loose == Without(m.act, m.actPins)
  <1>1. NextSlot(m) = IF free # {} THEN CHOOSE s \in free : \A t \in free : s <= t
                      ELSE IF loose = <<>> THEN NoSlot ELSE SlotFor(m, Head(loose))
    BY DEF NextSlot
  <1>2. CASE free # {}
    <2>1. free \subseteq Nat
      BY SlotNumbers
    <2>2. \E s \in free : \A t \in free : s <= t
      <3> HIDE DEF free
      <3> QED BY <1>2, <2>1, LeastNat
    <2>3. NextSlot(m) \in free
      <3> HIDE DEF free
      <3> QED BY <1>1, <1>2, <2>2
    <2> QED BY <2>3
  <1>3. CASE free = {}
    <2>1. MgrTypes(m) /\ OneSlot(m) /\ Elems(m.act) = Residents(m) /\ m.actPins = m.pinned
          /\ m.act \in Seq(Adapter)
      BY DEF MgrOK, Tables, MgrTypes
    <2>2. loose \in Seq(Adapter) /\ Elems(loose) = Elems(m.act) \ m.pinned
      BY <2>1, WithoutElems
    <2> DEFINE id == Head(loose)
    <2>3. NextSlot(m) = SlotFor(m, id) /\ loose # <<>>
      <3> HIDE DEF free, loose
      <3> QED BY <1>1, <1>3
    <2> HIDE DEF loose
    <2>4. id \in Adapter /\ id \in Elems(loose)
      <3>1. 1 \in DOMAIN loose /\ id = loose[1]
        BY <2>2, <2>3
      <3> QED BY <2>2, <3>1 DEF Elems
    <2> HIDE DEF id
    <2>5. SlotFor(m, id) \in Slot /\ m.slots[SlotFor(m, id)] = id
      BY <2>1, <2>3, <2>4, SlotForFacts
    <2> QED BY <2>2, <2>3, <2>4, <2>5
  <1> QED
    BY <1>2, <1>3

(* The layers of a free slot take over the registered weights. *)
LEMMA CommitKeeps ==
    ASSUME NEW m, MgrTypes(m), NEW id \in Adapter, NEW slot \in Slot, NEW n,
           n = CommitUpdate(m, id, slot)
    PROVE  /\ MgrTypes(n) /\ RoutesTrue(n)
           /\ n.reg = m.reg /\ n.regPins = m.regPins /\ n.act = m.act /\ n.actPins = m.actPins
           /\ n.pinned = m.pinned /\ n.version = m.version /\ n.err = m.err
           /\ \A s \in Slot : n.slots[s] = IF s = slot THEN id ELSE m.slots[s]
           /\ \A s \in Slot : n.weights[s] = IF s = slot THEN m.version[id] ELSE m.weights[s]
  <1>1. /\ DOMAIN m = Fields /\ m.reg \in Seq(Adapter) /\ m.act \in Seq(Adapter)
        /\ m.slots \in [Slot -> Adapter \cup {NoAdapter}]
        /\ DOMAIN m.weights = Slot /\ DOMAIN m.version = Adapter
    BY DEF MgrTypes
  <1>2. /\ DOMAIN n = Fields /\ n.reg = m.reg /\ n.regPins = m.regPins
        /\ n.act = m.act /\ n.actPins = m.actPins /\ n.pinned = m.pinned
        /\ n.version = m.version /\ n.err = m.err
        /\ n.slots = [m.slots EXCEPT ![slot] = id]
        /\ n.weights = [m.weights EXCEPT ![slot] = m.version[id]]
        /\ n.published = NothingPublished
    BY <1>1 DEF CommitUpdate, Fields
  <1>3. n.slots \in [Slot -> Adapter \cup {NoAdapter}] /\ DOMAIN n.weights = Slot
    BY <1>1, <1>2
  <1>4. MgrTypes(n)
    BY <1>1, <1>2, <1>3 DEF MgrTypes
  <1>5. RoutesTrue(n)
    BY <1>2 DEF RoutesTrue, NothingPublished
  <1>6. /\ \A s \in Slot : n.slots[s] = IF s = slot THEN id ELSE m.slots[s]
        /\ \A s \in Slot : n.weights[s] = IF s = slot THEN m.version[id] ELSE m.weights[s]
    BY <1>1, <1>2
  <1> QED
    BY <1>2, <1>4, <1>5, <1>6

Arrive(m, id, slot) ==
    [CommitUpdate(m, id, slot) EXCEPT
        !.act = ToEnd(@, id),
        !.actPins = IF id \in m.pinned THEN @ \cup {id} ELSE @]

(* Who is made resident in an empty slot is used last, and pinned if it    *)
(* was asked to be, which an adapter that is not resident was not.         *)
LEMMA ArrivesKeeps ==
    ASSUME NEW m, MgrOK(m), NEW id \in Adapter, id \in Elems(m.reg), id \notin Residents(m),
           NEW slot \in Slot, m.slots[slot] = NoAdapter, NEW n, n = Arrive(m, id, slot)
    PROVE  /\ MgrOK(n) /\ n.version = m.version /\ n.err = m.err
           /\ n.pinned = m.pinned /\ n.reg = m.reg
           /\ n.slots[slot] = id /\ Residents(n) = Residents(m) \cup {id}
  <1> DEFINE c == CommitUpdate(m, id, slot)
  <1>1. /\ MgrTypes(m) /\ OneSlot(m) /\ Elems(m.act) = Residents(m)
        /\ Elems(m.act) \subseteq Elems(m.reg) /\ WeightsTrue(m)
        /\ m.pinned = m.regPins /\ m.pinned = m.actPins /\ m.pinned \subseteq Elems(m.act)
    BY DEF MgrOK, Tables
  <1>2. /\ MgrTypes(c) /\ RoutesTrue(c)
        /\ c.reg = m.reg /\ c.regPins = m.regPins /\ c.act = m.act /\ c.actPins = m.actPins
        /\ c.pinned = m.pinned /\ c.version = m.version /\ c.err = m.err
        /\ \A s \in Slot : c.slots[s] = IF s = slot THEN id ELSE m.slots[s]
        /\ \A s \in Slot : c.weights[s] = IF s = slot THEN m.version[id] ELSE m.weights[s]
    <2>1. MgrTypes(m)
      BY <1>1
    <2>2. c = CommitUpdate(m, id, slot)
      OBVIOUS
    <2> HIDE DEF c
    <2> QED BY <2>1, <2>2, CommitKeeps
  <1> HIDE DEF c
  <1>3. id \notin m.pinned /\ id # NoAdapter
    BY <1>1, SlotNumbers
  <1>4. n = [c EXCEPT !.act = ToEnd(@, id),
                      !.actPins = IF id \in m.pinned THEN @ \cup {id} ELSE @]
    BY DEF c, Arrive
  <1>5. DOMAIN c = Fields
    BY <1>2 DEF MgrTypes
  <1>6. /\ DOMAIN n = Fields /\ n.reg = c.reg /\ n.regPins = c.regPins
        /\ n.act = ToEnd(c.act, id) /\ n.actPins = c.actPins /\ n.pinned = c.pinned
        /\ n.version = c.version /\ n.err = c.err /\ n.slots = c.slots
        /\ n.weights = c.weights /\ n.published = c.published
    BY <1>3, <1>4, <1>5 DEF Fields
  <1>7. n.act \in Seq(Adapter) /\ Elems(n.act) = Elems(m.act) \cup {id}
    <2>1. m.act \in Seq(Adapter)
      BY <1>1 DEF MgrTypes
    <2>2. ToEnd(m.act, id) \in Seq(Adapter) /\ Elems(ToEnd(m.act, id)) = Elems(m.act) \cup {id}
      BY <2>1, LruFacts
    <2> QED BY <1>2, <1>6, <2>2
  <1>8. MgrTypes(n)
    BY <1>2, <1>6, <1>7 DEF MgrTypes
  <1>9. RoutesTrue(n)
    BY <1>2, <1>6 DEF RoutesTrue
  <1>10. \A s \in Slot : /\ n.slots[s] = IF s = slot THEN id ELSE m.slots[s]
                         /\ n.weights[s] = IF s = slot THEN m.version[id] ELSE m.weights[s]
    BY <1>2, <1>6
  <1>11. Residents(n) = Residents(m) \cup {id}
    <2>1. \A x : x \in Residents(m) <=> x # NoAdapter /\ \E s \in Slot : m.slots[s] = x
      BY <1>1, ResidentsAre
    <2>2. \A x : x \in Residents(n) <=> x # NoAdapter /\ \E s \in Slot : n.slots[s] = x
      BY ONLY <1>8, ResidentsAre
    <2>3. \A x : (\E s \in Slot : n.slots[s] = x) <=> x = id \/ \E s \in Slot : s # slot /\ m.slots[s] = x
      BY <1>10
    <2>4. \A x : x # NoAdapter => \A s \in Slot : m.slots[s] = x => s # slot
      OBVIOUS
    <2> QED BY <1>3, <2>1, <2>2, <2>3, <2>4
  <1>12. OneSlot(n)
    <2>1. \A s \in Slot : m.slots[s] # id
      BY <1>1, <1>3, ResidentsAre
    <2> QED BY <1>1, <1>10, <2>1 DEF OneSlot
  <1>13. WeightsTrue(n)
    <2>1. n.version = m.version
      BY <1>2, <1>6
    <2> QED BY <1>1, <1>3, <1>10, <2>1 DEF WeightsTrue
  <1>14. Tables(n)
    BY <1>1, <1>2, <1>6, <1>7, <1>11, <1>12, <1>13 DEF Tables
  <1> QED
    BY <1>2, <1>6, <1>8, <1>9, <1>10, <1>11, <1>14 DEF MgrOK

(* _activate_prepared *)
LEMMA ActivatePreparedKeeps ==
    ASSUME NEW m, MgrOK(m), NEW id \in Adapter, id \in Elems(m.reg), id \notin Residents(m),
           NextSlot(m) # NoSlot
    PROVE  LET n == ActivatePrepared(m, id) IN
           /\ MgrOK(n) /\ n.version = m.version /\ n.err = m.err
           /\ n.pinned = m.pinned /\ n.reg = m.reg
           /\ id \in Residents(n)
           /\ m.slots[NextSlot(m)] = NoAdapter => Residents(n) = Residents(m) \cup {id}
  <1> DEFINE slot == NextSlot(m)
             old == m.slots[slot]
             free == IF old = NoAdapter THEN m ELSE DeactivateAdapter(m, old)
             n == ActivatePrepared(m, id)
  <1>1. slot \in Slot /\ (old # NoAdapter => old \in Adapter /\ old \notin m.pinned)
    BY NextSlotFacts
  <1>2. n = [CommitUpdate(free, id, slot) EXCEPT
               !.act = ToEnd(@, id),
               !.actPins = IF id \in m.pinned THEN @ \cup {id} ELSE @]
    BY DEF ActivatePrepared
  <1> HIDE DEF n, slot
  <1>3. /\ MgrOK(free) /\ free.version = m.version /\ free.err = m.err
        /\ free.pinned = m.pinned /\ free.reg = m.reg
        /\ free.slots[slot] = NoAdapter /\ id \notin Residents(free)
        /\ old = NoAdapter => free = m
    <2>1. CASE old = NoAdapter
      BY <2>1
    <2>2. CASE old # NoAdapter
      <3>1. LET d == DeactivateAdapter(m, old) IN
            /\ MgrOK(d) /\ d.version = m.version /\ d.err = m.err /\ d.pinned = m.pinned
            /\ d.reg = m.reg
            /\ \A s \in Slot : d.slots[s] = IF m.slots[s] = old THEN NoAdapter ELSE m.slots[s]
            /\ Residents(d) = Residents(m) \ {old}
        <4> HIDE DEF old
        <4> QED BY <1>1, <2>2, DeactivateKeeps
      <3> QED BY <1>1, <2>2, <3>1
    <2> QED BY <2>1, <2>2
  <1> HIDE DEF free
  <1>4. /\ MgrOK(n) /\ n.version = free.version /\ n.err = free.err
        /\ n.pinned = free.pinned /\ n.reg = free.reg
        /\ Residents(n) = Residents(free) \cup {id}
    <2>1. n = Arrive(free, id, slot)
      BY <1>2, <1>3 DEF Arrive
    <2>2. id \in Elems(free.reg)
      BY <1>3
    <2>3. MgrOK(free) /\ id \notin Residents(free) /\ slot \in Slot /\ free.slots[slot] = NoAdapter
      BY <1>1, <1>3
    <2> QED BY ONLY <2>1, <2>2, <2>3, id \in Adapter, ArrivesKeeps
  <1> QED
    BY <1>3, <1>4 DEF n, slot

(* A use moves an adapter to the young end of a cache.                     *)
LEMMA UseRegKeeps ==
    ASSUME NEW m, MgrOK(m), NEW id \in Adapter, id \in Elems(m.reg),
           NEW n, n = [m EXCEPT !.reg = ToEnd(@, id)]
    PROVE  /\ MgrOK(n) /\ n.version = m.version /\ n.err = m.err /\ n.pinned = m.pinned
           /\ Elems(n.reg) = Elems(m.reg) /\ n.reg = ToEnd(m.reg, id) /\ n.slots = m.slots /\ n.act = m.act
  <1>1. /\ DOMAIN m = Fields /\ m.reg \in Seq(Adapter) /\ m.act \in Seq(Adapter)
    BY DEF MgrOK, MgrTypes
  <1>2. /\ DOMAIN n = Fields /\ n.reg = ToEnd(m.reg, id) /\ n.regPins = m.regPins
        /\ n.act = m.act /\ n.actPins = m.actPins /\ n.pinned = m.pinned
        /\ n.version = m.version /\ n.slots = m.slots /\ n.weights = m.weights
        /\ n.published = m.published /\ n.err = m.err
    BY <1>1 DEF Fields
  <1>3. /\ ToEnd(m.reg, id) \in Seq(Adapter) /\ Elems(ToEnd(m.reg, id)) = Elems(m.reg)
        /\ Distinct(ToEnd(m.reg, id))
    <2>1. /\ ToEnd(m.reg, id) \in Seq(Adapter)
          /\ Elems(ToEnd(m.reg, id)) = Elems(m.reg) \cup {id}
          /\ Distinct(m.reg) => Distinct(ToEnd(m.reg, id))
      BY <1>1, LruFacts
    <2> QED BY <2>1 DEF MgrOK, MgrTypes
  <1>4. MgrTypes(n)
    BY <1>2, <1>3 DEF MgrTypes, MgrOK
  <1>5. Tables(n)
    BY <1>2, <1>3 DEF MgrOK, Tables, OneSlot, Residents, WeightsTrue
  <1>6. RoutesTrue(n)
    BY <1>2 DEF MgrOK, RoutesTrue
  <1> QED
    BY <1>2, <1>3, <1>4, <1>5, <1>6 DEF MgrOK

LEMMA UseActKeeps ==
    ASSUME NEW m, MgrOK(m), NEW id \in Adapter, id \in Elems(m.act),
           NEW n, n = [m EXCEPT !.act = ToEnd(@, id)]
    PROVE  /\ MgrOK(n) /\ n.version = m.version /\ n.err = m.err /\ n.pinned = m.pinned
           /\ n.reg = m.reg /\ n.slots = m.slots
  <1>1. /\ DOMAIN m = Fields /\ m.reg \in Seq(Adapter) /\ m.act \in Seq(Adapter)
    BY DEF MgrOK, MgrTypes
  <1>2. /\ DOMAIN n = Fields /\ n.act = ToEnd(m.act, id) /\ n.regPins = m.regPins
        /\ n.reg = m.reg /\ n.actPins = m.actPins /\ n.pinned = m.pinned
        /\ n.version = m.version /\ n.slots = m.slots /\ n.weights = m.weights
        /\ n.published = m.published /\ n.err = m.err
    BY <1>1 DEF Fields
  <1>3. ToEnd(m.act, id) \in Seq(Adapter) /\ Elems(ToEnd(m.act, id)) = Elems(m.act)
    <2>1. /\ ToEnd(m.act, id) \in Seq(Adapter)
          /\ Elems(ToEnd(m.act, id)) = Elems(m.act) \cup {id}
      BY <1>1, LruFacts
    <2> QED BY <2>1
  <1>4. MgrTypes(n)
    BY <1>2, <1>3 DEF MgrTypes, MgrOK
  <1>5. Tables(n)
    BY <1>2, <1>3 DEF MgrOK, Tables, OneSlot, Residents, WeightsTrue
  <1>6. RoutesTrue(n)
    BY <1>2 DEF MgrOK, RoutesTrue
  <1> QED
    BY <1>2, <1>3, <1>4, <1>5, <1>6 DEF MgrOK

(* activate_adapter *)
LEMMA ActivateKeeps ==
    ASSUME NEW m, MgrOK(m), m.err = "none", NEW id \in Adapter,
           NEW n, n = ActivateAdapter(m, id)
    PROVE  /\ MgrOK(n) /\ n.version = m.version /\ n.pinned = m.pinned
           /\ Elems(n.reg) = Elems(m.reg) /\ n.err # "malformed"
           /\ n.err = "none" => id \in Residents(n)
  <1> DEFINE t == [m EXCEPT !.reg = ToEnd(@, id)]
  <1>1. CASE id \notin Elems(m.reg)
    <2>1. n = Fails(m, "not registered")
      BY <1>1 DEF ActivateAdapter
    <2>2. MgrOK(n) /\ n.err = "not registered" /\ n.version = m.version
      <3>1. PICK error : error = "not registered"
        OBVIOUS
      <3>2. n = Fails(m, error)
        BY <2>1, <3>1
      <3>3. MgrOK(n) /\ n.err = error /\ n.version = m.version
        BY <3>2, FailsKeeps
      <3> QED BY <3>1, <3>3
    <2>3. n.pinned = m.pinned /\ n.reg = m.reg
      BY <2>1 DEF Fails, MgrOK, MgrTypes, Fields
    <2> QED BY <2>2, <2>3
  <1>2. CASE id \in Elems(m.reg)
    <2>1. /\ MgrOK(t) /\ t.version = m.version /\ t.err = m.err /\ t.pinned = m.pinned
          /\ Elems(t.reg) = Elems(m.reg) /\ t.slots = m.slots /\ t.act = m.act
      BY <1>2, UseRegKeeps
    <2>2. n = IF SlotFor(m, id) # NoSlot THEN [t EXCEPT !.act = ToEnd(@, id)]
              ELSE IF NextSlot(m) = NoSlot THEN Fails(t, "all slots pinned")
              ELSE ActivatePrepared(t, id)
      BY <1>2 DEF ActivateAdapter
    <2>3. NextSlot(t) = NextSlot(m) /\ SlotFor(t, id) = SlotFor(m, id)
      <3>1. t.actPins = m.actPins
        BY DEF MgrOK, MgrTypes, Fields
      <3> HIDE DEF t
      <3> QED BY <2>1, <3>1 DEF NextSlot, SlotFor
    <2> HIDE DEF t
    <2>4. (SlotFor(t, id) # NoSlot <=> id \in Residents(t)) /\ Elems(t.act) = Residents(t)
      BY <2>1, SlotForFacts DEF MgrOK, Tables
    <2>5. CASE SlotFor(t, id) # NoSlot
      <3>1. n = [t EXCEPT !.act = ToEnd(@, id)] /\ id \in Elems(t.act)
        BY <2>2, <2>3, <2>4, <2>5
      <3>2. /\ MgrOK(n) /\ n.version = t.version /\ n.err = t.err /\ n.pinned = t.pinned
            /\ n.reg = t.reg /\ n.slots = t.slots
        BY <2>1, <3>1, UseActKeeps
      <3>3. Residents(n) = Residents(t)
        BY <3>2 DEF Residents
      <3> QED BY <2>1, <2>4, <2>5, <3>2, <3>3
    <2>6. CASE SlotFor(t, id) = NoSlot /\ NextSlot(t) = NoSlot
      <3>1. n = Fails(t, "all slots pinned")
        BY <2>2, <2>3, <2>6
      <3>2. MgrOK(n) /\ n.err = "all slots pinned" /\ n.version = t.version
        <4>1. PICK error : error = "all slots pinned"
        OBVIOUS
      <4>2. n = Fails(t, error)
        BY <3>1, <4>1
      <4>3. MgrOK(n) /\ n.err = error /\ n.version = t.version
        BY <2>1, <4>2, FailsKeeps
      <4> QED BY <4>1, <4>3
      <3>3. n.pinned = t.pinned /\ n.reg = t.reg
        BY <2>1, <3>1 DEF Fails, MgrOK, MgrTypes, Fields
      <3> QED BY <2>1, <3>2, <3>3
    <2>7. CASE SlotFor(t, id) = NoSlot /\ NextSlot(t) # NoSlot
      <3>1. n = ActivatePrepared(t, id) /\ id \in Elems(t.reg) /\ id \notin Residents(t)
        BY <1>2, <2>1, <2>2, <2>3, <2>4, <2>7
      <3>2. /\ MgrOK(n) /\ n.version = t.version /\ n.err = t.err
            /\ n.pinned = t.pinned /\ n.reg = t.reg /\ id \in Residents(n)
        BY <2>1, <2>7, <3>1, ActivatePreparedKeeps
      <3> QED BY <2>1, <3>2
    <2> QED BY <2>5, <2>6, <2>7
  <1> QED
    BY <1>1, <1>2

-----------------------------------------------------------------------------
(* Registration. *)

Register(m, id, reg, weights) == [m EXCEPT !.reg = reg, !.version[id] = weights]

(* What is registered of an adapter that is in no slot may change.         *)
LEMMA RegisterKeeps ==
    ASSUME NEW m, MgrOK(m), NEW id \in Adapter, id \notin Residents(m), NEW weights,
           NEW reg \in Seq(Adapter), Distinct(reg), Elems(m.reg) \subseteq Elems(reg), NEW n,
           n = Register(m, id, reg, weights)
    PROVE  /\ MgrOK(n) /\ n.err = m.err /\ n.pinned = m.pinned /\ n.slots = m.slots
           /\ n.act = m.act /\ n.actPins = m.actPins /\ n.reg = reg
           /\ n.version[id] = weights
  <1>1. DOMAIN m = Fields /\ DOMAIN m.version = Adapter
    BY DEF MgrOK, MgrTypes
  <1>2. /\ DOMAIN n = Fields /\ n.reg = reg /\ n.regPins = m.regPins
        /\ n.act = m.act /\ n.actPins = m.actPins /\ n.pinned = m.pinned
        /\ n.version = [m.version EXCEPT ![id] = weights]
        /\ n.slots = m.slots /\ n.weights = m.weights /\ n.published = m.published
        /\ n.err = m.err
    BY <1>1 DEF Fields, Register
  <1>3. MgrTypes(n)
    BY <1>1, <1>2 DEF MgrOK, MgrTypes
  <1>4. \A s \in Slot : m.slots[s] # id
    BY ResidentsAre, SlotNumbers DEF MgrOK
  <1>5. WeightsTrue(n)
    BY <1>1, <1>2, <1>4 DEF WeightsTrue, MgrOK, Tables, MgrTypes
  <1>6. Tables(n)
    <2>1. /\ OneSlot(m) /\ Elems(m.act) = Residents(m) /\ Elems(m.act) \subseteq Elems(m.reg)
          /\ m.pinned = m.regPins /\ m.pinned = m.actPins /\ m.pinned \subseteq Elems(m.act)
      BY DEF MgrOK, Tables
    <2>2. OneSlot(n) /\ Residents(n) = Residents(m)
      BY <1>2, <2>1 DEF OneSlot, Residents
    <2>3. Elems(n.act) \subseteq Elems(n.reg)
      BY <1>2, <2>1
    <2> QED BY <1>2, <1>5, <2>1, <2>2, <2>3 DEF Tables
  <1>7. RoutesTrue(n)
    BY <1>2 DEF MgrOK, RoutesTrue
  <1> QED
    BY <1>1, <1>2, <1>3, <1>6, <1>7 DEF MgrOK

Dropped(m, id) ==
    DeactivateAdapter([m EXCEPT !.reg = Drop(@, id), !.version[id] = Unread], id)

(* Who is dropped from the registry leaves its slot as well.               *)
LEMMA DropKeeps ==
    ASSUME NEW m, MgrOK(m), NEW id \in Adapter, id \notin m.pinned, NEW n, n = Dropped(m, id)
    PROVE  /\ MgrOK(n) /\ n.err = m.err /\ n.pinned = m.pinned
           /\ n.reg = Drop(m.reg, id) /\ Elems(n.reg) = Elems(m.reg) \ {id}
           /\ Residents(n) = Residents(m) \ {id}
           /\ \A x \in Adapter : x # id => n.version[x] = m.version[x]
  <1> DEFINE q == [m EXCEPT !.reg = Drop(@, id), !.version[id] = Unread]
  <1>1. /\ DOMAIN m = Fields /\ DOMAIN m.version = Adapter /\ m.reg \in Seq(Adapter)
        /\ MgrTypes(m) /\ Tables(m) /\ RoutesTrue(m)
    BY DEF MgrOK, MgrTypes
  <1>2. /\ DOMAIN q = Fields /\ q.reg = Drop(m.reg, id) /\ q.regPins = m.regPins
        /\ q.act = m.act /\ q.actPins = m.actPins /\ q.pinned = m.pinned
        /\ q.version = [m.version EXCEPT ![id] = Unread]
        /\ q.slots = m.slots /\ q.weights = m.weights /\ q.published = m.published
        /\ q.err = m.err
    BY <1>1 DEF Fields
  <1>3. n = DeactivateAdapter(q, id)
    BY DEF Dropped
  <1> HIDE DEF q
  <1>4. /\ Drop(m.reg, id) \in Seq(Adapter) /\ Elems(Drop(m.reg, id)) = Elems(m.reg) \ {id}
        /\ Distinct(Drop(m.reg, id))
    BY <1>1, LruFacts DEF MgrTypes
  <1>5. MgrTypes(q)
    BY <1>1, <1>2, <1>4 DEF MgrTypes
  <1>6. OneSlot(q) /\ Elems(q.act) = Residents(q) /\ q.actPins \subseteq Elems(q.act)
    BY <1>1, <1>2 DEF Tables, OneSlot, Residents
  <1>7. RoutesTrue(q)
    BY <1>1, <1>2 DEF RoutesTrue
  <1>8. /\ MgrTypes(n) /\ RoutesTrue(n)
        /\ n.reg = q.reg /\ n.regPins = q.regPins /\ n.pinned = q.pinned
        /\ n.version = q.version /\ n.err = q.err
        /\ Elems(n.act) = Elems(q.act) \ {id} /\ n.actPins = q.actPins \ {id}
        /\ \A s \in Slot : n.slots[s] = IF q.slots[s] = id THEN NoAdapter ELSE q.slots[s]
        /\ \A s \in Slot : n.weights[s] = IF q.slots[s] = id THEN Unread ELSE q.weights[s]
        /\ Residents(n) = Residents(q) \ {id} /\ OneSlot(n)
    BY ONLY <1>3, <1>5, <1>6, <1>7, id \in Adapter, Deactivates
  <1>9. \A x \in Adapter : x # id => n.version[x] = m.version[x]
    BY <1>1, <1>2, <1>8
  <1>10. WeightsTrue(n)
    BY <1>1, <1>2, <1>8, <1>9, SlotNumbers DEF Tables, WeightsTrue, MgrTypes
  <1>11. Tables(n)
    <2>1. Elems(n.act) = Elems(m.act) \ {id} /\ Elems(n.reg) = Elems(m.reg) \ {id}
      BY <1>2, <1>4, <1>8
    <2>2. n.pinned = m.pinned /\ n.regPins = m.regPins /\ n.actPins = m.actPins \ {id}
      BY <1>2, <1>8
    <2>3. Elems(n.act) = Residents(n)
      BY <1>6, <1>8
    <2>4. /\ m.pinned = m.regPins /\ m.pinned = m.actPins /\ m.pinned \subseteq Elems(m.act)
          /\ Elems(m.act) \subseteq Elems(m.reg)
      BY <1>1 DEF Tables
    <2>5. m.actPins \ {id} = m.actPins
      BY <2>4
    <2> QED BY <1>8, <1>10, <2>1, <2>2, <2>3, <2>4, <2>5 DEF Tables
  <1>12. Residents(q) = Residents(m)
    BY <1>2 DEF Residents
  <1> QED
    BY <1>2, <1>4, <1>8, <1>9, <1>11, <1>12 DEF MgrOK

(* remove_adapter *)
LEMMA RemoveKeeps ==
    ASSUME NEW m, MgrOK(m), NEW id \in Adapter, NEW n, n = RemoveAdapter(m, id)
    PROVE  /\ MgrOK(n) /\ n.err = m.err
           /\ \A x \in Adapter : x # id => n.version[x] = m.version[x]
  <1> DEFINE p == [m EXCEPT !.pinned = @ \ {id}]
             d == DeactivateAdapter(p, id)
  <1>1. /\ DOMAIN m = Fields /\ MgrTypes(m) /\ Tables(m) /\ RoutesTrue(m)
    BY DEF MgrOK, MgrTypes
  <1>2. /\ DOMAIN p = Fields /\ p.reg = m.reg /\ p.regPins = m.regPins
        /\ p.act = m.act /\ p.actPins = m.actPins /\ p.pinned = m.pinned \ {id}
        /\ p.version = m.version /\ p.slots = m.slots /\ p.weights = m.weights
        /\ p.published = m.published /\ p.err = m.err
    BY <1>1 DEF Fields
  <1> HIDE DEF p
  <1>3. MgrTypes(p)
    BY <1>1, <1>2 DEF MgrTypes
  <1>4. OneSlot(p) /\ Elems(p.act) = Residents(p) /\ p.actPins \subseteq Elems(p.act)
    BY <1>1, <1>2 DEF Tables, OneSlot, Residents
  <1>5. RoutesTrue(p)
    BY <1>1, <1>2 DEF RoutesTrue
  <1>6. d = DeactivateAdapter(p, id)
    OBVIOUS
  <1>7. n = [d EXCEPT !.reg = Drop(@, id), !.regPins = @ \ {id}, !.version[id] = Unread]
    BY DEF RemoveAdapter, p
  <1> HIDE DEF d
  <1>8. /\ MgrTypes(d) /\ RoutesTrue(d)
        /\ d.reg = p.reg /\ d.regPins = p.regPins /\ d.pinned = p.pinned
        /\ d.version = p.version /\ d.err = p.err
        /\ Elems(d.act) = Elems(p.act) \ {id} /\ d.actPins = p.actPins \ {id}
        /\ \A s \in Slot : d.slots[s] = IF p.slots[s] = id THEN NoAdapter ELSE p.slots[s]
        /\ \A s \in Slot : d.weights[s] = IF p.slots[s] = id THEN Unread ELSE p.weights[s]
        /\ Residents(d) = Residents(p) \ {id} /\ OneSlot(d)
    BY ONLY <1>3, <1>4, <1>5, <1>6, id \in Adapter, Deactivates
  <1>9. DOMAIN d = Fields /\ DOMAIN d.version = Adapter /\ d.reg \in Seq(Adapter)
    BY <1>8 DEF MgrTypes
  <1>10. /\ DOMAIN n = Fields /\ n.reg = Drop(d.reg, id) /\ n.regPins = d.regPins \ {id}
         /\ n.act = d.act /\ n.actPins = d.actPins /\ n.pinned = d.pinned
         /\ n.version = [d.version EXCEPT ![id] = Unread]
         /\ n.slots = d.slots /\ n.weights = d.weights /\ n.published = d.published
         /\ n.err = d.err
    BY <1>7, <1>9 DEF Fields
  <1>11. /\ Drop(d.reg, id) \in Seq(Adapter) /\ Elems(Drop(d.reg, id)) = Elems(d.reg) \ {id}
         /\ Distinct(Drop(d.reg, id))
    BY <1>8, <1>9, LruFacts DEF MgrTypes
  <1>12. MgrTypes(n)
    BY <1>8, <1>9, <1>10, <1>11 DEF MgrTypes
  <1>13. \A x \in Adapter : x # id => n.version[x] = m.version[x]
    BY <1>2, <1>8, <1>9, <1>10
  <1>14. WeightsTrue(n)
    BY <1>1, <1>2, <1>8, <1>10, <1>13, SlotNumbers DEF Tables, WeightsTrue, MgrTypes
  <1>15. Tables(n)
    <2>1. OneSlot(n) /\ Residents(n) = Residents(d)
      BY <1>8, <1>10 DEF OneSlot, Residents
    <2>2. Elems(n.act) = Elems(m.act) \ {id} /\ Elems(n.reg) = Elems(m.reg) \ {id}
      BY <1>2, <1>8, <1>10, <1>11
    <2>3. /\ n.pinned = m.pinned \ {id} /\ n.regPins = m.regPins \ {id}
          /\ n.actPins = m.actPins \ {id}
      BY <1>2, <1>8, <1>10
    <2>4. Elems(n.act) = Residents(n)
      BY <1>4, <1>8, <1>10, <2>1
    <2>5. /\ m.pinned = m.regPins /\ m.pinned = m.actPins /\ m.pinned \subseteq Elems(m.act)
          /\ Elems(m.act) \subseteq Elems(m.reg)
      BY <1>1 DEF Tables
    <2> QED BY <1>14, <2>1, <2>2, <2>3, <2>4, <2>5 DEF Tables
  <1>16. RoutesTrue(n)
    BY <1>8, <1>10 DEF RoutesTrue
  <1> QED
    BY <1>2, <1>8, <1>10, <1>12, <1>13, <1>15, <1>16 DEF MgrOK

Untouched(m, n) ==
    n.version = m.version /\ n.slots = m.slots /\ n.weights = m.weights /\ n.pinned = m.pinned

LEMMA FailsUntouched ==
    ASSUME NEW m, MgrOK(m), NEW error, NEW n, n = Fails(m, error)
    PROVE  Untouched(m, n) /\ n.reg = m.reg
  BY DEF Fails, MgrOK, MgrTypes, Fields, Untouched

(* add_adapter: the adapter is in no slot, as it was not registered, and   *)
(* who makes room for it is not pinned.                                    *)
LEMMA AddKeeps ==
    ASSUME NEW m, MgrOK(m), m.err = "none", NEW id \in Adapter, id \notin Elems(m.reg),
           NEW weights, NEW n, n = AddAdapter(m, id, weights)
    PROVE  MgrOK(n) /\ (n.err # "none" => Untouched(m, n))
  <1> DEFINE loose == Without(m.reg, m.regPins)
             full == Len(m.reg) >= Capacity
             old == Head(loose)
             dropped == DeactivateAdapter([m EXCEPT !.reg = Drop(@, old),
                                                    !.version[old] = Unread], old)
             room == IF full THEN dropped ELSE m
  <1>1. n = IF weights = Bad THEN Fails(m, "malformed")
            ELSE IF full /\ loose = <<>> THEN Fails(m, "all registered pinned")
            ELSE [room EXCEPT !.reg = Append(@, id), !.version[id] = weights]
    BY DEF AddAdapter
  <1>2. ASSUME NEW error, n = Fails(m, error) PROVE MgrOK(n) /\ Untouched(m, n)
    <2>1. MgrOK(n)
      BY <1>2, FailsKeeps
    <2>2. Untouched(m, n)
      BY <1>2, FailsUntouched
    <2> QED BY <2>1, <2>2
  <1>3. CASE weights = Bad
    <2>1. PICK error : error = "malformed"
      OBVIOUS
    <2>2. n = Fails(m, error)
      BY <1>1, <1>3, <2>1
    <2> QED BY <1>2, <2>2
  <1>4. CASE weights # Bad /\ full /\ loose = <<>>
    <2>1. PICK error : error = "all registered pinned"
      OBVIOUS
    <2>2. n = Fails(m, error)
      BY <1>1, <1>4, <2>1
    <2> QED BY <1>2, <2>2
  <1>5. CASE weights # Bad /\ ~(full /\ loose = <<>>)
    <2>1. n = [room EXCEPT !.reg = Append(@, id), !.version[id] = weights]
      BY <1>1, <1>5
    <2>2. MgrOK(room) /\ room.err = "none" /\ id \notin Elems(room.reg)
      <3>1. CASE ~full
        BY <3>1
      <3>2. CASE full
        <4>1. m.reg \in Seq(Adapter) /\ m.pinned = m.regPins
          BY DEF MgrOK, MgrTypes, Tables
        <4>2. loose \in Seq(Adapter) /\ Elems(loose) = Elems(m.reg) \ m.pinned
          BY <4>1, WithoutElems
        <4>3. loose # <<>> /\ room = dropped
          BY <1>5, <3>2
        <4> HIDE DEF loose
        <4>4. old \in Adapter /\ old \in Elems(loose)
          <5>1. 1 \in DOMAIN loose /\ old = loose[1]
            BY <4>2, <4>3
          <5> QED BY <4>2, <5>1 DEF Elems
        <4>5. old \notin m.pinned
          BY <4>2, <4>4
        <4>6. dropped = Dropped(m, old)
          BY DEF Dropped
        <4> HIDE DEF old, dropped
        <4>7. /\ MgrOK(dropped) /\ dropped.err = m.err
              /\ Elems(dropped.reg) = Elems(m.reg) \ {old}
          <5>1. old \in Adapter
            BY <4>4
          <5> QED BY ONLY <4>5, <4>6, <5>1, MgrOK(m), DropKeeps
        <4> QED BY <4>3, <4>7
      <3> QED BY <3>1, <3>2
    <2> HIDE DEF room
    <2>3. room.reg \in Seq(Adapter) /\ Residents(room) \subseteq Elems(room.reg)
      BY <2>2 DEF MgrOK, MgrTypes, Tables
    <2>4. /\ Append(room.reg, id) \in Seq(Adapter)
          /\ Distinct(Append(room.reg, id))
          /\ Elems(room.reg) \subseteq Elems(Append(room.reg, id))
      <3>1. /\ Append(room.reg, id) \in Seq(Adapter)
            /\ Elems(Append(room.reg, id)) = Elems(room.reg) \cup {id}
            /\ Distinct(room.reg) /\ id \notin Elems(room.reg) => Distinct(Append(room.reg, id))
        BY <2>3, AppendElems
      <3> QED BY <2>2, <3>1 DEF MgrOK, MgrTypes
    <2>5. PICK reg : reg = Append(room.reg, id)
      OBVIOUS
    <2>6. n = Register(room, id, reg, weights)
      BY <2>1, <2>5 DEF Register
    <2>7. MgrOK(n) /\ n.err = room.err
      <3>1. id \notin Residents(room) /\ MgrOK(room)
        BY <2>2, <2>3
      <3>2. reg \in Seq(Adapter) /\ Distinct(reg) /\ Elems(room.reg) \subseteq Elems(reg)
        BY <2>4, <2>5
      <3> QED BY ONLY <3>1, <3>2, <2>6, id \in Adapter, RegisterKeeps
    <2> QED BY <2>2, <2>7
  <1> QED
    BY <1>3, <1>4, <1>5

LEMMA AddAndActivateKeeps ==
    ASSUME NEW m, MgrOK(m), m.err = "none", NEW id \in Adapter, id \notin Elems(m.reg),
           NEW weights, NEW n, n = AddAndActivate(m, id, weights)
    PROVE  MgrOK(n) /\ (n.err = "malformed" => Untouched(m, n))
  <1> DEFINE added == AddAdapter(m, id, weights)
             active == ActivateAdapter(added, id)
             removed == RemoveAdapter(active, id)
  <1>1. n = IF added.err # "none" THEN added
            ELSE IF active.err # "none" THEN removed ELSE active
    BY DEF AddAndActivate
  <1>2. added = AddAdapter(m, id, weights) /\ active = ActivateAdapter(added, id)
        /\ removed = RemoveAdapter(active, id)
    OBVIOUS
  <1> HIDE DEF added, active, removed
  <1>3. MgrOK(added) /\ (added.err # "none" => Untouched(m, added))
    BY <1>2, AddKeeps
  <1>4. CASE added.err # "none"
    BY <1>1, <1>3, <1>4
  <1>5. CASE added.err = "none"
    <2>1. MgrOK(active) /\ active.err # "malformed"
      BY <1>2, <1>3, <1>5, ActivateKeeps
    <2>2. MgrOK(removed) /\ removed.err = active.err
      BY <1>2, <2>1, RemoveKeeps
    <2>3. n = removed \/ n = active
      BY <1>1, <1>5
    <2> QED BY <2>1, <2>2, <2>3
  <1> QED
    BY <1>4, <1>5

(* replace_adapter: the layers of a resident follow what is registered.    *)
LEMMA ReplaceKeeps ==
    ASSUME NEW m, MgrOK(m), m.err = "none", NEW id \in Adapter, id \in Elems(m.reg),
           NEW weights, NEW n, n = ReplaceAdapter(m, id, weights)
    PROVE  MgrOK(n) /\ (n.err = "malformed" => Untouched(m, n))
  <1> DEFINE new == [m EXCEPT !.version[id] = weights, !.reg = ToEnd(@, id)]
             slot == SlotFor(m, id)
             c == CommitUpdate(new, id, slot)
  <1>1. n = IF weights = Bad THEN Fails(m, "malformed")
            ELSE IF slot # NoSlot THEN [c EXCEPT !.act = ToEnd(@, id)]
            ELSE IF NextSlot(m) = NoSlot THEN Fails(new, "all slots pinned")
            ELSE ActivatePrepared(new, id)
    BY DEF ReplaceAdapter
  <1>2. /\ DOMAIN m = Fields /\ m.reg \in Seq(Adapter) /\ DOMAIN m.version = Adapter
        /\ MgrTypes(m) /\ Tables(m) /\ RoutesTrue(m)
    BY DEF MgrOK, MgrTypes
  <1>3. /\ ToEnd(m.reg, id) \in Seq(Adapter) /\ Elems(ToEnd(m.reg, id)) = Elems(m.reg)
        /\ Distinct(ToEnd(m.reg, id))
    <2>1. /\ ToEnd(m.reg, id) \in Seq(Adapter) /\ Elems(ToEnd(m.reg, id)) = Elems(m.reg) \cup {id}
          /\ Distinct(m.reg) => Distinct(ToEnd(m.reg, id))
      BY <1>2, LruFacts
    <2> QED BY <1>2, <2>1 DEF MgrTypes
  <1>4. /\ DOMAIN new = Fields /\ new.reg = ToEnd(m.reg, id) /\ new.regPins = m.regPins
        /\ new.act = m.act /\ new.actPins = m.actPins /\ new.pinned = m.pinned
        /\ new.version = [m.version EXCEPT ![id] = weights]
        /\ new.slots = m.slots /\ new.weights = m.weights /\ new.published = m.published
        /\ new.err = m.err
    BY <1>2 DEF Fields
  <1>5. PICK reg : reg = ToEnd(m.reg, id)
    OBVIOUS
  <1>6. new = Register(m, id, reg, weights)
    BY <1>2, <1>5 DEF Fields, Register
  <1>7. NextSlot(new) = NextSlot(m)
    <2> HIDE DEF new
    <2> QED BY <1>4 DEF NextSlot, SlotFor
  <1>8. /\ slot # NoSlot <=> id \in Residents(m)
        /\ slot # NoSlot => slot \in Slot /\ m.slots[slot] = id
        /\ \A s \in Slot : m.slots[s] = id => s = slot
    BY <1>2, SlotForFacts DEF Tables
  <1>9. c = CommitUpdate(new, id, slot)
    OBVIOUS
  <1> HIDE DEF new, slot, c
  <1>10. id \notin Residents(m) => MgrOK(new)
    <2>1. reg \in Seq(Adapter) /\ Distinct(reg) /\ Elems(m.reg) \subseteq Elems(reg)
      BY <1>3, <1>5
    <2> QED BY ONLY <2>1, <1>6, MgrOK(m), id \in Adapter, RegisterKeeps
  <1>11. CASE weights = Bad
    <2>1. PICK error : error = "malformed"
      OBVIOUS
    <2>2. n = Fails(m, error)
      BY <1>1, <1>11, <2>1
    <2>3. MgrOK(n)
      BY <2>2, FailsKeeps
    <2>4. Untouched(m, n)
      BY <2>2, FailsUntouched
    <2> QED BY <2>3, <2>4
  <1>12. CASE weights # Bad /\ slot # NoSlot
    <2>1. n = [c EXCEPT !.act = ToEnd(@, id)] /\ slot \in Slot /\ m.slots[slot] = id
      BY <1>1, <1>8, <1>12
    <2>2. MgrTypes(new)
      BY <1>2, <1>3, <1>4 DEF MgrTypes
    <2>3. /\ MgrTypes(c) /\ RoutesTrue(c)
          /\ c.reg = new.reg /\ c.regPins = new.regPins /\ c.act = new.act
          /\ c.actPins = new.actPins
          /\ c.pinned = new.pinned /\ c.version = new.version /\ c.err = new.err
          /\ \A s \in Slot : c.slots[s] = IF s = slot THEN id ELSE new.slots[s]
          /\ \A s \in Slot : c.weights[s] = IF s = slot THEN new.version[id] ELSE new.weights[s]
      BY ONLY <1>9, <2>1, <2>2, id \in Adapter, CommitKeeps
    <2>4. \A s \in Slot : c.slots[s] = m.slots[s]
      BY <1>4, <2>1, <2>3
    <2>5. Residents(c) = Residents(m)
      <3>1. \A x : x \in Residents(m) <=> x # NoAdapter /\ \E s \in Slot : m.slots[s] = x
        BY ONLY <1>2, ResidentsAre
      <3>2. \A x : x \in Residents(c) <=> x # NoAdapter /\ \E s \in Slot : c.slots[s] = x
        BY ONLY <2>3, ResidentsAre
      <3> QED BY <2>4, <3>1, <3>2
    <2>6. OneSlot(c)
      BY <1>2, <2>4 DEF OneSlot, Tables
    <2>7. WeightsTrue(c)
      <3>1. \A s \in Slot : m.slots[s] = id <=> s = slot
        BY <1>8, <2>1
      <3>2. \A s \in Slot : s # slot /\ m.slots[s] # NoAdapter =>
               m.slots[s] \in Adapter /\ new.version[m.slots[s]] = m.version[m.slots[s]]
        BY <1>2, <1>4, <3>1 DEF MgrTypes
      <3>3. id # NoAdapter
        BY SlotNumbers
      <3> QED BY <1>2, <1>4, <2>3, <2>4, <3>1, <3>2, <3>3 DEF WeightsTrue, Tables
    <2>8. Tables(c)
      BY <1>2, <1>3, <1>4, <2>3, <2>5, <2>6, <2>7 DEF Tables
    <2>9. MgrOK(c) /\ id \in Elems(c.act)
      BY <1>2, <1>4, <1>8, <1>12, <2>3, <2>8 DEF MgrOK, Tables
    <2>10. MgrOK(n) /\ n.err = c.err
      BY <2>1, <2>9, UseActKeeps
    <2> QED BY <1>4, <2>3, <2>10
  <1>13. CASE weights # Bad /\ slot = NoSlot /\ NextSlot(m) = NoSlot
    <2>1. PICK error : error = "all slots pinned"
      OBVIOUS
    <2>2. n = Fails(new, error) /\ MgrOK(new)
      BY <1>1, <1>8, <1>10, <1>13, <2>1
    <2>3. MgrOK(n) /\ n.err = error
      BY <2>2, FailsKeeps
    <2> QED BY <2>1, <2>3
  <1>14. CASE weights # Bad /\ slot = NoSlot /\ NextSlot(m) # NoSlot
    <2>1. n = ActivatePrepared(new, id) /\ MgrOK(new)
      BY <1>1, <1>8, <1>10, <1>14
    <2>2. id \in Elems(new.reg) /\ id \notin Residents(new) /\ NextSlot(new) # NoSlot
      BY <1>3, <1>4, <1>7, <1>8, <1>14 DEF Residents
    <2>3. MgrOK(n) /\ n.err = new.err
      BY <2>1, <2>2, ActivatePreparedKeeps
    <2> QED BY <1>4, <2>3
  <1> QED
    BY <1>11, <1>12, <1>13, <1>14

(* pin_adapter *)
LEMMA PinKeeps ==
    ASSUME NEW m, MgrOK(m), m.err = "none", NEW id \in Adapter,
           NEW n, n = PinAdapter(m, id)
    PROVE  MgrOK(n) /\ n.version = m.version
  <1> DEFINE active == ActivateAdapter(m, id)
             here == IF SlotFor(m, id) = NoSlot THEN active ELSE m
  <1>1. n = IF id \notin Elems(m.reg) THEN Fails(m, "not registered")
            ELSE IF here.err # "none" THEN here
            ELSE [here EXCEPT !.pinned = @ \cup {id}, !.regPins = @ \cup {id},
                              !.actPins = @ \cup {id}]
    BY DEF PinAdapter
  <1>2. /\ MgrOK(here) /\ here.version = m.version
        /\ here.err = "none" => id \in Residents(here)
    <2>1. active = ActivateAdapter(m, id)
      OBVIOUS
    <2> HIDE DEF active
    <2>2. /\ MgrOK(active) /\ active.version = m.version
          /\ active.err = "none" => id \in Residents(active)
      BY <2>1, ActivateKeeps
    <2>3. SlotFor(m, id) # NoSlot => id \in Residents(m)
      BY SlotForFacts DEF MgrOK
    <2> QED BY <2>2, <2>3
  <1> HIDE DEF here
  <1>3. CASE id \notin Elems(m.reg)
    <2>1. PICK error : error = "not registered"
      OBVIOUS
    <2>2. n = Fails(m, error)
      BY <1>1, <1>3, <2>1
    <2> QED BY <2>2, FailsKeeps
  <1>4. CASE id \in Elems(m.reg) /\ here.err # "none"
    BY <1>1, <1>2, <1>4
  <1>5. CASE id \in Elems(m.reg) /\ here.err = "none"
    <2>1. n = [here EXCEPT !.pinned = @ \cup {id}, !.regPins = @ \cup {id},
                           !.actPins = @ \cup {id}]
      BY <1>1, <1>5
    <2>2. DOMAIN here = Fields
      BY <1>2 DEF MgrOK, MgrTypes
    <2>3. /\ DOMAIN n = Fields /\ n.reg = here.reg /\ n.regPins = here.regPins \cup {id}
          /\ n.act = here.act /\ n.actPins = here.actPins \cup {id}
          /\ n.pinned = here.pinned \cup {id}
          /\ n.version = here.version /\ n.slots = here.slots /\ n.weights = here.weights
          /\ n.published = here.published /\ n.err = here.err
      BY <2>1, <2>2 DEF Fields
    <2>4. MgrTypes(n)
      BY <1>2, <2>3 DEF MgrOK, MgrTypes
    <2>5. Tables(n)
      <3>1. id \in Elems(here.act)
        BY <1>2, <1>5 DEF MgrOK, Tables
      <3>2. /\ OneSlot(here) /\ Elems(here.act) = Residents(here)
            /\ Elems(here.act) \subseteq Elems(here.reg) /\ WeightsTrue(here)
            /\ here.pinned = here.regPins /\ here.pinned = here.actPins
            /\ here.pinned \subseteq Elems(here.act)
        BY <1>2 DEF MgrOK, Tables
      <3>3. OneSlot(n) /\ Residents(n) = Residents(here) /\ WeightsTrue(n)
        BY <2>3, <3>2 DEF OneSlot, Residents, WeightsTrue
      <3>4. n.pinned = n.regPins /\ n.pinned = n.actPins /\ n.pinned \subseteq Elems(n.act)
        BY <2>3, <3>1, <3>2
      <3> QED BY <2>3, <3>2, <3>3, <3>4 DEF Tables
    <2>6. RoutesTrue(n)
      BY <1>2, <2>3 DEF MgrOK, RoutesTrue
    <2> QED BY <1>2, <2>3, <2>4, <2>5, <2>6 DEF MgrOK
  <1> QED
    BY <1>3, <1>4, <1>5

-----------------------------------------------------------------------------
(* A step's adapters. *)

(* Leaving, slot by slot. *)
LeaveStep(f, m, gone, s) ==
    IF m.slots[s] \in gone THEN DeactivateAdapter(f[s - 1], m.slots[s]) ELSE f[s - 1]

IsLeaving(f, m, gone) ==
    f = [s \in 0..Slots |-> IF s = 0 THEN m ELSE LeaveStep(f, m, gone, s)]

LEMMA LeavingExists ==
    ASSUME NEW m, NEW gone
    PROVE  \E f : IsLeaving(f, m, gone) /\ f[Slots] = Leaving(m, gone)
  <1> DEFINE Step(f, i) == IF i = 0 THEN m ELSE LeaveStep(f, m, gone, i)
             T == {k \in Nat : \E f : f = [i \in 0..k |-> Step(f, i)]}
  <1>1. 0 \in T
    <2> DEFINE g == [i \in 0..0 |-> m]
    <2>1. g = [i \in 0..0 |-> Step(g, i)]
      OBVIOUS
    <2> QED BY <2>1
  <1>2. ASSUME NEW k \in Nat, k \in T PROVE k + 1 \in T
    <2>1. PICK g : g = [i \in 0..k |-> Step(g, i)]
      BY <1>2
    <2> DEFINE h == [i \in 0..(k + 1) |-> IF i = k + 1 THEN Step(g, k + 1) ELSE g[i]]
    <2>2. \A i \in 0..(k + 1) : h[i] = Step(h, i)
      <3> TAKE i \in 0..(k + 1)
      <3>1. CASE i = k + 1
        <4>1. h[i] = Step(g, k + 1) /\ h[i - 1] = g[i - 1] /\ i # 0
          BY <3>1
        <4> QED BY <3>1, <4>1 DEF LeaveStep
      <3>2. CASE i # k + 1
        <4>1. i \in 0..k /\ (i # 0 => i - 1 \in 0..k)
          BY <3>2
        <4>2. h[i] = g[i] /\ (i # 0 => h[i - 1] = g[i - 1])
          BY <4>1
        <4>3. g[i] = Step(g, i)
          BY <4>1, <2>1, Zenon
        <4> QED BY <4>2, <4>3 DEF LeaveStep
      <3> QED BY <3>1, <3>2
    <2>3. h = [i \in 0..(k + 1) |-> Step(h, i)]
      BY <2>2
    <2>4. \E f : f = [i \in 0..(k + 1) |-> Step(f, i)]
      <3> HIDE DEF h
      <3> QED BY <2>3, Zenon
    <2>5. k + 1 \in Nat
      OBVIOUS
    <2> QED BY <2>4, <2>5, Zenon
  <1> HIDE DEF T
  <1>3. Slots \in T
    BY <1>1, <1>2, SlotNumbers, NatSetInduction
  <1>4. \E f : IsLeaving(f, m, gone)
    BY <1>3 DEF T, IsLeaving
  <1> DEFINE F == CHOOSE f : f = [s \in 0..Slots |->
                    IF s = 0 THEN m
                    ELSE IF m.slots[s] \in gone THEN DeactivateAdapter(f[s - 1], m.slots[s])
                    ELSE f[s - 1]]
  <1>5. IsLeaving(F, m, gone)
    BY <1>4 DEF IsLeaving, LeaveStep
  <1>6. Leaving(m, gone) = F[Slots]
    BY DEF Leaving
  <1> HIDE DEF F
  <1> QED
    BY <1>5, <1>6

LEMMA LeavingKeeps ==
    ASSUME NEW m, MgrOK(m), NEW gone, gone \cap m.pinned = {}, NoAdapter \notin gone,
           NEW n, n = Leaving(m, gone)
    PROVE  /\ MgrOK(n) /\ n.version = m.version /\ n.err = m.err /\ n.pinned = m.pinned
           /\ Residents(n) \subseteq Residents(m) \ gone
  <1>1. PICK f : IsLeaving(f, m, gone) /\ f[Slots] = Leaving(m, gone)
    BY LeavingExists
  <1>2. f = [s \in 0..Slots |-> IF s = 0 THEN m ELSE LeaveStep(f, m, gone, s)]
    BY <1>1 DEF IsLeaving
  <1> DEFINE Fine(k) == /\ MgrOK(f[k]) /\ f[k].version = m.version /\ f[k].err = m.err
                        /\ f[k].pinned = m.pinned
                        /\ \A s \in Slot : f[k].slots[s] = m.slots[s] \/ f[k].slots[s] = NoAdapter
                        /\ \A s \in Slot : s <= k => f[k].slots[s] \notin gone
             T == {k \in Nat : k \in 0..Slots => Fine(k)}
  <1>3. 0 \in T
    <2>1. 0 \in 0..Slots
      BY SlotNumbers
    <2>2. f[0] = IF 0 = 0 THEN m ELSE LeaveStep(f, m, gone, 0)
      BY <1>2, <2>1, Zenon
    <2>3. \A s \in Slot : ~(s <= 0)
      BY SlotNumbers DEF Slot
    <2> QED BY <2>2, <2>3
  <1>4. ASSUME NEW k \in Nat, k \in T PROVE k + 1 \in T
    <2>1. SUFFICES ASSUME k + 1 \in 0..Slots PROVE Fine(k + 1)
      OBVIOUS
    <2>2. k \in 0..Slots /\ k + 1 \in Slot /\ k + 1 # 0 /\ (k + 1) - 1 = k
      BY <2>1, SlotNumbers DEF Slot
    <2>3. Fine(k)
      BY <1>4, <2>2
    <2>4. f[k + 1] = IF k + 1 = 0 THEN m ELSE LeaveStep(f, m, gone, k + 1)
      BY <1>2, <2>1, Zenon
    <2> DEFINE id == m.slots[k + 1]
               d == DeactivateAdapter(f[k], id)
    <2>5. f[k + 1] = IF id \in gone THEN d ELSE f[k]
      BY <2>2, <2>4 DEF LeaveStep
    <2>6. CASE id \in gone
      <3>1. id \in Adapter /\ id \notin f[k].pinned
        BY <2>2, <2>3, <2>6 DEF MgrOK, MgrTypes
      <3>2. /\ MgrOK(d) /\ d.version = f[k].version /\ d.err = f[k].err /\ d.pinned = f[k].pinned
            /\ \A s \in Slot : d.slots[s] = IF f[k].slots[s] = id THEN NoAdapter ELSE f[k].slots[s]
        <4> HIDE DEF id
        <4> QED BY <2>3, <3>1, DeactivateKeeps
      <3>3. \A s \in Slot : d.slots[s] = m.slots[s] \/ d.slots[s] = NoAdapter
        BY <2>3, <3>2
      <3>4. \A s \in Slot : s <= k + 1 => s <= k \/ s = k + 1
        BY SlotNumbers
      <3>5. d.slots[k + 1] \notin gone
        BY <2>2, <2>3, <3>2
      <3>6. \A s \in Slot : s <= k + 1 => d.slots[s] \notin gone
        BY <2>3, <3>2, <3>4, <3>5
      <3> HIDE DEF d, id
      <3> QED BY <2>3, <2>5, <2>6, <3>2, <3>3, <3>6
    <2>7. CASE id \notin gone
      <3>1. \A s \in Slot : s <= k + 1 => s <= k \/ s = k + 1
        BY SlotNumbers
      <3>2. f[k].slots[k + 1] \notin gone
        BY <2>2, <2>3, <2>7
      <3> QED BY <2>3, <2>5, <2>7, <3>1, <3>2
    <2> QED BY <2>6, <2>7
  <1>5. Slots \in T
    <2> HIDE DEF T
    <2> QED BY <1>3, <1>4, SlotNumbers, NatSetInduction
  <1>6. Fine(Slots) /\ n = f[Slots]
    BY <1>1, <1>5, SlotNumbers
  <1>7. Residents(n) \subseteq Residents(m) \ gone
    <2>1. /\ MgrTypes(n) /\ MgrTypes(m)
          /\ \A s \in Slot : n.slots[s] = m.slots[s] \/ n.slots[s] = NoAdapter
          /\ \A s \in Slot : n.slots[s] \notin gone
      <3>1. \A s \in Slot : s <= Slots
        BY SlotNumbers DEF Slot
      <3> QED BY <1>6, <3>1 DEF MgrOK
    <2>2. \A id : id \in Residents(m) <=> id # NoAdapter /\ \E s \in Slot : m.slots[s] = id
      BY ONLY <2>1, ResidentsAre
    <2>3. \A id : id \in Residents(n) <=> id # NoAdapter /\ \E s \in Slot : n.slots[s] = id
      BY ONLY <2>1, ResidentsAre
    <2> QED BY <2>1, <2>2, <2>3
  <1> QED
    BY <1>6, <1>7

(* add_adapter of the worker *)
LEMMA WorkerAddKeeps ==
    ASSUME NEW m, MgrOK(m), m.err = "none", NEW id \in Adapter, NEW inplace,
           NEW n, n = WorkerAdd(m, id, inplace)
    PROVE  MgrOK(n) /\ (n.err = "malformed" => Untouched(m, n))
  <1>1. PICK weights : weights = disk[id]
    OBVIOUS
  <1>2. n = IF id \notin Elems(m.reg) THEN AddAndActivate(m, id, weights)
            ELSE IF inplace THEN ReplaceAdapter(m, id, weights)
            ELSE ActivateAdapter(m, id)
    BY <1>1 DEF WorkerAdd
  <1>3. CASE id \notin Elems(m.reg)
    <2>1. n = AddAndActivate(m, id, weights)
      BY <1>2, <1>3
    <2> QED BY <1>3, <2>1, AddAndActivateKeeps
  <1>4. CASE id \in Elems(m.reg) /\ inplace
    <2>1. n = ReplaceAdapter(m, id, weights)
      BY <1>2, <1>4
    <2> QED BY <1>4, <2>1, ReplaceKeeps
  <1>5. CASE id \in Elems(m.reg) /\ ~inplace
    <2>1. n = ActivateAdapter(m, id)
      BY <1>2, <1>5
    <2> QED BY <2>1, ActivateKeeps
  <1> QED
    BY <1>3, <1>4, <1>5

(* _apply, from the smallest identifier to the largest. *)
ComeStep(f, requested, id) ==
    IF id \in requested /\ f[id - 1].err = "none"
    THEN WorkerAdd(f[id - 1], id, requests[id] = "inplace")
    ELSE f[id - 1]

IsComing(f, m, requested) ==
    f = [id \in 0..MaxId |-> IF id = 0 THEN Parted(m, requested) ELSE ComeStep(f, requested, id)]

LEMMA ComingExists ==
    ASSUME NEW m, NEW requested
    PROVE  \E f : IsComing(f, m, requested) /\ f[MaxId] = Apply(m, requested)
  <1> DEFINE Step(f, i) == IF i = 0 THEN Parted(m, requested) ELSE ComeStep(f, requested, i)
             T == {k \in Nat : \E f : f = [i \in 0..k |-> Step(f, i)]}
  <1>1. 0 \in T
    <2> DEFINE g == [i \in 0..0 |-> Parted(m, requested)]
    <2>1. g = [i \in 0..0 |-> Step(g, i)]
      OBVIOUS
    <2> QED BY <2>1
  <1>2. ASSUME NEW k \in Nat, k \in T PROVE k + 1 \in T
    <2>1. PICK g : g = [i \in 0..k |-> Step(g, i)]
      BY <1>2
    <2> DEFINE h == [i \in 0..(k + 1) |-> IF i = k + 1 THEN Step(g, k + 1) ELSE g[i]]
    <2>2. \A i \in 0..(k + 1) : h[i] = Step(h, i)
      <3> TAKE i \in 0..(k + 1)
      <3>1. CASE i = k + 1
        <4>1. h[i] = Step(g, k + 1) /\ h[i - 1] = g[i - 1] /\ i # 0
          BY <3>1
        <4> QED BY <3>1, <4>1 DEF ComeStep
      <3>2. CASE i # k + 1
        <4>1. i \in 0..k /\ (i # 0 => i - 1 \in 0..k)
          BY <3>2
        <4>2. h[i] = g[i] /\ (i # 0 => h[i - 1] = g[i - 1])
          BY <4>1
        <4>3. g[i] = Step(g, i)
          BY <4>1, <2>1, Zenon
        <4> QED BY <4>2, <4>3 DEF ComeStep
      <3> QED BY <3>1, <3>2
    <2>3. h = [i \in 0..(k + 1) |-> Step(h, i)]
      BY <2>2
    <2>4. \E f : f = [i \in 0..(k + 1) |-> Step(f, i)]
      <3> HIDE DEF h
      <3> QED BY <2>3, Zenon
    <2>5. k + 1 \in Nat
      OBVIOUS
    <2> QED BY <2>4, <2>5, Zenon
  <1> HIDE DEF T
  <1>3. MaxId \in T
    BY <1>1, <1>2, SlotNumbers, NatSetInduction
  <1>4. \E f : IsComing(f, m, requested)
    BY <1>3 DEF T, IsComing
  <1> DEFINE F == CHOOSE f : f = [id \in 0..MaxId |->
                    IF id = 0 THEN Parted(m, requested)
                    ELSE IF id \in requested /\ f[id - 1].err = "none"
                    THEN WorkerAdd(f[id - 1], id, requests[id] = "inplace")
                    ELSE f[id - 1]]
  <1>5. IsComing(F, m, requested)
    BY <1>4 DEF IsComing, ComeStep
  <1>6. Apply(m, requested) = F[MaxId]
    BY DEF Apply
  <1> HIDE DEF F
  <1> QED
    BY <1>5, <1>6

LEMMA ApplyKeeps ==
    ASSUME NEW m, MgrOK(m), m.err = "none", NEW requested, requested \subseteq Adapter,
           NEW n, n = Apply(m, requested)
    PROVE  MgrOK(n)
  <1>1. PICK f : IsComing(f, m, requested) /\ f[MaxId] = Apply(m, requested)
    BY ComingExists
  <1>2. f = [id \in 0..MaxId |-> IF id = 0 THEN Parted(m, requested)
                                 ELSE ComeStep(f, requested, id)]
    BY <1>1 DEF IsComing
  <1> DEFINE T == {k \in Nat : k \in 0..MaxId => MgrOK(f[k])}
  <1>3. 0 \in T
    <2>1. 0 \in 0..MaxId
      BY SlotNumbers
    <2>2. f[0] = IF 0 = 0 THEN Parted(m, requested) ELSE ComeStep(f, requested, 0)
      BY <1>2, <2>1, Zenon
    <2>3. PICK gone : gone = Adapter \ (requested \cup m.pinned)
      OBVIOUS
    <2>4. gone \cap m.pinned = {} /\ NoAdapter \notin gone
      BY <2>3, SlotNumbers
    <2>5. f[0] = Leaving(m, gone)
      BY <2>2, <2>3 DEF Parted
    <2>6. MgrOK(f[0])
      BY <2>4, <2>5, LeavingKeeps
    <2> QED BY <2>6
  <1>4. ASSUME NEW k \in Nat, k \in T PROVE k + 1 \in T
    <2>1. SUFFICES ASSUME k + 1 \in 0..MaxId PROVE MgrOK(f[k + 1])
      OBVIOUS
    <2>2. k \in 0..MaxId /\ k + 1 # 0 /\ (k + 1) - 1 = k
      BY <2>1, SlotNumbers
    <2>3. MgrOK(f[k])
      BY <1>4, <2>2
    <2>4. f[k + 1] = IF k + 1 = 0 THEN Parted(m, requested) ELSE ComeStep(f, requested, k + 1)
      BY <1>2, <2>1, Zenon
    <2>5. PICK id : id = k + 1
      OBVIOUS
    <2>6. f[k + 1] = IF id \in requested /\ f[k].err = "none"
                     THEN WorkerAdd(f[k], id, requests[id] = "inplace") ELSE f[k]
      BY <2>2, <2>4, <2>5 DEF ComeStep
    <2>7. CASE id \in requested /\ f[k].err = "none"
      <3>1. PICK inplace : inplace = (requests[id] = "inplace")
        OBVIOUS
      <3>2. f[k + 1] = WorkerAdd(f[k], id, inplace) /\ id \in Adapter
        BY <2>6, <2>7, <3>1
      <3> QED BY <2>3, <2>7, <3>2, WorkerAddKeeps
    <2>8. CASE ~(id \in requested /\ f[k].err = "none")
      BY <2>3, <2>6, <2>8
    <2> QED BY <2>7, <2>8
  <1>5. MaxId \in T
    <2> HIDE DEF T
    <2> QED BY <1>3, <1>4, SlotNumbers, NatSetInduction
  <1> QED
    BY <1>1, <1>5, SlotNumbers

(* set_adapter_mapping: a mapping is published with the slots of its       *)
(* adapters, and the one that counts as published has true routes.         *)
LEMMA MappingKeeps ==
    ASSUME NEW m, MgrOK(m), m.err = "none", NEW mapping,
           \A i \in DOMAIN mapping : mapping[i] \in Adapter \cup {NoAdapter},
           NEW n, n = SetAdapterMapping(m, mapping)
    PROVE  MgrOK(n) /\ (n.err = "none" => n.published.mapping = mapping)
  <1> DEFINE lost == \E i \in DOMAIN mapping : mapping[i] # NoAdapter /\ SlotFor(m, mapping[i]) = NoSlot
  <1>1. n = IF mapping = m.published.mapping THEN m
            ELSE IF lost THEN Fails(m, "not active")
            ELSE [m EXCEPT !.published = [mapping |-> mapping, routes |-> Routes(m, mapping)]]
    BY DEF SetAdapterMapping
  <1>2. CASE mapping = m.published.mapping
    BY <1>1, <1>2
  <1>3. CASE mapping # m.published.mapping /\ lost
    <2>1. PICK error : error = "not active"
      OBVIOUS
    <2>2. n = Fails(m, error)
      BY <1>1, <1>3, <2>1
    <2>3. MgrOK(n) /\ n.err = error
      BY <2>2, FailsKeeps
    <2> QED BY <2>1, <2>3
  <1>4. CASE mapping # m.published.mapping /\ ~lost
    <2>1. PICK new : new = [mapping |-> mapping, routes |-> Routes(m, mapping)]
      OBVIOUS
    <2>2. n = [m EXCEPT !.published = new]
      BY <1>1, <1>4, <2>1
    <2>3. DOMAIN m = Fields
      BY DEF MgrOK, MgrTypes
    <2>4. /\ DOMAIN n = Fields /\ n.reg = m.reg /\ n.regPins = m.regPins
          /\ n.act = m.act /\ n.actPins = m.actPins /\ n.pinned = m.pinned
          /\ n.version = m.version /\ n.slots = m.slots /\ n.weights = m.weights
          /\ n.published = new /\ n.err = m.err
      BY <2>2, <2>3 DEF Fields
    <2>5. MgrTypes(n)
      BY <2>4 DEF MgrOK, MgrTypes
    <2>6. Tables(n)
      <3>1. Tables(m)
        BY DEF MgrOK
      <3>2. OneSlot(n) /\ Residents(n) = Residents(m) /\ WeightsTrue(n)
        BY <2>4, <3>1 DEF Tables, OneSlot, Residents, WeightsTrue
      <3> QED BY <2>4, <3>1, <3>2 DEF Tables
    <2>7. new.mapping = mapping /\ DOMAIN new.routes = DOMAIN mapping
      BY <2>1 DEF Routes
    <2>8. ASSUME NEW i \in DOMAIN mapping
          PROVE  IF mapping[i] = NoAdapter THEN new.routes[i] = NoSlot
                 ELSE new.routes[i] \in Slot /\ m.slots[new.routes[i]] = mapping[i]
      <3>1. new.routes[i] = IF mapping[i] = NoAdapter THEN NoSlot ELSE SlotFor(m, mapping[i])
        BY <2>1 DEF Routes
      <3>2. CASE mapping[i] = NoAdapter
        BY <3>1, <3>2
      <3>3. CASE mapping[i] # NoAdapter
        <4>1. PICK id \in Adapter : id = mapping[i]
          BY <3>3
        <4>2. SlotFor(m, id) # NoSlot
          BY <1>4, <3>3, <4>1
        <4>3. SlotFor(m, id) \in Slot /\ m.slots[SlotFor(m, id)] = id
          BY <4>2, SlotForFacts DEF MgrOK
        <4> QED BY <3>1, <3>3, <4>1, <4>3
      <3> QED BY <3>2, <3>3
    <2>9. RoutesTrue(n)
      BY <2>4, <2>7, <2>8 DEF RoutesTrue
    <2> QED BY <2>4, <2>5, <2>6, <2>7, <2>9 DEF MgrOK
  <1> QED
    BY <1>2, <1>3, <1>4

(* What a row reads of the slot that it is routed to.                      *)
LEMMA RoutedWeights ==
    ASSUME NEW m, MgrOK(m), NEW i \in DOMAIN m.published.mapping
    PROVE  Weights(m, m.published.routes[i]) =
             IF m.published.mapping[i] = NoAdapter THEN Unread
             ELSE m.version[m.published.mapping[i]]
  <1>1. PICK id : id = m.published.mapping[i]
    OBVIOUS
  <1>2. PICK slot : slot = m.published.routes[i]
    OBVIOUS
  <1>3. IF id = NoAdapter THEN slot = NoSlot ELSE slot \in Slot /\ m.slots[slot] = id
    BY <1>1, <1>2 DEF MgrOK, RoutesTrue
  <1>4. \A s \in Slot : m.weights[s] = IF m.slots[s] = NoAdapter THEN Unread
                                       ELSE m.version[m.slots[s]]
    BY DEF MgrOK, Tables, WeightsTrue
  <1> QED
    BY <1>1, <1>2, <1>3, <1>4, SlotNumbers DEF Weights

(* set_encoder_adapter: the rows are routed to the adapter's slot.         *)
LEMMA EncoderKeeps ==
    ASSUME NEW m, MgrOK(m), m.err = "none", NEW id \in Adapter, NEW n, n = WorkerEncoder(m, id)
    PROVE  /\ MgrOK(n)
           /\ n.err = "none" => Weights(n, n.enc) = n.version[id]
  <1> DEFINE active == ActivateAdapter(m, id)
  <1>1. active = ActivateAdapter(m, id)
    OBVIOUS
  <1>2. n = IF active.err # "none" THEN active ELSE [active EXCEPT !.enc = SlotFor(active, id)]
    BY DEF WorkerEncoder
  <1> HIDE DEF active
  <1>3. MgrOK(active) /\ (active.err = "none" => id \in Residents(active))
    BY <1>1, ActivateKeeps
  <1>4. CASE active.err # "none"
    BY <1>2, <1>3, <1>4
  <1>5. CASE active.err = "none"
    <2>1. PICK slot : slot = SlotFor(active, id)
      OBVIOUS
    <2>2. slot \in Slot /\ active.slots[slot] = id /\ slot # NoSlot
      BY <1>3, <1>5, <2>1, SlotForFacts DEF MgrOK
    <2>3. n = [active EXCEPT !.enc = slot] /\ DOMAIN active = Fields
      BY <1>2, <1>3, <1>5, <2>1 DEF MgrOK, MgrTypes
    <2>4. /\ DOMAIN n = Fields /\ n.reg = active.reg /\ n.regPins = active.regPins
          /\ n.act = active.act /\ n.actPins = active.actPins /\ n.pinned = active.pinned
          /\ n.version = active.version /\ n.slots = active.slots
          /\ n.weights = active.weights /\ n.published = active.published /\ n.enc = slot
      BY <2>3 DEF Fields
    <2>5. MgrOK(n)
      BY ONLY <1>3, <2>4, SameTables
    <2>6. n.weights[slot] = n.version[id]
      <3>1. n.slots[slot] = id /\ id # NoAdapter
        BY <2>2, <2>4, SlotNumbers
      <3> QED BY <2>2, <2>5, <3>1 DEF MgrOK, Tables, WeightsTrue
    <2> QED BY <2>2, <2>4, <2>5, <2>6 DEF Weights
  <1> QED
    BY <1>4, <1>5

(* The caller has caught the exception, and the encoder's route is gone.   *)
LEMMA SettledKeeps ==
    ASSUME NEW m, MgrOK(m), NEW n,
           n = Settled(m) \/ n = [m EXCEPT !.enc = NoSlot, !.err = "none"]
    PROVE  /\ MgrOK(n) /\ n.err = "none" /\ Untouched(m, n)
           /\ n.published = m.published
  <1>1. DOMAIN m = Fields
    BY DEF MgrOK, MgrTypes
  <1>2. /\ DOMAIN n = Fields /\ n.err = "none"
        /\ n.reg = m.reg /\ n.regPins = m.regPins /\ n.act = m.act /\ n.actPins = m.actPins
        /\ n.pinned = m.pinned /\ n.version = m.version /\ n.slots = m.slots
        /\ n.weights = m.weights /\ n.published = m.published
    BY <1>1 DEF Settled, Fields
  <1>3. MgrOK(n)
    BY ONLY <1>2, MgrOK(m), SameTables
  <1> QED
    BY <1>2, <1>3 DEF Untouched

-----------------------------------------------------------------------------
(* A batch that fits. *)

(* Fewer residents than slots leave one free, and the lowest is taken.     *)
LEMMA FreeSlot ==
    ASSUME NEW m, MgrOK(m), NEW K, IsFiniteSet(K), Residents(m) \subseteq K,
           Cardinality(K) < Slots
    PROVE  NextSlot(m) \in Slot /\ m.slots[NextSlot(m)] = NoAdapter
  <1> DEFINE free == {s \in Slot : m.slots[s] = NoAdapter}
  <1>1. free # {}
    <2>1. SUFFICES ASSUME \A s \in Slot : m.slots[s] # NoAdapter PROVE FALSE
      OBVIOUS
    <2>2. MgrTypes(m) /\ OneSlot(m) /\ m.slots \in [Slot -> Adapter \cup {NoAdapter}]
      BY DEF MgrOK, Tables, MgrTypes
    <2>3. \A s \in Slot : m.slots[s] \in K
      BY <2>1, <2>2, ResidentsAre
    <2>4. m.slots \in [Slot -> K]
      BY <2>2, <2>3
    <2>5. IsFiniteSet(Slot) /\ Cardinality(Slot) = Slots
      BY FS_Interval, SlotNumbers, LoRAAssumption DEF Slot
    <2>6. PICK f : f = m.slots
      OBVIOUS
    <2>7. f \in [Slot -> K] /\ Cardinality(K) < Cardinality(Slot)
      BY <2>4, <2>5, <2>6
    <2>8. \E x, y \in Slot : x # y /\ f[x] = f[y]
      BY ONLY <2>5, <2>7, IsFiniteSet(K), FS_PigeonHole
    <2> QED BY <2>1, <2>2, <2>6, <2>8 DEF OneSlot
  <1>2. NextSlot(m) = CHOOSE s \in free : \A t \in free : s <= t
    BY <1>1 DEF NextSlot
  <1>3. \E s \in free : \A t \in free : s <= t
    <2>1. free \subseteq Nat
      BY SlotNumbers
    <2> HIDE DEF free
    <2> QED BY <1>1, <2>1, LeastNat
  <1>4. NextSlot(m) \in free
    <2> HIDE DEF free
    <2> QED BY <1>2, <1>3
  <1> QED
    BY <1>4

(* A cache without duplicates has no more entries than there are elements  *)
(* to have.                                                                *)
LEMMA EntriesFit ==
    ASSUME NEW lru \in Seq(Adapter), Distinct(lru), NEW K, IsFiniteSet(K), Elems(lru) \subseteq K
    PROVE  Len(lru) <= Cardinality(K)
  <1> DEFINE I == 1..Len(lru)
  <1>1. IsFiniteSet(I) /\ Cardinality(I) = Len(lru) /\ Len(lru) \in Nat /\ DOMAIN lru = I
    BY FS_Interval
  <1>2. Cardinality(K) \in Nat
    BY FS_CardinalityType
  <1>3. ASSUME Cardinality(K) < Len(lru) PROVE FALSE
    <2>1. lru \in [I -> K]
      BY <1>1 DEF Elems
    <2> HIDE DEF I
    <2>2. \E x, y \in I : x # y /\ lru[x] = lru[y]
      BY ONLY <1>1, <1>3, <2>1, IsFiniteSet(K), FS_PigeonHole
    <2> QED BY <1>1, <2>2 DEF Distinct
  <1> QED
    BY <1>1, <1>2, <1>3

(* Behind an entry of K that may be dropped there are only entries of K.   *)
Young(lru, K, pinned) ==
    \A i, j \in DOMAIN lru : i < j /\ lru[i] \in K /\ lru[i] \notin pinned => lru[j] \in K

LEMMA YoungWithout ==
    ASSUME NEW lru \in Seq(Adapter), NEW K, NEW pinned, Young(lru, K, pinned), NEW X
    PROVE  Young(Without(lru, X), K, pinned)
  <1>1. PICK I : I = {i \in DOMAIN lru : lru[i] \notin X}
    OBVIOUS
  <1>2. PICK p : p = Part(lru, I)
    OBVIOUS
  <1>3. PICK h : Embeds(h, p, lru, I)
    BY <1>2, PartEmbeds
  <1>4. Without(lru, X) = p
    BY <1>1, <1>2 DEF Without
  <1>5. Young(p, K, pinned)
    BY <1>3 DEF Embeds, Young
  <1> QED
    BY <1>4, <1>5

LEMMA YoungAppend ==
    ASSUME NEW lru \in Seq(Adapter), NEW K, NEW pinned, Young(lru, K, pinned),
           NEW id \in Adapter, id \notin Elems(lru)
    PROVE  Young(Append(lru, id), K \cup {id}, pinned)
  <1> DEFINE t == Append(lru, id)
  <1>1. /\ DOMAIN t = 1..(Len(lru) + 1) /\ t[Len(lru) + 1] = id /\ Len(lru) \in Nat
        /\ DOMAIN lru = 1..Len(lru)
        /\ \A i \in DOMAIN lru : t[i] = lru[i]
    OBVIOUS
  <1> HIDE DEF t
  <1>2. ASSUME NEW i \in DOMAIN t, NEW j \in DOMAIN t, i < j,
               t[i] \in K \cup {id}, t[i] \notin pinned
        PROVE  t[j] \in K \cup {id}
    <2>1. i \in DOMAIN lru /\ (j \in DOMAIN lru \/ j = Len(lru) + 1)
      BY <1>1, <1>2
    <2>2. CASE j = Len(lru) + 1
      BY <1>1, <2>2
    <2>3. CASE j \in DOMAIN lru
      <3>1. t[i] = lru[i] /\ t[j] = lru[j] /\ lru[i] # id
        BY <1>1, <2>1, <2>3 DEF Elems
      <3> QED BY <1>2, <2>1, <2>3, <3>1 DEF Young
    <2> QED BY <2>1, <2>2, <2>3
  <1> QED
    BY <1>2 DEF Young, t

LEMMA YoungUse ==
    ASSUME NEW lru \in Seq(Adapter), NEW K, NEW pinned, Young(lru, K, pinned), NEW id \in Adapter
    PROVE  Young(ToEnd(lru, id), K \cup {id}, pinned)
  <1>1. PICK rest : rest = Drop(lru, id)
    OBVIOUS
  <1>2. rest \in Seq(Adapter) /\ id \notin Elems(rest)
    BY <1>1, LruFacts
  <1>3. Young(rest, K, pinned)
    BY <1>1, YoungWithout DEF Drop
  <1>4. ToEnd(lru, id) = Append(rest, id)
    BY <1>1 DEF ToEnd
  <1> QED
    BY <1>2, <1>3, <1>4, YoungAppend

(* A full registry then finds somebody outside of K to drop.               *)
LEMMA RoomFound ==
    ASSUME NEW m, MgrOK(m), NEW K, IsFiniteSet(K), m.pinned \subseteq K,
           Cardinality(K) < Slots, Young(m.reg, K, m.pinned), Len(m.reg) >= Capacity
    PROVE  LET loose == Without(m.reg, m.regPins) IN
           loose # <<>> /\ Head(loose) \in Adapter /\ Head(loose) \notin K
  <1>1. PICK loose : loose = Without(m.reg, m.regPins)
    OBVIOUS
  <1>2. m.reg \in Seq(Adapter) /\ Distinct(m.reg) /\ m.pinned = m.regPins
    BY DEF MgrOK, MgrTypes, Tables
  <1>3. PICK I : I = {i \in DOMAIN m.reg : m.reg[i] \notin m.regPins}
    OBVIOUS
  <1>4. loose = Part(m.reg, I)
    BY <1>1, <1>3 DEF Without
  <1>5. loose \in Seq(Adapter)
    BY <1>2, <1>4, PartEmbeds
  <1>6. PICK h : Embeds(h, loose, m.reg, I)
    BY <1>2, <1>4, PartEmbeds
  <1>7. ~(Elems(m.reg) \subseteq K)
    <2>1. Cardinality(K) \in Nat /\ Len(m.reg) \in Nat
      BY <1>2, FS_CardinalityType
    <2>2. Elems(m.reg) \subseteq K => Len(m.reg) <= Cardinality(K)
      BY <1>2, EntriesFit
    <2> QED BY <2>1, <2>2, LoRAAssumption
  <1>8. PICK i \in DOMAIN m.reg : m.reg[i] \notin K
    BY <1>7 DEF Elems
  <1>9. i \in I
    BY <1>2, <1>3, <1>8
  <1>10. PICK k \in DOMAIN loose : h[k] = i
    BY <1>6, <1>8, <1>9 DEF Embeds
  <1>11. /\ 1 \in DOMAIN loose /\ k \in Nat /\ (k = 1 \/ 1 < k) /\ loose # <<>>
         /\ Head(loose) = loose[1] /\ loose[1] \in Adapter
    BY <1>5, <1>10
  <1>12. loose[1] \notin K
    <2>1. SUFFICES ASSUME loose[1] \in K PROVE FALSE
      OBVIOUS
    <2>2. /\ h[1] \in DOMAIN m.reg /\ h[1] \in I /\ loose[1] = m.reg[h[1]]
          /\ 1 < k => h[1] < h[k]
      BY <1>6, <1>10, <1>11 DEF Embeds
    <2>3. m.reg[h[1]] \notin m.pinned
      BY <1>2, <1>3, <2>2
    <2>4. CASE k = 1
      BY <1>8, <1>10, <2>1, <2>2, <2>4
    <2>5. CASE 1 < k
      BY <1>8, <1>10, <2>1, <2>2, <2>3, <2>5 DEF Young
    <2> QED BY <1>11, <2>4, <2>5
  <1> QED
    BY <1>1, <1>11, <1>12

(* Half way through a batch: those of K, which came or are pinned, are in  *)
(* their slots, and everybody in a slot is pinned or belongs to the batch. *)
Serving(m, K, all, pinned) ==
    /\ MgrOK(m) /\ m.err = "none" /\ m.pinned = pinned
    /\ pinned \subseteq K /\ K \subseteq Residents(m) /\ Residents(m) \subseteq all
    /\ Young(m.reg, K, pinned)

Fits(all) == IsFiniteSet(all) /\ Cardinality(all) <= Slots

(* Somebody of the batch who is in no slot can be activated.               *)
LEMMA FreeForOne ==
    ASSUME NEW m, MgrOK(m), NEW all, Fits(all), Residents(m) \subseteq all,
           NEW id \in all, id \notin Residents(m)
    PROVE  /\ NextSlot(m) # NoSlot /\ m.slots[NextSlot(m)] = NoAdapter
           /\ IsFiniteSet(all \ {id}) /\ Cardinality(all \ {id}) < Slots
  <1>1. /\ IsFiniteSet(all \ {id}) /\ Cardinality(all \ {id}) = Cardinality(all) - 1
        /\ Cardinality(all) \in Nat
    BY FS_RemoveElement, FS_CardinalityType DEF Fits
  <1>2. Cardinality(all \ {id}) < Slots
    BY <1>1, SlotNumbers DEF Fits
  <1>3. PICK K : K = all \ {id}
    OBVIOUS
  <1>4. Residents(m) \subseteq K /\ IsFiniteSet(K) /\ Cardinality(K) < Slots
    BY <1>1, <1>2, <1>3
  <1>5. NextSlot(m) \in Slot /\ m.slots[NextSlot(m)] = NoAdapter
    BY <1>4, FreeSlot
  <1> QED
    BY <1>1, <1>2, <1>5, SlotNumbers

(* activate_adapter of somebody who is registered *)
LEMMA ActivateServes ==
    ASSUME NEW m, MgrOK(m), m.err = "none", NEW all, Fits(all), Residents(m) \subseteq all,
           NEW id \in Adapter, id \in all, id \in Elems(m.reg), NEW n, n = ActivateAdapter(m, id)
    PROVE  /\ MgrOK(n) /\ n.err = "none" /\ n.pinned = m.pinned /\ n.reg = ToEnd(m.reg, id)
           /\ Residents(n) = Residents(m) \cup {id}
  <1>1. PICK t : t = [m EXCEPT !.reg = ToEnd(@, id)]
    OBVIOUS
  <1>2. /\ MgrOK(t) /\ t.err = m.err /\ t.pinned = m.pinned /\ t.reg = ToEnd(m.reg, id)
        /\ Elems(t.reg) = Elems(m.reg) /\ t.slots = m.slots /\ t.act = m.act
    BY <1>1, UseRegKeeps
  <1>3. t.actPins = m.actPins
    BY <1>1 DEF MgrOK, MgrTypes, Fields
  <1>4. /\ NextSlot(t) = NextSlot(m) /\ SlotFor(t, id) = SlotFor(m, id)
        /\ Residents(t) = Residents(m)
    BY <1>2, <1>3 DEF NextSlot, SlotFor, Residents
  <1>5. n = IF SlotFor(m, id) # NoSlot THEN [t EXCEPT !.act = ToEnd(@, id)]
            ELSE IF NextSlot(m) = NoSlot THEN Fails(t, "all slots pinned")
            ELSE ActivatePrepared(t, id)
    BY <1>1 DEF ActivateAdapter
  <1>6. (SlotFor(t, id) # NoSlot <=> id \in Residents(t)) /\ Elems(t.act) = Residents(t)
    BY <1>2, SlotForFacts DEF MgrOK, Tables
  <1>7. CASE id \in Residents(m)
    <2>1. n = [t EXCEPT !.act = ToEnd(@, id)] /\ id \in Elems(t.act)
      BY <1>4, <1>5, <1>6, <1>7
    <2>2. /\ MgrOK(n) /\ n.err = t.err /\ n.pinned = t.pinned
          /\ n.reg = t.reg /\ n.slots = t.slots
      BY <1>2, <2>1, UseActKeeps
    <2>3. Residents(n) = Residents(t)
      BY <2>2 DEF Residents
    <2> QED BY <1>2, <1>4, <1>7, <2>2, <2>3
  <1>8. CASE id \notin Residents(m)
    <2>1. NextSlot(m) # NoSlot /\ m.slots[NextSlot(m)] = NoAdapter
      BY <1>8, FreeForOne
    <2>2. n = ActivatePrepared(t, id) /\ id \notin Residents(t) /\ NextSlot(t) # NoSlot
          /\ id \in Elems(t.reg) /\ t.slots[NextSlot(t)] = NoAdapter
      BY <1>2, <1>4, <1>5, <1>6, <1>8, <2>1
    <2>3. /\ MgrOK(n) /\ n.err = t.err /\ n.pinned = t.pinned /\ n.reg = t.reg
          /\ Residents(n) = Residents(t) \cup {id}
      BY <1>2, <2>2, ActivatePreparedKeeps
    <2> QED BY <1>2, <1>4, <2>3
  <1> QED
    BY <1>7, <1>8

(* add_adapter of files that load: whoever has to make room is neither     *)
(* pinned nor one of those that came before.                               *)
LEMMA AddServes ==
    ASSUME NEW m, NEW K, NEW all, NEW pinned, Serving(m, K, all, pinned), Fits(all),
           NEW id \in Adapter, id \in all, id \notin Elems(m.reg),
           NEW weights, weights # Bad, NEW n, n = AddAdapter(m, id, weights)
    PROVE  /\ MgrOK(n) /\ n.err = "none" /\ n.pinned = pinned
           /\ K \subseteq Residents(n) /\ Residents(n) \subseteq all
           /\ id \in Elems(n.reg) /\ Young(n.reg, K \cup {id}, pinned)
  <1>1. PICK loose : loose = Without(m.reg, m.regPins)
    OBVIOUS
  <1>2. PICK old : old = Head(loose)
    OBVIOUS
  <1>3. PICK dropped : dropped = Dropped(m, old)
    OBVIOUS
  <1>4. PICK room : room = IF Len(m.reg) >= Capacity THEN dropped ELSE m
    OBVIOUS
  <1>5. n = IF Len(m.reg) >= Capacity /\ loose = <<>> THEN Fails(m, "all registered pinned")
            ELSE [room EXCEPT !.reg = Append(@, id), !.version[id] = weights]
    <2> DEFINE loose0 == Without(m.reg, m.regPins)
               old0 == Head(loose0)
               dropped0 == DeactivateAdapter([m EXCEPT !.reg = Drop(@, old0),
                                                       !.version[old0] = Unread], old0)
               room0 == IF Len(m.reg) >= Capacity THEN dropped0 ELSE m
    <2>1. n = IF weights = Bad THEN Fails(m, "malformed")
              ELSE IF Len(m.reg) >= Capacity /\ loose0 = <<>> THEN Fails(m, "all registered pinned")
              ELSE [room0 EXCEPT !.reg = Append(@, id), !.version[id] = weights]
      BY DEF AddAdapter
    <2>2. old0 = old /\ loose0 = loose
      BY <1>1, <1>2
    <2>3. dropped0 = Dropped(m, old0)
      BY DEF Dropped
    <2> HIDE DEF dropped0, old0, loose0
    <2>4. room0 = room
      BY <1>3, <1>4, <2>2, <2>3
    <2> HIDE DEF room0
    <2> QED BY <2>1, <2>2, <2>4
  <1>6. /\ MgrOK(m) /\ m.err = "none" /\ m.pinned = pinned /\ pinned \subseteq K
        /\ K \subseteq Residents(m) /\ Residents(m) \subseteq all /\ Young(m.reg, K, pinned)
        /\ m.reg \in Seq(Adapter) /\ Residents(m) \subseteq Elems(m.reg)
    BY DEF Serving, MgrOK, MgrTypes, Tables
  <1>7. /\ loose # <<>> \/ ~(Len(m.reg) >= Capacity)
        /\ MgrOK(room) /\ room.err = "none" /\ room.pinned = pinned
        /\ K \subseteq Residents(room) /\ Residents(room) \subseteq all
        /\ id \notin Elems(room.reg) /\ Young(room.reg, K, pinned)
    <2>1. CASE ~(Len(m.reg) >= Capacity)
      BY <1>4, <1>6, <2>1
    <2>2. CASE Len(m.reg) >= Capacity
      <3>1. IsFiniteSet(all \ {id}) /\ Cardinality(all \ {id}) < Slots
        BY <1>6, FreeForOne
      <3>2. K \subseteq all \ {id}
        BY <1>6
      <3>3. IsFiniteSet(K) /\ Cardinality(K) < Slots
        <4>1. IsFiniteSet(K) /\ Cardinality(K) <= Cardinality(all \ {id})
          BY <3>1, <3>2, FS_Subset
        <4>2. Cardinality(K) \in Nat /\ Cardinality(all \ {id}) \in Nat
          BY <3>1, <4>1, FS_CardinalityType
        <4> QED BY <3>1, <4>1, <4>2, SlotNumbers
      <3>4. loose # <<>> /\ old \in Adapter /\ old \notin K
        BY <1>1, <1>2, <1>6, <2>2, <3>3, RoomFound
      <3>5. /\ MgrOK(dropped) /\ dropped.err = m.err /\ dropped.pinned = m.pinned
            /\ dropped.reg = Drop(m.reg, old) /\ Elems(dropped.reg) = Elems(m.reg) \ {old}
            /\ Residents(dropped) = Residents(m) \ {old}
        <4>1. MgrOK(m) /\ old \in Adapter /\ old \notin m.pinned
          BY <1>6, <3>4
        <4> QED BY ONLY <1>3, <4>1, DropKeeps
      <3>6. Young(dropped.reg, K, pinned)
        BY <1>6, <3>5, YoungWithout DEF Drop
      <3>7. room = dropped
        BY <1>4, <2>2
      <3> QED BY <1>6, <3>4, <3>5, <3>6, <3>7
    <2> QED BY <2>1, <2>2
  <1>8. room.reg \in Seq(Adapter) /\ Distinct(room.reg) /\ Residents(room) \subseteq Elems(room.reg)
    BY <1>7 DEF MgrOK, MgrTypes, Tables
  <1>9. PICK reg : reg = Append(room.reg, id)
    OBVIOUS
  <1>10. reg \in Seq(Adapter) /\ Distinct(reg) /\ Elems(reg) = Elems(room.reg) \cup {id}
    BY <1>7, <1>8, <1>9, AppendElems
  <1>11. n = Register(room, id, reg, weights)
    <2>1. n = [room EXCEPT !.reg = Append(@, id), !.version[id] = weights]
      BY <1>5, <1>7
    <2> QED BY <1>9, <2>1 DEF Register
  <1>12. /\ MgrOK(n) /\ n.err = room.err /\ n.pinned = room.pinned /\ n.slots = room.slots
         /\ n.reg = reg
    <2>1. id \notin Residents(room) /\ Elems(room.reg) \subseteq Elems(reg)
      BY <1>7, <1>8, <1>10
    <2> QED BY <1>7, <1>10, <1>11, <2>1, RegisterKeeps
  <1>13. Residents(n) = Residents(room)
    BY <1>12 DEF Residents
  <1>14. Young(reg, K \cup {id}, pinned)
    BY <1>7, <1>8, <1>9, YoungAppend
  <1> QED
    BY <1>7, <1>10, <1>12, <1>13, <1>14

(* replace_adapter with files that load *)
LEMMA ReplaceServes ==
    ASSUME NEW m, MgrOK(m), m.err = "none", NEW all, Fits(all), Residents(m) \subseteq all,
           NEW id \in Adapter, id \in all, id \in Elems(m.reg),
           NEW weights, weights # Bad, NEW n, n = ReplaceAdapter(m, id, weights)
    PROVE  /\ MgrOK(n) /\ n.err = "none" /\ n.pinned = m.pinned /\ n.reg = ToEnd(m.reg, id)
           /\ Residents(n) = Residents(m) \cup {id}
  <1>1. MgrOK(n)
    BY ReplaceKeeps
  <1>2. PICK new : new = [m EXCEPT !.version[id] = weights, !.reg = ToEnd(@, id)]
    OBVIOUS
  <1>3. PICK slot : slot = SlotFor(m, id)
    OBVIOUS
  <1>4. n = IF slot # NoSlot THEN [CommitUpdate(new, id, slot) EXCEPT !.act = ToEnd(@, id)]
            ELSE IF NextSlot(m) = NoSlot THEN Fails(new, "all slots pinned")
            ELSE ActivatePrepared(new, id)
    BY <1>2, <1>3 DEF ReplaceAdapter
  <1>5. /\ DOMAIN m = Fields /\ MgrTypes(m) /\ OneSlot(m) /\ m.reg \in Seq(Adapter)
        /\ DOMAIN m.version = Adapter /\ m.slots \in [Slot -> Adapter \cup {NoAdapter}]
    BY DEF MgrOK, MgrTypes, Tables
  <1>6. /\ DOMAIN new = Fields /\ new.reg = ToEnd(m.reg, id) /\ new.act = m.act
        /\ new.actPins = m.actPins /\ new.pinned = m.pinned
        /\ new.slots = m.slots /\ new.err = m.err
    BY <1>2, <1>5 DEF Fields
  <1>7. /\ slot # NoSlot <=> id \in Residents(m)
        /\ slot # NoSlot => slot \in Slot /\ m.slots[slot] = id
    BY <1>3, <1>5, SlotForFacts
  <1>8. CASE id \in Residents(m)
    <2>1. n = [CommitUpdate(new, id, slot) EXCEPT !.act = ToEnd(@, id)]
      BY <1>4, <1>7, <1>8
    <2>2. /\ n.reg = new.reg /\ n.pinned = new.pinned /\ n.err = new.err
          /\ n.slots = [new.slots EXCEPT ![slot] = id]
      BY <1>6, <2>1 DEF CommitUpdate, Fields
    <2>3. n.slots = m.slots
      BY <1>5, <1>6, <1>7, <1>8, <2>2
    <2>4. Residents(n) = Residents(m)
      BY <2>3 DEF Residents
    <2> QED BY <1>1, <1>6, <1>8, <2>2, <2>4
  <1>9. CASE id \notin Residents(m)
    <2>1. NextSlot(m) # NoSlot /\ m.slots[NextSlot(m)] = NoAdapter
      BY <1>9, FreeForOne
    <2>2. /\ NextSlot(new) = NextSlot(m) /\ Residents(new) = Residents(m)
      BY <1>6 DEF NextSlot, SlotFor, Residents
    <2>3. PICK reg : reg = ToEnd(m.reg, id)
      OBVIOUS
    <2>4. /\ reg \in Seq(Adapter) /\ Distinct(reg) /\ Elems(reg) = Elems(m.reg)
      <3>1. /\ reg \in Seq(Adapter) /\ Elems(reg) = Elems(m.reg) \cup {id}
            /\ Distinct(m.reg) => Distinct(reg)
        BY <1>5, <2>3, LruFacts
      <3> QED BY <1>5, <3>1 DEF MgrTypes
    <2>5. new = Register(m, id, reg, weights)
      BY <1>2, <1>5, <2>3 DEF Fields, Register
    <2>6. MgrOK(new)
      <3>1. Elems(m.reg) \subseteq Elems(reg)
        BY <2>4
      <3> QED BY ONLY <1>9, <2>4, <2>5, <3>1, MgrOK(m), id \in Adapter, RegisterKeeps
    <2>7. n = ActivatePrepared(new, id)
      BY <1>4, <1>7, <1>9, <2>1
    <2>8. /\ id \in Elems(new.reg) /\ id \notin Residents(new) /\ NextSlot(new) # NoSlot
          /\ new.slots[NextSlot(new)] = NoAdapter
      BY <1>6, <1>9, <2>1, <2>2, <2>3, <2>4
    <2>9. /\ n.err = new.err /\ n.pinned = new.pinned /\ n.reg = new.reg
          /\ Residents(n) = Residents(new) \cup {id}
      BY <2>6, <2>7, <2>8, ActivatePreparedKeeps
    <2> QED BY <1>1, <1>6, <2>2, <2>9
  <1> QED
    BY <1>8, <1>9

(* add_adapter of the worker: one more of the batch is in its slot, and    *)
(* none of those before it has left.                                       *)
LEMMA WorkerAddServes ==
    ASSUME NEW m, NEW K, NEW all, NEW pinned, Serving(m, K, all, pinned), Fits(all),
           NEW id \in Adapter, id \in all, disk[id] # Bad, NEW inplace,
           NEW n, n = WorkerAdd(m, id, inplace)
    PROVE  Serving(n, K \cup {id}, all, pinned)
  <1>1. PICK weights : weights = disk[id]
    OBVIOUS
  <1>2. n = IF id \notin Elems(m.reg) THEN AddAndActivate(m, id, weights)
            ELSE IF inplace THEN ReplaceAdapter(m, id, weights)
            ELSE ActivateAdapter(m, id)
    BY <1>1 DEF WorkerAdd
  <1>3. /\ MgrOK(m) /\ m.err = "none" /\ m.pinned = pinned /\ pinned \subseteq K
        /\ K \subseteq Residents(m) /\ Residents(m) \subseteq all /\ Young(m.reg, K, pinned)
        /\ m.reg \in Seq(Adapter)
    BY DEF Serving, MgrOK, MgrTypes
  <1>4. CASE id \in Elems(m.reg)
    <2>1. n = ReplaceAdapter(m, id, weights) \/ n = ActivateAdapter(m, id)
      BY <1>2, <1>4
    <2>2. /\ MgrOK(n) /\ n.err = "none" /\ n.pinned = m.pinned /\ n.reg = ToEnd(m.reg, id)
          /\ Residents(n) = Residents(m) \cup {id}
      <3>1. CASE n = ReplaceAdapter(m, id, weights)
        <4>1. weights # Bad
          BY <1>1
        <4> QED BY <1>3, <1>4, <3>1, <4>1, ReplaceServes
      <3>2. CASE n = ActivateAdapter(m, id)
        BY <1>3, <1>4, <3>2, ActivateServes
      <3> QED BY <2>1, <3>1, <3>2
    <2>3. Young(ToEnd(m.reg, id), K \cup {id}, pinned)
      BY <1>3, YoungUse
    <2> QED BY <1>3, <2>2, <2>3 DEF Serving
  <1>5. CASE id \notin Elems(m.reg)
    <2>1. PICK added : added = AddAdapter(m, id, weights)
      OBVIOUS
    <2>2. /\ MgrOK(added) /\ added.err = "none" /\ added.pinned = pinned
          /\ K \subseteq Residents(added) /\ Residents(added) \subseteq all
          /\ id \in Elems(added.reg) /\ Young(added.reg, K \cup {id}, pinned)
      <3>1. weights # Bad
        BY <1>1
      <3> QED BY <1>5, <2>1, <3>1, AddServes
    <2>3. PICK active : active = ActivateAdapter(added, id)
      OBVIOUS
    <2>4. /\ MgrOK(active) /\ active.err = "none" /\ active.pinned = added.pinned
          /\ active.reg = ToEnd(added.reg, id)
          /\ Residents(active) = Residents(added) \cup {id}
      BY <2>2, <2>3, ActivateServes
    <2>5. n = active
      <3>1. n = AddAndActivate(m, id, weights)
        BY <1>2, <1>5
      <3> QED BY <2>1, <2>2, <2>3, <2>4, <3>1 DEF AddAndActivate
    <2>6. Young(ToEnd(added.reg, id), K \cup {id}, pinned)
      <3>1. added.reg \in Seq(Adapter)
        BY <2>2 DEF MgrOK, MgrTypes
      <3>2. PICK L : L = K \cup {id}
        OBVIOUS
      <3>3. L \cup {id} = L /\ Young(added.reg, L, pinned)
        BY <2>2, <3>2
      <3>4. Young(ToEnd(added.reg, id), L \cup {id}, pinned)
        BY <3>1, <3>3, YoungUse
      <3> QED BY <3>2, <3>3, <3>4
    <2> QED BY <1>3, <2>2, <2>4, <2>5, <2>6 DEF Serving
  <1> QED
    BY <1>4, <1>5

(* _apply of a batch that fits next to the pinned: all of it is resident.  *)
LEMMA ApplyServes ==
    ASSUME NEW m, MgrOK(m), m.err = "none", NEW requested,
           requested \subseteq {id \in Adapter : disk[id] # Bad},
           Fits(requested \cup m.pinned), NEW n, n = Apply(m, requested)
    PROVE  MgrOK(n) /\ n.err = "none" /\ requested \subseteq Residents(n)
  <1>1. PICK f : IsComing(f, m, requested) /\ f[MaxId] = Apply(m, requested)
    BY ComingExists
  <1>2. f = [id \in 0..MaxId |-> IF id = 0 THEN Parted(m, requested)
                                 ELSE ComeStep(f, requested, id)]
    BY <1>1 DEF IsComing
  <1>3. PICK pinned : pinned = m.pinned
    OBVIOUS
  <1>4. PICK all : all = requested \cup pinned
    OBVIOUS
  <1>5. Fits(all) /\ requested \subseteq all
    BY <1>3, <1>4
  <1> DEFINE Came(k) == pinned \cup {id \in requested : id <= k}
             T == {k \in Nat : k \in 0..MaxId => Serving(f[k], Came(k), all, pinned)}
  <1>6. requested \subseteq Adapter /\ Adapter \subseteq 1..MaxId /\ MaxId \in Nat
    BY LoRAAssumption
  <1>7. 0 \in T
    <2>1. 0 \in 0..MaxId
      BY SlotNumbers
    <2>2. f[0] = IF 0 = 0 THEN Parted(m, requested) ELSE ComeStep(f, requested, 0)
      BY <1>2, <2>1, Zenon
    <2>3. PICK gone : gone = Adapter \ (requested \cup m.pinned)
      OBVIOUS
    <2>4. gone \cap m.pinned = {} /\ NoAdapter \notin gone
      BY <2>3, SlotNumbers
    <2>5. f[0] = Leaving(m, gone)
      BY <2>2, <2>3 DEF Parted
    <2>6. PICK g : g = f[0]
      OBVIOUS
    <2>7. /\ MgrOK(g) /\ g.err = m.err /\ g.pinned = m.pinned
          /\ Residents(g) \subseteq Residents(m) \ gone
      BY <2>4, <2>5, <2>6, LeavingKeeps
    <2>8. Residents(m) \subseteq Adapter
      BY ResidentsAre DEF MgrOK
    <2>9. Residents(g) \subseteq all
      BY <1>3, <1>4, <2>3, <2>7, <2>8
    <2>10. pinned \subseteq Residents(g)
      BY <1>3, <2>7 DEF MgrOK, Tables
    <2>11. Came(0) = pinned
      <3>1. \A id \in requested : id \in 1..MaxId /\ ~(id <= 0)
        BY <1>6
      <3> QED BY <3>1
    <2>12. Young(g.reg, pinned, pinned)
      BY DEF Young
    <2>13. Serving(g, pinned, all, pinned)
      BY <1>3, <2>7, <2>9, <2>10, <2>12 DEF Serving
    <2> QED BY <2>6, <2>11, <2>13
  <1>8. ASSUME NEW k \in Nat, k \in T PROVE k + 1 \in T
    <2>1. SUFFICES ASSUME k + 1 \in 0..MaxId PROVE Serving(f[k + 1], Came(k + 1), all, pinned)
      OBVIOUS
    <2>2. k \in 0..MaxId /\ k + 1 # 0 /\ (k + 1) - 1 = k
      BY <2>1, SlotNumbers
    <2>3. Serving(f[k], Came(k), all, pinned)
      BY <1>8, <2>2
    <2>4. f[k + 1] = IF k + 1 = 0 THEN Parted(m, requested) ELSE ComeStep(f, requested, k + 1)
      BY <1>2, <2>1, Zenon
    <2>5. PICK id : id = k + 1
      OBVIOUS
    <2>6. f[k + 1] = IF id \in requested /\ f[k].err = "none"
                     THEN WorkerAdd(f[k], id, requests[id] = "inplace") ELSE f[k]
      BY <2>2, <2>4, <2>5 DEF ComeStep
    <2>7. \A x \in requested : x <= k + 1 <=> x <= k \/ x = id
      BY <1>6, <2>5
    <2>8. CASE id \in requested
      <3>1. PICK inplace : inplace = (requests[id] = "inplace")
        OBVIOUS
      <3>2. f[k + 1] = WorkerAdd(f[k], id, inplace)
        BY <2>3, <2>6, <2>8, <3>1 DEF Serving
      <3>3. PICK K : K = Came(k)
        OBVIOUS
      <3>4. PICK before, after : before = f[k] /\ after = f[k + 1]
        OBVIOUS
      <3>5. /\ Serving(before, K, all, pinned) /\ after = WorkerAdd(before, id, inplace)
            /\ id \in Adapter /\ id \in all /\ disk[id] # Bad
        BY <1>4, <2>3, <2>8, <3>2, <3>3, <3>4
      <3>6. Serving(after, K \cup {id}, all, pinned)
        BY ONLY <1>5, <3>5, WorkerAddServes
      <3>7. K \cup {id} = Came(k + 1)
        BY <2>7, <2>8, <3>3
      <3> QED BY <3>4, <3>6, <3>7
    <2>9. CASE id \notin requested
      <3>1. Came(k + 1) = Came(k)
        BY <2>7, <2>9
      <3> QED BY <2>3, <2>6, <2>9, <3>1
    <2> QED BY <2>8, <2>9
  <1>9. MaxId \in T
    <2> HIDE DEF T
    <2> QED BY <1>7, <1>8, SlotNumbers, NatSetInduction
  <1>10. Serving(n, Came(MaxId), all, pinned)
    BY <1>1, <1>9, SlotNumbers
  <1>11. requested \subseteq Came(MaxId)
    BY <1>6
  <1> QED
    BY <1>10, <1>11 DEF Serving

(* A mapping of residents is published, or is published already.           *)
LEMMA MappingServed ==
    ASSUME NEW m, MgrOK(m), m.err = "none", NEW requested, requested \subseteq Residents(m)
    PROVE  SetAdapterMapping(m, RowEach(requested)).err = "none"
  <1>1. PICK mapping : mapping = RowEach(requested)
    OBVIOUS
  <1>2. \A i \in DOMAIN mapping : mapping[i] = NoAdapter \/ mapping[i] \in requested
    BY <1>1 DEF RowEach
  <1>3. MgrTypes(m) /\ requested \subseteq Adapter /\ DOMAIN m = Fields
    BY ResidentsAre DEF MgrOK, MgrTypes
  <1>4. \A i \in DOMAIN mapping : mapping[i] # NoAdapter => SlotFor(m, mapping[i]) # NoSlot
    BY <1>2, <1>3, SlotForFacts
  <1>5. PICK new : new = [mapping |-> mapping, routes |-> Routes(m, mapping)]
    OBVIOUS
  <1>6. \/ SetAdapterMapping(m, mapping) = m
        \/ SetAdapterMapping(m, mapping) = [m EXCEPT !.published = new]
    BY <1>4, <1>5 DEF SetAdapterMapping
  <1>7. [m EXCEPT !.published = new].err = m.err
    BY <1>3 DEF Fields
  <1> QED
    BY <1>1, <1>6, <1>7

-----------------------------------------------------------------------------
(* The invariant. *)

LInv == MgrOK(mgr) /\ mgr.err = "none" /\ RowsRunTheirAdapter

LEMMA InitInv == LoRAInit => LInv
  <1>1. SUFFICES ASSUME LoRAInit PROVE LInv
    OBVIOUS
  <1>2. /\ DOMAIN mgr = Fields /\ mgr.reg = <<>> /\ mgr.regPins = {} /\ mgr.act = <<>>
        /\ mgr.actPins = {} /\ mgr.pinned = {} /\ mgr.version = [id \in Adapter |-> Unread]
        /\ mgr.slots = [s \in Slot |-> NoAdapter] /\ mgr.weights = [s \in Slot |-> Unread]
        /\ mgr.published = NothingPublished /\ mgr.err = "none"
    BY <1>1 DEF LoRAInit, Fields
  <1>3. MgrTypes(mgr)
    BY <1>2 DEF MgrTypes, Distinct
  <1>4. Elems(mgr.act) = {} /\ Elems(mgr.reg) = {}
    BY <1>2 DEF Elems
  <1>5. Residents(mgr) = {}
    BY <1>2, <1>3, ResidentsAre
  <1>6. OneSlot(mgr) /\ WeightsTrue(mgr)
    BY <1>2 DEF OneSlot, WeightsTrue
  <1>7. Tables(mgr)
    BY <1>2, <1>4, <1>5, <1>6 DEF Tables
  <1>8. RoutesTrue(mgr)
    BY <1>2 DEF RoutesTrue, NothingPublished
  <1>9. RowsRunTheirAdapter
    BY <1>1 DEF LoRAInit, RowsRunTheirAdapter
  <1> QED
    BY <1>2, <1>3, <1>7, <1>8, <1>9 DEF LInv, MgrOK

(* Nothing runs in a step that leaves ran empty.                           *)
LEMMA NoRows ==
    ASSUME ran' = {}
    PROVE  RowsRunTheirAdapter'
  BY DEF RowsRunTheirAdapter

LEMMA AddLoraInv ==
    ASSUME LInv, NEW id \in Adapter, NEW inplace \in BOOLEAN, AddLora(id, inplace)
    PROVE  LInv'
  <1>1. PICK m : m = WorkerAdd(mgr, id, inplace)
    OBVIOUS
  <1>2. mgr' = Settled(m) /\ ran' = {}
    BY <1>1 DEF AddLora
  <1>3. MgrOK(mgr) /\ mgr.err = "none"
    BY DEF LInv
  <1>4. MgrOK(m)
    BY <1>1, <1>3, WorkerAddKeeps
  <1>5. PICK n : n = Settled(m)
    OBVIOUS
  <1>6. MgrOK(n) /\ n.err = "none"
    BY <1>4, <1>5, SettledKeeps
  <1>7. mgr' = n
    BY <1>2, <1>5
  <1>8. MgrOK(mgr)' /\ mgr'.err = "none"
    BY <1>6, <1>7
  <1> QED
    BY <1>2, <1>8, NoRows DEF LInv

LEMMA RemoveLoraInv ==
    ASSUME LInv, NEW id \in Adapter, RemoveLora(id)
    PROVE  LInv'
  <1>1. PICK n : n = RemoveAdapter(mgr, id)
    OBVIOUS
  <1>2. mgr' = n /\ ran' = {}
    BY <1>1 DEF RemoveLora
  <1>3. MgrOK(mgr) /\ mgr.err = "none"
    BY DEF LInv
  <1>4. MgrOK(n) /\ n.err = mgr.err
    BY <1>1, <1>3, RemoveKeeps
  <1>5. MgrOK(mgr)' /\ mgr'.err = "none"
    BY <1>2, <1>3, <1>4
  <1> QED
    BY <1>2, <1>5, NoRows DEF LInv

LEMMA PinLoraInv ==
    ASSUME LInv, NEW id \in Adapter, PinLora(id)
    PROVE  LInv'
  <1>1. PICK m : m = PinAdapter(mgr, id)
    OBVIOUS
  <1>2. PICK n : n = Settled(m)
    OBVIOUS
  <1>3. mgr' = n /\ ran' = {}
    BY <1>1, <1>2 DEF PinLora
  <1>4. MgrOK(mgr) /\ mgr.err = "none"
    BY DEF LInv
  <1>5. MgrOK(m)
    BY <1>1, <1>4, PinKeeps
  <1>6. MgrOK(n) /\ n.err = "none"
    BY <1>2, <1>5, SettledKeeps
  <1>7. MgrOK(mgr)' /\ mgr'.err = "none"
    BY <1>3, <1>6
  <1> QED
    BY <1>3, <1>7, NoRows DEF LInv

LEMMA EncodeInv ==
    ASSUME LInv, NEW id \in Adapter, NEW inplace \in BOOLEAN, Encode(id, inplace)
    PROVE  LInv'
  <1>1. PICK added : added = WorkerAdd(mgr, id, inplace)
    OBVIOUS
  <1>2. PICK routed : routed = IF added.err # "none" THEN added ELSE WorkerEncoder(added, id)
    OBVIOUS
  <1>3. PICK n : n = [routed EXCEPT !.enc = NoSlot, !.err = "none"]
    OBVIOUS
  <1>4. /\ mgr' = n
        /\ ran' = IF routed.err # "none" THEN {}
                  ELSE {[id |-> id, weights |-> Weights(routed, routed.enc)]}
    BY <1>1, <1>2, <1>3 DEF Encode
  <1>5. MgrOK(mgr) /\ mgr.err = "none"
    BY DEF LInv
  <1>6. MgrOK(added)
    BY <1>1, <1>5, WorkerAddKeeps
  <1>7. MgrOK(routed) /\ (routed.err = "none" => Weights(routed, routed.enc) = routed.version[id])
    <2>1. CASE added.err # "none"
      BY <1>2, <1>6, <2>1
    <2>2. CASE added.err = "none"
      <3>1. routed = WorkerEncoder(added, id)
        BY <1>2, <2>2
      <3> QED BY <1>6, <2>2, <3>1, EncoderKeeps
    <2> QED BY <2>1, <2>2
  <1>8. MgrOK(n) /\ n.err = "none" /\ n.version = routed.version
    BY <1>3, <1>7, SettledKeeps DEF Untouched
  <1>9. MgrOK(mgr)' /\ mgr'.err = "none"
    BY <1>4, <1>8
  <1>10. RowsRunTheirAdapter'
    <2>1. CASE routed.err # "none"
      BY <1>4, <2>1, NoRows
    <2>2. CASE routed.err = "none"
      <3>1. id # NoAdapter
        BY SlotNumbers
      <3>2. ran' = {[id |-> id, weights |-> mgr'.version[id]]}
        BY <1>4, <1>7, <1>8, <2>2
      <3> QED BY <3>1, <3>2 DEF RowsRunTheirAdapter
    <2> QED BY <2>1, <2>2
  <1> QED
    BY <1>9, <1>10 DEF LInv

LEMMA PrepareStepInv ==
    ASSUME LInv, NEW mapping \in Mappings, PrepareStep(mapping)
    PROVE  LInv'
  <1>1. \A i \in DOMAIN mapping : mapping[i] \in Adapter \cup {NoAdapter}
    BY DEF Mappings
  <1>2. PICK requested : requested = Elems(mapping) \ {NoAdapter}
    OBVIOUS
  <1>3. requested \subseteq Adapter
    BY <1>1, <1>2 DEF Elems
  <1>4. PICK applied : applied = Apply(mgr, requested)
    OBVIOUS
  <1>5. PICK m : m = IF applied.err # "none" THEN applied ELSE SetAdapterMapping(applied, mapping)
    OBVIOUS
  <1>6. PICK n : n = Settled(m)
    OBVIOUS
  <1>7. /\ mgr' = n
        /\ ran' = IF m.err # "none" THEN {}
                  ELSE {[id |-> mapping[i], weights |-> Weights(mgr', mgr'.published.routes[i])] :
                           i \in DOMAIN mapping}
    BY <1>2, <1>4, <1>5, <1>6 DEF PrepareStep
  <1>8. MgrOK(mgr) /\ mgr.err = "none"
    BY DEF LInv
  <1>9. MgrOK(applied)
    BY <1>3, <1>4, <1>8, ApplyKeeps
  <1>10. MgrOK(m) /\ (m.err = "none" => m.published.mapping = mapping)
    <2>1. CASE applied.err # "none"
      BY <1>5, <1>9, <2>1
    <2>2. CASE applied.err = "none"
      <3>1. m = SetAdapterMapping(applied, mapping)
        BY <1>5, <2>2
      <3> QED BY ONLY <1>1, <1>9, <2>2, <3>1, MappingKeeps
    <2> QED BY <2>1, <2>2
  <1>11. MgrOK(n) /\ n.err = "none" /\ n.published = m.published
    BY <1>6, <1>10, SettledKeeps
  <1>12. MgrOK(mgr)' /\ mgr'.err = "none"
    BY <1>7, <1>11
  <1>13. RowsRunTheirAdapter'
    <2>1. CASE m.err # "none"
      BY <1>7, <2>1, NoRows
    <2>2. CASE m.err = "none"
      <3>1. n.published.mapping = mapping
        BY <1>10, <1>11, <2>2
      <3>2. ASSUME NEW i \in DOMAIN mapping
            PROVE  Weights(n, n.published.routes[i]) =
                     IF mapping[i] = NoAdapter THEN Unread ELSE n.version[mapping[i]]
        BY <1>11, <3>1, RoutedWeights
      <3>3. ran' = {[id |-> mapping[i], weights |-> Weights(n, n.published.routes[i])] :
                      i \in DOMAIN mapping}
        BY <1>7, <2>2
      <3>4. \A row \in ran' : row.weights = IF row.id = NoAdapter THEN Unread ELSE n.version[row.id]
        BY <3>2, <3>3
      <3> QED BY <1>7, <3>4 DEF RowsRunTheirAdapter
    <2> QED BY <2>1, <2>2
  <1> QED
    BY <1>12, <1>13 DEF LInv

LEMMA StepInv == LInv /\ [LoRANext]_loraVars => LInv'
  <1> SUFFICES ASSUME LInv, [LoRANext]_loraVars PROVE LInv'
    OBVIOUS
  <1>1. ASSUME NEW id \in Adapter, NEW inplace \in BOOLEAN, AddLora(id, inplace) PROVE LInv'
    BY <1>1, AddLoraInv
  <1>2. ASSUME NEW id \in Adapter, RemoveLora(id) PROVE LInv'
    BY <1>2, RemoveLoraInv
  <1>3. ASSUME NEW id \in Adapter, PinLora(id) PROVE LInv'
    BY <1>3, PinLoraInv
  <1>4. ASSUME NEW id \in Adapter, NEW inplace \in BOOLEAN, Encode(id, inplace) PROVE LInv'
    BY <1>4, EncodeInv
  <1>5. ASSUME NEW mapping \in Mappings, PrepareStep(mapping) PROVE LInv'
    BY <1>5, PrepareStepInv
  <1>6. ASSUME NEW id \in Adapter, NEW version, Rewrite(id, version) PROVE LInv'
    <2>1. mgr' = mgr /\ ran' = {}
      BY <1>6 DEF Rewrite
    <2>2. MgrOK(mgr)' /\ mgr'.err = "none"
      BY <2>1 DEF LInv
    <2> QED BY <2>1, <2>2, NoRows DEF LInv
  <1>7. CASE UNCHANGED loraVars
    <2>1. mgr' = mgr /\ ran' = ran
      BY <1>7 DEF loraVars
    <2> QED BY <2>1 DEF LInv, RowsRunTheirAdapter
  <1> QED
    BY <1>1, <1>2, <1>3, <1>4, <1>5, <1>6, <1>7 DEF LoRANext

-----------------------------------------------------------------------------
(* The theorems. *)

(* The manager's record keeps its shape, its tables and the published      *)
(* routes agree, and no exception is pending between two calls of          *)
(* MetalLoRARuntime.                                                       *)
THEOREM LoRAInvariance == LoRASpec => []LInv
  BY InitInv, StepInv, PTL DEF LoRASpec

(* MLXLoRAModelManager: a resident adapter is registered, in one slot, and *)
(* in the resident cache; its slot holds the registered weights; a pinned  *)
(* adapter is resident and pinned in both caches.                          *)
THEOREM TablesStayTrue == LoRASpec => []TablesAgree
  <1>1. LInv => TablesAgree
    BY DEF LInv, MgrOK, Tables, OneSlot, Residents, WeightsTrue, TablesAgree
  <1> QED
    BY <1>1, LoRAInvariance, PTL

(* prepare_step and encoder_adapter: every row of a forward runs with the  *)
(* registered weights of its own request's adapter.                        *)
THEOREM RowsRunOwn == LoRASpec => []RowsRunTheirAdapter
  <1>1. LInv => RowsRunTheirAdapter
    BY DEF LInv
  <1> QED
    BY <1>1, LoRAInvariance, PTL

(* _apply and set_adapter_mapping: a batch of adapters that were added,    *)
(* load, and fit the slots next to the pinned ones finds each of them in a *)
(* slot; coming one after the other they evict nobody of the same batch.   *)
THEOREM BatchesServed == LoRASpec => []BatchServed
  <1>1. LInv => BatchServed
    <2>1. SUFFICES ASSUME LInv,
                          NEW requested \in SUBSET {id \in Adapter : requests[id] # "none" /\ disk[id] # Bad},
                          Cardinality(requested \cup mgr.pinned) <= Slots
                   PROVE  SetAdapterMapping(Apply(mgr, requested), RowEach(requested)).err = "none"
      BY DEF BatchServed
    <2>2. MgrOK(mgr) /\ mgr.err = "none"
      BY <2>1 DEF LInv
    <2>3. IsFiniteSet(requested \cup mgr.pinned)
      <3>1. IsFiniteSet(1..MaxId)
        BY FS_Interval, SlotNumbers
      <3>2. requested \cup mgr.pinned \subseteq 1..MaxId
        <4>1. mgr.pinned \subseteq Adapter
          BY <2>2, ResidentsAre DEF MgrOK, Tables
        <4> QED BY <4>1, LoRAAssumption
      <3> QED BY <3>1, <3>2, FS_Subset
    <2>4. PICK n : n = Apply(mgr, requested)
      OBVIOUS
    <2>5. Fits(requested \cup mgr.pinned)
      BY <2>1, <2>3 DEF Fits
    <2>6. requested \subseteq {id \in Adapter : disk[id] # Bad}
      OBVIOUS
    <2>7. MgrOK(n) /\ n.err = "none" /\ requested \subseteq Residents(n)
      BY ONLY <2>2, <2>4, <2>5, <2>6, ApplyServes
    <2> QED BY <2>4, <2>7, MappingServed
  <1> QED
    BY <1>1, LoRAInvariance, PTL

(* add_lora of an adapter that does not load, or does not fit, leaves      *)
(* every cache entry, slot and pin as it was.                              *)
THEOREM MalformedHarmless == LoRASpec => MalformedChangesNothing
  <1> DEFINE Kept == mgr'.version = mgr.version /\ mgr'.slots = mgr.slots
                     /\ mgr'.weights = mgr.weights /\ mgr'.pinned = mgr.pinned
  <1>1. ASSUME LInv, [LoRANext]_loraVars, called'.err = "malformed", ~UNCHANGED loraVars
        PROVE  Kept
    <2>1. NoCall.err # "malformed"
      BY DEF NoCall
    <2>2. PICK id \in Adapter, inplace \in BOOLEAN : AddLora(id, inplace)
      BY <1>1, <2>1 DEF LoRANext, RemoveLora, PinLora, Encode, PrepareStep, Rewrite
    <2>3. PICK m : m = WorkerAdd(mgr, id, inplace)
      OBVIOUS
    <2>4. PICK n : n = Settled(m)
      OBVIOUS
    <2>5. /\ mgr' = n
          /\ called' = IF m.err = "none" THEN NoCall
                       ELSE [id |-> id, err |-> m.err, was |-> mgr.version[id]]
      BY <2>2, <2>3, <2>4 DEF AddLora
    <2>6. m.err = "malformed"
      BY <1>1, <2>1, <2>5
    <2>7. MgrOK(mgr) /\ mgr.err = "none"
      BY <1>1 DEF LInv
    <2>8. MgrOK(m) /\ Untouched(mgr, m)
      BY <2>3, <2>6, <2>7, WorkerAddKeeps
    <2>9. Untouched(m, n)
      BY <2>4, <2>8, SettledKeeps
    <2> QED BY <2>5, <2>8, <2>9 DEF Untouched
  <1>2. LInv /\ [LoRANext]_loraVars => [called'.err = "malformed" => Kept]_loraVars
    BY <1>1
  <1> QED
    BY <1>2, LoRAInvariance, PTL DEF LoRASpec, MalformedChangesNothing

=============================================================================
