---------------------------- MODULE SlotsProofs ----------------------------
(***************************************************************************)
(* The relay's map keeps its promises for every set of peers and any       *)
(* number of slots.  Each operator keeps a map sound; an address that was  *)
(* retired stays below both counters; and when a failed Save leaves        *)
(* ring.json as it was, what was told, the map and the file are nested.    *)
(* The registry, with its connections, claims and operators, is then shown *)
(* to keep the same map: each of its steps is a step of Slots or none.     *)
(***************************************************************************)
EXTENDS RelayMap, FiniteSetTheorems, WellFoundedInduction, TLAPS

Sound(g) == g \in Map /\ OneEach(g) /\ Covered(g)
Binds(g) == {<<r.slot, r.peer>> : r \in g.slots}

(* A slot bound to a new number, in a position nobody has. *)
LEMMA ReserveSound ==
    ASSUME NEW g, Sound(g), NEW p \in Peer, ~Holds(g, p),
           NEW col \in Nat, NEW row \in Nat, At(g, col, row) = {}
    PROVE  Sound(reserve(g, p, col, row))
<1> DEFINE new == [slot |-> g.max + 1, col |-> col, row |-> row, peer |-> p]
           h == reserve(g, p, col, row)
<1>1. g.max \in Nat /\ g.width \in Nat /\ g.height \in Nat /\ g.slots \subseteq Reservation
  BY DEF Sound, Map
<1>2. /\ h.slots = g.slots \cup {new} /\ h.max = g.max + 1
      /\ h.width = Larger(g.width, col + 1) /\ h.height = Larger(g.height, row + 1)
  BY DEF reserve
<1>3. /\ h.width \in Nat /\ h.height \in Nat
      /\ g.width <= h.width /\ g.height <= h.height /\ col < h.width /\ row < h.height
  BY <1>1, <1>2 DEF Larger
<1>4. h \in Map
  <2>1. new \in Reservation
    BY <1>1 DEF Reservation
  <2>2. h.slots \in SUBSET Reservation /\ h.max \in Nat
    BY <1>1, <1>2, <2>1
  <2> QED
    BY <1>3, <2>2 DEF Map, reserve
<1>5. \A r \in g.slots : r.slot # new.slot /\ r.peer # new.peer
                          /\ ~(r.col = new.col /\ r.row = new.row)
  BY <1>1 DEF Sound, Covered, Holds, ResOfPeer, At, Reservation
<1>6. OneEach(h)
  BY <1>2, <1>5 DEF Sound, OneEach
<1>7. Covered(h)
  BY <1>1, <1>2, <1>3 DEF Sound, Covered, Inside, Reservation
<1> QED
  BY <1>4, <1>6, <1>7 DEF Sound

(* A row or a column inserted: the numbers and the peers stay, and the    *)
(* positions just behind the anchor are free.                             *)
LEMMA RowInsertedSound ==
    ASSUME NEW g, Sound(g), NEW row \in Nat
    PROVE  LET h == rowInserted(g, row) IN
           /\ Sound(h) /\ h.max = g.max /\ Binds(h) = Binds(g)
           /\ \A p : ~Holds(g, p) => ~Holds(h, p)
           /\ \A col : At(h, col, row + 1) = {}
<1> DEFINE h == rowInserted(g, row)
<1>1. g.max \in Nat /\ g.width \in Nat /\ g.height \in Nat /\ g.slots \subseteq Reservation
  BY DEF Sound, Map
<1>2. /\ h.slots = {behindRow(x, row) : x \in g.slots} /\ h.max = g.max
      /\ h.width = g.width /\ h.height = g.height + 1
  BY DEF rowInserted
<1>3. \A x \in g.slots : LET y == behindRow(x, row) IN
        /\ y \in Reservation /\ y.slot = x.slot /\ y.peer = x.peer /\ y.col = x.col
        /\ y.row = IF x.row > row THEN x.row + 1 ELSE x.row
        /\ x.row \in Nat /\ x.col \in Nat /\ x.slot \in Nat
  BY <1>1 DEF Reservation, behindRow
<1>4. h.slots \subseteq Reservation
  BY <1>2, <1>3
<1>5. h \in Map
  BY <1>1, <1>2, <1>4 DEF Map, rowInserted
<1>6. OneEach(h)
  BY <1>2, <1>3 DEF Sound, OneEach
<1>7. Covered(h)
  BY <1>1, <1>2, <1>3 DEF Sound, Covered, Inside
<1>8. Binds(h) = Binds(g)
  <2>1. Binds(h) = {<<behindRow(x, row).slot, behindRow(x, row).peer>> : x \in g.slots}
    BY <1>2 DEF Binds
  <2> QED
    BY <2>1, <1>3 DEF Binds
<1>9. \A p : ~Holds(g, p) => ~Holds(h, p)
  BY <1>2, <1>3 DEF Holds, ResOfPeer
<1>10. \A col : At(h, col, row + 1) = {}
  BY <1>2, <1>3 DEF At
<1> QED
  BY <1>2, <1>5, <1>6, <1>7, <1>8, <1>9, <1>10 DEF Sound

LEMMA ColInsertedSound ==
    ASSUME NEW g, Sound(g), NEW col \in Nat
    PROVE  LET h == colInserted(g, col) IN
           /\ Sound(h) /\ h.max = g.max /\ Binds(h) = Binds(g)
           /\ \A p : ~Holds(g, p) => ~Holds(h, p)
           /\ \A row : At(h, col + 1, row) = {}
<1> DEFINE h == colInserted(g, col)
<1>1. g.max \in Nat /\ g.width \in Nat /\ g.height \in Nat /\ g.slots \subseteq Reservation
  BY DEF Sound, Map
<1>2. /\ h.slots = {behindCol(x, col) : x \in g.slots} /\ h.max = g.max
      /\ h.width = g.width + 1 /\ h.height = g.height
  BY DEF colInserted
<1>3. \A x \in g.slots : LET y == behindCol(x, col) IN
        /\ y \in Reservation /\ y.slot = x.slot /\ y.peer = x.peer /\ y.row = x.row
        /\ y.col = IF x.col > col THEN x.col + 1 ELSE x.col
        /\ x.row \in Nat /\ x.col \in Nat /\ x.slot \in Nat
  BY <1>1 DEF Reservation, behindCol
<1>4. h.slots \subseteq Reservation
  BY <1>2, <1>3
<1>5. h \in Map
  BY <1>1, <1>2, <1>4 DEF Map, colInserted
<1>6. OneEach(h)
  BY <1>2, <1>3 DEF Sound, OneEach
<1>7. Covered(h)
  BY <1>1, <1>2, <1>3 DEF Sound, Covered, Inside
<1>8. Binds(h) = Binds(g)
  <2>1. Binds(h) = {<<behindCol(x, col).slot, behindCol(x, col).peer>> : x \in g.slots}
    BY <1>2 DEF Binds
  <2> QED
    BY <2>1, <1>3 DEF Binds
<1>9. \A p : ~Holds(g, p) => ~Holds(h, p)
  BY <1>2, <1>3 DEF Holds, ResOfPeer
<1>10. \A row : At(h, col + 1, row) = {}
  BY <1>2, <1>3 DEF At
<1> QED
  BY <1>2, <1>5, <1>6, <1>7, <1>8, <1>9, <1>10 DEF Sound

LEMMA SpliceSound ==
    ASSUME NEW g, Sound(g), NEW p \in Peer, ~Holds(g, p),
           NEW r \in g.slots, NEW axis \in {"E", "N"}
    PROVE  Sound(splice(g, p, r, axis))
<1>1. r.row \in Nat /\ r.col \in Nat /\ r.row + 1 \in Nat /\ r.col + 1 \in Nat
  BY DEF Sound, Map, Reservation
<1>2. CASE axis = "N"
  BY <1>1, <1>2, RowInsertedSound, ReserveSound DEF splice
<1>3. CASE axis = "E"
  BY <1>1, <1>3, ColInsertedSound, ReserveSound DEF splice
<1> QED
  BY <1>2, <1>3

LEMMA ReleaseSound == ASSUME NEW g, Sound(g), NEW s PROVE Sound(Release(g, s))
BY DEF Sound, Map, OneEach, Covered, Release, Inside

LEMMA HandoverSound ==
    ASSUME NEW g, Sound(g), NEW s, NEW q \in Peer, ~Holds(g, q)
    PROVE  Sound(Handover(g, s, q))
<1> DEFINE f(r) == IF r.slot = s THEN [r EXCEPT !.peer = q] ELSE r
           h == Handover(g, s, q)
<1>1. /\ h.slots = {f(r) : r \in g.slots} /\ h.max = g.max
      /\ h.width = g.width /\ h.height = g.height
  BY DEF Handover, Sound, Map
<1>2. g.slots \subseteq Reservation
  BY DEF Sound, Map
<1>3. \A r \in g.slots : /\ f(r) \in Reservation /\ f(r).slot = r.slot
                         /\ f(r).col = r.col /\ f(r).row = r.row
                         /\ f(r).peer = IF r.slot = s THEN q ELSE r.peer
  BY <1>2 DEF Reservation
<1>4. \A r \in g.slots : r.peer # q
  BY DEF Holds, ResOfPeer
<1>5. h \in Map
  BY <1>1, <1>3 DEF Handover, Sound, Map
<1> HIDE DEF f, h
<1>6. OneEach(h)
  BY <1>1, <1>3, <1>4 DEF Sound, OneEach
<1>7. Covered(h)
  BY <1>1, <1>3 DEF Sound, Covered, Inside
<1> QED
  BY <1>5, <1>6, <1>7 DEF Sound, h

(* Wherever rule 4, 5 or 6 puts a newcomer, the map stays sound, and only *)
(* the newcomer's number is new.                                          *)
LEMMA PlacementSound ==
    ASSUME NEW g, Sound(g), NEW p \in Peer, ~Holds(g, p), NEW h \in Placements(g, p)
    PROVE  Sound(h)
<1>1. g.max \in Nat /\ g.width \in Nat /\ g.height \in Nat /\ g.slots \subseteq Reservation
  BY DEF Sound, Map
<1>2. CASE \E x \in Holes(g) : h = reserve(g, p, x[1], x[2])
  BY <1>1, <1>2, ReserveSound DEF Holes
<1>3. CASE \E x \in Beyond(g) : h = reserve(g, p, x[1], x[2])
  <2>1. PICK x \in Beyond(g) : h = reserve(g, p, x[1], x[2])
    BY <1>3
  <2>2. x[1] \in Nat /\ x[2] \in Nat /\ (x[1] = g.width \/ x[2] = g.height)
    BY <1>1 DEF Beyond, Larger
  <2>3. At(g, x[1], x[2]) = {}
    BY <1>1, <2>2 DEF At, Sound, Covered, Inside, Reservation
  <2> QED
    BY <2>1, <2>2, <2>3, ReserveSound
<1>4. CASE \E r \in g.slots, axis \in {"E", "N"} : h = splice(g, p, r, axis)
  BY <1>4, SpliceSound
<1> QED
  BY <1>2, <1>3, <1>4 DEF Placements

(* What is read back is what was written. *)
LEMMA LoadGridSound == ASSUME NEW g, Sound(g) PROVE LoadGrid(g) = g
<1>1. g.max \in Nat /\ g.width \in Nat /\ g.height \in Nat /\ g.slots \subseteq Reservation
  BY DEF Sound, Map
<1>2. /\ \A k \in {r.slot : r \in g.slots} : k <= g.max
      /\ \A k \in {r.col + 1 : r \in g.slots} : k <= g.width
      /\ \A k \in {r.row + 1 : r \in g.slots} : k <= g.height
  BY <1>1 DEF Sound, Covered, Inside, Reservation
<1>3. /\ AtLeast({r.slot : r \in g.slots}, g.max) = g.max
      /\ AtLeast({r.col + 1 : r \in g.slots}, g.width) = g.width
      /\ AtLeast({r.row + 1 : r \in g.slots}, g.height) = g.height
  BY <1>2 DEF AtLeast
<1> QED
  BY <1>1, <1>3 DEF LoadGrid, Sound, Map

(* What a newcomer changes of the bindings, and of the counter. *)
LEMMA PlacementBinds ==
    ASSUME NEW g, Sound(g), NEW p \in Peer, NEW h \in Placements(g, p)
    PROVE  h.max = g.max + 1 /\ Binds(h) = Binds(g) \cup {<<h.max, p>>}
<1>1. ASSUME NEW k, NEW col, NEW row
      PROVE  /\ reserve(k, p, col, row).max = k.max + 1
             /\ Binds(reserve(k, p, col, row)) = Binds(k) \cup {<<k.max + 1, p>>}
  <2> DEFINE new == [slot |-> k.max + 1, col |-> col, row |-> row, peer |-> p]
  <2>1. /\ reserve(k, p, col, row).slots = k.slots \cup {new}
        /\ reserve(k, p, col, row).max = k.max + 1
    BY DEF reserve
  <2>2. new.slot = k.max + 1 /\ new.peer = p
    OBVIOUS
  <2> HIDE DEF new
  <2>3. ASSUME NEW x PROVE (\E r \in k.slots \cup {new} : x = <<r.slot, r.peer>>)
                        <=> ((\E r \in k.slots : x = <<r.slot, r.peer>>) \/ x = <<k.max + 1, p>>)
    BY <2>2
  <2>4. \A x : x \in Binds(reserve(k, p, col, row)) <=> x \in Binds(k) \cup {<<k.max + 1, p>>}
    BY <2>1, <2>3 DEF Binds
  <2> QED
    BY <2>1, <2>4
<1>2. CASE \E x : h = reserve(g, p, x[1], x[2])
  BY <1>1, <1>2
<1>3. CASE \E r \in g.slots, axis \in {"E", "N"} : h = splice(g, p, r, axis)
  <2>1. PICK r \in g.slots, axis \in {"E", "N"} : h = splice(g, p, r, axis)
    BY <1>3
  <2>2. r.row \in Nat /\ r.col \in Nat
    BY DEF Sound, Map, Reservation
  <2>3. CASE axis = "N"
    <3> DEFINE k == rowInserted(g, r.row)
    <3>1. h = reserve(k, p, r.col, r.row + 1)
      BY <2>1, <2>3 DEF splice
    <3>2. k.max = g.max /\ Binds(k) = Binds(g)
      BY <2>2, RowInsertedSound
    <3> HIDE DEF k
    <3> QED
      BY <1>1, <3>1, <3>2
  <2>4. CASE axis = "E"
    <3> DEFINE k == colInserted(g, r.col)
    <3>1. h = reserve(k, p, r.col + 1, r.row)
      BY <2>1, <2>4 DEF splice
    <3>2. k.max = g.max /\ Binds(k) = Binds(g)
      BY <2>2, ColInsertedSound
    <3> HIDE DEF k
    <3> QED
      BY <1>1, <3>1, <3>2
  <2> QED
    BY <2>3, <2>4
<1> QED
  BY <1>2, <1>3 DEF Placements

-----------------------------------------------------------------------------
(* In memory and on disk the map is sound, however Save fails. *)

BothSound == Sound(ring) /\ Sound(disk) /\ SlotsTypeOK

LEMMA SlotOfHeld ==
    ASSUME NEW g, NEW p, Holds(g, p)
    PROVE  \E r \in g.slots : r.peer = p /\ r.slot = SlotOf(g, p)
BY DEF Holds, ResOfPeer, SlotOf

LEMMA BothSoundInit == SlotsInit => BothSound
BY DEF SlotsInit, BothSound, Sound, SlotsTypeOK, EmptyMap, Map, OneEach, Covered

LEMMA BothSoundStep == BothSound /\ [SlotsNext]_slotsVars => BothSound'
<1> SUFFICES ASSUME BothSound, [SlotsNext]_slotsVars PROVE BothSound'
  OBVIOUS
<1>0. Sound(ring) /\ Sound(disk) /\ ring \in Map /\ disk \in Map
      /\ told \subseteq Nat \X Peer /\ retired \subseteq Nat
  BY DEF BothSound, SlotsTypeOK
<1>1. ASSUME Sound(ring'), Sound(disk'), told' \subseteq Nat \X Peer, retired' \subseteq Nat
      PROVE  BothSound'
  BY <1>1 DEF BothSound, SlotsTypeOK, Sound
<1>2. ASSUME NEW p \in Peer, Reclaim(p) PROVE BothSound'
  <2>1. SlotOf(ring, p) \in Nat
    BY <1>0, <1>2, SlotOfHeld DEF Reclaim, Map, Reservation
  <2> QED
    BY <1>0, <1>1, <1>2, <2>1 DEF Reclaim, Sound, OneEach, Covered
<1>3. ASSUME NEW p \in Peer, Assign(p) PROVE BothSound'
  <2>1. PICK placed \in Placements(ring, p) :
           \/ /\ ring' = placed /\ Saved(placed)
              /\ told' = told \cup {<<placed.max, p>>}
           \/ /\ ring' = Release(placed, placed.max) /\ SaveFails(placed)
              /\ UNCHANGED told
    BY <1>3 DEF Assign
  <2>2. Sound(placed)
    BY <1>0, <1>3, PlacementSound DEF Assign
  <2>3. Sound(Release(placed, placed.max)) /\ placed.max \in Nat
    BY <2>2, ReleaseSound DEF Sound, Map
  <2>4. retired' \subseteq Nat
    BY <1>0, <1>3 DEF Assign
  <2>5. told' \subseteq Nat \X Peer
    BY <1>0, <2>1, <2>3
  <2>6. Sound(ring') /\ Sound(disk')
    BY <1>0, <2>1, <2>2, <2>3 DEF Saved, SaveFails, Sound, OneEach, Covered
  <2> QED
    BY <1>1, <2>4, <2>5, <2>6
<1>4. ASSUME NEW s \in 1..MaxSlots, Retire(s) PROVE BothSound'
  <2>1. Sound(ring') /\ Sound(disk')
    BY <1>0, <1>4, ReleaseSound DEF Retire, Saved, SaveFails, Sound, OneEach, Covered
  <2>2. told' \subseteq Nat \X Peer
    BY <1>0, <1>4 DEF Retire, NotTold
  <2>3. s \in Nat /\ (retired' = retired \/ retired' = retired \cup {s})
    BY <1>4, SlotsAssumption DEF Retire
  <2> QED
    BY <1>0, <1>1, <2>1, <2>2, <2>3
<1>5. ASSUME NEW s \in 1..MaxSlots, NEW q \in Peer, GiveOver(s, q) PROVE BothSound'
  <2>1. Sound(Handover(ring, s, q))
    BY <1>0, <1>5, HandoverSound DEF GiveOver
  <2>2. Sound(ring') /\ Sound(disk')
    BY <1>0, <1>5, <2>1 DEF GiveOver, Saved, SaveFails, Sound, OneEach, Covered
  <2>3. told' \subseteq Nat \X Peer /\ retired' \subseteq Nat
    BY <1>0, <1>5 DEF GiveOver, NotTold
  <2> QED
    BY <1>1, <2>2, <2>3
<1>6. CASE Reload
  BY <1>0, <1>1, <1>6, LoadGridSound DEF Reload, Sound, OneEach, Covered
<1>7. CASE UNCHANGED slotsVars
  BY <1>7 DEF slotsVars, BothSound, Sound, SlotsTypeOK, OneEach, Covered
<1> QED
  BY <1>2, <1>3, <1>4, <1>5, <1>6, <1>7 DEF SlotsNext

(* No two reservations of the live map, or of ring.json, ever share a slot, *)
(* a position or a peer, however a Save fails (Place, splice, Handover).     *)
THEOREM MapAlwaysSound == SlotsSpec => []MapSound
<1>1. BothSound => MapSound
  BY DEF BothSound, Sound, MapSound
<1> QED
  BY BothSoundInit, BothSoundStep, <1>1, PTL DEF SlotsSpec

(* The map, the file and what was told keep their types. *)
THEOREM SlotsTypes == SlotsSpec => []SlotsTypeOK
<1>1. BothSound => SlotsTypeOK
  BY DEF BothSound
<1> QED
  BY BothSoundInit, BothSoundStep, <1>1, PTL DEF SlotsSpec

-----------------------------------------------------------------------------
(* A retired number is behind both counters, so that no placement, and no *)
(* restart onto an older file, comes to it again.                         *)

Behind == \A s \in retired : s <= ring.max /\ s <= disk.max
RetiredInv == BothSound /\ Behind /\ AddressesRetired
Fresh(g) == \A r \in g.slots : r.slot \notin retired

LEMMA PlacementSlots ==
    ASSUME NEW g, Sound(g), NEW p \in Peer, NEW h \in Placements(g, p), NEW r \in h.slots
    PROVE  r.slot = g.max + 1 \/ \E q \in g.slots : q.slot = r.slot
<1>1. <<r.slot, r.peer>> \in Binds(h)
  BY DEF Binds
<1>2. <<r.slot, r.peer>> \in Binds(g) \/ <<r.slot, r.peer>> = <<g.max + 1, p>>
  BY <1>1, PlacementBinds
<1> QED
  BY <1>2 DEF Binds

LEMMA HandoverSlots ==
    ASSUME NEW g, NEW s, NEW q, Sound(g), NEW r \in Handover(g, s, q).slots
    PROVE  \E o \in g.slots : o.slot = r.slot /\ r.peer = IF o.slot = s THEN q ELSE o.peer
<1>1. g.slots \subseteq Reservation /\ g \in Map
  BY DEF Sound, Map
<1>2. Handover(g, s, q).slots = {IF o.slot = s THEN [o EXCEPT !.peer = q] ELSE o : o \in g.slots}
  BY <1>1 DEF Handover, Map
<1> QED
  BY <1>1, <1>2 DEF Reservation

LEMMA RetiredStep == RetiredInv /\ [SlotsNext]_slotsVars => RetiredInv'
<1> SUFFICES ASSUME RetiredInv, [SlotsNext]_slotsVars PROVE RetiredInv'
  OBVIOUS
<1>0. /\ Sound(ring) /\ Sound(disk) /\ retired \subseteq Nat /\ Fresh(ring) /\ Fresh(disk)
      /\ \A s \in retired : s <= ring.max /\ s <= disk.max
      /\ ring.max \in Nat /\ disk.max \in Nat
  BY DEF RetiredInv, BothSound, SlotsTypeOK, Behind, AddressesRetired, Fresh, Map
<1>1. BothSound'
  BY BothSoundStep DEF RetiredInv
<1>2. ASSUME NEW p \in Peer, Reclaim(p) PROVE RetiredInv'
  BY <1>1, <1>2 DEF RetiredInv, Reclaim, Behind, AddressesRetired
<1>3. ASSUME NEW p \in Peer, Assign(p) PROVE RetiredInv'
  <2>1. PICK placed \in Placements(ring, p) :
           \/ ring' = placed /\ Saved(placed)
           \/ ring' = Release(placed, placed.max) /\ SaveFails(placed)
    BY <1>3 DEF Assign
  <2>2. placed.max = ring.max + 1
    BY <1>0, <2>1, PlacementBinds
  <2>3. Fresh(placed)
    BY <1>0, <2>1, PlacementSlots DEF Fresh
  <2>4. Sound(placed) /\ placed \in Map
    BY <1>0, <1>3, <2>1, PlacementSound DEF Assign, Sound
  <2>5. Release(placed, placed.max).max = placed.max /\ Fresh(Release(placed, placed.max))
    BY <2>3, <2>4 DEF Release, Fresh, Map
  <2>6. (ring' = placed \/ ring' = Release(placed, placed.max)) /\ (disk' = placed \/ disk' = disk)
    BY <2>1 DEF Saved, SaveFails
  <2>7. retired' = retired
    BY <1>3 DEF Assign
  <2>8. Behind'
    BY <1>0, <2>2, <2>5, <2>6, <2>7 DEF Behind
  <2>9. AddressesRetired'
    BY <1>0, <2>3, <2>5, <2>6, <2>7 DEF AddressesRetired, Fresh
  <2> QED
    BY <1>1, <2>8, <2>9 DEF RetiredInv
<1>4. ASSUME NEW s \in 1..MaxSlots, Retire(s) PROVE RetiredInv'
  <2>1. ring' = Release(ring, s) /\ s <= ring.max /\ ring \in Map
    BY <1>0, <1>4 DEF Retire, ResOfSlot, Sound, Covered, Map
  <2>2. ring'.max = ring.max /\ ring'.slots = {r \in ring.slots : r.slot # s}
    BY <2>1 DEF Release, Map
  <2>3. \/ disk' = ring' /\ retired' = retired \cup {s}
        \/ (disk' = ring' \/ disk' = disk) /\ retired' = retired
    BY <1>4 DEF Retire, Saved, SaveFails
  <2>4. Behind'
    BY <1>0, <2>1, <2>2, <2>3 DEF Behind
  <2>5. AddressesRetired'
    BY <1>0, <2>2, <2>3 DEF AddressesRetired, Fresh
  <2> QED
    BY <1>1, <2>4, <2>5 DEF RetiredInv
<1>5. ASSUME NEW s \in 1..MaxSlots, NEW q \in Peer, GiveOver(s, q) PROVE RetiredInv'
  <2> DEFINE given == Handover(ring, s, q)
  <2>1. (ring' = given \/ ring' = ring) /\ (disk' = given \/ disk' = disk) /\ retired' = retired
    BY <1>5 DEF GiveOver, Saved, SaveFails
  <2>2. given.max = ring.max
    BY <1>0 DEF Handover, Sound, Map
  <2>3. Fresh(given)
    BY <1>0, HandoverSlots DEF Fresh
  <2> HIDE DEF given
  <2> QED
    BY <1>0, <1>1, <2>1, <2>2, <2>3 DEF RetiredInv, Behind, AddressesRetired, Fresh
<1>6. CASE Reload
  <2>1. ring' = disk /\ disk' = disk /\ retired' = retired
    BY <1>0, <1>6, LoadGridSound DEF Reload
  <2> QED
    BY <1>0, <1>1, <2>1 DEF RetiredInv, Behind, AddressesRetired, Fresh
<1>7. CASE UNCHANGED slotsVars
  BY <1>1, <1>7 DEF slotsVars, RetiredInv, Behind, AddressesRetired
<1> QED
  BY <1>2, <1>3, <1>4, <1>5, <1>6, <1>7 DEF SlotsNext

(* The number of a slot an operator was told is released is never bound    *)
(* again, by a placement, a failed Save or a restart (Release, reserve).   *)
THEOREM AddressesStayRetired == SlotsSpec => []AddressesRetired
<1>1. SlotsInit => RetiredInv
  BY BothSoundInit DEF SlotsInit, RetiredInv, Behind, AddressesRetired
<1>2. RetiredInv => AddressesRetired
  BY DEF RetiredInv
<1> QED
  BY <1>1, RetiredStep, <1>2, PTL DEF SlotsSpec

-----------------------------------------------------------------------------
(* While a Save that fails leaves the file as it was: what was answered is *)
(* in memory, and what is in memory is in the file.                        *)

Nested == told \subseteq Binds(ring) /\ Binds(ring) \subseteq Binds(disk)
DurableInv == BothSound /\ Nested

LEMMA ReleaseBinds ==
    ASSUME NEW g, Sound(g), NEW s
    PROVE  Binds(Release(g, s)) = {b \in Binds(g) : b[1] # s}
<1>1. Release(g, s).slots = {r \in g.slots : r.slot # s}
  BY DEF Release, Sound, Map
<1>2. ASSUME NEW x PROVE x \in Binds(Release(g, s)) <=> x \in Binds(g) /\ x[1] # s
  BY <1>1 DEF Binds
<1> QED
  BY <1>2

LEMMA HandoverBinds ==
    ASSUME NEW g, Sound(g), NEW s, NEW q, NEW b \in Binds(g), b[1] # s
    PROVE  b \in Binds(Handover(g, s, q))
<1>1. Handover(g, s, q).slots = {IF o.slot = s THEN [o EXCEPT !.peer = q] ELSE o : o \in g.slots}
  BY DEF Handover, Sound, Map
<1>2. PICK r \in g.slots : b = <<r.slot, r.peer>>
  BY DEF Binds
<1>3. r \in Handover(g, s, q).slots
  BY <1>1, <1>2
<1> QED
  BY <1>2, <1>3 DEF Binds

LEMMA DurableStep ==
    ASSUME SaveFaults \subseteq {"write"}, DurableInv, [SlotsNext]_slotsVars
    PROVE  DurableInv'
<1>0. /\ Sound(ring) /\ Sound(disk)
      /\ told \subseteq Binds(ring) /\ Binds(ring) \subseteq Binds(disk)
  BY DEF DurableInv, BothSound, Nested
<1>1. BothSound'
  BY BothSoundStep DEF DurableInv
<1>2. ASSUME NEW p \in Peer, Reclaim(p) PROVE DurableInv'
  <2>1. <<SlotOf(ring, p), p>> \in Binds(ring)
    BY <1>2, SlotOfHeld DEF Reclaim, Binds
  <2> QED
    BY <1>0, <1>1, <1>2, <2>1 DEF DurableInv, Nested, Reclaim, Binds
<1>3. ASSUME NEW p \in Peer, Assign(p) PROVE DurableInv'
  <2>1. PICK placed \in Placements(ring, p) :
           \/ /\ ring' = placed /\ disk' = placed
              /\ told' = told \cup {<<placed.max, p>>}
           \/ /\ ring' = Release(placed, placed.max) /\ disk' = disk
              /\ told' = told
    BY <1>3 DEF Assign, Saved, SaveFails
  <2>2. Sound(placed)
    BY <1>0, <1>3, <2>1, PlacementSound DEF Assign
  <2>3. placed.max = ring.max + 1 /\ Binds(placed) = Binds(ring) \cup {<<placed.max, p>>}
    BY <1>0, PlacementBinds
  <2>4. \A b \in Binds(ring) : b[1] # ring.max + 1
    BY <1>0 DEF Binds, Sound, Covered, Map, Reservation
  <2>5. Binds(Release(placed, placed.max)) = Binds(ring)
    BY <2>2, <2>3, <2>4, ReleaseBinds
  <2>6. CASE ring' = placed /\ disk' = placed /\ told' = told \cup {<<placed.max, p>>}
    BY <1>0, <1>1, <2>3, <2>6 DEF DurableInv, Nested
  <2>7. CASE ring' = Release(placed, placed.max) /\ disk' = disk /\ told' = told
    BY <1>0, <1>1, <2>5, <2>7 DEF DurableInv, Nested
  <2> QED
    BY <2>1, <2>6, <2>7
<1>4. ASSUME NEW s \in 1..MaxSlots, Retire(s) PROVE DurableInv'
  <2>1. /\ ring' = Release(ring, s) /\ told' = {t \in told : t[1] # s}
        /\ disk' = ring' \/ disk' = disk
    BY <1>4 DEF Retire, NotTold, Saved, SaveFails
  <2>2. Binds(ring') = {b \in Binds(ring) : b[1] # s}
    BY <1>0, <2>1, ReleaseBinds
  <2> QED
    BY <1>0, <1>1, <2>1, <2>2 DEF DurableInv, Nested
<1>5. ASSUME NEW s \in 1..MaxSlots, NEW q \in Peer, GiveOver(s, q) PROVE DurableInv'
  <2> DEFINE given == Handover(ring, s, q)
  <2>1. \/ ring' = given /\ disk' = given /\ told' = {t \in told : t[1] # s}
        \/ ring' = ring /\ disk' = disk /\ told' = told
    BY <1>5 DEF GiveOver, NotTold, Saved, SaveFails
  <2>2. \A b \in Binds(ring) : b[1] # s => b \in Binds(given)
    BY <1>0, HandoverBinds
  <2> HIDE DEF given
  <2> QED
    BY <1>0, <1>1, <2>1, <2>2 DEF DurableInv, Nested
<1>6. CASE Reload
  <2>1. ring' = disk /\ disk' = disk /\ told' = told
    BY <1>0, <1>6, LoadGridSound DEF Reload
  <2> QED
    BY <1>0, <1>1, <2>1 DEF DurableInv, Nested
<1>7. CASE UNCHANGED slotsVars
  BY <1>0, <1>1, <1>7 DEF slotsVars, DurableInv, Nested
<1> QED
  BY <1>2, <1>3, <1>4, <1>5, <1>6, <1>7 DEF SlotsNext

(* Every grant that was answered is in ring.json until an operator takes it  *)
(* back, if a failed Save leaves the old file (onSectorClaim, assignLocked). *)
THEOREM GrantsAreDurable ==
    ASSUME SaveFaults \subseteq {"write"} PROVE SlotsSpec => []GrantsDurable
<1>1. SlotsInit => DurableInv
  BY BothSoundInit DEF SlotsInit, DurableInv, Nested
<1>2. DurableInv /\ [SlotsNext]_slotsVars => DurableInv'
  BY DurableStep
<1>3. DurableInv => GrantsDurable
  <2>1. DurableInv => told \subseteq Binds(disk)
    BY DEF DurableInv, Nested
  <2>2. told \subseteq Binds(disk) => GrantsDurable
    BY DEF GrantsDurable, Binds
  <2> QED
    BY <2>1, <2>2
<1> QED
  BY <1>1, <1>2, <1>3, PTL DEF SlotsSpec

-----------------------------------------------------------------------------
(* The registry implements the promise: wherever rules 4 to 6 really put a  *)
(* newcomer is one of the places Slots allows.                              *)

(* Neither side of the rectangle is empty alone. *)
Proper(g) == g.width = 0 <=> g.height = 0

(* A set of numbers has a least one. *)
LEMMA LeastNat ==
    ASSUME NEW T \in SUBSET Nat, T # {}
    PROVE  \E x \in T : \A y \in T : x <= y
<1> DEFINE R == {ss \in Nat \X Nat : ss[1] < ss[2]}
<1>1. OpToRel(<, Nat) = R
  BY DEF OpToRel
<1>2. PICK x \in T : \A y \in T : ~(<<y, x>> \in R)
  BY ZenonT(30), <1>1, NatLessThanWellFounded, WFMin
<1>3. ASSUME NEW y \in T PROVE x <= y
  <2>1. <<y, x>> \in Nat \X Nat /\ <<y, x>>[1] = y /\ <<y, x>>[2] = x
    OBVIOUS
  <2>2. ~(y < x)
    BY <1>2, <2>1
  <2> QED
    BY <2>2
<1> QED
  BY <1>3

(* A sound map has finitely many reservations. *)
LEMMA FiniteSlots ==
    ASSUME NEW g, Sound(g) PROVE IsFiniteSet(g.slots)
<1> DEFINE f == [r \in g.slots |-> r.slot]
<1>1. g.max \in Nat /\ \A r \in g.slots : r.slot \in 1..g.max
  BY DEF Sound, Map, Covered
<1>2. f \in Injection(g.slots, 1..g.max)
  BY <1>1 DEF Sound, OneEach, Injection, IsInjective
<1>3. IsFiniteSet(1..g.max)
  BY <1>1, FS_Interval
<1> QED
  BY <1>2, <1>3, FS_Injection

(* The arithmetic agrees with the search: where it finds no hole, there is *)
(* none.                                                                   *)
LEMMA NoHoleFound ==
    ASSUME NEW g, Sound(g), ~HasHole(g) PROVE Holes(g) = {}
<1> SUFFICES ASSUME NEW h \in Holes(g) PROVE FALSE
  OBVIOUS
<1> DEFINE Rect == (0..g.width - 1) \X (0..g.height - 1)
           f == [r \in g.slots |-> <<r.col, r.row>>]
<1>1. g.width \in Nat /\ g.height \in Nat /\ g.slots \subseteq Reservation
  BY DEF Sound, Map
<1>2. h \in Rect /\ At(g, h[1], h[2]) = {} /\ h = <<h[1], h[2]>>
  BY DEF Holes
<1>3. f \in Injection(g.slots, Rect \ {h})
  <2>1. ASSUME NEW r \in g.slots PROVE f[r] \in Rect \ {h}
    <3>1. r.col \in 0..g.width - 1 /\ r.row \in 0..g.height - 1
      BY <1>1 DEF Sound, Covered, Inside, Reservation
    <3>2. <<r.col, r.row>> # h
      BY <1>2 DEF At
    <3> QED
      BY <3>1, <3>2
  <2>2. ASSUME NEW r \in g.slots, NEW o \in g.slots, f[r] = f[o] PROVE r = o
    BY <2>2 DEF Sound, OneEach
  <2> QED
    BY <2>1, <2>2 DEF Injection, IsInjective
<1>4. ASSUME NEW n \in Nat PROVE IsFiniteSet(0..n - 1) /\ Cardinality(0..n - 1) = n
  <2>1. n - 1 \in Int /\ (IF 0 > n - 1 THEN 0 ELSE (n - 1) - 0 + 1) = n
    OBVIOUS
  <2>2. 0 \in Int
    OBVIOUS
  <2> QED
    BY <2>1, <2>2, FS_Interval
<1>5. /\ IsFiniteSet(0..g.width - 1) /\ Cardinality(0..g.width - 1) = g.width
      /\ IsFiniteSet(0..g.height - 1) /\ Cardinality(0..g.height - 1) = g.height
  BY <1>1, <1>4
<1>6. IsFiniteSet(Rect) /\ Cardinality(Rect) = g.width * g.height
  BY <1>5, FS_Product
<1> HIDE DEF Rect
<1>7. IsFiniteSet(Rect \ {h}) /\ Cardinality(Rect \ {h}) = g.width * g.height - 1
  BY <1>2, <1>6, FS_RemoveElement
<1>8. Cardinality(g.slots) <= g.width * g.height - 1
  BY <1>3, <1>7, FS_Injection
<1>9. Cardinality(g.slots) \in Nat /\ g.width * g.height \in Nat
  BY <1>1, FiniteSlots, FS_CardinalityType
<1> QED
  BY <1>8, <1>9 DEF HasHole

(* The first hole in structural order is there, if any is. *)
LEMMA FirstHoleIsOne ==
    ASSUME NEW g, g.width \in Nat, g.height \in Nat, Holes(g) # {}
    PROVE  firstHole(g) \in Holes(g)
<1>1. \A h \in Holes(g) : h[1] \in Nat /\ h[2] \in Nat /\ h = <<h[1], h[2]>>
  BY DEF Holes
<1> DEFINE rows == {h[2] : h \in Holes(g)}
<1>2. rows \in SUBSET Nat /\ rows # {}
  BY <1>1
<1> HIDE DEF rows
<1>3. PICK row \in rows : \A y \in rows : row <= y
  BY <1>2, LeastNat
<1> DEFINE cols == {h[1] : h \in {o \in Holes(g) : o[2] = row}}
<1>4. cols \in SUBSET Nat /\ cols # {}
  <2>1. PICK h \in Holes(g) : h[2] = row
    BY <1>3 DEF rows
  <2> QED
    BY <1>1, <2>1
<1> HIDE DEF cols
<1>5. PICK col \in cols : \A y \in cols : col <= y
  BY <1>4, LeastNat
<1>6. PICK h \in Holes(g) : h[2] = row /\ h[1] = col
  BY <1>5 DEF cols
<1>7. ASSUME NEW o \in Holes(g) \ {h} PROVE Before(h, o)
  <2>1. o[2] \in rows /\ (o[2] = row => o[1] \in cols)
    BY DEF rows, cols
  <2>2. row <= o[2] /\ (o[2] = row => col <= o[1])
    BY <1>3, <1>5, <2>1
  <2>3. ~(o[1] = h[1] /\ o[2] = h[2])
    BY <1>1
  <2> QED
    BY <1>1, <1>6, <2>2, <2>3 DEF Before
<1> QED
  BY <1>6, <1>7 DEF firstHole

(* Where rule 4, 5 or 6 puts a newcomer is a place the promise allows. *)
LEMMA PlaceIsPlacement ==
    ASSUME NEW g, Sound(g), Proper(g), NEW p, NEW pref \in Preferences
    PROVE  Place(g, p, pref) \in Placements(g, p)
<1>1. g.width \in Nat /\ g.height \in Nat /\ g.slots \subseteq Reservation
  BY DEF Sound, Map
<1>2. ASSUME NEW x \in Beyond(g), Holes(g) = {}
      PROVE  reserve(g, p, x[1], x[2]) \in Placements(g, p)
  BY <1>2 DEF Placements
<1>3. g.width = 0 => Holes(g) = {} /\ <<0, 0>> \in Beyond(g)
  BY <1>1 DEF Holes, Beyond, Larger, Proper
<1>4. <<g.width, 0>> \in Beyond(g) /\ <<0, g.height>> \in Beyond(g)
  <2>1. 0 \in 0..Larger(g.height, 1) - 1 /\ 0 \in 0..Larger(g.width, 1) - 1
    BY <1>1 DEF Larger
  <2> QED
    BY <2>1 DEF Beyond
<1>5. CASE pref[1] = "at" /\ Usable(g, pref[2], pref[3])
  <2> DEFINE col == pref[2]  row == pref[3]
  <2>1. col \in Nat /\ row \in Nat /\ Place(g, p, pref) = reserve(g, p, col, row)
    <3>1. pref \in {"at"} \X Int \X Int
      BY <1>5, RelayMapAssumption DEF NoPref
    <3> QED
      BY <1>5, <3>1 DEF Usable, Place
  <2>2. CASE g.width = 0 /\ g.height = 0 /\ col = 0 /\ row = 0
    BY <1>2, <1>3, <2>1, <2>2
  <2>3. CASE Inside(g, col, row) /\ At(g, col, row) = {}
    <3>1. <<col, row>> \in Holes(g)
      BY <1>1, <2>1, <2>3 DEF Holes, Inside
    <3> QED
      BY <2>1, <3>1 DEF Placements
  <2>4. CASE ~HasHole(g) /\ (\/ col = g.width /\ row < Larger(g.height, 1)
                             \/ row = g.height /\ col < Larger(g.width, 1))
    <3>1. Holes(g) = {}
      BY <2>4, NoHoleFound
    <3>2. \/ col = g.width /\ row \in 0..Larger(g.height, 1) - 1
          \/ row = g.height /\ col \in 0..Larger(g.width, 1) - 1
      BY <1>1, <2>1, <2>4 DEF Larger
    <3>3. <<col, row>> \in Beyond(g)
      BY <3>2 DEF Beyond
    <3> QED
      BY <1>2, <2>1, <3>1, <3>3
  <2> QED
    BY <1>5, <2>2, <2>3, <2>4 DEF Usable
<1>6. CASE pref[1] = "after" /\ ResOfSlot(g, pref[2]) # {}
  <2> DEFINE r == CHOOSE o \in g.slots : o.slot = pref[2]
  <2>1. pref \in {"after"} \X Int \X {"E", "N"}
    BY <1>6, RelayMapAssumption DEF NoPref
  <2>2. r \in g.slots /\ pref[3] \in {"E", "N"}
    BY <1>6, <2>1 DEF ResOfSlot
  <2>3. Place(g, p, pref) = splice(g, p, r, pref[3])
    BY <1>6 DEF Place
  <2> HIDE DEF r
  <2>4. \E o \in g.slots, axis \in {"E", "N"} : Place(g, p, pref) = splice(g, p, o, axis)
    BY <2>2, <2>3
  <2> QED
    BY <2>4 DEF Placements
<1>7. autoPlace(g, p) \in Placements(g, p)
  <2>1. CASE HasHole(g) /\ Holes(g) # {}
    <3>1. firstHole(g) \in Holes(g)
      BY <1>1, <2>1, FirstHoleIsOne
    <3> QED
      BY <2>1, <3>1 DEF autoPlace, Placements
  <2>2. CASE Holes(g) = {}
    <3>1. CASE g.width = 0 \/ g.height = 0
      <4>1. g.width = 0 /\ g.height = 0
        BY <3>1 DEF Proper
      <4>2. reserve([g EXCEPT !.width = 1, !.height = 1], p, 0, 0) = reserve(g, p, 0, 0)
        BY <4>1 DEF reserve, Larger, Sound, Map
      <4> QED
        BY <1>2, <1>3, <2>2, <3>1, <4>1, <4>2 DEF autoPlace
    <3>2. CASE ~(g.width = 0 \/ g.height = 0)
      BY <1>2, <1>4, <2>2, <3>2 DEF autoPlace
    <3> QED
      BY <3>1, <3>2
  <2> QED
    BY <2>1, <2>2, NoHoleFound
<1> QED
  BY <1>5, <1>6, <1>7 DEF Place

(* The rectangle stays proper. *)
LEMMA PlacementProper ==
    ASSUME NEW g, Sound(g), NEW p, NEW h \in Placements(g, p)
    PROVE  Proper(h)
<1>1. g.width \in Nat /\ g.height \in Nat /\ g.slots \subseteq Reservation
  BY DEF Sound, Map
<1>2. ASSUME NEW k, k.width \in Nat, k.height \in Nat, NEW col \in Nat, NEW row \in Nat
      PROVE  Proper(reserve(k, p, col, row))
  BY <1>2 DEF Proper, reserve, Larger
<1>3. CASE \E x \in Holes(g) : h = reserve(g, p, x[1], x[2])
  BY <1>1, <1>2, <1>3 DEF Holes
<1>4. CASE \E x \in Beyond(g) : h = reserve(g, p, x[1], x[2])
  <2>1. PICK x \in Beyond(g) : h = reserve(g, p, x[1], x[2])
    BY <1>4
  <2>2. x[1] \in Nat /\ x[2] \in Nat
    BY <1>1 DEF Beyond, Larger
  <2> QED
    BY <1>1, <1>2, <2>1, <2>2
<1>5. CASE \E r \in g.slots, axis \in {"E", "N"} : h = splice(g, p, r, axis)
  <2>1. PICK r \in g.slots, axis \in {"E", "N"} : h = splice(g, p, r, axis)
    BY <1>5
  <2>2. r.col \in Nat /\ r.row \in Nat
    BY <1>1 DEF Reservation
  <2>3. /\ rowInserted(g, r.row).width \in Nat /\ rowInserted(g, r.row).height \in Nat
        /\ colInserted(g, r.col).width \in Nat /\ colInserted(g, r.col).height \in Nat
    BY <1>1 DEF rowInserted, colInserted
  <2> QED
    BY <1>2, <2>1, <2>2, <2>3 DEF splice
<1> QED
  BY <1>3, <1>4, <1>5 DEF Placements

-----------------------------------------------------------------------------
(* What the registry knows while it does so: who a connection is, and what *)
(* act is under way.                                                       *)

RelayTypes ==
    /\ conn \in [Conn -> [peer : Peer \cup {"none"}, claimed : BOOLEAN, read : BOOLEAN,
                          status : {"unused", "door", "open", "shut", "gone"}]]
    /\ live \in [Peer -> {0} \cup Conn]
    /\ token = NoAct \/ token \in [act : Act, map : Map]
    /\ job \in Act \cup {NoAct}
(* Only a connection that is somebody's has a claim read. *)
ReadersKnown == \A c \in Conn : conn[c].status \in {"door", "open"} \/ conn[c].read
                                    => conn[c].peer \in Peer
RelayInv == BothSound /\ Proper(ring) /\ Proper(disk) /\ RelayTypes /\ ReadersKnown

LEMMA SlotsProper ==
    ASSUME BothSound, Proper(ring), Proper(disk), [SlotsNext]_slotsVars
    PROVE  Proper(ring)' /\ Proper(disk)'
<1>0. Sound(ring) /\ Sound(disk) /\ ring \in Map /\ disk \in Map
  BY DEF BothSound, Sound
<1>1. \A g \in Map : \A s : Proper(g) => Proper(Release(g, s))
  BY DEF Map, Release, Proper
<1>2. \A g \in Map : \A s, q : Proper(g) => Proper(Handover(g, s, q))
  BY DEF Map, Handover, Proper
<1>3. ASSUME NEW p \in Peer, Assign(p) PROVE Proper(ring)' /\ Proper(disk)'
  <2>1. PICK placed \in Placements(ring, p) :
           \/ ring' = placed /\ Saved(placed)
           \/ ring' = Release(placed, placed.max) /\ SaveFails(placed)
    BY <1>3 DEF Assign
  <2>2. Proper(placed) /\ placed \in Map
    BY <1>0, <1>3, <2>1, PlacementProper, PlacementSound DEF Assign, Sound
  <2>3. Proper(Release(placed, placed.max))
    BY <1>1, <2>2
  <2>4. (ring' = placed \/ ring' = Release(placed, placed.max)) /\ (disk' = placed \/ disk' = disk)
    BY <2>1 DEF Saved, SaveFails
  <2> QED
    BY <2>2, <2>3, <2>4 DEF Proper
<1>4. ASSUME NEW s, Retire(s) PROVE Proper(ring)' /\ Proper(disk)'
  <2>1. ring' = Release(ring, s) /\ (disk' = ring' \/ disk' = disk)
    BY <1>4 DEF Retire, Saved, SaveFails
  <2>2. Proper(Release(ring, s))
    BY <1>0, <1>1
  <2> QED
    BY <2>1, <2>2 DEF Proper
<1>5. ASSUME NEW s, NEW q, GiveOver(s, q) PROVE Proper(ring)' /\ Proper(disk)'
  <2> DEFINE given == Handover(ring, s, q)
  <2>1. (ring' = given \/ ring' = ring) /\ (disk' = given \/ disk' = disk)
    BY <1>5 DEF GiveOver, Saved, SaveFails
  <2>2. Proper(given)
    BY <1>0, <1>2
  <2> HIDE DEF given
  <2> QED
    BY <2>1, <2>2 DEF Proper
<1>6. CASE Reload
  BY <1>0, <1>6, LoadGridSound DEF Reload, Proper
<1>7. CASE (\E p \in Peer : Reclaim(p)) \/ UNCHANGED slotsVars
  BY <1>7 DEF Reclaim, slotsVars, Proper
<1> QED
  BY <1>3, <1>4, <1>5, <1>6, <1>7 DEF SlotsNext

(* A claim is a step of the promise. *)
LEMMA AssignKept ==
    ASSUME RelayInv, NEW p \in Peer, NEW pref \in Preferences, assign(p, pref), UNCHANGED retired
    PROVE  Assign(p)
<1>1. Place(ring, p, pref) \in Placements(ring, p)
  BY PlaceIsPlacement DEF RelayInv, BothSound
<1> QED
  BY <1>1 DEF assign, Assign

(* Every step of the registry is a step of the promise, or none of its. *)
LEMMA RelayStepsKept == ASSUME RelayInv, [Next]_vars PROVE [SlotsNext]_slotsVars
<1>1. ASSUME NEW c \in Conn, onSectorClaim(c) PROVE [SlotsNext]_slotsVars
  <2>1. Peers(c) \in Peer
    BY <1>1 DEF onSectorClaim, RelayInv, ReadersKnown, Peers
  <2>2. CASE UNCHANGED slotsVars
    BY <2>2
  <2>3. CASE Reclaim(Peers(c))
    BY <2>1, <2>3 DEF SlotsNext
  <2>4. CASE (\E pref \in Preferences : assign(Peers(c), pref)) /\ UNCHANGED retired
    BY <2>1, <2>4, AssignKept DEF SlotsNext
  <2> QED
    BY <1>1, <2>2, <2>3, <2>4 DEF onSectorClaim, Reclaim
<1>2. ASSUME NEW p \in Peer, ReserveSlot(p) PROVE [SlotsNext]_slotsVars
  BY <1>2, AssignKept DEF ReserveSlot, SlotsNext
<1>3. CASE applyAdmin
  <2>1. job \in Act
    BY <1>3 DEF applyAdmin, RelayInv, RelayTypes
  <2>2. ASSUME job.kind = "release", ReleaseSlot(job.slot) PROVE [SlotsNext]_slotsVars
    <3>1. job.slot \in 1..MaxSlots
      BY <2>1 DEF Act
    <3>2. UNCHANGED slotsVars \/ Retire(job.slot)
      BY <2>2 DEF ReleaseSlot, Retire
    <3> QED
      BY <3>1, <3>2 DEF SlotsNext
  <2>3. ASSUME job.kind = "handover", HandoverSlot(job.slot, job.peer) PROVE [SlotsNext]_slotsVars
    <3>1. job.slot \in 1..MaxSlots /\ job.peer \in Peer
      BY <2>1, <2>3 DEF Act
    <3>2. UNCHANGED slotsVars \/ GiveOver(job.slot, job.peer)
      BY <2>3 DEF HandoverSlot, GiveOver
    <3> QED
      BY <3>1, <3>2 DEF SlotsNext
  <2> QED
    BY <1>3, <2>2, <2>3 DEF applyAdmin
<1>4. CASE Restart
  BY <1>4 DEF Restart, SlotsNext
<1>5. ASSUME UNCHANGED slotsVars PROVE [SlotsNext]_slotsVars
  BY <1>5
<1> QED
  BY <1>1, <1>2, <1>3, <1>4, <1>5
     DEF Next, vars, serveWS, handshake, ReadClaim, HangUp, drop, Ends, adminReport, adminConfirm

LEMMA RelayInit == Init => RelayInv /\ SlotsInit
<1> SUFFICES ASSUME Init PROVE RelayInv /\ SlotsInit
  OBVIOUS
<1>1. SlotsInit /\ BothSound
  BY BothSoundInit DEF Init
<1>2. Proper(ring) /\ Proper(disk)
  BY <1>1 DEF SlotsInit, EmptyMap, Proper
<1>3. RelayTypes /\ ReadersKnown
  BY DEF Init, RelayTypes, ReadersKnown, Unused
<1> QED
  BY <1>1, <1>2, <1>3 DEF RelayInv

LEMMA RelayStep == RelayInv /\ [Next]_vars => RelayInv'
<1> SUFFICES ASSUME RelayInv, [Next]_vars PROVE RelayInv'
  OBVIOUS
<1>0. RelayTypes /\ ReadersKnown
  BY DEF RelayInv
<1>1. BothSound' /\ Proper(ring)' /\ Proper(disk)'
  BY RelayStepsKept, BothSoundStep, SlotsProper DEF RelayInv
<1>2. (token = NoAct \/ token \in [act : Act, map : Map])' /\ (job \in Act \cup {NoAct})'
  <2>1. ring \in Map
    BY DEF RelayInv, BothSound, Sound
  <2>2. CASE \E a \in Act : adminReport(a)
    BY <1>0, <2>1, <2>2 DEF adminReport, RelayTypes
  <2>3. CASE adminConfirm
    BY <1>0, <2>3 DEF adminConfirm, RelayTypes
  <2>4. CASE applyAdmin
    BY <1>0, <2>4 DEF applyAdmin, RelayTypes
  <2>5. CASE Restart
    BY <1>0, <2>5 DEF Restart, RelayTypes
  <2>6. CASE UNCHANGED adminVars
    BY <1>0, <2>6 DEF adminVars, RelayTypes
  <2> QED
    BY <2>2, <2>3, <2>4, <2>5, <2>6
       DEF Next, vars, adminVars, serveWS, handshake, ReadClaim, onSectorClaim, HangUp, drop, Ends,
           ReserveSlot
<1> DEFINE
      C == [peer : Peer \cup {"none"}, claimed : BOOLEAN, read : BOOLEAN,
            status : {"unused", "door", "open", "shut", "gone"}]
      Good(r) == r \in C /\ (r.status \in {"door", "open"} \/ r.read => r.peer \in Peer)
      AllGood == conn \in [Conn -> C] /\ \A c \in Conn : Good(conn[c])
<1>3. AllGood /\ live \in [Peer -> {0} \cup Conn]
  BY <1>0 DEF RelayTypes, ReadersKnown
<1>4. Good(Unused) /\ Good(Gone)
  BY DEF Unused, Gone
<1>5. ASSUME NEW D PROVE /\ \A c \in Conn : Good(Shut(D)[c]) /\ Shut(D)[c].peer = conn[c].peer
                         /\ Shut(D) \in [Conn -> C]
  <2>1. ASSUME NEW c \in Conn PROVE Good(Shut(D)[c]) /\ Shut(D)[c].peer = conn[c].peer
    <3>1. Good(conn[c]) /\ (c \notin D => Shut(D)[c] = conn[c])
      BY <1>3 DEF Shut
    <3>2. c \in D => Shut(D)[c] = [conn[c] EXCEPT !.status = "shut"]
      BY DEF Shut
    <3>3. c \in D => Good(Shut(D)[c]) /\ Shut(D)[c].peer = conn[c].peer
      BY <1>3, <3>2
    <3> QED
      BY <3>1, <3>3
  <2> QED
    BY <2>1 DEF Shut
<1>6. AllGood' /\ (live \in [Peer -> {0} \cup Conn])'
  <2>1. ASSUME NEW c \in Conn, NEW p \in Peer, serveWS(c, p) PROVE AllGood' /\ (live \in [Peer -> {0} \cup Conn])'
    <3>1. Good([Unused EXCEPT !.peer = p, !.status = "door"])
      BY DEF Unused
    <3> QED
      BY <1>3, <2>1, <3>1 DEF serveWS
  <2>2. ASSUME NEW c \in Conn, handshake(c) PROVE AllGood' /\ (live \in [Peer -> {0} \cup Conn])'
    <3>1. Peers(c) \in Peer
      BY <1>3, <2>2 DEF handshake, Peers
    <3>2. CASE conn' = [conn EXCEPT ![c] = Gone] /\ UNCHANGED live
      BY <1>3, <1>4, <3>2
    <3>3. CASE /\ conn' = [Shut({live[Peers(c)]}) EXCEPT ![c].status = "open"]
               /\ live' = [live EXCEPT ![Peers(c)] = c]
      <4> DEFINE S == Shut({live[Peers(c)]})
      <4>1. (\A d \in Conn : Good(S[d]) /\ S[d].peer = conn[d].peer) /\ S \in [Conn -> C]
        BY <1>5
      <4> HIDE DEF S
      <4>2. Good([S[c] EXCEPT !.status = "open"])
        BY <3>1, <4>1 DEF Peers
      <4>3. conn' = [S EXCEPT ![c] = [S[c] EXCEPT !.status = "open"]]
        BY <3>3 DEF S
      <4>4. AllGood'
        BY <4>1, <4>2, <4>3
      <4> QED
        BY <1>3, <3>1, <3>3, <4>4
    <3> QED
      BY <2>2, <3>2, <3>3 DEF handshake
  <2>3. ASSUME NEW c \in Conn, ReadClaim(c) PROVE AllGood' /\ (live \in [Peer -> {0} \cup Conn])'
    <3>1. Good([conn[c] EXCEPT !.read = TRUE])
      BY <1>3, <2>3 DEF ReadClaim
    <3> QED
      BY <1>3, <2>3, <3>1 DEF ReadClaim
  <2>4. ASSUME NEW c \in Conn, onSectorClaim(c) PROVE AllGood' /\ (live \in [Peer -> {0} \cup Conn])'
    <3>1. \E r : Good(r) /\ conn' = [conn EXCEPT ![c] = r]
      <4>1. Good([conn[c] EXCEPT !.read = FALSE])
        BY <1>3
      <4>2. \A k \in BOOLEAN : Good([conn[c] EXCEPT !.read = FALSE, !.claimed = k])
        BY <1>3
      <4>3. \/ conn' = [conn EXCEPT ![c] = [conn[c] EXCEPT !.read = FALSE]]
            \/ \E k \in BOOLEAN :
                 conn' = [conn EXCEPT ![c] = [conn[c] EXCEPT !.read = FALSE, !.claimed = k]]
        BY <1>3, <2>4 DEF onSectorClaim
      <4> QED
        BY <4>1, <4>2, <4>3
    <3>2. live' = live
      BY <2>4 DEF onSectorClaim
    <3> QED
      BY <1>3, <3>1, <3>2
  <2>5. ASSUME NEW c \in Conn, HangUp(c) PROVE AllGood' /\ (live \in [Peer -> {0} \cup Conn])'
    BY <1>3, <1>5, <2>5 DEF HangUp
  <2>6. ASSUME NEW c \in Conn, drop(c) PROVE AllGood' /\ (live \in [Peer -> {0} \cup Conn])'
    BY <1>3, <2>6 DEF drop
  <2>7. ASSUME NEW c \in Conn, Ends(c) PROVE AllGood' /\ (live \in [Peer -> {0} \cup Conn])'
    BY <1>3, <1>4, <2>7 DEF Ends
  <2>8. CASE Restart
    BY <1>3, <1>4, <2>8 DEF Restart
  <2>9. CASE UNCHANGED connVars
    BY <1>3, <2>9 DEF connVars
  <2> QED
    BY <2>1, <2>2, <2>3, <2>4, <2>5, <2>6, <2>7, <2>8, <2>9
       DEF Next, vars, ReserveSlot, adminReport, adminConfirm, applyAdmin, connVars
<1>7. RelayTypes' /\ ReadersKnown'
  BY <1>2, <1>6 DEF RelayTypes, ReadersKnown
<1> QED
  BY <1>1, <1>7 DEF RelayInv

(* The relay's registry, its connections, claims, operator's acts and       *)
(* restarts keep the map that Slots promises, wherever Place really puts a  *)
(* newcomer (relay.go, admin.go, grid.go).                                  *)
THEOREM RegistryKeepsTheMap == Spec => MapKept
<1>1. Spec => []RelayInv
  BY RelayInit, RelayStep, PTL DEF Spec
<1>2. RelayInv /\ [Next]_vars => [SlotsNext]_slotsVars
  BY RelayStepsKept
<1> QED
  BY <1>1, <1>2, RelayInit, PTL DEF Spec, MapKept, SlotsSpec

-----------------------------------------------------------------------------
(* Nothing takes a slot from under a connection.                           *)

LEMMA SlotOfBound ==
    ASSUME NEW g, Sound(g), NEW s, NEW p, <<s, p>> \in Binds(g)
    PROVE  Holds(g, p) /\ SlotOf(g, p) = s
<1>1. PICK r \in g.slots : r.slot = s /\ r.peer = p
  BY DEF Binds
<1>2. Holds(g, p)
  BY <1>1 DEF Holds, ResOfPeer
<1>3. PICK o \in g.slots : o.peer = p /\ o.slot = SlotOf(g, p)
  BY <1>2, SlotOfHeld
<1> QED
  BY <1>1, <1>2, <1>3 DEF Sound, OneEach

LEMMA BoundOfHeld ==
    ASSUME NEW g, NEW p, Holds(g, p) PROVE <<SlotOf(g, p), p>> \in Binds(g)
BY SlotOfHeld DEF Binds

(* The peer an act is about is the one the slot is bound to. *)
LEMMA HolderIsBound ==
    ASSUME NEW g, Sound(g), NEW s, NEW p, <<s, p>> \in Binds(g)
    PROVE  (CHOOSE r \in g.slots : r.slot = s).peer = p
<1>1. PICK r \in g.slots : r.slot = s /\ r.peer = p
  BY DEF Binds
<1>2. (CHOOSE o \in g.slots : o.slot = s) = r
  BY <1>1 DEF Sound, OneEach
<1> QED
  BY <1>1, <1>2

(* A newcomer's placement, kept or undone, takes nothing from the others. *)
LEMMA AssignKeepsOthers ==
    ASSUME RelayInv, NEW q \in Peer, Assign(q), NEW b \in Binds(ring)
    PROVE  b \in Binds(ring)'
<1>0. Sound(ring)
  BY DEF RelayInv, BothSound
<1>1. PICK placed \in Placements(ring, q) :
         ring' = placed \/ ring' = Release(placed, placed.max)
  BY DEF Assign
<1>2. Sound(placed) /\ placed.max = ring.max + 1 /\ Binds(ring) \subseteq Binds(placed)
  BY <1>0, <1>1, PlacementSound, PlacementBinds DEF Assign
<1>3. b[1] # ring.max + 1
  BY <1>0 DEF Binds, Sound, Covered, Map, Reservation
<1>4. b \in Binds(Release(placed, placed.max))
  BY <1>2, <1>3, ReleaseBinds
<1> QED
  BY <1>1, <1>2, <1>4 DEF Binds

LEMMA ConnectedKeepSlots ==
    ASSUME RelayInv, [Next]_vars, NEW p \in Peer, live[p] # 0, live'[p] # 0, Holds(ring, p)
    PROVE  Holds(ring', p) /\ SlotOf(ring', p) = SlotOf(ring, p)
<1> DEFINE s == SlotOf(ring, p)
<1>0. Sound(ring) /\ Sound(ring')
  BY RelayStep DEF RelayInv, BothSound, Sound, OneEach, Covered
<1>1. <<s, p>> \in Binds(ring)
  BY BoundOfHeld
<1>2. SUFFICES <<s, p>> \in Binds(ring')
  BY <1>0, SlotOfBound
<1>3. ASSUME ring' = ring PROVE <<s, p>> \in Binds(ring')
  BY <1>1, <1>3
<1>4. ASSUME NEW q \in Peer, Assign(q) PROVE <<s, p>> \in Binds(ring')
  BY <1>1, <1>4, AssignKeepsOthers DEF Binds
<1>5. ASSUME NEW c \in Conn, onSectorClaim(c) PROVE <<s, p>> \in Binds(ring')
  <2>1. Peers(c) \in Peer
    BY <1>5 DEF onSectorClaim, RelayInv, ReadersKnown, Peers
  <2>2. ring' = ring \/ Assign(Peers(c))
    BY <1>5, <2>1, AssignKept DEF onSectorClaim, slotsVars
  <2> QED
    BY <1>3, <1>4, <2>1, <2>2
<1>6. ASSUME NEW q \in Peer, ReserveSlot(q) PROVE <<s, p>> \in Binds(ring')
  BY <1>4, <1>6, AssignKept DEF ReserveSlot
<1>7. ASSUME applyAdmin PROVE <<s, p>> \in Binds(ring')
  <2> DEFINE t == job.slot
  <2>1. live[Holder(t)] = 0 => t # s
    BY <1>0, <1>1, HolderIsBound DEF Holder
  <2>2. ASSUME ReleaseSlot(t) PROVE <<s, p>> \in Binds(ring')
    <3>1. ring' = ring \/ (ring' = Release(ring, t) /\ t # s)
      BY <2>1, <2>2 DEF ReleaseSlot, slotsVars
    <3>2. t # s => <<s, p>> \in Binds(Release(ring, t))
      BY <1>0, <1>1, ReleaseBinds
    <3> QED
      BY <1>3, <3>1, <3>2
  <2>3. ASSUME HandoverSlot(t, job.peer) PROVE <<s, p>> \in Binds(ring')
    <3>1. ring' = ring \/ (ring' = Handover(ring, t, job.peer) /\ t # s)
      BY <2>1, <2>3 DEF HandoverSlot, slotsVars
    <3>2. t # s => <<s, p>> \in Binds(Handover(ring, t, job.peer))
      BY <1>0, <1>1, HandoverBinds
    <3> QED
      BY <1>3, <3>1, <3>2
  <2> QED
    BY <1>7, <2>2, <2>3 DEF applyAdmin
<1>8. ~Restart
  BY DEF Restart
<1> QED
  BY <1>3, <1>5, <1>6, <1>7, <1>8
     DEF Next, vars, slotsVars, serveWS, handshake, ReadClaim, HangUp, drop, Ends, adminReport, adminConfirm

(* No operator's act, no other peer's claim and no failed Save takes the slot *)
(* from under a connected peer (ReleaseSlot and HandoverSlot look again).     *)
THEOREM ConnectedPeersKeepTheirSlots == Spec => LiveKeepsItsSlot
<1>1. RelayInv /\ [Next]_vars =>
        [\A p \in Peer : (live[p] # 0 /\ live'[p] # 0 /\ Holds(ring, p))
            => Holds(ring', p) /\ SlotOf(ring', p) = SlotOf(ring, p)]_vars
  BY ConnectedKeepSlots
<1> QED
  BY RelayInit, RelayStep, <1>1, PTL DEF Spec, LiveKeepsItsSlot

=============================================================================
