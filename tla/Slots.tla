------------------------------- MODULE Slots -------------------------------
(***************************************************************************)
(* What the relay's map promises: a slot and a position are one peer's, a  *)
(* grant that was answered survives a restart, and a number that was       *)
(* retired is never issued again, whatever happens to ring.json.           *)
(* Who is connected, and when an operator may act, is module RelayMap,     *)
(* which implements this one.                                              *)
(*                                                                         *)
(* Sources: src/go/internal/relay/grid.go, relay.go (assignLocked,         *)
(* ReserveSlot, ReleaseSlot, HandoverSlot).                                *)
(***************************************************************************)
EXTENDS Grid

CONSTANTS
    SaveFaults, \* how Save fails: of write (before the rename) and dirsync (after it)
    MaxSlots    \* bound: slot numbers issued

ASSUME SlotsAssumption == SaveFaults \subseteq {"write", "dirsync"} /\ MaxSlots \in Nat

VARIABLES
    ring,    \* s.grid
    disk,    \* ring.json
    told,    \* the grants answered and not taken back: pairs of slot and peer
    retired  \* the numbers of the slots an operator was told are released

slotsVars == <<ring, disk, told, retired>>

(* Where a newcomer may go, rules 4 to 6 in any order: a hole, one step    *)
(* beyond a full rectangle, or into a row or column made for it.           *)
Placements(g, p) ==
    {reserve(g, p, h[1], h[2]) : h \in Holes(g)}
    \cup {reserve(g, p, x[1], x[2]) : x \in {y \in Beyond(g) : Holes(g) = {}}}
    \cup {splice(g, p, r, axis) : r \in g.slots, axis \in {"E", "N"}}

SlotsInit == ring = EmptyMap /\ disk = EmptyMap /\ told = {} /\ retired = {}

(* Save, and what a failed one leaves on disk. *)
Saved(g) == disk' = g
SaveFails(g) == \/ "write" \in SaveFaults /\ UNCHANGED disk
                \/ "dirsync" \in SaveFaults /\ disk' = g

NotTold(s) == {t \in told : t[1] # s}

(* Rules 1 and 2: a reservation is keyed on the peer and never expires. *)
Reclaim(p) ==
    /\ Holds(ring, p)
    /\ told' = told \cup {<<SlotOf(ring, p), p>>}
    /\ UNCHANGED <<ring, disk, retired>>

(* Rules 3 to 6, and the map on disk before the answer; a claim, or the *)
(* operator's reservation for a peer that has not come yet.             *)
Assign(p) ==
    /\ ~Holds(ring, p) /\ ring.max < MaxSlots
    /\ \E placed \in Placements(ring, p) :
         \/ /\ ring' = placed /\ Saved(placed)
            /\ told' = told \cup {<<placed.max, p>>}
         \/ /\ ring' = Release(placed, placed.max) /\ SaveFails(placed)
            /\ UNCHANGED told
    /\ UNCHANGED retired

(* A failed release stays released in memory. *)
Retire(s) ==
    /\ ResOfSlot(ring, s) # {}
    /\ ring' = Release(ring, s) /\ told' = NotTold(s)
    /\ \/ Saved(ring') /\ retired' = retired \cup {s}
       \/ SaveFails(ring') /\ UNCHANGED retired

(* A failed handover is undone in memory. *)
GiveOver(s, q) ==
    /\ ResOfSlot(ring, s) # {} /\ ~Holds(ring, q)
    /\ LET given == Handover(ring, s, q) IN
         \/ ring' = given /\ Saved(given) /\ told' = NotTold(s)
         \/ SaveFails(given) /\ UNCHANGED <<ring, told>>
    /\ UNCHANGED retired

Reload == ring' = LoadGrid(disk) /\ UNCHANGED <<disk, told, retired>>

SlotsNext ==
    \/ \E p \in Peer : Reclaim(p) \/ Assign(p)
    \/ \E s \in 1..MaxSlots : Retire(s) \/ \E q \in Peer : GiveOver(s, q)
    \/ Reload

SlotsSpec == SlotsInit /\ [][SlotsNext]_slotsVars

-----------------------------------------------------------------------------
SlotsTypeOK ==
    /\ ring \in Map /\ disk \in Map
    /\ told \subseteq Nat \X Peer /\ retired \subseteq Nat

(* The two invariants HasHole is written on, and the two of §7.2: in memory *)
(* and in ring.json, no two reservations share a number, a position or a    *)
(* peer, the rectangle covers them all, and the counter is past them all.   *)
OneEach(g) == \A a, b \in g.slots :
    (a.slot = b.slot \/ a.peer = b.peer \/ (a.col = b.col /\ a.row = b.row)) => a = b
Covered(g) == \A r \in g.slots : Inside(g, r.col, r.row) /\ r.slot \in 1..g.max
MapSound == \A g \in {ring, disk} : OneEach(g) /\ Covered(g)

(* An answered grant is on disk: a restart, or any number of failed saves,  *)
(* gives the same slot back to the same peer (onSectorClaim, step 1).       *)
GrantsDurable == \A t \in told : \E r \in disk.slots : r.slot = t[1] /\ r.peer = t[2]

(* The address of a released slot is retired for ever: no later placement,  *)
(* and no restart, binds its number again (Release, reserve).               *)
AddressesRetired == \A g \in {ring, disk} : \A r \in g.slots : r.slot \notin retired
=============================================================================
