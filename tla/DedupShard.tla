----------------------------- MODULE DedupShard -----------------------------
(***************************************************************************)
(* One table of the duplicate set: open addressing, linear probing, no     *)
(* deletion, doubled past three quarters; the fingerprint that marks an    *)
(* empty slot is held beside it.                                           *)
(*                                                                         *)
(* Source: src/go/internal/archive/dedup.go (dedupSet, dedupShard).        *)
(***************************************************************************)
EXTENDS Integers, Sequences, FiniteSets

CONSTANTS
    Prints,    \* the fingerprints there are, as <<first hash, second hash>>
    MinSlots   \* dedupMinSlots, a power of two

ASSUME ShardAssumption == Prints \subseteq Nat \X Nat /\ MinSlots \in Nat \ {0}

VARIABLES
    slots,      \* d.slots: slot i is slots[i + 1]
    heldPrints, \* d.n
    zeroHeld,   \* s.zero
    added       \* what was ever added

shardVars == <<slots, heldPrints, zeroHeld, added>>

Zero == <<0, 0>>

-----------------------------------------------------------------------------
(* The probe sequence from a fingerprint's own slot on, and where it stops. *)
ProbeAt(t, fp, i) == ((fp[1] + i) % Len(t)) + 1
Stops(t, fp) == {i \in 0..Len(t) - 1 : t[ProbeAt(t, fp, i)] \in {fp, Zero}}
ProbeEnd(t, fp) ==
    ProbeAt(t, fp, CHOOSE i \in Stops(t, fp) : \A j \in Stops(t, fp) : i <= j)

hasPrint(t, fp) == t[ProbeEnd(t, fp)] = fp
Put(t, fp) == [t EXCEPT ![ProbeEnd(t, fp)] = fp]

Blank(size) == [i \in 1..size |-> Zero]

(* Mutant: the keys keep their slots in the doubled table. *)
growCopying(t) == t \o Blank(Len(t))

(* The doubled table, every key put where its walk in it ends. *)
grow(t) ==
    LET moved[k \in 0..Len(t)] ==
          IF k = 0 THEN Blank(2 * Len(t))
          ELSE IF t[k] = Zero THEN moved[k - 1] ELSE Put(moved[k - 1], t[k])
    IN  moved[Len(t)]

(* Past three quarters the table is doubled. *)
TooFull(t, n) == n * 4 > Len(t) * 3

addPrint(fp) ==
    IF hasPrint(slots, fp) THEN UNCHANGED <<slots, heldPrints>>
    ELSE LET t == Put(slots, fp) IN
         /\ heldPrints' = heldPrints + 1
         /\ slots' = IF TooFull(t, heldPrints') THEN grow(t) ELSE t

-----------------------------------------------------------------------------
ShardInit == slots = Blank(MinSlots) /\ heldPrints = 0 /\ zeroHeld = FALSE /\ added = {}

Add(fp) ==
    /\ added' = added \cup {fp}
    /\ IF fp = Zero THEN zeroHeld' = TRUE /\ UNCHANGED <<slots, heldPrints>>
       ELSE addPrint(fp) /\ UNCHANGED zeroHeld

ShardNext == \E fp \in Prints : Add(fp)

ShardSpec == ShardInit /\ [][ShardNext]_shardVars

-----------------------------------------------------------------------------
FilledAt(t) == {i \in DOMAIN t : t[i] # Zero}

(* The table answers for a fingerprint exactly when it was added, through    *)
(* every rehash and collision, each is in one slot, and a walk always ends:  *)
(* an empty slot is left ("a walk that reaches an empty slot has seen every  *)
(* place this fingerprint could have been put").                             *)
ShardIsSet ==
    /\ \A fp \in Prints : (IF fp = Zero THEN zeroHeld ELSE hasPrint(slots, fp)) <=> fp \in added
    /\ heldPrints = Cardinality(added \ {Zero}) /\ Cardinality(FilledAt(slots)) = heldPrints
    /\ \E i \in DOMAIN slots : slots[i] = Zero
=============================================================================
