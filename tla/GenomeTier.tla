----------------------------- MODULE GenomeTier -----------------------------
(***************************************************************************)
(* The archive's genome store and its cold tier: blobs past the hot window *)
(* are bundled, a bundle is copied off the host by a program of its own,   *)
(* and behind that copy's receipt the blobs leave the store.  A genealogy  *)
(* that wants one back has its whole bundle fetched and stored again.      *)
(* Three actors share the bundle directory and the store, and the archive  *)
(* can be killed between any two of their steps.                           *)
(*                                                                         *)
(* Sources: src/go/internal/archive/genomecold.go, coldrestore.go,         *)
(* coldcopy.go, coldindex.go, eviction.go; src/go/internal/bb8/store.go,   *)
(* coldbundle.go, evict.go.                                                *)
(*                                                                         *)
(* A blob's mtime is only compared with the hot window: "fresh" or "old".  *)
(* The names of bundles are the order they were written in.                *)
(***************************************************************************)
EXTENDS Naturals, FiniteSets

CONSTANTS
    Hash,        \* genomes
    MaxBundles,  \* bound: bundles ever written
    MaxAwaiting, \* coldBundleMaxAwaiting
    Horizon,     \* BOOLEAN: GenomeHorizon is set too
    TierKills     \* bound

ASSUME TierAssumption == {MaxBundles, MaxAwaiting, TierKills} \subseteq Nat /\ Horizon \in BOOLEAN

VARIABLES
    hot,      \* the store: "none", "fresh" or "old"
    files,    \* files[b]: the bundle's blobs, and which of its three files exist
    remote,   \* the bundles the object store holds
    cold,     \* the cold index
    bad,      \* badReceipt: bundles whose receipt was found not to hold up
    pass,     \* the cold-tier goroutine
    restore,  \* the restore worker
    kept,     \* blobs stored, and not pruned by the horizon since
    tierKills

store == <<hot, kept>>
tiers == <<files, remote>>
tierVars == <<store, tiers, cold, bad, pass, restore, tierKills>>

Bundle == 1..MaxBundles
NoFiles == [blobs |-> {}, gz |-> FALSE, manifest |-> FALSE, receipt |-> FALSE]
Idle == [at |-> "idle"]

Hot == {h \in Hash : hot[h] # "none"}
Put(H) == hot' = [h \in Hash |-> IF h \in H THEN "fresh" ELSE hot[h]]
Written == {b \in Bundle : files[b].gz \/ files[b].manifest \/ files[b].receipt}
First(B) == CHOOSE b \in B : \A o \in B : b <= o
Manifest(b) == IF files[b].manifest THEN files[b].blobs ELSE {}

(* verifyColdCopyAt: a receipt, and the bytes it was taken from. *)
Missing(b) == ~files[b].receipt
Confirmed(b) == files[b].receipt /\ files[b].gz

File == [blobs : SUBSET Hash, gz : BOOLEAN, manifest : BOOLEAN, receipt : BOOLEAN]
Visiting == [at : {"visit"}, todo : SUBSET Bundle, listed : [Bundle -> File], waiting : Nat,
             skip : SUBSET Hash]
Pass ==
    [at : {"idle"}] \cup Visiting
    \cup [at : {"retire"}, left : SUBSET Hash, of : Bundle, rest : Visiting]
    \cup [at : {"gz"}, blobs : SUBSET Hash] \cup [at : {"manifest"}, of : Bundle]

TierTypeOK ==
    /\ hot \in [Hash -> {"none", "fresh", "old"}] /\ kept \subseteq Hash
    /\ files \in [Bundle -> File] /\ remote \subseteq Bundle
    /\ cold \subseteq Hash /\ bad \subseteq Bundle /\ pass \in Pass
    /\ restore \in [at : {"idle"}] \cup [at : {"fetch", "reput", "remove"}, of : Bundle]
    /\ tierKills \in 0..TierKills

-----------------------------------------------------------------------------
(* The store: a peer serves a blob, a read refreshes its clock, time goes   *)
(* by, and the horizon deletes what is far past it.                         *)
Store(h) ==
    /\ Put({h}) /\ kept' = kept \cup {h}
    /\ UNCHANGED <<tiers, cold, bad, pass, restore, tierKills>>

Get(h) ==
    /\ hot[h] = "old" /\ Put({h})
    /\ UNCHANGED <<kept, tiers, cold, bad, pass, restore, tierKills>>

Ages(h) ==
    /\ hot[h] = "fresh" /\ hot' = [hot EXCEPT ![h] = "old"]
    /\ UNCHANGED <<kept, tiers, cold, bad, pass, restore, tierKills>>

EvictOlderThan(h) ==
    /\ Horizon /\ hot[h] = "old"
    /\ hot' = [hot EXCEPT ![h] = "none"] /\ kept' = kept \ {h}
    /\ UNCHANGED <<tiers, cold, bad, pass, restore, tierKills>>

-----------------------------------------------------------------------------
(* coldTierPass: one listing of the directory, then bundle by bundle.       *)
StartPass ==
    /\ pass = Idle
    /\ pass' = [at |-> "visit", todo |-> Written, listed |-> files, waiting |-> 0, skip |-> {}]
    /\ UNCHANGED <<store, tiers, cold, bad, restore, tierKills>>

Turn == First(pass.todo)
Onward == [pass EXCEPT !.todo = @ \ {Turn}]
Awaits == [Onward EXCEPT !.waiting = @ + 1, !.skip = @ \cup Manifest(Turn)]

VisitRetired ==
    LET b == Turn IN
    /\ ~pass.listed[b].gz
    /\ cold' = IF pass.listed[b].receipt THEN cold \cup Manifest(b) ELSE cold
    /\ pass' = Onward /\ UNCHANGED bad

Remembered(b) == pass.listed[b].receipt /\ b \in bad

(* Known bad, no receipt, or a receipt that does not match the disk now.    *)
VisitAwaiting ==
    LET b == Turn IN
    /\ pass.listed[b].gz
    /\ bad' = IF Remembered(b) \/ Missing(b) THEN bad ELSE bad \cup {b}
    /\ Remembered(b) \/ ~Confirmed(b)
    /\ pass' = Awaits /\ UNCHANGED cold

Visitable(b) == pass.listed[b].gz /\ ~Remembered(b)

(* Mutant: the listing is trusted, and the receipt is not asked for. *)
VisitConfirmedByAge ==
    LET b == Turn IN
    /\ Visitable(b) /\ bad' = bad \ {b}
    /\ cold' = cold \cup Manifest(b)
    /\ pass' = IF files[b].manifest
               THEN [at |-> "retire", left |-> files[b].blobs, of |-> b, rest |-> Onward] ELSE Onward

(* retireBundle: the cold index first, then the blobs, then the bytes.      *)
VisitConfirmed ==
    LET b == Turn IN
    /\ Visitable(b) /\ Confirmed(b) /\ bad' = bad \ {b}
    /\ cold' = cold \cup Manifest(b)
    /\ pass' = IF files[b].manifest
               THEN [at |-> "retire", left |-> files[b].blobs, of |-> b, rest |-> Onward] ELSE Onward

Visit ==
    /\ pass.at = "visit" /\ pass.todo # {}
    /\ VisitRetired \/ VisitAwaiting \/ VisitConfirmed
    /\ UNCHANGED <<store, tiers, restore, tierKills>>

(* RetireHashes: a blob served since it was listed is spared. *)
RetireHash ==
    /\ pass.at = "retire"
    /\ \E h \in pass.left :
        /\ hot' = IF hot[h] = "old" THEN [hot EXCEPT ![h] = "none"] ELSE hot
        /\ pass' = [pass EXCEPT !.left = @ \ {h}]
    /\ UNCHANGED <<kept, tiers, cold, bad, restore, tierKills>>

RemoveBytes ==
    /\ pass.at = "retire" /\ pass.left = {}
    /\ files' = [files EXCEPT ![pass.of].gz = FALSE]
    /\ pass' = pass.rest
    /\ UNCHANGED <<store, remote, cold, bad, restore, tierKills>>

(* bundlePass, under the fail-safe's bound; a pass may find nothing. *)
Stale == {h \in Hash : hot[h] = "old"} \ (cold \cup pass.skip)

BundleOlderThan ==
    /\ pass.at = "visit" /\ pass.todo = {}
    /\ IF pass.waiting < MaxAwaiting /\ Stale # {} /\ Cardinality(Written) < MaxBundles
       THEN \E H \in SUBSET Stale \ {{}} : pass' = [at |-> "gz", blobs |-> H]
       ELSE pass' = Idle
    /\ UNCHANGED <<store, tiers, cold, bad, restore, tierKills>>

(* writeBundle: the bytes, then the manifest; either may fail. *)
WriteBytes ==
    /\ pass.at = "gz"
    /\ LET b == Cardinality(Written) + 1 IN
        \/ /\ files' = [files EXCEPT ![b] = [NoFiles EXCEPT !.blobs = pass.blobs, !.gz = TRUE]]
           /\ pass' = [at |-> "manifest", of |-> b]
        \/ UNCHANGED files /\ pass' = Idle
    /\ UNCHANGED <<store, remote, cold, bad, restore, tierKills>>

WriteManifest ==
    /\ pass.at = "manifest" /\ pass' = Idle
    /\ \/ files' = [files EXCEPT ![pass.of].manifest = TRUE]
       \/ UNCHANGED files
    /\ UNCHANGED <<store, remote, cold, bad, restore, tierKills>>

coldTierPass ==
    StartPass \/ Visit \/ RetireHash \/ RemoveBytes \/ BundleOlderThan \/ WriteBytes \/ WriteManifest

(* deploy/coldcopy.sh: upload, read back, write the receipt. *)
Upload(b) ==
    /\ files[b].gz /\ ~files[b].receipt
    /\ remote' = remote \cup {b}
    /\ files' = [files EXCEPT ![b].receipt = TRUE]
    /\ UNCHANGED <<store, cold, bad, pass, restore, tierKills>>

-----------------------------------------------------------------------------
(* doColdRestore. *)
Holding(h) == {b \in Bundle : h \in Manifest(b)}

Ask(h) ==
    /\ restore = Idle /\ h \in cold /\ hot[h] = "none" /\ Holding(h) # {}
    /\ LET b == First(Holding(h)) IN
       restore' = [at |-> IF files[b].gz THEN "reput" ELSE "fetch", of |-> b]
    /\ UNCHANGED <<store, tiers, cold, bad, pass, tierKills>>

FetchBundle ==
    /\ restore.at = "fetch"
    /\ \/ /\ restore.of \in remote
          /\ files' = [files EXCEPT ![restore.of].gz = TRUE]
          /\ restore' = [restore EXCEPT !.at = "reput"]
       \/ UNCHANGED files /\ restore' = Idle
    /\ UNCHANGED <<store, remote, cold, bad, pass, tierKills>>

(* The bytes may be gone again; a Put may fail on its own. *)
reputBundle ==
    /\ restore.at = "reput"
    /\ \/ /\ files[restore.of].gz
          /\ \E H \in SUBSET files[restore.of].blobs :
                Put(H) /\ kept' = kept \cup H
          /\ restore' = [restore EXCEPT !.at = "remove"]
       \/ UNCHANGED store /\ restore' = Idle
    /\ UNCHANGED <<tiers, cold, bad, pass, tierKills>>

RemoveRestored ==
    /\ restore.at = "remove" /\ restore' = Idle
    /\ files' = [files EXCEPT ![restore.of].gz = FALSE]
    /\ UNCHANGED <<store, remote, cold, bad, pass, tierKills>>

doColdRestore == FetchBundle \/ reputBundle \/ RemoveRestored

-----------------------------------------------------------------------------
(* Mutant: a bundle whose bytes are still here is not cold yet. *)
coldBackedAbsentOnly == {b \in Bundle : files[b].manifest /\ files[b].receipt /\ ~files[b].gz}

(* A manifest and a receipt, which must hold up if the bytes are here. *)
coldBacked == {b \in Bundle : files[b].manifest /\ files[b].receipt}

TierKill ==
    /\ tierKills < TierKills /\ tierKills' = tierKills + 1
    /\ cold' = UNION {Manifest(b) : b \in coldBacked}
    /\ bad' = {} /\ pass' = Idle /\ restore' = Idle
    /\ UNCHANGED <<store, tiers>>

TierInit ==
    /\ hot = [h \in Hash |-> "none"] /\ kept = {}
    /\ files = [b \in Bundle |-> NoFiles] /\ remote = {}
    /\ cold = {} /\ bad = {} /\ pass = Idle /\ restore = Idle /\ tierKills = 0

TierNext ==
    \/ \E h \in Hash : Store(h) \/ Get(h) \/ Ages(h) \/ EvictOlderThan(h) \/ Ask(h)
    \/ coldTierPass \/ doColdRestore
    \/ \E b \in Bundle : Upload(b)
    \/ TierKill

(* The pass runs every minute, the uploader works, and time goes by. *)
TierSpec == TierInit /\ [][TierNext]_tierVars
TierLiveSpec ==
    /\ TierSpec /\ WF_tierVars(coldTierPass) /\ WF_tierVars(doColdRestore)
    /\ \A b \in Bundle : WF_tierVars(Upload(b))

-----------------------------------------------------------------------------
(* No bytes leave the host without a copy that can be found again: every    *)
(* blob ever stored, the horizon's deletions aside, is in the store or in a *)
(* bundle the object store holds, with the manifest a restore searches and  *)
(* the receipt it verifies against.                                         *)
Restorable(h) == \E b \in remote : files[b].receipt /\ h \in Manifest(b)
NoBytesLost == \A h \in kept : hot[h] # "none" \/ Restorable(h)

(* A blob that moved off the host still reads as held, at every moment of   *)
(* its retirement and after every restart: nobody fetches it again.         *)
HeldStaysHeld == \A h \in kept : hot[h] # "none" \/ h \in cold

(* A genome once stored can be had again, and the archive knows it (retireBundle, *)
(* coldBacked).                                                                   *)
StoredStays == NoBytesLost /\ HeldStaysHeld

(* What the index calls cold has a copy off the host. *)
ColdIsTrue == \A h \in cold : Restorable(h)

(* A stopped cold archive costs at most MaxAwaiting bundles of disk. *)
StalledTierIsBounded == Cardinality({b \in Bundle : files[b].gz /\ ~files[b].receipt}) <= MaxAwaiting

(* "The on-host store reaches a steady state at the hot window": a blob that *)
(* is cold already, and past the window again, leaves the store again.       *)
HotWindowHolds == \A h \in Hash :
    (hot[h] = "old" /\ h \in cold) ~> hot[h] # "old"
=============================================================================
