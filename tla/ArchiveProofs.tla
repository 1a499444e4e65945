--------------------------- MODULE ArchiveProofs ---------------------------
(***************************************************************************)
(* The archive loses no genome, keeps its queue of wanted genomes true to  *)
(* the gaps, counts every day of the population's history once and every   *)
(* record of its ledger once: for every set of genomes, every number of    *)
(* bundles, days, records and kills, whatever the passes, the uploader,    *)
(* the restore worker and the retention pass do in whatever order.         *)
(***************************************************************************)
EXTENDS Ledger, GenomeTier, Gaps, MetricsHistory, FiniteSetTheorems, FunctionTheorems,
        SequenceTheorems, WellFoundedInduction, TLAPS

(* A receipt is written after the upload. *)
ReceiptsTrue == \A b \in Bundle : files[b].receipt => b \in remote

(* Bundles are numbered in the order they were written. *)
WrittenUpTo(n) == Written = 1..n
Numbered ==
    /\ \E n \in 0..MaxBundles : WrittenUpTo(n)
    /\ pass.at = "gz" => \E n \in 0..MaxBundles : WrittenUpTo(n) /\ n < MaxBundles
    /\ pass.at = "manifest" => pass.of \in Written

(* What a pass retires is confirmed, and is in the index before it goes. *)
Retiring ==
    pass.at = "retire" =>
        /\ files[pass.of].receipt /\ files[pass.of].manifest
        /\ pass.left \subseteq files[pass.of].blobs /\ pass.left \subseteq cold

(* A restore works on a bundle that has its manifest. *)
Restoring == restore.at # "idle" => files[restore.of].manifest

TierInv == TierTypeOK /\ ReceiptsTrue /\ Numbered /\ Retiring /\ Restoring /\ StoredStays

-----------------------------------------------------------------------------
(* A non-empty set of bundles has a first one. *)
LEMMA FirstIsIn ==
    ASSUME NEW B \in SUBSET Bundle, B # {}
    PROVE  First(B) \in B
<1> DEFINE R == {ss \in Nat \X Nat : ss[1] < ss[2]}
<1>1. OpToRel(<, Nat) = R
  BY DEF OpToRel
<1>2. B \in SUBSET Nat
  BY TierAssumption DEF Bundle
<1>3. PICK b \in B : \A o \in B : ~(<<o, b>> \in R)
  BY ZenonT(30), <1>1, <1>2, NatLessThanWellFounded, WFMin
<1>4. ASSUME NEW o \in B PROVE b <= o
  <2>1. <<o, b>> \in Nat \X Nat /\ <<o, b>>[1] = o /\ <<o, b>>[2] = b
    BY <1>2
  <2>2. ~(o < b)
    BY <1>3, <2>1
  <2> QED
    BY <2>2, <1>2
<1> QED
  BY <1>4 DEF First

LEMMA CountWritten ==
    ASSUME NEW n \in Nat, WrittenUpTo(n)
    PROVE  Cardinality(Written) = n
  BY FS_Interval, TierAssumption DEF WrittenUpTo

(* A bundle that was written stays, with what it holds, its manifest and its *)
(* receipt; only its bytes come and go.                                      *)
Grown ==
    /\ files' \in [Bundle -> File]
    /\ \A b \in Bundle : b \in Written =>
        /\ files'[b].blobs = files[b].blobs
        /\ files[b].manifest => files'[b].manifest
        /\ files[b].receipt => files'[b].receipt

LEMMA GrownKeeps ==
    ASSUME TierTypeOK, Grown, UNCHANGED <<hot, kept>>, remote \subseteq remote', cold \subseteq cold',
           StoredStays
    PROVE  StoredStays'
<1>1. \A h \in Hash : Restorable(h) => Restorable(h)'
  <2> SUFFICES ASSUME NEW h \in Hash, Restorable(h) PROVE Restorable(h)'
    OBVIOUS
  <2>1. PICK b \in remote : files[b].receipt /\ h \in Manifest(b)
    BY DEF Restorable
  <2>2. b \in Bundle /\ b \in Written
    BY <2>1 DEF TierTypeOK, Written
  <2>3. files'[b].receipt /\ h \in Manifest(b)'
    BY <2>1, <2>2 DEF Grown, Manifest
  <2> QED
    BY <2>1, <2>3 DEF Restorable
<1> QED
  BY <1>1 DEF StoredStays, NoBytesLost, HeldStaysHeld, TierTypeOK

LEMMA TierInitHolds == TierInit => TierInv
<1> SUFFICES ASSUME TierInit PROVE TierInv
  OBVIOUS
<1> USE DEF TierInit
<1>1. NoFiles \in File
  BY DEF NoFiles, File
<1>2. TierTypeOK
  BY <1>1, TierAssumption DEF TierTypeOK, Idle, Pass
<1>3. Written = {} /\ 0 \in 0..MaxBundles /\ 1..0 = {}
  BY TierAssumption DEF Written, NoFiles
<1>4. Numbered
  BY <1>3 DEF Numbered, WrittenUpTo, Idle
<1> QED
  BY <1>2, <1>4 DEF TierInv, ReceiptsTrue, Retiring, Restoring, StoredStays, NoBytesLost,
     HeldStaysHeld, NoFiles, Idle

(* The store's own steps. *)
LEMMA StoreStep ==
    ASSUME TierInv, NEW h \in Hash, Store(h) \/ Get(h) \/ Ages(h) \/ EvictOlderThan(h)
    PROVE  TierInv'
<1>1. UNCHANGED <<tiers, cold, bad, pass, restore, tierKills>>
  BY DEF Store, Get, Ages, EvictOlderThan
<1>2. /\ hot' \in [Hash -> {"none", "fresh", "old"}] /\ kept' \subseteq Hash
      /\ \A g \in kept' : hot'[g] = "none" => g \in kept /\ hot[g] = "none"
  BY DEF Store, Get, Ages, EvictOlderThan, Put, TierInv, TierTypeOK
<1>3. TierTypeOK'
  BY <1>1, <1>2 DEF TierInv, TierTypeOK, tiers
<1>4. ReceiptsTrue' /\ Numbered' /\ Retiring' /\ Restoring'
  BY <1>1 DEF TierInv, tiers, ReceiptsTrue, Numbered, WrittenUpTo, Written, Retiring, Restoring
<1>5. StoredStays'
  BY <1>1, <1>2 DEF TierInv, tiers, StoredStays, NoBytesLost, HeldStaysHeld, Restorable, Manifest
<1> QED
  BY <1>3, <1>4, <1>5 DEF TierInv

(* What a pass is at each of its steps. *)
LEMMA PassShape ==
    ASSUME pass \in Pass
    PROVE  /\ pass.at \in {"idle", "visit", "retire", "gz", "manifest"}
           /\ pass.at = "visit" => pass \in Visiting
           /\ pass.at = "retire" =>
                pass \in [at : {"retire"}, left : SUBSET Hash, of : Bundle, rest : Visiting]
           /\ pass.at = "gz" => pass \in [at : {"gz"}, blobs : SUBSET Hash]
           /\ pass.at = "manifest" => pass \in [at : {"manifest"}, of : Bundle]
  BY DEF Pass, Visiting

LEMMA NewPass == /\ Idle \in Pass /\ Idle.at = "idle"
                 /\ \A v \in Visiting : v \in Pass /\ v.at = "visit"
  BY DEF Idle, Pass, Visiting

(* A visit moves on within the listing, and may take a bundle to retire. *)
LEMMA VisitStep == ASSUME TierInv, Visit PROVE TierInv'
<1>1. /\ pass \in Visiting /\ pass.todo # {} /\ UNCHANGED <<store, tiers, restore, tierKills>>
      /\ hot \in [Hash -> {"none", "fresh", "old"}] /\ files \in [Bundle -> File]
      /\ cold \subseteq Hash /\ bad \subseteq Bundle
  BY PassShape DEF Visit, TierInv, TierTypeOK
<1> DEFINE b == Turn
<1>2. b \in pass.todo /\ b \in Bundle
  BY <1>1, FirstIsIn DEF Turn, Visiting
<1>3. Manifest(b) \subseteq Hash /\ files[b] \in File
  BY <1>1, <1>2 DEF Manifest, File
<1>4. /\ Onward \in Visiting /\ Awaits \in Visiting
  <2>1. Onward \in Visiting
    BY <1>1 DEF Onward, Visiting
  <2>2. ASSUME NEW v \in Visiting, NEW H \in SUBSET Hash
        PROVE  [v EXCEPT !.waiting = @ + 1, !.skip = @ \cup H] \in Visiting
    <3> DEFINE w == [v EXCEPT !.waiting = @ + 1]
    <3>1. v.waiting \in Nat /\ v.skip \subseteq Hash
      BY DEF Visiting
    <3>2. w \in Visiting /\ w.skip = v.skip
      BY <3>1 DEF Visiting
    <3>3. [v EXCEPT !.waiting = @ + 1, !.skip = @ \cup H] = [w EXCEPT !.skip = @ \cup H]
      OBVIOUS
    <3> HIDE DEF w
    <3>4. [w EXCEPT !.skip = @ \cup H] \in Visiting
      BY <3>1, <3>2 DEF Visiting
    <3> QED
      BY <3>3, <3>4
  <2> QED
    BY <2>1, <2>2, <1>3 DEF Awaits
<1>5. /\ cold' \subseteq Hash /\ cold \subseteq cold' /\ bad' \subseteq Bundle
      /\ \/ pass' \in Visiting
         \/ /\ pass' = [at |-> "retire", left |-> files[b].blobs, of |-> b, rest |-> Onward]
            /\ files[b].receipt /\ files[b].manifest /\ Manifest(b) \subseteq cold'
  <2>1. CASE VisitRetired
    BY <2>1, <1>1, <1>3, <1>4 DEF VisitRetired
  <2>2. CASE VisitAwaiting
    BY <2>2, <1>1, <1>2, <1>4 DEF VisitAwaiting
  <2>3. CASE VisitConfirmed
    BY <2>3, <1>1, <1>2, <1>3, <1>4 DEF VisitConfirmed, Confirmed
  <2> QED
    BY <2>1, <2>2, <2>3 DEF Visit
<1> HIDE DEF b
<1>6. pass' \in Pass /\ pass'.at \in {"visit", "retire"}
  <2>1. files[b].blobs \subseteq Hash
    BY <1>3 DEF File
  <2> QED
    BY <1>2, <1>4, <1>5, <2>1, NewPass DEF Pass
<1>7. TierTypeOK'
  BY <1>1, <1>5, <1>6 DEF TierInv, TierTypeOK, store, tiers
<1>8. Numbered'
  BY <1>1, <1>6 DEF TierInv, Numbered, WrittenUpTo, Written, tiers
<1>9. Retiring'
  BY <1>1, <1>5, <1>3 DEF Retiring, Manifest, tiers, Visiting
<1>10. StoredStays'
  BY <1>1, <1>5 DEF TierInv, StoredStays, NoBytesLost, HeldStaysHeld, Restorable, Manifest,
     store, tiers
<1> QED
  BY <1>1, <1>7, <1>8, <1>9, <1>10 DEF TierInv, ReceiptsTrue, Restoring, tiers

(* A blob leaves the store with a receipt behind it and its name in the index. *)
LEMMA RetireStep == ASSUME TierInv, RetireHash PROVE TierInv'
<1>1. /\ pass \in [at : {"retire"}, left : SUBSET Hash, of : Bundle, rest : Visiting]
      /\ UNCHANGED <<kept, tiers, cold, bad, restore, tierKills>>
  BY PassShape DEF RetireHash, TierInv, TierTypeOK
<1>2. PICK h \in pass.left :
        /\ hot' = IF hot[h] = "old" THEN [hot EXCEPT ![h] = "none"] ELSE hot
        /\ pass' = [pass EXCEPT !.left = @ \ {h}]
  BY DEF RetireHash
<1>3. /\ pass' \in [at : {"retire"}, left : SUBSET Hash, of : Bundle, rest : Visiting]
      /\ pass' \in Pass /\ pass'.of = pass.of /\ pass'.left \subseteq pass.left
  BY <1>1, <1>2 DEF Pass
<1>4. /\ hot' \in [Hash -> {"none", "fresh", "old"}]
      /\ \A g \in Hash : g # h => hot'[g] = hot[g]
  BY <1>1, <1>2 DEF TierInv, TierTypeOK
<1>5. Restorable(h) /\ h \in cold
  <2>1. files[pass.of].receipt /\ h \in Manifest(pass.of) /\ h \in cold
    BY <1>1, <1>2 DEF TierInv, Retiring, Manifest
  <2>2. pass.of \in remote
    BY <1>1, <2>1 DEF TierInv, ReceiptsTrue
  <2> QED
    BY <2>1, <2>2 DEF Restorable
<1>6. TierTypeOK'
  BY <1>1, <1>3, <1>4 DEF TierInv, TierTypeOK, tiers
<1>7. Numbered' /\ Retiring'
  BY <1>1, <1>3 DEF TierInv, Numbered, WrittenUpTo, Written, Retiring, tiers
<1>8. StoredStays'
  BY <1>1, <1>4, <1>5 DEF TierInv, TierTypeOK, StoredStays, NoBytesLost, HeldStaysHeld,
     Restorable, Manifest, tiers
<1> QED
  BY <1>1, <1>6, <1>7, <1>8 DEF TierInv, ReceiptsTrue, Restoring, tiers

(* A step that only sets or clears the bytes, the manifest or the receipt of *)
(* a written bundle keeps which bundles are written.                         *)
LEMMA SameWritten ==
    ASSUME TierTypeOK, NEW b \in Bundle, NEW f \in File, files' = [files EXCEPT ![b] = f],
           b \in Written, f.gz \/ f.manifest \/ f.receipt
    PROVE  Written' = Written
<1>1. \A o \in Bundle : files'[o] = IF o = b THEN f ELSE files[o]
  BY DEF TierTypeOK
<1> QED
  BY <1>1 DEF Written

(* The steps that write to the bundle directory or the object store: a       *)
(* bundle already written only grows, its bytes aside.                       *)
LEMMA FilesStep ==
    ASSUME TierInv, Grown, Written \subseteq Written', remote \subseteq remote', remote' \subseteq Bundle,
           UNCHANGED <<store, cold, bad, tierKills>>, pass' \in Pass,
           \A b \in Bundle : files'[b].receipt => files[b].receipt \/ b \in remote',
           pass'.at = "retire" => pass' = pass,
           restore' \in [at : {"idle"}] \cup [at : {"fetch", "reput", "remove"}, of : Bundle],
           restore'.at # "idle" => restore'.of \in Written /\ files[restore'.of].manifest
    PROVE  TierTypeOK' /\ ReceiptsTrue' /\ Retiring' /\ Restoring' /\ StoredStays'
<1>1. TierTypeOK'
  BY DEF TierInv, TierTypeOK, Grown, store
<1>2. ReceiptsTrue'
  BY DEF TierInv, ReceiptsTrue
<1>3. Retiring'
  <2> SUFFICES ASSUME pass'.at = "retire" PROVE Retiring'
    BY DEF Retiring
  <2>1. pass' = pass /\ pass.of \in Bundle /\ files[pass.of].receipt
    BY PassShape DEF TierInv, TierTypeOK, Retiring
  <2>2. pass.of \in Written
    BY <2>1 DEF Written
  <2> QED
    BY <2>1, <2>2 DEF TierInv, Retiring, Grown
<1>4. Restoring'
  BY DEF Restoring, Grown, Written
<1>5. StoredStays'
  BY GrownKeeps DEF TierInv, store
<1> QED
  BY <1>1, <1>2, <1>3, <1>4, <1>5

(* An update of one bundle's presence flags. *)
LEMMA OneFlag ==
    ASSUME TierTypeOK, NEW b \in Bundle, NEW f \in File, files' = [files EXCEPT ![b] = f],
           b \in Written, f.gz \/ f.manifest \/ f.receipt, f.blobs = files[b].blobs,
           files[b].manifest => f.manifest, files[b].receipt => f.receipt
    PROVE  /\ Grown /\ Written' = Written
           /\ \A o \in Bundle : files'[o] = IF o = b THEN f ELSE files[o]
<1>1. files' \in [Bundle -> File] /\ \A o \in Bundle : files'[o] = IF o = b THEN f ELSE files[o]
  BY DEF TierTypeOK
<1>2. Written' = Written
  BY SameWritten
<1> QED
  BY <1>1, <1>2 DEF Grown

(* What a flag makes of a bundle. *)
LEMMA Flags ==
    ASSUME NEW f \in File, NEW x \in BOOLEAN
    PROVE  /\ [f EXCEPT !.gz = x] \in File /\ [f EXCEPT !.gz = x].gz = x
           /\ [f EXCEPT !.gz = x].blobs = f.blobs
           /\ [f EXCEPT !.gz = x].manifest = f.manifest /\ [f EXCEPT !.gz = x].receipt = f.receipt
           /\ [f EXCEPT !.manifest = x] \in File /\ [f EXCEPT !.manifest = x].manifest = x
           /\ [f EXCEPT !.manifest = x].blobs = f.blobs
           /\ [f EXCEPT !.manifest = x].gz = f.gz /\ [f EXCEPT !.manifest = x].receipt = f.receipt
           /\ [f EXCEPT !.receipt = x] \in File /\ [f EXCEPT !.receipt = x].receipt = x
           /\ [f EXCEPT !.receipt = x].blobs = f.blobs
           /\ [f EXCEPT !.receipt = x].gz = f.gz /\ [f EXCEPT !.receipt = x].manifest = f.manifest
  BY DEF File

(* A restore works on a bundle that is written. *)
LEMMA RestoreShape ==
    ASSUME TierInv, restore.at # "idle"
    PROVE  restore.of \in Bundle /\ restore.of \in Written /\ files[restore.of].manifest
           /\ restore \in [at : {"fetch", "reput", "remove"}, of : Bundle]
<1>1. restore \in [at : {"fetch", "reput", "remove"}, of : Bundle]
  BY DEF TierInv, TierTypeOK
<1> QED
  BY <1>1 DEF TierInv, Restoring, Written

LEMMA SameNumbers ==
    ASSUME Numbered, Written' = Written, pass' = pass \/ pass'.at \notin {"gz", "manifest"}
    PROVE  Numbered'
  BY DEF Numbered, WrittenUpTo

LEMMA RemoveBytesStep == ASSUME TierInv, RemoveBytes PROVE TierInv'
<1>1. /\ pass \in [at : {"retire"}, left : SUBSET Hash, of : Bundle, rest : Visiting]
      /\ files' = [files EXCEPT ![pass.of] = [files[pass.of] EXCEPT !.gz = FALSE]]
      /\ pass' = pass.rest /\ UNCHANGED <<store, remote, cold, bad, restore, tierKills>>
  BY PassShape DEF RemoveBytes, TierInv, TierTypeOK
<1> DEFINE b == pass.of  f == [files[b] EXCEPT !.gz = FALSE]
<1>2. b \in Bundle /\ files[b] \in File /\ files[b].receipt /\ b \in Written
  BY <1>1 DEF TierInv, TierTypeOK, Retiring, Written
<1>3. /\ f \in File /\ f.receipt /\ f.blobs = files[b].blobs /\ f.manifest = files[b].manifest
      /\ f.receipt = files[b].receipt
  <2>1. \A g \in File : [g EXCEPT !.gz = FALSE] \in File
    BY Flags
  <2> QED
    BY <1>2, <2>1 DEF File
<1> HIDE DEF f
<1>4. /\ Grown /\ Written' = Written
      /\ \A o \in Bundle : files'[o] = IF o = b THEN f ELSE files[o]
  BY <1>1, <1>2, <1>3, OneFlag DEF f, TierInv
<1>5. pass' \in Pass /\ pass'.at = "visit"
  BY <1>1, NewPass
<1>6. TierTypeOK' /\ ReceiptsTrue' /\ Retiring' /\ Restoring' /\ StoredStays'
  <2>1. restore'.at # "idle" => restore'.of \in Written /\ files[restore'.of].manifest
    BY <1>1, RestoreShape
  <2>2. restore' \in [at : {"idle"}] \cup [at : {"fetch", "reput", "remove"}, of : Bundle]
        /\ remote' = remote /\ remote \subseteq Bundle
    BY <1>1 DEF TierInv, TierTypeOK
  <2>3. \A o \in Bundle : files'[o].receipt => files[o].receipt
    BY <1>3, <1>4
  <2> QED
    BY <1>1, <1>4, <1>5, <2>1, <2>2, <2>3, FilesStep
<1>7. Numbered'
  BY <1>4, <1>5, SameNumbers DEF TierInv
<1> QED
  BY <1>6, <1>7 DEF TierInv

(* Steps of the pass that touch no file: it starts, or picks what to bundle. *)
LEMMA PlanStep ==
    ASSUME TierInv, StartPass \/ BundleOlderThan
    PROVE  TierInv'
<1>1. UNCHANGED <<store, tiers, cold, bad, restore, tierKills>>
  BY DEF StartPass, BundleOlderThan
<1>2. /\ pass' \in Pass /\ pass'.at \in {"visit", "gz", "idle"}
      /\ pass'.at = "gz" => Cardinality(Written) < MaxBundles
  <2>1. CASE StartPass
    <3>1. Written \subseteq Bundle /\ files \in [Bundle -> File]
      BY DEF Written, TierInv, TierTypeOK
    <3>2. pass' \in Visiting
      BY <2>1, <3>1 DEF StartPass, Visiting
    <3> QED
      BY <3>2, NewPass
  <2>2. CASE BundleOlderThan
    <3>1. CASE pass' = Idle
      BY <3>1, NewPass
    <3>2. CASE pass' # Idle
      <4>1. PICK H \in SUBSET Stale \ {{}} : pass' = [at |-> "gz", blobs |-> H]
        BY <2>2, <3>2 DEF BundleOlderThan
      <4>2. H \subseteq Hash /\ Cardinality(Written) < MaxBundles
        BY <2>2, <3>2 DEF Stale, BundleOlderThan
      <4> QED
        BY <4>1, <4>2 DEF Pass
    <3> QED
      BY <3>1, <3>2
  <2> QED
    BY <2>1, <2>2
<1>3. Numbered'
  <2>1. Written' = Written
    BY <1>1 DEF Written, tiers
  <2>2. PICK n \in 0..MaxBundles : WrittenUpTo(n)
    BY DEF TierInv, Numbered
  <2>3. n \in Nat /\ Cardinality(Written) = n
    BY <2>2, CountWritten, TierAssumption
  <2> QED
    BY <1>2, <2>1, <2>2, <2>3 DEF Numbered, WrittenUpTo
<1>4. TierTypeOK'
  BY <1>1, <1>2 DEF TierInv, TierTypeOK, store, tiers
<1>5. StoredStays'
  BY <1>1 DEF TierInv, StoredStays, NoBytesLost, HeldStaysHeld, Restorable, Manifest, store, tiers
<1> QED
  BY <1>1, <1>2, <1>3, <1>4, <1>5 DEF TierInv, ReceiptsTrue, Retiring, Restoring, tiers

(* A bundle takes the number after the last: it writes over none. *)
LEMMA WriteBytesStep == ASSUME TierInv, WriteBytes PROVE TierInv'
<1>1. /\ pass \in [at : {"gz"}, blobs : SUBSET Hash]
      /\ UNCHANGED <<store, remote, cold, bad, restore, tierKills>>
  BY PassShape DEF WriteBytes, TierInv, TierTypeOK
<1>2. PICK n \in 0..MaxBundles : WrittenUpTo(n) /\ n < MaxBundles
  BY <1>1 DEF TierInv, Numbered
<1> DEFINE b == n + 1  f == [NoFiles EXCEPT !.blobs = pass.blobs, !.gz = TRUE]
<1>3. n \in Nat /\ Cardinality(Written) = n /\ b \in Bundle /\ b \notin Written
      /\ b \in 0..MaxBundles /\ Written \cup {b} = 1..b
  BY <1>2, CountWritten, TierAssumption DEF Bundle, WrittenUpTo
<1>4. f \in File /\ f.gz /\ ~f.receipt /\ ~f.manifest
  BY <1>1 DEF NoFiles, File
<1>a. restore'.at # "idle" => restore'.of \in Written /\ files[restore'.of].manifest
  BY <1>1, RestoreShape
<1>b. restore' \in [at : {"idle"}] \cup [at : {"fetch", "reput", "remove"}, of : Bundle]
      /\ remote' = remote /\ remote \subseteq Bundle
  BY <1>1 DEF TierInv, TierTypeOK
<1> HIDE DEF f
<1>5. CASE files' = [files EXCEPT ![b] = f] /\ pass' = [at |-> "manifest", of |-> b]
  <2>1. files' \in [Bundle -> File] /\ \A o \in Bundle : files'[o] = IF o = b THEN f ELSE files[o]
    BY <1>3, <1>4, <1>5 DEF TierInv, TierTypeOK
  <2>2. Written' = Written \cup {b}
    BY <1>3, <1>4, <2>1 DEF Written
  <2>3. Grown
    BY <1>3, <2>1 DEF Grown
  <2>4. pass' \in Pass /\ pass'.at = "manifest" /\ pass'.of = b
    BY <1>3, <1>5 DEF Pass
  <2>5. Numbered'
    BY <1>3, <2>2, <2>4 DEF Numbered, WrittenUpTo
  <2>6. \A o \in Bundle : files'[o].receipt => files[o].receipt
    BY <1>4, <2>1
  <2>7. TierTypeOK' /\ ReceiptsTrue' /\ Retiring' /\ Restoring' /\ StoredStays'
    BY <1>1, <1>a, <1>b, <2>2, <2>3, <2>4, <2>6, FilesStep
  <2> QED
    BY <2>5, <2>7 DEF TierInv
<1>6. CASE UNCHANGED files /\ pass' = Idle
  <2>1. Grown /\ Written' = Written
    BY <1>6 DEF Grown, Written, TierInv, TierTypeOK
  <2>2. Numbered'
    BY <2>1, <1>6, NewPass, SameNumbers DEF TierInv
  <2>3. TierTypeOK' /\ ReceiptsTrue' /\ Retiring' /\ Restoring' /\ StoredStays'
    BY <1>1, <1>6, <1>a, <1>b, <2>1, NewPass, FilesStep
  <2> QED
    BY <2>2, <2>3 DEF TierInv
<1> QED
  BY <1>3, <1>5, <1>6 DEF WriteBytes, f

(* The steps that set or clear one flag of one written bundle. *)
LEMMA FlagStep ==
    ASSUME TierInv, NEW b \in Bundle, b \in Written, NEW f \in File, f.gz \/ f.manifest \/ f.receipt,
           f.blobs = files[b].blobs, files[b].manifest => f.manifest, files[b].receipt => f.receipt,
           files' = [files EXCEPT ![b] = f] \/ UNCHANGED files,
           f.receipt => files[b].receipt \/ b \in remote',
           remote \subseteq remote', remote' \subseteq Bundle,
           UNCHANGED <<store, cold, bad, tierKills>>,
           pass' = pass \/ pass' = Idle,
           restore' \in [at : {"idle"}] \cup [at : {"fetch", "reput", "remove"}, of : Bundle],
           restore'.at # "idle" => restore'.of \in Written /\ files[restore'.of].manifest
    PROVE  TierInv'
<1>1. /\ Grown /\ Written' = Written
      /\ \A o \in Bundle : files'[o].receipt => files[o].receipt \/ o \in remote'
  <2>1. CASE UNCHANGED files
    BY <2>1 DEF Grown, Written, TierInv, TierTypeOK
  <2>2. CASE files' = [files EXCEPT ![b] = f]
    <3>1. TierTypeOK
      BY DEF TierInv
    <3>2. /\ Grown /\ Written' = Written
          /\ \A o \in Bundle : files'[o] = IF o = b THEN f ELSE files[o]
      BY <2>2, <3>1, OneFlag
    <3> QED
      BY <3>2
  <2> QED
    BY <2>1, <2>2
<1>2. pass' \in Pass /\ (pass'.at = "retire" => pass' = pass) /\ (pass' = pass \/ pass'.at = "idle")
  BY NewPass DEF TierInv, TierTypeOK
<1>3. TierTypeOK' /\ ReceiptsTrue' /\ Retiring' /\ Restoring' /\ StoredStays'
  BY <1>1, <1>2, FilesStep
<1>4. Numbered'
  BY <1>1, <1>2, SameNumbers DEF TierInv
<1> QED
  BY <1>3, <1>4 DEF TierInv

LEMMA WriteManifestStep == ASSUME TierInv, WriteManifest PROVE TierInv'
<1> DEFINE b == pass.of  f == [files[b] EXCEPT !.manifest = TRUE]
<1>1. /\ pass \in [at : {"manifest"}, of : Bundle] /\ b \in Bundle /\ b \in Written
      /\ files \in [Bundle -> File]
  BY PassShape DEF WriteManifest, TierInv, TierTypeOK, Numbered
<1>2. /\ f \in File /\ f.manifest /\ f.blobs = files[b].blobs /\ f.receipt = files[b].receipt
  BY <1>1, Flags
<1>3. restore'.at # "idle" => restore'.of \in Written /\ files[restore'.of].manifest
  BY RestoreShape DEF WriteManifest
<1>4. restore' \in [at : {"idle"}] \cup [at : {"fetch", "reput", "remove"}, of : Bundle]
      /\ remote \subseteq Bundle
  BY DEF WriteManifest, TierInv, TierTypeOK
<1>5. files' = [files EXCEPT ![b] = f] \/ UNCHANGED files
  BY DEF WriteManifest
<1> HIDE DEF b, f
<1> QED
  BY <1>1, <1>2, <1>3, <1>4, <1>5, FlagStep DEF WriteManifest

LEMMA UploadStep == ASSUME TierInv, NEW b \in Bundle, Upload(b) PROVE TierInv'
<1> DEFINE f == [files[b] EXCEPT !.receipt = TRUE]
<1>1. b \in Written /\ files \in [Bundle -> File] /\ files' = [files EXCEPT ![b] = f]
  BY DEF Upload, Written, TierInv, TierTypeOK
<1>2. /\ f \in File /\ f.receipt /\ f.blobs = files[b].blobs /\ f.manifest = files[b].manifest
  BY <1>1, Flags
<1>3. restore'.at # "idle" => restore'.of \in Written /\ files[restore'.of].manifest
  BY RestoreShape DEF Upload
<1>4. restore' \in [at : {"idle"}] \cup [at : {"fetch", "reput", "remove"}, of : Bundle]
      /\ remote' \subseteq Bundle /\ remote \subseteq remote' /\ b \in remote'
  BY DEF Upload, TierInv, TierTypeOK
<1> HIDE DEF f
<1> QED
  BY <1>1, <1>2, <1>3, <1>4, FlagStep DEF Upload

(* The restore worker's steps on the bundle's bytes. *)
LEMMA RestoreFilesStep == ASSUME TierInv, FetchBundle \/ RemoveRestored PROVE TierInv'
<1> DEFINE b == restore.of
<1>1. /\ b \in Bundle /\ b \in Written /\ files[b].manifest /\ files \in [Bundle -> File]
      /\ restore \in [at : {"fetch", "reput", "remove"}, of : Bundle]
  <2>1. restore.at # "idle"
    BY DEF FetchBundle, RemoveRestored
  <2> QED
    BY <2>1, RestoreShape DEF TierInv, TierTypeOK
<1>2. PICK x \in BOOLEAN : files' = [files EXCEPT ![b] = [files[b] EXCEPT !.gz = x]] \/ UNCHANGED files
  BY DEF FetchBundle, RemoveRestored
<1> DEFINE f == [files[b] EXCEPT !.gz = x]
<1>3. f \in File /\ f.manifest /\ f.blobs = files[b].blobs /\ f.receipt = files[b].receipt
  <2>1. \A g \in File : [g EXCEPT !.gz = x] \in File
    BY Flags
  <2> QED
    BY <1>1, <2>1 DEF File
<1>4. /\ restore' \in [at : {"idle"}] \cup [at : {"fetch", "reput", "remove"}, of : Bundle]
      /\ restore'.at # "idle" => restore'.of = b
      /\ remote' = remote /\ remote \subseteq Bundle
  BY <1>1 DEF FetchBundle, RemoveRestored, TierInv, TierTypeOK, Idle
<1>5. UNCHANGED <<store, cold, bad, tierKills, pass>>
  BY DEF FetchBundle, RemoveRestored
<1>6. files' = [files EXCEPT ![b] = f] \/ UNCHANGED files
  BY <1>2
<1> HIDE DEF b, f
<1> QED
  BY <1>1, <1>3, <1>4, <1>5, <1>6, FlagStep

(* A genealogy asks for a blob back, and its bundle's blobs are stored again. *)
LEMMA AskStep == ASSUME TierInv, NEW h \in Hash, Ask(h) PROVE TierInv'
<1> DEFINE b == First(Holding(h))
<1>1. b \in Bundle /\ files[b].manifest
  <2>1. Holding(h) \in SUBSET Bundle /\ Holding(h) # {}
    BY DEF Ask, Holding
  <2>2. b \in Holding(h)
    BY <2>1, FirstIsIn
  <2> QED
    BY <2>1, <2>2 DEF Holding, Manifest
<1> HIDE DEF b
<1>2. UNCHANGED <<store, tiers, cold, bad, pass, tierKills>>
  BY DEF Ask
<1>3. /\ restore' \in [at : {"fetch", "reput", "remove"}, of : Bundle] /\ restore'.of = b
  BY <1>1 DEF Ask, b
<1>4. TierTypeOK'
  BY <1>2, <1>3 DEF TierInv, TierTypeOK, store, tiers
<1>5. Restoring'
  BY <1>1, <1>2, <1>3 DEF Restoring, tiers
<1> QED
  BY <1>2, <1>4, <1>5 DEF TierInv, ReceiptsTrue, Numbered, WrittenUpTo, Written, Retiring,
     StoredStays, NoBytesLost, HeldStaysHeld, Restorable, Manifest, store, tiers

LEMMA ReputStep == ASSUME TierInv, reputBundle PROVE TierInv'
<1>1. restore \in [at : {"fetch", "reput", "remove"}, of : Bundle] /\ files[restore.of] \in File
  BY RestoreShape DEF reputBundle, TierInv, TierTypeOK
<1>2. UNCHANGED <<tiers, cold, bad, pass, tierKills>>
  BY DEF reputBundle
<1>3. /\ hot' \in [Hash -> {"none", "fresh", "old"}] /\ kept' \subseteq Hash
      /\ \A g \in kept' : hot'[g] = "none" => g \in kept /\ hot[g] = "none"
  <2>1. CASE UNCHANGED store
    BY <2>1 DEF store, TierInv, TierTypeOK
  <2>2. CASE ~UNCHANGED store
    <3>1. PICK H \in SUBSET files[restore.of].blobs : Put(H) /\ kept' = kept \cup H
      BY <2>2 DEF reputBundle
    <3>2. H \subseteq Hash
      BY <1>1 DEF File
    <3> QED
      BY <3>1, <3>2 DEF Put, TierInv, TierTypeOK
  <2> QED
    BY <2>1, <2>2
<1>4. restore' = Idle \/ restore' = [restore EXCEPT !.at = "remove"]
  BY DEF reputBundle
<1>5. restore' \in [at : {"idle"}] \cup [at : {"fetch", "reput", "remove"}, of : Bundle]
      /\ (restore'.at # "idle" => restore'.of = restore.of)
  BY <1>1, <1>4 DEF Idle
<1>6. TierTypeOK'
  BY <1>2, <1>3, <1>5 DEF TierInv, TierTypeOK, tiers
<1>7. Restoring'
  BY <1>1, <1>2, <1>5, RestoreShape DEF Restoring, tiers, reputBundle
<1>8. StoredStays'
  BY <1>2, <1>3 DEF TierInv, tiers, StoredStays, NoBytesLost, HeldStaysHeld, Restorable, Manifest
<1> QED
  BY <1>2, <1>6, <1>7, <1>8
     DEF TierInv, ReceiptsTrue, Numbered, WrittenUpTo, Written, Retiring, tiers

(* The archive dies: the index it builds again has every copy off the host. *)
LEMMA TierKillStep == ASSUME TierInv, TierKill PROVE TierInv'
<1>1. UNCHANGED <<store, tiers>> /\ pass' = Idle /\ restore' = Idle /\ bad' = {}
  BY DEF TierKill
<1>2. cold' = UNION {Manifest(b) : b \in coldBacked} /\ cold' \subseteq Hash
  BY DEF TierKill, coldBacked, Manifest, File, TierInv, TierTypeOK
<1>3. \A h \in Hash : Restorable(h) => h \in cold'
  BY <1>2 DEF Restorable, coldBacked, Manifest, TierInv, TierTypeOK
<1>4. TierTypeOK'
  BY <1>1, <1>2, NewPass, TierAssumption DEF TierInv, TierTypeOK, store, tiers, TierKill, Idle
<1>5. StoredStays'
  BY <1>1, <1>3 DEF TierInv, TierTypeOK, StoredStays, NoBytesLost, HeldStaysHeld, Restorable,
     Manifest, store, tiers
<1> QED
  BY <1>1, <1>4, <1>5, NewPass DEF TierInv, ReceiptsTrue, Numbered, WrittenUpTo, Written, Retiring,
     Restoring, tiers

(* The invariant is inductive. *)
THEOREM TierInvariant == TierSpec => []TierInv
<1>1. TierInv /\ [TierNext]_tierVars => TierInv'
  <2> SUFFICES ASSUME TierInv, [TierNext]_tierVars PROVE TierInv'
    OBVIOUS
  <2>1. CASE UNCHANGED tierVars
    BY <2>1 DEF tierVars, store, tiers, TierInv, TierTypeOK, ReceiptsTrue, Numbered, WrittenUpTo,
       Written, Retiring, Restoring, StoredStays, NoBytesLost, HeldStaysHeld, Restorable, Manifest
  <2>2. CASE coldTierPass
    BY <2>2, PlanStep, VisitStep, RetireStep, RemoveBytesStep, WriteBytesStep, WriteManifestStep
       DEF coldTierPass
  <2>3. CASE doColdRestore
    BY <2>3, RestoreFilesStep, ReputStep DEF doColdRestore
  <2> QED
    BY <2>1, <2>2, <2>3, StoreStep, AskStep, UploadStep, TierKillStep DEF TierNext
<1> QED
  BY TierInitHolds, <1>1, PTL DEF TierSpec

(* A genome once stored can be had again, from the store or from a bundle off *)
(* the host, and the archive knows which (genomecold.go, coldrestore.go); and  *)
(* what the tier keeps is well typed.                                          *)
THEOREM GenomesStay == TierSpec => []StoredStays /\ []TierTypeOK
<1>1. TierInv => StoredStays /\ TierTypeOK
  BY DEF TierInv
<1> QED
  BY <1>1, TierInvariant, PTL

-----------------------------------------------------------------------------
(* The gap queue: its books.                                                 *)

Fetch ==
    {f \in [is : {TRUE}, asked : SUBSET Peer, due : BOOLEAN, peer : Peer \cup {None},
            now : BOOLEAN, late : BOOLEAN, old : BOOLEAN, again : BOOLEAN] :
        f.now => f.peer # None}
Stray == [hash : Genome, peer : Peer \ {None}, now : BOOLEAN]
Answer == [is : {TRUE}, hash : Genome, peer : Peer,
           reason : {"found", "unknown_hash", "rate_limited", "bad_bytes", "stored"}]

GapsTypes ==
    /\ gap \in [Genome -> Fetch \cup {NoGap}] /\ inFlight \in [Peer -> Nat]
    /\ orphan \subseteq Stray /\ IsFiniteSet(orphan)
    /\ file \subseteq Genome /\ gapsNew \subseteq Genome /\ recent \subseteq Genome
    /\ answer \in Answer \cup {NoAnswer}

(* A request without its entry is of a hash that was stored: it is never    *)
(* wanted again while the process lives.                                     *)
Orphans == \A o \in orphan : o.hash \in held /\ o.hash \notin Pending
Stored == answer.is /\ answer.reason = "stored" => answer.hash \in held

(* The next save, or the crossings past the floor, name every gap. *)
Marks ==
    /\ gapsNew \subseteq Pending /\ gapsNew \subseteq file \cup recent
    /\ Pending \subseteq (file \cup gapsNew) \ gapsGone

GapsInv == GapsTypes /\ Orphans /\ Stored /\ Marks /\ QueueIsTrue

Counted(p) == {h \in Pending : gap[h].peer = p /\ gap[h].now}
StraysOf(p) == {o \in orphan : o.peer = p /\ o.now}

LEMMA CountsAreFinite ==
    ASSUME GapsTypes, NEW p \in Peer
    PROVE  /\ IsFiniteSet(Counted(p)) /\ Cardinality(Counted(p)) \in Nat
           /\ IsFiniteSet(StraysOf(p)) /\ Cardinality(StraysOf(p)) \in Nat
<1>1. Counted(p) \subseteq Genome /\ StraysOf(p) \subseteq orphan
  BY DEF Counted, StraysOf, Pending
<1>2. IsFiniteSet(Genome) /\ IsFiniteSet(orphan)
  BY GapsAssumption DEF GapsTypes
<1>3. IsFiniteSet(Counted(p))
  BY <1>1, <1>2, FS_Subset
<1>4. IsFiniteSet(StraysOf(p))
  BY <1>1, <1>2, FS_Subset
<1> QED
  BY <1>3, <1>4, FS_CardinalityType

LEMMA SlotsAre == SlotsAccounted <=>
    \A p \in Peer : inFlight[p] = Cardinality(Counted(p)) + Cardinality(StraysOf(p))
  BY DEF SlotsAccounted, Counted, StraysOf

(* The request of one entry is given back with the entry's, and a peer's     *)
(* other requests keep their slots.                                          *)
LEMMA GivenBack ==
    ASSUME GapsTypes, SlotsAccounted, NEW h \in Pending, NEW g \in Fetch \cup {NoGap},
           gap' = [gap EXCEPT ![h] = g], g.is => ~g.now,
           inFlight' = GiveBack(gap[h].peer, gap[h].now), UNCHANGED orphan
    PROVE  SlotsAccounted' /\ inFlight' \in [Peer -> Nat]
<1>1. gap[h] \in Fetch /\ h \in Genome
  BY DEF GapsTypes, Pending, NoGap
<1>2. \A k \in Genome : gap'[k] = IF k = h THEN g ELSE gap[k]
  BY <1>1 DEF GapsTypes
<1>3. inFlight' \in [Peer -> Nat]
  BY <1>1 DEF GiveBack, OneLess, GapsTypes, Fetch
<1>4. ASSUME NEW p \in Peer
      PROVE  inFlight'[p] = Cardinality(Counted(p)') + Cardinality(StraysOf(p)')
  <2>1. Counted(p)' = Counted(p) \ {h}
    BY <1>2 DEF Counted, Pending
  <2>2. StraysOf(p)' = StraysOf(p)
    BY DEF StraysOf
  <2>3. /\ IsFiniteSet(Counted(p)) /\ Cardinality(Counted(p)) \in Nat
        /\ Cardinality(StraysOf(p)) \in Nat
        /\ inFlight[p] = Cardinality(Counted(p)) + Cardinality(StraysOf(p))
    BY CountsAreFinite, SlotsAre
  <2>4. Cardinality(Counted(p)') = IF h \in Counted(p) THEN Cardinality(Counted(p)) - 1
                                    ELSE Cardinality(Counted(p))
    BY <2>1, <2>3, FS_RemoveElement
  <2>5. CASE h \in Counted(p)
    <3>1. gap[h].peer = p /\ gap[h].now
      BY <2>5 DEF Counted
    <3>2. Cardinality(Counted(p)) > 0
      BY <2>3, <2>4, <2>5, <2>1, FS_RemoveElement, FS_EmptySet
    <3>3. inFlight'[p] = OneLess(inFlight[p])
      BY <1>1, <3>1 DEF GiveBack, GapsTypes, Fetch
    <3> QED
      BY <2>2, <2>3, <2>4, <2>5, <3>2, <3>3 DEF OneLess
  <2>6. CASE h \notin Counted(p)
    <3>1. ~(gap[h].peer = p /\ gap[h].now)
      BY <2>6 DEF Counted
    <3>2. inFlight'[p] = inFlight[p]
      BY <1>1, <3>1 DEF GiveBack, GapsTypes, Fetch
    <3> QED
      BY <2>2, <2>3, <2>4, <2>6, <3>2
  <2> QED
    BY <2>5, <2>6
<1> QED
  BY <1>3, <1>4 DEF SlotsAccounted, Counted, StraysOf

(* A change of one entry that keeps what it counts for. *)
LEMMA SameSlot ==
    ASSUME GapsTypes, SlotsAccounted, NEW h \in Genome, NEW g \in Fetch \cup {NoGap},
           gap' = [gap EXCEPT ![h] = g], UNCHANGED <<inFlight, orphan>>,
           g.is /\ g.now <=> gap[h].is /\ gap[h].now,
           g.is /\ g.now => g.peer = gap[h].peer
    PROVE  SlotsAccounted'
<1>1. \A k \in Genome : gap'[k] = IF k = h THEN g ELSE gap[k]
  BY DEF GapsTypes
<1>2. \A p \in Peer : Counted(p)' = Counted(p) /\ StraysOf(p)' = StraysOf(p)
  BY <1>1 DEF Counted, StraysOf, Pending
<1> QED
  BY <1>2 DEF SlotsAccounted, Counted, StraysOf

LEMMA GapsInitHolds == GapsInit => GapsInv
<1> SUFFICES ASSUME GapsInit PROVE GapsInv
  OBVIOUS
<1> USE DEF GapsInit
<1>1. \A h \in Genome : gap[h] = NoGap
  OBVIOUS
<1>2. Pending = {}
  BY <1>1 DEF Pending, NoGap
<1>3. GapsTypes
  BY FS_EmptySet DEF GapsTypes, NoAnswer
<1>4. SlotsAccounted
  <2>1. SUFFICES ASSUME NEW p \in Peer
                 PROVE  inFlight[p] = Cardinality(Counted(p)) + Cardinality(StraysOf(p))
    BY SlotsAre
  <2>2. Counted(p) = {} /\ StraysOf(p) = {} /\ inFlight[p] = 0
    BY <1>2 DEF Counted, StraysOf
  <2>3. Cardinality(Counted(p)) = 0 /\ Cardinality(StraysOf(p)) = 0
    BY <2>2, FS_EmptySet
  <2> QED
    BY <2>2, <2>3
<1> QED
  BY <1>2, <1>3, <1>4 DEF GapsInv, Orphans, Stored, Marks, QueueIsTrue, NoGapForgotten, NoAnswer

(* What changes of an entry that is there keep of the books on disk. *)
LEMMA BooksKept ==
    ASSUME GapsInv, Pending' = Pending, UNCHANGED <<orphan, held, gapsNew, gapsGone, missing, recent>>,
           file' = file, staleLines \subseteq staleLines'
    PROVE  Orphans' /\ Marks' /\ NoGapForgotten'
  BY DEF GapsInv, Orphans, Marks, QueueIsTrue, NoGapForgotten

(* An entry stays an entry. *)
LEMMA SamePending ==
    ASSUME GapsTypes, NEW h \in Genome, NEW g \in Fetch \cup {NoGap}, gap' = [gap EXCEPT ![h] = g],
           g.is <=> gap[h].is
    PROVE  Pending' = Pending /\ gap' \in [Genome -> Fetch \cup {NoGap}]
<1>1. \A k \in Genome : gap'[k] = IF k = h THEN g ELSE gap[k]
  BY DEF GapsTypes
<1> QED
  BY <1>1 DEF GapsTypes, Pending

LEMMA PendingIsFetch ==
    ASSUME GapsTypes, NEW h \in Pending
    PROVE  /\ h \in Genome /\ gap[h] \in Fetch /\ gap[h].is
           /\ Cleared(gap[h]) \in Fetch /\ ~Cleared(gap[h]).now /\ Cleared(gap[h]).is
           /\ [Cleared(gap[h]) EXCEPT !.due = FALSE] \in Fetch
           /\ ~[Cleared(gap[h]) EXCEPT !.due = FALSE].now /\ [Cleared(gap[h]) EXCEPT !.due = FALSE].is
<1>1. h \in Genome /\ gap[h] \in Fetch
  BY DEF GapsTypes, Pending, NoGap
<1> QED
  BY <1>1 DEF Fetch, Cleared

(* A crossing of a hash that is not held: a gap, new or wanted again. *)
LEMMA CrossingStep == ASSUME GapsInv, NEW h \in Genome, onMigration(h) PROVE GapsInv'
<1>1. /\ GapsTypes /\ QueueIsTrue /\ recent' = recent \cup {h}
      /\ UNCHANGED <<inFlight, orphan, file, staleLines, answer, held>>
  BY DEF GapsInv, onMigration
<1>2. CASE h \in held /\ UNCHANGED <<gap, order, gapsNew, gapsGone, missing>>
  BY <1>1, <1>2 DEF GapsInv, GapsTypes, Orphans, Stored, Marks, QueueIsTrue, SlotsAccounted,
     NoGapForgotten, Pending
<1>3. CASE /\ h \in Pending /\ gap' = [gap EXCEPT ![h].again = TRUE]
           /\ markGapNew(h) \/ UNCHANGED <<gapsNew, gapsGone>>
           /\ UNCHANGED <<order, missing>>
  <2> DEFINE g == [gap[h] EXCEPT !.again = TRUE]
  <2>1. g \in Fetch /\ g.is /\ g.now = gap[h].now /\ g.peer = gap[h].peer /\ gap[h].is
    BY <1>1, <1>3, PendingIsFetch DEF Fetch
  <2>2. gap' = [gap EXCEPT ![h] = g]
    BY <1>3
  <2> HIDE DEF g
  <2>3. SlotsAccounted'
    BY <1>1, <2>1, <2>2, SameSlot DEF QueueIsTrue
  <2>4. Pending' = Pending /\ gap' \in [Genome -> Fetch \cup {NoGap}]
    BY <1>1, <2>1, <2>2, SamePending
  <2> QED
    BY <1>1, <1>3, <2>3, <2>4 DEF GapsInv, GapsTypes, Orphans, Stored, Marks, QueueIsTrue,
       NoGapForgotten, markGapNew
<1>4. CASE /\ h \notin held /\ h \notin Pending /\ gap' = [gap EXCEPT ![h] = NewGap]
           /\ markGapNew(h) /\ missing' = missing \cup {h}
  <2>1. NewGap \in Fetch /\ NewGap.is /\ ~NewGap.now
    BY DEF NewGap, Fetch
  <2>2. \A k \in Genome : gap'[k] = IF k = h THEN NewGap ELSE gap[k]
    BY <1>1, <1>4 DEF GapsTypes
  <2>3. Pending' = Pending \cup {h} /\ gap' \in [Genome -> Fetch \cup {NoGap}]
    BY <1>1, <1>4, <2>1, <2>2 DEF Pending, GapsTypes
  <2>4. SlotsAccounted'
    <3>1. ~gap[h].is
      BY <1>4 DEF Pending
    <3>2. \A p \in Peer : Counted(p)' = Counted(p) /\ StraysOf(p)' = StraysOf(p)
      BY <1>1, <2>1, <2>2, <3>1 DEF Counted, StraysOf, Pending
    <3> QED
      BY <1>1, <3>2 DEF QueueIsTrue, SlotsAccounted, Counted, StraysOf
  <2>5. Orphans'
    BY <1>1, <1>4, <2>3 DEF GapsInv, Orphans
  <2>6. Marks' /\ NoGapForgotten'
    BY <1>1, <1>4, <2>3 DEF GapsInv, Marks, QueueIsTrue, NoGapForgotten, markGapNew
  <2> QED
    BY <1>1, <1>4, <2>3, <2>4, <2>5, <2>6 DEF GapsInv, GapsTypes, Stored, QueueIsTrue, markGapNew
<1> QED
  BY <1>2, <1>3, <1>4 DEF onMigration

(* A request is sent: the peer has room, and one slot less. *)
LEMMA SendStep ==
    ASSUME GapsTypes, SlotsAccounted, NEW h \in Pending, NEW p \in Peer, p # None,
           gap[h].peer = None, NEW g \in Fetch, g.now, g.peer = p, gap' = [gap EXCEPT ![h] = g],
           inFlight' = [inFlight EXCEPT ![p] = @ + 1], UNCHANGED orphan
    PROVE  SlotsAccounted' /\ inFlight' \in [Peer -> Nat]
<1>1. gap[h] \in Fetch /\ ~gap[h].now /\ h \in Genome /\ g.is
  BY PendingIsFetch DEF Fetch
<1>2. \A k \in Genome : gap'[k] = IF k = h THEN g ELSE gap[k]
  BY <1>1 DEF GapsTypes
<1>3. inFlight' \in [Peer -> Nat]
  BY DEF GapsTypes
<1>4. ASSUME NEW r \in Peer
      PROVE  inFlight'[r] = Cardinality(Counted(r)') + Cardinality(StraysOf(r)')
  <2>1. Counted(r)' = IF r = p THEN Counted(r) \cup {h} ELSE Counted(r)
    BY <1>1, <1>2 DEF Counted, Pending
  <2>2. StraysOf(r)' = StraysOf(r) /\ h \notin Counted(r)
    BY <1>1 DEF StraysOf, Counted
  <2>3. /\ IsFiniteSet(Counted(r)) /\ Cardinality(Counted(r)) \in Nat
        /\ Cardinality(StraysOf(r)) \in Nat
        /\ inFlight[r] = Cardinality(Counted(r)) + Cardinality(StraysOf(r))
    BY CountsAreFinite, SlotsAre
  <2>4. Cardinality(Counted(r) \cup {h}) = Cardinality(Counted(r)) + 1
    BY <2>2, <2>3, FS_AddElement
  <2>5. inFlight'[r] = IF r = p THEN inFlight[r] + 1 ELSE inFlight[r]
    BY DEF GapsTypes
  <2> QED
    BY <2>1, <2>2, <2>3, <2>4, <2>5
<1> QED
  BY <1>3, <1>4 DEF SlotsAccounted, Counted, StraysOf

(* A step that changes an entry in place, whatever becomes of its slot. *)
LEMMA InPlace ==
    ASSUME GapsInv, NEW h \in Pending, NEW g \in Fetch, gap' = [gap EXCEPT ![h] = g],
           SlotsAccounted', inFlight' \in [Peer -> Nat],
           UNCHANGED <<orphan, held, gapsNew, gapsGone, missing, recent, file, answer>>,
           staleLines \subseteq staleLines'
    PROVE  GapsInv'
<1>1. h \in Genome /\ gap[h].is /\ g.is
  BY PendingIsFetch DEF GapsInv, Fetch
<1>2. Pending' = Pending /\ gap' \in [Genome -> Fetch \cup {NoGap}]
  BY <1>1, SamePending DEF GapsInv
<1>3. GapsTypes' /\ Stored'
  BY <1>2 DEF GapsInv, GapsTypes, Stored
<1> QED
  BY <1>2, <1>3, BooksKept DEF GapsInv, QueueIsTrue

LEMMA LeavesStep ==
    ASSUME GapsInv, NEW h \in Pending, Leaves(h),
           UNCHANGED <<orphan, file, staleLines, recent, answer, held>>
    PROVE  GapsInv'
<1>1. GapsTypes /\ SlotsAccounted /\ h \in Genome /\ gap[h].is
  BY PendingIsFetch DEF GapsInv, QueueIsTrue
<1>2. /\ gap' = [gap EXCEPT ![h] = NoGap] /\ inFlight' = GiveBack(gap[h].peer, gap[h].now)
      /\ markGapGone(h) /\ missing' = missing \ {h}
  BY DEF Leaves
<1>3. \A k \in Genome : gap'[k] = IF k = h THEN NoGap ELSE gap[k]
  BY <1>1, <1>2 DEF GapsTypes
<1>4. Pending' = Pending \ {h} /\ gap' \in [Genome -> Fetch \cup {NoGap}]
  BY <1>1, <1>2, <1>3 DEF Pending, NoGap, GapsTypes
<1>5. SlotsAccounted' /\ inFlight' \in [Peer -> Nat]
  BY <1>1, <1>2, GivenBack DEF NoGap
<1>6. Marks' /\ NoGapForgotten' /\ Orphans'
  BY <1>2, <1>4 DEF GapsInv, Marks, QueueIsTrue, NoGapForgotten, Orphans, markGapGone
<1>7. GapsTypes' /\ Stored'
  BY <1>2, <1>4, <1>5 DEF GapsInv, GapsTypes, Stored, markGapGone
<1> QED
  BY <1>5, <1>6, <1>7 DEF GapsInv, QueueIsTrue

(* The pump: an entry leaves, waits, is asked of a peer or starts again. *)
LEMMA PumpStep == ASSUME GapsInv, Pump PROVE GapsInv'
<1> DEFINE h == Head(order)  f == gap[h]
<1>1. UNCHANGED <<orphan, file, staleLines, recent, answer, held>>
  BY DEF Pump
<1>t. GapsTypes /\ SlotsAccounted
  BY DEF GapsInv, QueueIsTrue
<1>2. CASE h \notin Pending
  BY <1>1, <1>2 DEF Pump, GapsInv, GapsTypes, Orphans, Stored, Marks, QueueIsTrue, SlotsAccounted,
     NoGapForgotten, Pending
<1>3. CASE h \in Pending /\ Leaves(h)
  BY <1>1, <1>3, LeavesStep
<1>4. CASE h \in Pending /\ Stays(h) /\ UNCHANGED <<gapsNew, gapsGone, missing>>
  <2>1. /\ h \in Genome /\ f \in Fetch /\ f.is
        /\ Cleared(f) \in Fetch
        /\ [Cleared(f) EXCEPT !.due = FALSE] \in Fetch
        /\ ~[Cleared(f) EXCEPT !.due = FALSE].now
    BY <1>4, <1>t, PendingIsFetch
  <2>2. CASE UNCHANGED <<gap, inFlight, wire>>
    BY <1>1, <1>4, <2>2 DEF GapsInv, GapsTypes, Orphans, Stored, Marks, QueueIsTrue,
       SlotsAccounted, NoGapForgotten, Pending
  <2>3. CASE /\ gap' = [gap EXCEPT ![h] = [Cleared(f) EXCEPT !.due = FALSE]]
             /\ inFlight' = GiveBack(f.peer, f.now)
    <3>1. SlotsAccounted' /\ inFlight' \in [Peer -> Nat]
      BY <1>1, <1>4, <1>t, <2>1, <2>3, GivenBack
    <3> QED
      BY <1>1, <1>4, <2>1, <2>3, <3>1, InPlace
  <2>4. CASE gap' = [gap EXCEPT ![h].asked = {}, ![h].due = FALSE] /\ UNCHANGED inFlight
    <3> DEFINE g == [f EXCEPT !.asked = {}, !.due = FALSE]
    <3>1. g \in Fetch /\ g.is /\ g.now = f.now /\ g.peer = f.peer
      BY <2>1 DEF Fetch
    <3>2. gap' = [gap EXCEPT ![h] = g]
      BY <2>4, <2>1, <1>t DEF GapsTypes
    <3> HIDE DEF g
    <3>3. SlotsAccounted' /\ inFlight' \in [Peer -> Nat]
      BY <1>1, <1>t, <2>1, <2>4, <3>1, <3>2, SameSlot DEF GapsTypes
    <3> QED
      BY <1>1, <1>4, <3>1, <3>2, <3>3, InPlace
  <2>5. CASE \E p \in Peer :
               /\ p # None /\ f.peer = None
               /\ gap' = [gap EXCEPT ![h].peer = p, ![h].now = TRUE, ![h].late = FALSE,
                                     ![h].asked = @ \cup {p}]
               /\ inFlight' = [inFlight EXCEPT ![p] = @ + 1]
    <3>1. PICK p \in Peer :
               /\ p # None /\ f.peer = None
               /\ gap' = [gap EXCEPT ![h].peer = p, ![h].now = TRUE, ![h].late = FALSE,
                                     ![h].asked = @ \cup {p}]
               /\ inFlight' = [inFlight EXCEPT ![p] = @ + 1]
      BY <2>5
    <3> DEFINE g == [f EXCEPT !.peer = p, !.now = TRUE, !.late = FALSE, !.asked = @ \cup {p}]
    <3>2. g \in Fetch /\ g.now /\ g.peer = p
      BY <2>1, <3>1 DEF Fetch
    <3>3. gap' = [gap EXCEPT ![h] = g]
      BY <3>1, <2>1, <1>t DEF GapsTypes
    <3> HIDE DEF g
    <3>4. SlotsAccounted' /\ inFlight' \in [Peer -> Nat]
      BY <1>1, <1>4, <1>t, <3>1, <3>2, <3>3, SendStep
    <3> QED
      BY <1>1, <1>4, <3>2, <3>3, <3>4, InPlace
  <2>6. nextPeer(h) # None => nextPeer(h) \in Peer
    BY DEF nextPeer
  <2> QED
    BY <1>4, <2>2, <2>3, <2>4, <2>5, <2>6 DEF Stays
<1> QED
  BY <1>2, <1>3, <1>4 DEF Pump

(* A request without its entry gives its slot back once. *)
LEMMA ReapStrayStep ==
    ASSUME GapsInv, NEW o \in orphan, orphan' = orphan \ {o}, inFlight' = GiveBack(o.peer, o.now),
           UNCHANGED <<gap, diskVars, answer, held>>
    PROVE  GapsInv'
<1>1. GapsTypes /\ SlotsAccounted /\ o \in Stray
  BY DEF GapsInv, GapsTypes, QueueIsTrue
<1>2. inFlight' \in [Peer -> Nat]
  BY <1>1 DEF GiveBack, OneLess, GapsTypes, Stray
<1>3. ASSUME NEW p \in Peer
      PROVE  inFlight'[p] = Cardinality(Counted(p)') + Cardinality(StraysOf(p)')
  <2>1. Counted(p)' = Counted(p) /\ StraysOf(p)' = StraysOf(p) \ {o}
    BY DEF Counted, StraysOf, Pending
  <2>2. /\ Cardinality(Counted(p)) \in Nat
        /\ IsFiniteSet(StraysOf(p)) /\ Cardinality(StraysOf(p)) \in Nat
        /\ inFlight[p] = Cardinality(Counted(p)) + Cardinality(StraysOf(p))
    BY <1>1, CountsAreFinite, SlotsAre
  <2>3. Cardinality(StraysOf(p) \ {o}) = IF o \in StraysOf(p) THEN Cardinality(StraysOf(p)) - 1
                                         ELSE Cardinality(StraysOf(p))
    BY <2>2, FS_RemoveElement
  <2>4. CASE o \in StraysOf(p)
    <3>1. o.peer = p /\ o.now /\ p # None
      BY <2>4, <1>1 DEF StraysOf, Stray
    <3>2. Cardinality(StraysOf(p)) > 0
      BY <2>2, <2>4, FS_EmptySet
    <3>3. inFlight'[p] = OneLess(inFlight[p])
      BY <1>1, <3>1 DEF GiveBack, GapsTypes
    <3> QED
      BY <2>1, <2>2, <2>3, <2>4, <3>2, <3>3 DEF OneLess
  <2>5. CASE o \notin StraysOf(p)
    <3>1. ~(o.peer = p /\ o.now)
      BY <2>5 DEF StraysOf
    <3>2. inFlight'[p] = inFlight[p]
      BY <1>1, <3>1 DEF GiveBack, GapsTypes, Stray
    <3> QED
      BY <2>1, <2>2, <2>3, <2>5, <3>2
  <2> QED
    BY <2>4, <2>5
<1>4. SlotsAccounted'
  BY <1>3 DEF SlotsAccounted, Counted, StraysOf
<1>5. GapsTypes'
  BY <1>1, <1>2, FS_RemoveElement DEF GapsTypes, diskVars
<1> QED
  BY <1>4, <1>5 DEF GapsInv, Orphans, Stored, Marks, QueueIsTrue, NoGapForgotten, Pending, diskVars

LEMMA ReapStep == ASSUME GapsInv, NEW h \in Genome, reapExpired(h) PROVE GapsInv'
<1>1. UNCHANGED <<order, diskVars, netVars, answer, held, left>> /\ GapsTypes /\ SlotsAccounted
  BY DEF reapExpired, GapsInv, QueueIsTrue
<1>2. CASE /\ h \in Pending /\ gap' = [gap EXCEPT ![h] = [Cleared(gap[h]) EXCEPT !.due = FALSE]]
           /\ inFlight' = GiveBack(gap[h].peer, gap[h].now) /\ UNCHANGED orphan
  <2>1. /\ [Cleared(gap[h]) EXCEPT !.due = FALSE] \in Fetch
        /\ ~[Cleared(gap[h]) EXCEPT !.due = FALSE].now
    BY <1>1, <1>2, PendingIsFetch
  <2>2. SlotsAccounted' /\ inFlight' \in [Peer -> Nat]
    BY <1>1, <1>2, <2>1, GivenBack
  <2> QED
    BY <1>1, <1>2, <2>1, <2>2, InPlace DEF diskVars
<1>3. CASE \E o \in orphan : /\ orphan' = orphan \ {o}
                             /\ inFlight' = GiveBack(o.peer, o.now) /\ UNCHANGED gap
  BY <1>1, <1>3, ReapStrayStep
<1> QED
  BY <1>2, <1>3 DEF reapExpired

(* Clocks, and an answer that serves nothing: an entry's slot is as it was. *)
LEMMA ClockStep == ASSUME GapsInv, NEW h \in Genome, Elapse(h) \/ Age(h) PROVE GapsInv'
<1>1. /\ GapsTypes /\ SlotsAccounted /\ h \in Pending /\ gap[h] \in Fetch /\ gap[h].is
      /\ UNCHANGED <<inFlight, orphan, file, gapsNew, gapsGone, recent, missing, answer, held>>
      /\ staleLines \subseteq staleLines'
  BY PendingIsFetch DEF Elapse, Age, GapsInv, QueueIsTrue, diskVars
<1>2. PICK g \in Fetch : /\ gap' = [gap EXCEPT ![h] = g] /\ g.is
                         /\ g.now = gap[h].now /\ g.peer = gap[h].peer
  <2>1. /\ [gap[h] EXCEPT !.due = TRUE] \in Fetch /\ [gap[h] EXCEPT !.late = TRUE] \in Fetch
        /\ [gap[h] EXCEPT !.old = TRUE] \in Fetch /\ [gap[h] EXCEPT !.again = FALSE] \in Fetch
    BY <1>1 DEF Fetch
  <2>2. \/ gap' = [gap EXCEPT ![h] = [gap[h] EXCEPT !.due = TRUE]]
        \/ gap' = [gap EXCEPT ![h] = [gap[h] EXCEPT !.late = TRUE]]
        \/ gap' = [gap EXCEPT ![h] = [gap[h] EXCEPT !.old = TRUE]]
        \/ gap' = [gap EXCEPT ![h] = [gap[h] EXCEPT !.again = FALSE]]
    BY DEF Elapse, Age
  <2> QED
    BY <1>1, <2>1, <2>2 DEF Fetch
<1>3. SlotsAccounted' /\ inFlight' \in [Peer -> Nat]
  BY <1>1, <1>2, SameSlot DEF GapsTypes
<1> QED
  BY <1>1, <1>2, <1>3, InPlace

(* A response: the entry's request is over, whoever it is still counted for. *)
LEMMA AnswerStep ==
    ASSUME GapsInv, NEW h \in Genome, NEW p \in Peer,
           NEW reason \in {"found", "unknown_hash", "rate_limited", "bad_bytes"},
           onGenomeResponse(h, p, reason)
    PROVE  GapsInv'
<1>1. /\ GapsTypes /\ SlotsAccounted
      /\ answer' = [is |-> TRUE, hash |-> h, peer |-> p, reason |-> reason]
      /\ gap' = IF h \in Pending THEN [gap EXCEPT ![h] = Cleared(gap[h])] ELSE gap
      /\ inFlight' = IF h \in Pending THEN GiveBack(gap[h].peer, gap[h].now) ELSE inFlight
      /\ UNCHANGED <<orphan, diskVars, held>>
  BY DEF onGenomeResponse, GapsInv, QueueIsTrue
<1>2. Stored' /\ answer' \in Answer \cup {NoAnswer}
  BY <1>1 DEF Stored, Answer
<1>3. CASE h \notin Pending
  BY <1>1, <1>2, <1>3 DEF GapsInv, GapsTypes, Orphans, Marks, QueueIsTrue, SlotsAccounted,
     NoGapForgotten, Pending, diskVars
<1>4. CASE h \in Pending
  <2> DEFINE g == Cleared(gap[h])
  <2>1. g \in Fetch /\ ~g.now /\ g.is /\ gap[h].is
    BY <1>1, <1>4, PendingIsFetch
  <2>2. gap' = [gap EXCEPT ![h] = g]
    BY <1>1, <1>4
  <2> HIDE DEF g
  <2>3. SlotsAccounted' /\ inFlight' \in [Peer -> Nat]
    BY <1>1, <1>4, <2>1, <2>2, GivenBack
  <2>4. Pending' = Pending /\ gap' \in [Genome -> Fetch \cup {NoGap}]
    BY <1>1, <2>1, <2>2, SamePending
  <2>5. GapsTypes'
    BY <1>1, <1>2, <2>3, <2>4 DEF GapsTypes, diskVars
  <2>6. Orphans' /\ Marks' /\ NoGapForgotten'
    BY <1>1, <2>4, BooksKept DEF diskVars
  <2> QED
    BY <1>2, <2>3, <2>5, <2>6 DEF GapsInv, QueueIsTrue
<1> QED
  BY <1>3, <1>4

LEMMA NotServedStep == ASSUME GapsInv, NotServed PROVE GapsInv'
<1> DEFINE h == answer.hash
<1>1. /\ GapsTypes /\ SlotsAccounted /\ answer.is /\ h \in Genome /\ answer' = NoAnswer
      /\ UNCHANGED <<inFlight, orphan, diskVars, held>>
  <2>1. answer \in Answer
    BY DEF NotServed, GapsInv, GapsTypes, NoAnswer
  <2> QED
    BY <2>1 DEF NotServed, GapsInv, QueueIsTrue, Answer
<1>2. Stored'
  BY <1>1 DEF Stored, NoAnswer
<1>3. CASE UNCHANGED gap
  BY <1>1, <1>2, <1>3 DEF GapsInv, GapsTypes, Orphans, Marks, QueueIsTrue, SlotsAccounted,
     NoGapForgotten, Pending, diskVars, NoAnswer
<1>4. CASE h \in Pending
  <2> DEFINE d == (answer.reason = "unknown_hash")
             a == IF answer.reason = "rate_limited" THEN gap[h].asked \ {answer.peer}
                  ELSE gap[h].asked
             g == [gap[h] EXCEPT !.due = d, !.asked = a]
  <2>1. gap[h] \in Fetch /\ gap[h].is
    BY <1>1, <1>4, PendingIsFetch
  <2>2. d \in BOOLEAN /\ a \subseteq Peer
    BY <2>1 DEF Fetch
  <2>3. gap' = [gap EXCEPT ![h] = g]
    BY <1>1, <1>4, <2>1 DEF NotServed, GapsTypes
  <2> HIDE DEF d, a
  <2>4. g \in Fetch /\ g.is /\ g.now = gap[h].now /\ g.peer = gap[h].peer
    BY <2>1, <2>2 DEF Fetch
  <2> HIDE DEF g
  <2>5. SlotsAccounted'
    BY <1>1, <2>1, <2>3, <2>4, SameSlot
  <2>6. Pending' = Pending /\ gap' \in [Genome -> Fetch \cup {NoGap}]
    BY <1>1, <2>1, <2>3, <2>4, SamePending
  <2>7. GapsTypes'
    BY <1>1, <2>6 DEF GapsTypes, diskVars, NoAnswer
  <2>8. Orphans' /\ Marks' /\ NoGapForgotten'
    BY <1>1, <2>6, BooksKept DEF diskVars
  <2> QED
    BY <1>2, <2>5, <2>7, <2>8 DEF GapsInv, QueueIsTrue
<1> QED
  BY <1>3, <1>4 DEF NotServed

(* The gap closes; the request the pump made meanwhile keeps its slot. *)
LEMMA CloseStep == ASSUME GapsInv, CloseGap PROVE GapsInv'
<1> DEFINE h == answer.hash
           o == [hash |-> h, peer |-> gap[h].peer, now |-> gap[h].now]
<1>1. /\ GapsTypes /\ SlotsAccounted /\ answer.is /\ h \in Genome /\ h \in held
      /\ answer' = NoAnswer /\ gap' = [gap EXCEPT ![h] = NoGap]
      /\ markGapGone(h) /\ missing' = missing \ {h}
      /\ orphan' = orphan \cup {o : x \in {y \in Pending : y = h /\ gap[h].peer # None}}
      /\ UNCHANGED <<inFlight, file, staleLines, recent, held>>
  <2>1. answer \in Answer
    BY DEF CloseGap, GapsInv, GapsTypes, NoAnswer
  <2> QED
    BY <2>1 DEF CloseGap, GapsInv, QueueIsTrue, Answer, Stored
<1>2. \A k \in Genome : gap'[k] = IF k = h THEN NoGap ELSE gap[k]
  BY <1>1 DEF GapsTypes
<1>3. Pending' = Pending \ {h} /\ gap' \in [Genome -> Fetch \cup {NoGap}]
  BY <1>1, <1>2 DEF Pending, NoGap, GapsTypes
<1>4. orphan' = IF h \in Pending /\ gap[h].peer # None THEN orphan \cup {o} ELSE orphan
  BY <1>1
<1>5. o.hash = h /\ (h \in Pending /\ gap[h].peer # None => o \in Stray /\ o \notin orphan)
  BY <1>1, PendingIsFetch DEF Stray, Fetch, GapsInv, Orphans
<1>6. IsFiniteSet(orphan') /\ orphan' \subseteq Stray
  <2>1. IsFiniteSet(orphan) /\ orphan \subseteq Stray
    BY <1>1 DEF GapsTypes
  <2>2. IsFiniteSet(orphan \cup {o})
    BY <2>1, FS_AddElement
  <2> QED
    BY <1>4, <1>5, <2>1, <2>2
<1>7. ASSUME NEW p \in Peer
      PROVE  inFlight'[p] = Cardinality(Counted(p)') + Cardinality(StraysOf(p)')
  <2>1. /\ IsFiniteSet(Counted(p)) /\ Cardinality(Counted(p)) \in Nat
        /\ IsFiniteSet(StraysOf(p)) /\ Cardinality(StraysOf(p)) \in Nat
        /\ inFlight[p] = Cardinality(Counted(p)) + Cardinality(StraysOf(p))
    BY <1>1, CountsAreFinite, SlotsAre
  <2>2. Counted(p)' = Counted(p) \ {h}
    BY <1>2 DEF Counted, Pending, NoGap
  <2>3. CASE h \in Counted(p)
    <3>1. h \in Pending /\ gap[h].peer = p /\ gap[h].now /\ gap[h].peer # None
      BY <2>3, <1>1, PendingIsFetch DEF Counted, Fetch
    <3>2. StraysOf(p)' = StraysOf(p) \cup {o} /\ o \notin StraysOf(p)
      BY <1>4, <1>5, <3>1 DEF StraysOf
    <3>3. Cardinality(StraysOf(p) \cup {o}) = Cardinality(StraysOf(p)) + 1
      BY <2>1, <3>2, FS_AddElement
    <3>4. Cardinality(Counted(p) \ {h}) = Cardinality(Counted(p)) - 1
      BY <2>1, <2>3, FS_RemoveElement
    <3> HIDE DEF o, h
    <3> QED
      BY <1>1, <2>1, <2>2, <3>2, <3>3, <3>4
  <2>4. CASE h \notin Counted(p)
    <3>1. ~(h \in Pending /\ gap[h].peer = p /\ gap[h].now)
      BY <2>4 DEF Counted
    <3>2. StraysOf(p)' = StraysOf(p)
      BY <1>4, <3>1 DEF StraysOf
    <3>3. Counted(p)' = Counted(p)
      BY <2>2, <2>4
    <3> QED
      BY <1>1, <2>1, <3>2, <3>3
  <2> QED
    BY <2>3, <2>4
<1>8. SlotsAccounted'
  BY <1>7 DEF SlotsAccounted, Counted, StraysOf
<1>9. GapsTypes' /\ Stored'
  BY <1>1, <1>3, <1>6 DEF GapsTypes, Stored, NoAnswer, markGapGone
<1>10. Orphans'
  BY <1>1, <1>3, <1>4, <1>5 DEF GapsInv, Orphans
<1>11. Marks' /\ NoGapForgotten'
  BY <1>1, <1>3 DEF GapsInv, Marks, QueueIsTrue, NoGapForgotten, markGapGone
<1> QED
  BY <1>8, <1>9, <1>10, <1>11 DEF GapsInv, QueueIsTrue

(* A genome is stored, or its bytes are not good. *)
LEMMA StorePutStep == ASSUME GapsInv, StorePut PROVE GapsInv'
<1>1. /\ UNCHANGED <<queueVars, diskVars, netVars>> /\ held \subseteq held'
      /\ \/ answer' = NoAnswer
         \/ answer' = [answer EXCEPT !.reason = "stored"] /\ answer.hash \in held'
  BY DEF StorePut
<1>2. /\ answer' \in Answer \cup {NoAnswer}
      /\ answer'.is => answer'.hash = answer.hash /\ answer.is /\ answer.hash \in held'
  <2>1. answer \in Answer
    BY DEF StorePut, GapsInv, GapsTypes, NoAnswer
  <2>2. CASE answer' = NoAnswer
    BY <2>2 DEF NoAnswer
  <2>3. CASE answer' = [answer EXCEPT !.reason = "stored"] /\ answer.hash \in held'
    BY <2>1, <2>3 DEF Answer
  <2> QED
    BY <1>1, <2>2, <2>3
<1>3. GapsTypes' /\ Stored'
  BY <1>1, <1>2 DEF GapsInv, GapsTypes, Stored, queueVars, diskVars
<1> QED
  BY <1>1, <1>3 DEF GapsInv, Orphans, Marks, QueueIsTrue, SlotsAccounted, NoGapForgotten, Pending,
     queueVars, diskVars

(* A session ends and a new one starts with every slot free. *)
LEMMA SubscribeStep == ASSUME GapsInv, Subscribe PROVE GapsInv'
<1>1. /\ GapsTypes /\ inFlight' = [p \in Peer |-> 0]
      /\ gap' = [h \in Genome |-> IF h \in Pending THEN [gap[h] EXCEPT !.now = FALSE] ELSE NoGap]
      /\ orphan' = {[o EXCEPT !.now = FALSE] : o \in orphan}
      /\ UNCHANGED <<diskVars, answer, held>>
  BY DEF Subscribe, GapsInv
<1>2. \A h \in Pending : /\ [gap[h] EXCEPT !.now = FALSE] \in Fetch
                         /\ [gap[h] EXCEPT !.now = FALSE].is /\ ~[gap[h] EXCEPT !.now = FALSE].now
  BY <1>1, PendingIsFetch DEF Fetch
<1>3. gap' \in [Genome -> Fetch \cup {NoGap}] /\ Pending' = Pending
  BY <1>1, <1>2 DEF Pending, NoGap
<1>4. \A o \in orphan : /\ [o EXCEPT !.now = FALSE] \in Stray /\ ~[o EXCEPT !.now = FALSE].now
                        /\ [o EXCEPT !.now = FALSE].hash = o.hash
  BY <1>1 DEF GapsTypes, Stray
<1>5. IsFiniteSet(orphan')
  <2> DEFINE F == [o \in orphan |-> [o EXCEPT !.now = FALSE]]
  <2>1. F \in [orphan -> orphan'] /\ \A x \in orphan' : \E o \in orphan : F[o] = x
    BY <1>1
  <2> HIDE DEF F
  <2>2. F \in Surjection(orphan, orphan')
    BY <2>1, Fun_IsSurj
  <2> QED
    BY <1>1, <2>2, FS_Surjection DEF GapsTypes
<1>6. SlotsAccounted'
  <2>1. SUFFICES ASSUME NEW p \in Peer
                 PROVE  inFlight'[p] = Cardinality(Counted(p)') + Cardinality(StraysOf(p)')
    BY DEF SlotsAccounted, Counted, StraysOf
  <2>2. Counted(p)' = {} /\ StraysOf(p)' = {} /\ inFlight'[p] = 0
    <3>1. \A h \in Pending' : ~gap'[h].now
      BY <1>1, <1>2, <1>3 DEF Pending
    <3>2. \A o \in orphan' : ~o.now
      BY <1>1, <1>4
    <3> QED
      BY <1>1, <3>1, <3>2 DEF Counted, StraysOf
  <2>3. Cardinality(Counted(p)') = 0 /\ Cardinality(StraysOf(p)') = 0
    BY <2>2, FS_EmptySet
  <2> QED
    BY <2>2, <2>3
<1>7. GapsTypes' /\ Stored'
  BY <1>1, <1>3, <1>4, <1>5 DEF GapsInv, GapsTypes, Stored, diskVars
<1>8. Orphans'
  BY <1>1, <1>3, <1>4 DEF GapsInv, Orphans
<1>9. Marks' /\ NoGapForgotten'
  BY <1>1, <1>3 DEF GapsInv, Marks, QueueIsTrue, NoGapForgotten, diskVars
<1> QED
  BY <1>6, <1>7, <1>8, <1>9 DEF GapsInv, QueueIsTrue

(* What is dirty reaches the file: no gap is without a line. *)
LEMMA SaveQueueStep == ASSUME GapsInv, SaveQueue PROVE GapsInv'
<1>1. /\ UNCHANGED <<queueVars, missing, answer, held>>
      /\ file' = (file \cup gapsNew) \ gapsGone /\ staleLines' = staleLines \ gapsNew
      /\ gapsNew' = {} /\ gapsGone' = {} /\ recent' = {}
  BY DEF SaveQueue
<1>2. Pending' = Pending
  BY <1>1 DEF Pending, queueVars
<1>3. GapsTypes' /\ Stored' /\ Orphans' /\ SlotsAccounted'
  BY <1>1 DEF GapsInv, GapsTypes, Stored, Orphans, QueueIsTrue, SlotsAccounted, Pending, queueVars
<1>4. Marks' /\ NoGapForgotten'
  BY <1>1, <1>2 DEF GapsInv, Marks, QueueIsTrue, NoGapForgotten
<1> QED
  BY <1>3, <1>4 DEF GapsInv, QueueIsTrue

(* The archive dies: the file and the crossings past its floor name every gap. *)
LEMMA CrashStep == ASSUME GapsInv, Crash PROVE GapsInv'
<1> DEFINE lately == {h \in recent \ file : h \in Pending /\ (gap[h].old => gap[h].again)}
           back == ((file \ staleLines) \cup lately) \ held
           a(h) == h \in file \cap Pending /\ gap[h].again
<1>1. /\ gap' = [h \in Genome |-> IF h \in back THEN [NewGap EXCEPT !.again = a(h)] ELSE NoGap]
      /\ gapsNew' = back \ file /\ gapsGone' = file \ back
      /\ missing' = missing \ (held \cup {h \in Pending : gap[h].old /\ ~gap[h].again})
      /\ inFlight' = [p \in Peer |-> 0] /\ orphan' = {} /\ answer' = NoAnswer
      /\ UNCHANGED <<file, staleLines, recent, held>>
  BY DEF Crash
<1>2. \A h \in Genome : a(h) \in BOOLEAN
  <2>1. \A h \in Pending : gap[h].again \in BOOLEAN
    BY PendingIsFetch DEF GapsInv, Fetch
  <2> QED
    BY <2>1
<1>3. back \subseteq Genome /\ back \ file \subseteq recent
  BY DEF GapsInv, GapsTypes
<1>4. \A h \in missing' \ staleLines : h \in back
  BY <1>1 DEF GapsInv, GapsTypes, Marks, QueueIsTrue, NoGapForgotten
<1> HIDE DEF back, a
<1>5. \A h \in Genome : /\ [NewGap EXCEPT !.again = a(h)] \in Fetch
                        /\ [NewGap EXCEPT !.again = a(h)].is
                        /\ ~[NewGap EXCEPT !.again = a(h)].now
  BY <1>2 DEF NewGap, Fetch
<1>6. gap' \in [Genome -> Fetch \cup {NoGap}] /\ Pending' = back
  BY <1>1, <1>3, <1>5 DEF Pending, NoGap
<1>7. SlotsAccounted'
  <2>1. SUFFICES ASSUME NEW p \in Peer
                 PROVE  inFlight'[p] = Cardinality(Counted(p)') + Cardinality(StraysOf(p)')
    BY DEF SlotsAccounted, Counted, StraysOf
  <2>2. Counted(p)' = {} /\ StraysOf(p)' = {} /\ inFlight'[p] = 0
    BY <1>1, <1>5, <1>6, <1>3 DEF Counted, StraysOf
  <2>3. Cardinality(Counted(p)') = 0 /\ Cardinality(StraysOf(p)') = 0
    BY <2>2, FS_EmptySet
  <2> QED
    BY <2>2, <2>3
<1>8. GapsTypes' /\ Stored' /\ Orphans'
  BY <1>1, <1>3, <1>6, FS_EmptySet DEF GapsInv, GapsTypes, Stored, Orphans, NoAnswer
<1>9. Marks' /\ NoGapForgotten'
  BY <1>1, <1>3, <1>4, <1>6 DEF Marks, NoGapForgotten
<1> QED
  BY <1>7, <1>8, <1>9 DEF GapsInv, QueueIsTrue

(* The invariant is inductive. *)
THEOREM GapsInvariant == GapsSpec => []GapsInv
<1>1. GapsInv /\ [GapsNext]_gapsVars => GapsInv'
  <2> SUFFICES ASSUME GapsInv, [GapsNext]_gapsVars PROVE GapsInv'
    OBVIOUS
  <2>1. CASE UNCHANGED <<queueVars, diskVars, answer, held>>
    BY <2>1 DEF GapsInv, GapsTypes, Orphans, Stored, Marks, QueueIsTrue, SlotsAccounted,
       NoGapForgotten, Pending, queueVars, diskVars
  <2>2. CASE UNCHANGED gapsVars
    BY <2>1, <2>2 DEF gapsVars
  <2>3. CASE \/ Drop \/ Ended \/ \E p \in Peer : WorldGoes(p) \/ WorldComes(p)
    BY <2>1, <2>3 DEF Drop, Ended, WorldGoes, WorldComes
  <2> QED
    BY <2>2, <2>3, CrossingStep, ReapStep, ClockStep, AnswerStep, PumpStep, NotServedStep,
       StorePutStep, CloseStep, SubscribeStep, SaveQueueStep, CrashStep DEF GapsNext
<1> QED
  BY GapsInitHolds, <1>1, PTL DEF GapsSpec

(* A peer's slots are the requests that wait, and no hash that was asked for  *)
(* is forgotten over a kill (archive.go, clearInFlightLocked; rollup.go).      *)
THEOREM TheQueueIsTrue == GapsSpec => []QueueIsTrue
<1>1. GapsInv => QueueIsTrue
  BY DEF GapsInv
<1> QED
  BY <1>1, GapsInvariant, PTL


-----------------------------------------------------------------------------
(***************************************************************************)
(* The population history.  Segments are closed in the order of their     *)
(* days, so a roll-up that refuses what is out of order carries its flow   *)
(* from a segment's last day to a later one's first; a segment that is     *)
(* gone is in the file, while every save of the file succeeds.             *)
(***************************************************************************)
MetricsTypes ==
    /\ today \in Day /\ liveDays \subseteq Day /\ segDays \in [Day -> SUBSET Day]
    /\ form \in [Day -> {"none", "plain", "both", "gz", "gone"}]

SegmentsAreNamed == \A n \in Day :
    /\ form[n] = "none" <=> segDays[n] = {}
    /\ segDays[n] # {} => n \in segDays[n]
    /\ \A d \in segDays[n] : n <= d

DaysInOrder ==
    /\ \A n, m \in Day : \A d \in segDays[n], e \in segDays[m] : n < m => d < e
    /\ \A n \in Day : \A d \in segDays[n], e \in liveDays : d < e
    /\ \A n \in Day : \A d \in segDays[n] : d <= today
    /\ \A e \in liveDays : e <= today

(* A roll-up of some of the segments S. *)
IsFolded(h, S, d) == \E n \in h.folded : d \in S[n]
RollupTrue(h, S) ==
    /\ h \in Rollup /\ \A n \in h.folded : S[n] # {}
    /\ \A d \in Day : h.days[d] = IF IsFolded(h, S, d) THEN 1 ELSE 0
    /\ h.folded = {} => h.last = 0 /\ h.flow = 0
    /\ h.folded # {} => \E a \in Day :
         /\ IsFolded(h, S, a) /\ IsFolded(h, S, h.last) /\ h.last \in Day /\ h.flow = h.last - a
         /\ \A d \in Day : IsFolded(h, S, d) => a <= d /\ d <= h.last

ReadBack == IF metricsPass.at = "down" THEN history = NoHistory ELSE history = onDisk
GoneIsFolded == \A n \in Day : form[n] = "gone" =>
    n \in onDisk.folded /\ \A d \in segDays[n] : d + MetricsWindow < today
ShownIsClosed == \A d \in shown : \E n \in Day : d \in segDays[n]

MetricsInv ==
    /\ MetricsTypes /\ SegmentsAreNamed /\ DaysInOrder
    /\ RollupTrue(onDisk, segDays) /\ ReadBack /\ GoneIsFolded /\ ShownIsClosed

(* A set of numbers that is not empty has a least one. *)
LEMMA LeastNat ==
    ASSUME NEW T \in SUBSET Nat, T # {}
    PROVE  \E x \in T : \A y \in T : x <= y
<1> DEFINE R == {ss \in Nat \X Nat : ss[1] < ss[2]}
<1>1. OpToRel(<, Nat) = R
  BY DEF OpToRel
<1>2. PICK x \in T : \A y \in T : ~(<<y, x>> \in R)
  BY ZenonT(30), <1>1, NatLessThanWellFounded, WFMin
<1>3. ASSUME NEW y \in T PROVE x <= y
  <2>1. <<y, x>> \in Nat \X Nat /\ <<y, x>>[1] = y /\ <<y, x>>[2] = x
    OBVIOUS
  <2>2. ~(y < x)
    BY <1>2, <2>1
  <2> QED
    BY <2>2
<1> QED
  BY <1>3

(* Some days have a first and a last. *)
LEMMA FirstAndLast ==
    ASSUME NEW S \in SUBSET Day, S # {}
    PROVE  /\ Min(S) \in S /\ \A d \in S : Min(S) <= d
           /\ Max(S) \in S /\ \A d \in S : d <= Max(S)
<1>0. LastDay \in Nat /\ Day = 1..LastDay
  BY MetricsAssumption DEF Day
<1>1. \E x \in S : \A d \in S : x <= d
  <2>1. S \in SUBSET Nat
    BY <1>0
  <2>. QED
    BY <2>1, LeastNat
<1>2. \E x \in S : \A d \in S : d <= x
  <2>. DEFINE T == {k \in Nat : LastDay - k \in S}
  <2>1. PICK s \in S : TRUE
    OBVIOUS
  <2>2. LastDay - s \in T
    <3>1. s \in Nat /\ s <= LastDay
      BY <1>0, <2>1
    <3>2. LastDay - s \in Nat /\ LastDay - (LastDay - s) = s
      BY <1>0, <3>1
    <3>. QED
      BY <3>2
  <2>3. PICK k \in T : \A j \in T : k <= j
    <3>1. T \in SUBSET Nat /\ T # {}
      BY <2>2
    <3>. HIDE DEF T
    <3>. QED
      BY <3>1, LeastNat
  <2>4. ASSUME NEW d \in S PROVE d <= LastDay - k
    <3>1. d \in Nat /\ d <= LastDay /\ k \in Nat
      BY <1>0
    <3>2. LastDay - d \in Nat /\ LastDay - (LastDay - d) = d
      BY <1>0, <3>1
    <3>3. k <= LastDay - d
      BY <2>3, <3>2
    <3>. QED
      BY <1>0, <3>1, <3>3
  <2>. QED
    BY <2>3, <2>4
<1>3. Min(S) \in S /\ \A d \in S : Min(S) <= d
  BY <1>1 DEF Min
<1>4. Max(S) \in S /\ \A d \in S : Max(S) >= d
  <2>1. \E x \in S : \A d \in S : x >= d
    BY <1>0, <1>2
  <2>. QED
    BY <2>1 DEF Max
<1>5. \A d \in S : d <= Max(S)
  BY <1>0, <1>4
<1>. QED
  BY <1>3, <1>4, <1>5

(* A roll-up speaks of the segments it has folded, and of no other. *)
LEMMA RollupSame ==
    ASSUME NEW h, NEW S, NEW T, RollupTrue(h, S), \A n \in h.folded : T[n] = S[n]
    PROVE  RollupTrue(h, T)
<1>1. \A d : IsFolded(h, T, d) <=> IsFolded(h, S, d)
  BY DEF IsFolded
<1>. QED
  BY <1>1 DEF RollupTrue

(* Nothing is in an empty roll-up. *)
LEMMA NothingFolded ==
    ASSUME NEW S
    PROVE  RollupTrue(NoHistory, S)
<1>1. NoHistory \in Rollup
  BY MetricsAssumption DEF NoHistory, Rollup
<1>. QED
  BY <1>1 DEF NoHistory, RollupTrue, IsFolded

(* A segment that is folded in its turn adds its days, and the flow since. *)
LEMMA FoldKeeps ==
    ASSUME MetricsTypes, SegmentsAreNamed, DaysInOrder, NEW h, RollupTrue(h, segDays),
           NEW n \in Day, n \notin h.folded, segDays[n] # {}, ~OutOfOrder(h, n)
    PROVE  RollupTrue(foldSegment(h, n), segDays)
<1>. DEFINE S == segDays[n]
            lo == Min(S)
            hi == Max(S)
            carry == IF h.last = 0 \/ lo - h.last < 0 THEN 0 ELSE lo - h.last
            g == foldSegment(h, n)
<1>0. /\ S \in SUBSET Day /\ S # {} /\ Day \subseteq Nat \ {0} /\ h \in Rollup
      /\ h.folded \subseteq Day /\ h.days \in [Day -> 0..2] /\ h.flow \in Nat /\ h.last \in Nat
  BY MetricsAssumption DEF MetricsTypes, RollupTrue, Rollup, Day
<1>1. /\ lo \in S /\ hi \in S /\ \A d \in S : lo <= d /\ d <= hi
  BY <1>0, FirstAndLast
<1>2. lo \in Nat /\ hi \in Nat /\ lo <= hi /\ lo > 0 /\ hi \in Day
  <2>. HIDE DEF S, lo, hi
  <2>1. lo \in Day /\ hi \in Day /\ lo <= hi
    BY <1>0, <1>1
  <2>. QED
    BY <1>0, <2>1
<1>3. /\ g = [folded |-> g.folded, days |-> g.days, flow |-> g.flow, last |-> g.last]
      /\ g.folded = h.folded \cup {n} /\ g.flow = h.flow + carry + hi - lo /\ g.last = hi
      /\ g.days = [d \in Day |-> IF d \in S THEN More(h.days[d]) ELSE h.days[d]]
  <2>. DEFINE daily == [d \in Day |-> IF d \in S THEN More(h.days[d]) ELSE h.days[d]]
              flow == h.flow + carry + hi - lo
  <2>2. g = [[folded |-> h.folded, days |-> daily, flow |-> flow, last |-> hi]
               EXCEPT !.folded = @ \cup {n}]
    BY DEF foldSegment, foldSamples
  <2>. HIDE DEF daily, flow, carry, hi, lo, g
  <2>4. g = [folded |-> h.folded \cup {n}, days |-> daily, flow |-> flow, last |-> hi]
    BY <2>2
  <2>5. /\ g.folded = h.folded \cup {n} /\ g.flow = flow /\ g.last = hi /\ g.days = daily
        /\ g = [folded |-> g.folded, days |-> g.days, flow |-> g.flow, last |-> g.last]
    BY <2>4
  <2>. QED
    BY <2>5 DEF daily, flow
<1>4. \A d \in Day : IsFolded(g, segDays, d) <=> IsFolded(h, segDays, d) \/ d \in S
  BY <1>3 DEF IsFolded
<1>5. \A d \in Day : d \in S => ~IsFolded(h, segDays, d)
  <2>1. ASSUME NEW d \in S, NEW m \in h.folded, d \in segDays[m] PROVE FALSE
    <3>1. m \in Day /\ n \in Nat /\ m \in Nat /\ m # n /\ d \in Nat
      BY <1>0, <2>1
    <3>2. m < n \/ n < m
      BY <3>1
    <3>3. d < d
      BY <2>1, <3>1, <3>2 DEF DaysInOrder
    <3>. QED
      BY <3>1, <3>3
  <2>. QED
    BY <2>1 DEF IsFolded
<1>6. \A d \in Day : g.days[d] = IF IsFolded(g, segDays, d) THEN 1 ELSE 0
  <2>1. More(0) = 1
    BY DEF More
  <2>. HIDE DEF g, S
  <2>. QED
    BY <1>3, <1>4, <1>5, <2>1 DEF RollupTrue
<1>7. \A m \in g.folded : segDays[m] # {}
  BY <1>3 DEF RollupTrue
<1>. HIDE DEF g, lo, hi, carry
<1>8. \E a \in Day :
         /\ IsFolded(g, segDays, a) /\ IsFolded(g, segDays, g.last) /\ g.last \in Day
         /\ g.flow = g.last - a
         /\ \A d \in Day : IsFolded(g, segDays, d) => a <= d /\ d <= g.last
  <2>1. CASE h.folded = {}
    <3>1. h.last = 0 /\ h.flow = 0 /\ carry = 0
      BY <2>1 DEF RollupTrue, carry
    <3>2. g.flow = hi - lo
      BY <1>2, <1>3, <3>1
    <3>3. \A d \in Day : ~IsFolded(h, segDays, d)
      BY <2>1 DEF IsFolded
    <3>. QED
      BY <1>0, <1>1, <1>3, <1>4, <3>2, <3>3
  <2>2. CASE h.folded # {}
    <3>1. PICK a \in Day :
            /\ IsFolded(h, segDays, a) /\ IsFolded(h, segDays, h.last) /\ h.last \in Day
            /\ h.flow = h.last - a
            /\ \A d \in Day : IsFolded(h, segDays, d) => a <= d /\ d <= h.last
      BY <2>2 DEF RollupTrue
    <3>2. a \in Nat /\ h.last \in Nat /\ h.last > 0 /\ a <= h.last
      BY <1>0, <3>1
    <3>3. h.last <= hi
      <4>1. ~(h.last > 0 /\ hi < h.last)
        BY DEF OutOfOrder, Newest, hi
      <4>. QED
        BY <1>2, <3>2, <4>1
    <3>4. PICK m \in h.folded : h.last \in segDays[m]
      BY <3>1 DEF IsFolded
    <3>5. m < n
      <4>1. m \in Day /\ m \in Nat /\ n \in Nat /\ m # n
        BY <1>0, <3>4
      <4>2. ASSUME n < m PROVE FALSE
        <5>1. hi < h.last
          BY <1>1, <3>4, <4>1, <4>2 DEF DaysInOrder
        <5>. QED
          BY <1>2, <3>2, <3>3, <5>1
      <4>. QED
        BY <4>1, <4>2
    <3>6. h.last < lo
      BY <1>0, <1>1, <3>4, <3>5 DEF DaysInOrder
    <3>7. carry = lo - h.last
      BY <1>2, <3>2, <3>6 DEF carry
    <3>8. g.flow = hi - a
      BY <1>2, <1>3, <3>1, <3>2, <3>7
    <3>9. \A d \in Day : IsFolded(g, segDays, d) => a <= d /\ d <= hi
      <4>1. ASSUME NEW d \in Day, IsFolded(h, segDays, d) PROVE a <= d /\ d <= hi
        <5>1. a <= d /\ d <= h.last /\ d \in Nat
          BY <1>0, <3>1, <4>1
        <5>. QED
          BY <1>2, <3>2, <3>3, <5>1
      <4>2. ASSUME NEW d \in S PROVE a <= d /\ d <= hi
        <5>1. lo <= d /\ d <= hi /\ d \in Nat
          BY <1>0, <1>1
        <5>. QED
          BY <1>2, <3>2, <3>6, <5>1
      <4>. QED
        BY <1>4, <4>1, <4>2
    <3>. QED
      BY <1>1, <1>2, <1>3, <1>4, <3>1, <3>8, <3>9
  <2>. QED
    BY <2>1, <2>2
<1>9. g \in Rollup
  <2>1. g.flow \in Nat
    <3>1. PICK a \in Day : IsFolded(g, segDays, a) /\ g.last \in Day /\ g.flow = g.last - a
                           /\ \A d \in Day : IsFolded(g, segDays, d) => a <= d /\ d <= g.last
      BY <1>8
    <3>2. a <= g.last /\ a \in Nat /\ g.last \in Nat
      BY <1>0, <3>1
    <3>. QED
      BY <3>1, <3>2
  <2>2. g.days \in [Day -> 0..2]
    BY <1>6, <1>3
  <2>3. g.last \in 0..LastDay /\ g.folded \subseteq Day
    BY <1>0, <1>2, <1>3, MetricsAssumption DEF Day
  <2>. QED
    BY <1>3, <2>1, <2>2, <2>3 DEF Rollup
<1>10. RollupTrue(g, segDays)
  BY <1>3, <1>6, <1>7, <1>8, <1>9 DEF RollupTrue
<1>. QED
  BY <1>10 DEF g

(* A phase ends in another one, and never in a stop. *)
LEMMA PassGoesOn ==
    /\ Resting.at = "idle" /\ Stopped.at = "down" /\ \A p, n : PassAt(p, n).at = p
    /\ \A n : \A p \in {"pending", "fold", "compress", "retire"} : After(p, n).at # "down"
<1>1. Resting.at = "idle" /\ Stopped.at = "down" /\ \A p, n : PassAt(p, n).at = p
  BY DEF Resting, Stopped, PassAt
<1>2. ASSUME NEW n, NEW p \in {"pending", "fold", "compress", "retire"}
      PROVE  After(p, n).at # "down"
  <2>1. CASE n < LastDay
    BY <1>1, <2>1 DEF After
  <2>2. CASE ~(n < LastDay)
    <3>1. CASE p = "pending"
      BY <1>1, <2>2, <3>1 DEF After
    <3>2. CASE p = "fold"
      BY <1>1, <2>2, <3>2 DEF After
    <3>3. CASE p = "compress"
      BY <1>1, <2>2, <3>3 DEF After
    <3>4. CASE p = "retire"
      BY <1>1, <2>2, <3>4 DEF After
    <3>. QED
      BY <3>1, <3>2, <3>3, <3>4
  <2>. QED
    BY <2>1, <2>2
<1>. QED
  BY <1>1, <1>2

LEMMA MetricsStart ==
    MetricsInit => MetricsInv
<1>. SUFFICES ASSUME MetricsInit PROVE MetricsInv
  OBVIOUS
<1>1. 1 \in Day /\ Day = 1..LastDay /\ LastDay \in Nat \ {0}
  BY MetricsAssumption DEF Day
<1>2. MetricsTypes
  BY <1>1 DEF MetricsTypes, MetricsInit
<1>3. SegmentsAreNamed /\ DaysInOrder /\ GoneIsFolded /\ ShownIsClosed
  BY <1>1 DEF SegmentsAreNamed, DaysInOrder, GoneIsFolded, ShownIsClosed, MetricsInit
<1>4. RollupTrue(onDisk, segDays) /\ ReadBack
  BY NothingFolded, PassGoesOn DEF ReadBack, MetricsInit
<1>. QED
  BY <1>2, <1>3, <1>4 DEF MetricsInv

(* The day ends, or a sample of it is taken. *)
LEMMA DaysKeep ==
    ASSUME MetricsInv, DayEnds \/ sampleMetrics
    PROVE  MetricsInv'
<1>0. /\ Day = 1..LastDay /\ LastDay \in Nat \ {0} /\ MetricsWindow \in Nat
      /\ MetricsTypes /\ SegmentsAreNamed /\ DaysInOrder /\ RollupTrue(onDisk, segDays)
      /\ ReadBack /\ GoneIsFolded /\ ShownIsClosed
  BY MetricsAssumption DEF MetricsInv, Day
<1>1. /\ segDays' = segDays /\ form' = form /\ onDisk' = onDisk /\ history' = history
      /\ metricsPass' = metricsPass /\ shown' = shown
  BY DEF DayEnds, sampleMetrics, hostFiles
<1>2. RollupTrue(onDisk, segDays)' /\ ReadBack' /\ ShownIsClosed' /\ SegmentsAreNamed'
  BY <1>0, <1>1 DEF ReadBack, ShownIsClosed, SegmentsAreNamed
<1>3. today \in Day /\ liveDays \subseteq Day /\ segDays \in [Day -> SUBSET Day]
  BY <1>0 DEF MetricsTypes
<1>4. CASE DayEnds
  <2>1. today' = today + 1 /\ today' \in Day /\ liveDays' = liveDays
    BY <1>0, <1>3, <1>4 DEF DayEnds, hostFiles
  <2>2. \A d \in Day : (d <= today => d <= today') /\ (d + MetricsWindow < today => d + MetricsWindow < today')
    BY <1>0, <1>3, <2>1
  <2>3. MetricsTypes'
    BY <1>0, <1>1, <2>1 DEF MetricsTypes
  <2>4. DaysInOrder'
    <3>1. /\ \A n, m \in Day : \A d \in segDays'[n], e \in segDays'[m] : n < m => d < e
          /\ \A n \in Day : \A d \in segDays'[n], e \in liveDays' : d < e
      BY <1>0, <1>1, <2>1 DEF DaysInOrder
    <3>2. \A n \in Day : \A d \in segDays'[n] : d <= today'
      BY <1>0, <1>1, <1>3, <2>2 DEF DaysInOrder
    <3>3. \A e \in liveDays' : e <= today'
      BY <1>0, <1>3, <2>1, <2>2 DEF DaysInOrder
    <3>. QED
      BY <3>1, <3>2, <3>3 DEF DaysInOrder
  <2>5. GoneIsFolded'
    BY <1>0, <1>1, <1>3, <2>2 DEF GoneIsFolded
  <2>. QED
    BY <1>2, <2>3, <2>4, <2>5 DEF MetricsInv
<1>5. CASE sampleMetrics
  <2>1. today' = today /\ liveDays' = liveDays \cup {today} /\ today \notin Taken
    BY <1>5 DEF sampleMetrics
  <2>2. \A n \in Day : \A d \in segDays[n] : d < today
    <3>1. \A n \in Day : today \notin segDays[n]
      BY <2>1 DEF Taken
    <3>2. ASSUME NEW n \in Day, NEW d \in segDays[n] PROVE d < today
      <4>1. d <= today /\ d # today /\ d \in Nat /\ today \in Nat
        BY <1>0, <1>3, <3>1, <3>2 DEF DaysInOrder
      <4>. QED
        BY <4>1
    <3>. QED
      BY <3>2
  <2>3. MetricsTypes'
    BY <1>0, <1>1, <2>1 DEF MetricsTypes
  <2>4. DaysInOrder'
    <3>1. today <= today
      BY <1>0, <1>3
    <3>. QED
      BY <1>0, <1>1, <2>1, <2>2, <3>1 DEF DaysInOrder
  <2>5. GoneIsFolded'
    BY <1>0, <1>1, <2>1 DEF GoneIsFolded
  <2>. QED
    BY <1>2, <2>3, <2>4, <2>5 DEF MetricsInv
<1>. QED
  BY <1>4, <1>5

(* A live file that is closed is a new segment, after every other. *)
LEMMA RotationKeeps ==
    ASSUME MetricsInv, rotateMetricsIfStale
    PROVE  MetricsInv'
<1>0. /\ Day = 1..LastDay /\ LastDay \in Nat \ {0}
      /\ MetricsTypes /\ SegmentsAreNamed /\ DaysInOrder /\ RollupTrue(onDisk, segDays)
      /\ ReadBack /\ GoneIsFolded /\ ShownIsClosed
  BY MetricsAssumption DEF MetricsInv, Day
<1>1. /\ today' = today /\ onDisk' = onDisk /\ history' = history /\ shown' = shown
      /\ today \in Day /\ liveDays \subseteq Day /\ segDays \in [Day -> SUBSET Day]
      /\ form \in [Day -> {"none", "plain", "both", "gz", "gone"}]
  BY <1>0 DEF rotateMetricsIfStale, MetricsTypes
<1>2. ReadBack'
  BY <1>0, PassGoesOn DEF ReadBack, rotateMetricsIfStale
<1>3. CASE liveDays # {} /\ Min(liveDays) < today
  <2>. DEFINE a == Min(liveDays)
  <2>1. /\ segDays' = [segDays EXCEPT ![a] = liveDays]
        /\ form' = [form EXCEPT ![a] = "plain"] /\ liveDays' = {}
    BY <1>3 DEF rotateMetricsIfStale
  <2>2. a \in liveDays /\ \A d \in liveDays : a <= d
    BY <1>1, <1>3, FirstAndLast
  <2>. HIDE DEF a
  <2>3. a \in Day /\ a \in Nat /\ ~(a < a)
    BY <1>0, <1>1, <2>2
  <2>4. segDays[a] = {} /\ form[a] = "none"
    <3>1. ASSUME segDays[a] # {} PROVE FALSE
      <4>1. a \in segDays[a]
        BY <1>0, <2>3, <3>1 DEF SegmentsAreNamed
      <4>2. a < a
        BY <1>0, <2>2, <2>3, <4>1 DEF DaysInOrder
      <4>. QED
        BY <2>3, <4>2
    <3>. QED
      BY <1>0, <2>3, <3>1 DEF SegmentsAreNamed
  <2>5. \A n \in Day : segDays'[n] = IF n = a THEN liveDays ELSE segDays[n]
    BY <1>1, <2>1
  <2>6. \A n \in Day : form'[n] = IF n = a THEN "plain" ELSE form[n]
    BY <1>1, <2>1
  <2>7. MetricsTypes'
    BY <1>1, <2>1, <2>3 DEF MetricsTypes
  <2>8. SegmentsAreNamed'
    <3>1. ASSUME NEW n \in Day
          PROVE  /\ form'[n] = "none" <=> segDays'[n] = {}
                 /\ segDays'[n] # {} => n \in segDays'[n]
                 /\ \A d \in segDays'[n] : n <= d
      <4>1. CASE n = a
        BY <1>3, <2>2, <2>5, <2>6, <4>1
      <4>2. CASE n # a
        BY <1>0, <2>5, <2>6, <4>2 DEF SegmentsAreNamed
      <4>. QED
        BY <4>1, <4>2
    <3>. QED
      BY <3>1 DEF SegmentsAreNamed
  <2>9. DaysInOrder'
    <3>1. ASSUME NEW n \in Day, NEW m \in Day, NEW d \in segDays'[n], NEW e \in segDays'[m], n < m
          PROVE  d < e
      <4>1. CASE n = a
        <5>1. m # a /\ e \in segDays[m] /\ m \in Nat
          BY <1>0, <2>3, <2>5, <3>1, <4>1
        <5>2. m \in segDays[m]
          BY <1>0, <5>1 DEF SegmentsAreNamed
        <5>3. m < a
          BY <1>0, <2>2, <5>2 DEF DaysInOrder
        <5>. QED
          BY <2>3, <3>1, <4>1, <5>1, <5>3
      <4>2. CASE m = a
        <5>1. n # a /\ d \in segDays[n] /\ e \in liveDays
          BY <2>3, <2>5, <3>1, <4>2
        <5>. QED
          BY <1>0, <5>1 DEF DaysInOrder
      <4>3. CASE n # a /\ m # a
        BY <1>0, <2>5, <3>1, <4>3 DEF DaysInOrder
      <4>. QED
        BY <4>1, <4>2, <4>3
    <3>2. \A n \in Day : \A d \in segDays'[n] : d <= today'
      BY <1>0, <1>1, <2>5 DEF DaysInOrder
    <3>. QED
      BY <2>1, <3>1, <3>2 DEF DaysInOrder
  <2>10. RollupTrue(onDisk, segDays)'
    <3>1. \A n \in onDisk.folded : n \in Day /\ n # a
      BY <1>0, <2>4 DEF RollupTrue, Rollup
    <3>2. \A n \in onDisk.folded : segDays'[n] = segDays[n]
      BY <2>5, <3>1
    <3>3. RollupTrue(onDisk, segDays')
      BY <1>0, <3>2, RollupSame
    <3>. QED
      BY <1>1, <3>3
  <2>11. GoneIsFolded'
    BY <1>0, <1>1, <2>5, <2>6 DEF GoneIsFolded
  <2>12. ShownIsClosed'
    BY <1>0, <1>1, <2>4, <2>5 DEF ShownIsClosed
  <2>. QED
    BY <1>2, <2>7, <2>8, <2>9, <2>10, <2>11, <2>12 DEF MetricsInv
<1>4. CASE ~(liveDays # {} /\ Min(liveDays) < today)
  <2>1. UNCHANGED <<segDays, form, liveDays>>
    BY <1>4 DEF rotateMetricsIfStale
  <2>2. RollupTrue(onDisk, segDays)'
    BY <1>0, <1>1, <2>1
  <2>3. MetricsTypes' /\ SegmentsAreNamed'
    BY <1>0, <1>1, <2>1 DEF MetricsTypes, SegmentsAreNamed
  <2>4. DaysInOrder' /\ GoneIsFolded' /\ ShownIsClosed'
    BY <1>0, <1>1, <2>1 DEF DaysInOrder, GoneIsFolded, ShownIsClosed
  <2>. QED
    BY <1>2, <2>2, <2>3, <2>4 DEF MetricsInv
<1>. QED
  BY <1>3, <1>4

(* A segment that is folded is in the file by the time the pass goes on. *)
LEMMA FoldingKeeps ==
    ASSUME MetricsInv, "save" \notin PassFaults, NEW phase, NEW n \in Day, foldPass(phase, n)
    PROVE  MetricsInv'
<1>0. /\ MetricsTypes /\ SegmentsAreNamed /\ DaysInOrder /\ RollupTrue(onDisk, segDays)
      /\ ReadBack /\ GoneIsFolded /\ ShownIsClosed
  BY DEF MetricsInv
<1>1. /\ today' = today /\ liveDays' = liveDays /\ segDays' = segDays /\ form' = form
      /\ shown' = shown
  BY DEF foldPass, hostFiles
<1>2. metricsPass.at # "down" /\ metricsPass'.at # "down"
  BY PassGoesOn DEF foldPass, Reaches
<1>3. history = onDisk
  BY <1>0, <1>2 DEF ReadBack
<1>4. MetricsTypes' /\ SegmentsAreNamed' /\ DaysInOrder' /\ ShownIsClosed'
  BY <1>0, <1>1 DEF MetricsTypes, SegmentsAreNamed, DaysInOrder, ShownIsClosed
<1>5. /\ history' = onDisk' /\ RollupTrue(onDisk', segDays)
      /\ onDisk.folded \subseteq onDisk'.folded
  <2>1. CASE /\ Foldable(n) /\ ~OutOfOrder(history, n)
             /\ history' = foldSegment(history, n)
             /\ onDisk' = history' \/ ("save" \in PassFaults /\ UNCHANGED onDisk)
    <3>1. n \notin onDisk.folded /\ ~OutOfOrder(onDisk, n) /\ OnThisHost(n)
      BY <1>3, <2>1 DEF Foldable
    <3>2. segDays[n] # {}
      BY <1>0, <3>1 DEF SegmentsAreNamed, OnThisHost
    <3>3. RollupTrue(foldSegment(onDisk, n), segDays)
      BY <1>0, <3>1, <3>2, FoldKeeps
    <3>4. foldSegment(onDisk, n).folded = onDisk.folded \cup {n}
      BY DEF foldSegment, foldSamples
    <3>. QED
      BY <1>3, <2>1, <3>3, <3>4
  <2>2. CASE UNCHANGED <<history, onDisk>>
    BY <1>0, <1>3, <2>2
  <2>. QED
    BY <2>1, <2>2 DEF foldPass, Folds
<1>6. RollupTrue(onDisk, segDays)' /\ ReadBack' /\ GoneIsFolded'
  <2>1. RollupTrue(onDisk, segDays)'
    BY <1>1, <1>5
  <2>2. ReadBack'
    BY <1>2, <1>5 DEF ReadBack
  <2>3. GoneIsFolded'
    BY <1>0, <1>1, <1>5 DEF GoneIsFolded
  <2>. QED
    BY <2>1, <2>2, <2>3
<1>. QED
  BY <1>4, <1>6 DEF MetricsInv

(* What changes no day of a segment, and retires what is folded. *)
LEMMA FormsKeep ==
    ASSUME MetricsInv, NEW n \in Day, compressPlainFile(n) \/ retirePass(n)
    PROVE  MetricsInv'
<1>0. /\ Day = 1..LastDay /\ LastDay \in Nat \ {0} /\ MetricsWindow \in Nat
      /\ MetricsTypes /\ SegmentsAreNamed /\ DaysInOrder /\ RollupTrue(onDisk, segDays)
      /\ ReadBack /\ GoneIsFolded /\ ShownIsClosed
  BY MetricsAssumption DEF MetricsInv, Day
<1>1. /\ today' = today /\ liveDays' = liveDays /\ segDays' = segDays /\ shown' = shown
      /\ history' = history /\ onDisk' = onDisk
  BY DEF compressPlainFile, retirePass
<1>2. metricsPass.at # "down" /\ metricsPass'.at # "down"
  BY PassGoesOn DEF compressPlainFile, retirePass, Reaches
<1>3. ReadBack' /\ RollupTrue(onDisk, segDays)' /\ DaysInOrder' /\ ShownIsClosed'
  BY <1>0, <1>1, <1>2 DEF ReadBack, DaysInOrder, ShownIsClosed
<1>4. today \in Nat /\ segDays \in [Day -> SUBSET Day] /\ form \in [Day -> {"none", "plain", "both", "gz", "gone"}]
  BY <1>0 DEF MetricsTypes
<1>5. /\ form' \in [Day -> {"none", "plain", "both", "gz", "gone"}]
      /\ \A m \in Day : /\ form'[m] = "none" <=> form[m] = "none"
                        /\ form'[m] = "gone" => form[m] = "gone" \/ (m = n /\ MayRetire(n))
  <2>1. CASE compressPlainFile(n)
    <3>1. PICK f \in {"both", "gz"} : form' = [form EXCEPT ![n] = f] /\ form[n] \in {"plain", "both"}
      BY <2>1 DEF compressPlainFile
    <3>. QED
      BY <1>4, <3>1
  <2>2. CASE retirePass(n)
    <3>1. CASE MayRetire(n)
      <4>1. form' = [form EXCEPT ![n] = "gone"] /\ form[n] = "gz"
        BY <2>2, <3>1 DEF retirePass, MayRetire
      <4>. QED
        BY <1>4, <3>1, <4>1
    <3>2. CASE ~MayRetire(n)
      BY <1>4, <2>2, <3>2 DEF retirePass
    <3>. QED
      BY <3>1, <3>2
  <2>. QED
    BY <2>1, <2>2
<1>6. MetricsTypes' /\ SegmentsAreNamed'
  <2>1. MetricsTypes'
    BY <1>0, <1>1, <1>5 DEF MetricsTypes
  <2>2. SegmentsAreNamed'
    BY <1>0, <1>1, <1>5 DEF SegmentsAreNamed
  <2>. QED
    BY <2>1, <2>2
<1>7. MayRetire(n) => n \in onDisk.folded /\ \A d \in segDays[n] : d + MetricsWindow < today
  <2>. SUFFICES ASSUME MayRetire(n)
                PROVE  n \in onDisk.folded /\ \A d \in segDays[n] : d + MetricsWindow < today
    OBVIOUS
  <2>1. n \in onDisk.folded /\ today > Newest(n) + MetricsWindow
    BY <1>0, <1>2 DEF MayRetire, PastWindow, metricsSegEnd, ReadBack
  <2>2. segDays[n] # {} /\ segDays[n] \in SUBSET Day
    BY <1>0, <1>4, <2>1 DEF RollupTrue
  <2>3. Newest(n) \in Day /\ \A d \in segDays[n] : d <= Newest(n)
    BY <2>2, FirstAndLast DEF Newest
  <2>4. ASSUME NEW d \in segDays[n] PROVE d + MetricsWindow < today
    <3>1. d \in Nat /\ Newest(n) \in Nat /\ d <= Newest(n)
      BY <1>0, <2>2, <2>3
    <3>. QED
      BY <1>0, <1>4, <2>1, <3>1
  <2>. QED
    BY <2>1, <2>4
<1>8. GoneIsFolded'
  BY <1>0, <1>1, <1>5, <1>7 DEF GoneIsFolded
<1>. QED
  BY <1>3, <1>6, <1>8 DEF MetricsInv

(* What touches no file but a receipt: a view, a kill, a start. *)
LEMMA MemoryKeeps ==
    ASSUME MetricsInv,
           \/ HistoryAllView \/ mergeLiveIntoBase \/ KillArchive \/ openMetricsRollup
           \/ \E n \in Day : Skip(n) \/ WriteReceipt(n)
           \/ UNCHANGED metricsVars
    PROVE  MetricsInv'
<1>0. /\ MetricsTypes /\ SegmentsAreNamed /\ DaysInOrder /\ RollupTrue(onDisk, segDays)
      /\ ReadBack /\ GoneIsFolded /\ ShownIsClosed
  BY DEF MetricsInv
<1>1. /\ today' = today /\ liveDays' = liveDays /\ segDays' = segDays /\ form' = form
      /\ onDisk' = onDisk
  BY DEF HistoryAllView, mergeLiveIntoBase, KillArchive, openMetricsRollup, Skip,
         WriteReceipt, hostFiles, metricsVars
<1>2. /\ MetricsTypes' /\ SegmentsAreNamed' /\ DaysInOrder' /\ RollupTrue(onDisk, segDays)'
      /\ GoneIsFolded'
  <2>1. MetricsTypes' /\ SegmentsAreNamed' /\ RollupTrue(onDisk, segDays)'
    BY <1>0, <1>1 DEF MetricsTypes, SegmentsAreNamed
  <2>2. DaysInOrder' /\ GoneIsFolded'
    BY <1>0, <1>1 DEF DaysInOrder, GoneIsFolded
  <2>. QED
    BY <2>1, <2>2
<1>3. ReadBack'
  <2>1. CASE KillArchive
    BY <2>1, PassGoesOn DEF KillArchive, ReadBack
  <2>2. CASE openMetricsRollup
    BY <2>2, <1>1, PassGoesOn DEF openMetricsRollup, ReadBack
  <2>3. ASSUME NEW n \in Day, Skip(n) PROVE ReadBack'
    BY <1>0, <1>1, <2>3, PassGoesOn DEF Skip, Reaches, ReadBack
  <2>4. ASSUME UNCHANGED <<history, metricsPass>> PROVE ReadBack'
    BY <1>0, <1>1, <2>4 DEF ReadBack
  <2>. QED
    BY <2>1, <2>2, <2>3, <2>4 DEF HistoryAllView, mergeLiveIntoBase, WriteReceipt, metricsVars
<1>4. ShownIsClosed'
  <2>1. CASE HistoryAllView
    <3>1. shown' = {d \in Day : onDisk.days[d] > 0}
      BY <1>0, <2>1 DEF HistoryAllView, Serving, ReadBack
    <3>2. ASSUME NEW d \in Day, onDisk.days[d] > 0 PROVE \E n \in Day : d \in segDays[n]
      <4>1. IsFolded(onDisk, segDays, d) /\ onDisk.folded \subseteq Day
        BY <1>0, <3>2 DEF RollupTrue, Rollup
      <4>. QED
        BY <4>1 DEF IsFolded
    <3>. QED
      BY <1>1, <3>1, <3>2 DEF ShownIsClosed
  <2>2. CASE mergeLiveIntoBase \/ KillArchive
    BY <2>2 DEF mergeLiveIntoBase, KillArchive, ShownIsClosed
  <2>3. ASSUME shown' = shown PROVE ShownIsClosed'
    BY <1>0, <1>1, <2>3 DEF ShownIsClosed
  <2>. QED
    BY <2>1, <2>2, <2>3 DEF openMetricsRollup, Skip, WriteReceipt, metricsVars
<1>. QED
  BY <1>2, <1>3, <1>4 DEF MetricsInv

LEMMA MetricsSteps ==
    ASSUME MetricsInv, "save" \notin PassFaults, [MetricsNext]_metricsVars
    PROVE  MetricsInv'
<1>1. CASE DayEnds \/ sampleMetrics
  BY <1>1, DaysKeep
<1>2. CASE rotateMetricsIfStale
  BY <1>2, RotationKeeps
<1>3. ASSUME NEW n \in Day, foldPass("pending", n) \/ foldPass("fold", n) PROVE MetricsInv'
  BY <1>3, FoldingKeeps
<1>4. ASSUME NEW n \in Day, compressPlainFile(n) \/ retirePass(n) PROVE MetricsInv'
  BY <1>4, FormsKeep
<1>5. CASE \/ HistoryAllView \/ mergeLiveIntoBase \/ KillArchive \/ openMetricsRollup
           \/ \E n \in Day : Skip(n) \/ WriteReceipt(n)
           \/ UNCHANGED metricsVars
  BY <1>5, MemoryKeeps
<1>. QED
  BY <1>1, <1>2, <1>3, <1>4, <1>5 DEF MetricsNext

(* What the invariant says of the days: none is lost, and none counts twice. *)
LEMMA DaysAreOnce ==
    MetricsInv => EveryDayOnce
<1>. SUFFICES ASSUME MetricsInv PROVE EveryDayOnce
  OBVIOUS
<1>0. /\ Day = 1..LastDay /\ LastDay \in Nat \ {0}
      /\ MetricsTypes /\ SegmentsAreNamed /\ DaysInOrder /\ RollupTrue(onDisk, segDays)
      /\ ReadBack /\ GoneIsFolded /\ ShownIsClosed
  BY MetricsAssumption DEF MetricsInv, Day
<1>1. ASSUME NEW d \in Taken PROVE d \in Raw \/ (onDisk.days[d] > 0 /\ d + MetricsWindow < today)
  <2>1. CASE d \in liveDays
    BY <2>1 DEF Raw
  <2>2. CASE d \notin liveDays
    <3>1. PICK n \in Day : d \in segDays[n]
      BY <2>2 DEF Taken
    <3>2. form[n] # "none"
      BY <1>0, <3>1 DEF SegmentsAreNamed
    <3>3. CASE form[n] = "gone"
      <4>1. n \in onDisk.folded /\ d + MetricsWindow < today
        BY <1>0, <3>1, <3>3 DEF GoneIsFolded
      <4>2. d \in Day
        BY <1>0, <3>1 DEF MetricsTypes
      <4>3. IsFolded(onDisk, segDays, d)
        BY <3>1, <4>1 DEF IsFolded
      <4>4. onDisk.days[d] = 1
        BY <1>0, <4>2, <4>3 DEF RollupTrue
      <4>. QED
        BY <4>1, <4>4
    <3>4. CASE form[n] # "gone"
      <4>1. OnThisHost(n)
        BY <1>0, <3>2, <3>4 DEF OnThisHost, MetricsTypes
      <4>. QED
        BY <3>1, <4>1 DEF Raw
    <3>. QED
      BY <3>3, <3>4
  <2>. QED
    BY <2>1, <2>2
<1>2. RollupTrue(history, segDays)
  BY <1>0, NothingFolded DEF ReadBack
<1>3. ASSUME NEW h, RollupTrue(h, segDays)
      PROVE  /\ \A d \in Day : h.days[d] <= 1
             /\ FoldedDays(h) # {} => h.flow = Max(FoldedDays(h)) - Min(FoldedDays(h))
  <2>. DEFINE F == FoldedDays(h)
  <2>1. \A d \in Day : h.days[d] <= 1 /\ (d \in F <=> IsFolded(h, segDays, d))
    BY <1>3 DEF RollupTrue, FoldedDays
  <2>2. F \in SUBSET Day
    BY DEF FoldedDays
  <2>. HIDE DEF F
  <2>3. ASSUME F # {} PROVE h.flow = Max(F) - Min(F)
    <3>1. h.folded # {}
      BY <2>1, <2>2, <2>3 DEF IsFolded
    <3>2. PICK a \in Day :
            /\ IsFolded(h, segDays, a) /\ IsFolded(h, segDays, h.last) /\ h.last \in Day
            /\ h.flow = h.last - a
            /\ \A d \in Day : IsFolded(h, segDays, d) => a <= d /\ d <= h.last
      BY <1>3, <3>1 DEF RollupTrue
    <3>3. /\ Min(F) \in F /\ \A d \in F : Min(F) <= d
          /\ Max(F) \in F /\ \A d \in F : d <= Max(F)
      BY <2>2, <2>3, FirstAndLast
    <3>4. Min(F) <= a /\ a <= Min(F) /\ Max(F) <= h.last /\ h.last <= Max(F)
      BY <2>1, <2>2, <3>2, <3>3
    <3>5. Min(F) \in Nat /\ Max(F) \in Nat /\ a \in Nat /\ h.last \in Nat
      <4>1. \A d \in Day : d \in Nat
        BY <1>0
      <4>2. Min(F) \in Day /\ Max(F) \in Day
        BY <2>2, <3>3
      <4>. QED
        BY <3>2, <4>1, <4>2
    <3>6. Min(F) = a /\ Max(F) = h.last
      BY <3>4, <3>5
    <3>. QED
      BY <3>2, <3>6
  <2>. QED
    BY <2>1, <2>3 DEF F
<1>4. shown \cap liveDays = {}
  <2>1. ASSUME NEW d \in shown, d \in liveDays PROVE FALSE
    <3>1. d < d /\ d \in Nat
      BY <1>0, <2>1 DEF ShownIsClosed, DaysInOrder, MetricsTypes
    <3>. QED
      BY <3>1
  <2>. QED
    BY <2>1
<1>. QED
  BY <1>0, <1>1, <1>2, <1>3, <1>4 DEF EveryDayOnce, HistoryKept, FoldedOnce

(* No day of the population's history is lost or counted twice, for every    *)
(* window and number of days, through every pass, kill and start, and with   *)
(* segments that cannot be read (metricsMaintenancePass, foldSegment): while *)
(* each save of the roll-up succeeds.                                        *)
THEOREM EveryDayStaysOnce ==
    ASSUME "save" \notin PassFaults
    PROVE  MetricsSpec => []EveryDayOnce
<1>1. MetricsInv /\ [MetricsNext]_metricsVars => MetricsInv'
  BY MetricsSteps
<1>. QED
  BY <1>1, MetricsStart, DaysAreOnce, PTL DEF MetricsSpec

-----------------------------------------------------------------------------
(***************************************************************************)
(* The ledger.                                                             *)
(***************************************************************************)
Position == [file : Nat, off : Nat]
Segment == [recs : Seq(Nat), form : {"plain", "both", "gz", "gone"}]
Appended == [rec : Nat, off : Nat, into : Nat]

LedgerTypes ==
    /\ segs \in Seq(Segment) /\ live \in Seq(Nat)
    /\ stale \in BOOLEAN /\ up \in BOOLEAN
    /\ roll \in [at : Position, first : Nat, count : [Records -> Nat],
                 form : {"whole", "torn", "spliced"}]
    /\ off \in Nat /\ first \in Nat /\ closed \in Nat
    /\ cursor \in Position /\ count \in [Records -> Nat]
    /\ pending \in Appended

(* Records are written in order: a boundary is the last record of a source. *)
(* LastSource, the live file, is read after the segments.                 *)
LastSource == Len(segs) + 1
SourceAt(i) == IF i < LastSource THEN i ELSE 0
Holds(s, lo, hi) == lo <= hi /\ Len(s) = hi - lo /\ \A k \in 1..Len(s) : s[k] = lo + k
Laid(b) ==
    /\ b[0] = 0
    /\ \A i \in 1..LastSource : Holds(RecsOf(SourceAt(i)), b[i - 1], b[i])
    /\ \A i, j \in 0..LastSource : i < j => b[i] <= b[j] /\ (j < LastSource => b[i] < b[j])

(* The first n records, counted once each. *)
Upto(n) == [r \in Records |-> IF r <= n THEN 1 ELSE 0]

(* A position that stands for the first m records. *)
StandsFor(b, at, fst, m) ==
    /\ m <= b[LastSource] /\ at.file \in 0..Len(segs)
    /\ at.file = 0 /\ at.off = 0 => m = 0
    /\ at.file = 0 /\ at.off # 0 => fst # 0 /\ m = (fst - 1) + at.off
    /\ at.file # 0 => m = b[at.file] /\ b[at.file] - b[at.file - 1] <= at.off

(* What is on the disk: the saved counters hold a beginning of the record, *)
(* and what left the host was in them.                                     *)
OldestGo(b, m) ==
    \A i \in DOMAIN segs : segs[i].form = "gone" =>
        b[i] <= m /\ \A j \in 1..i : segs[j].form = "gone"
Saved(b, m) ==
    roll.count = Upto(m) /\ StandsFor(b, roll.at, roll.first, m) /\ OldestGo(b, m)

(* What a process holds: every record but the one it has yet to fold. *)
Told(b) ==
    up /\ pending # NoRecord =>
        /\ pending.rec = b[LastSource] /\ pending.off = off
        /\ b[LastSource] > 0 /\ live # <<>> /\ closed = 0
Tallied(b) ==
    up => count = Upto(IF pending = NoRecord THEN b[LastSource] ELSE b[LastSource] - 1)
(* The live file is as long as it thinks, or a rotation it was not told of  *)
(* left the file empty and its length and first record as they were.       *)
Measured(b) ==
    up => \/ first = 0 /\ off = 0 /\ live = <<>>
          \/ first # 0 /\ (first - 1) + off = b[LastSource] /\ first <= b[Len(segs)] + 1
Pointed(b) ==
    /\ up /\ closed # 0 => closed = Len(segs) /\ live = <<>> /\ pending = NoRecord
    /\ up /\ pending = NoRecord =>
         /\ cursor.file \in 0..Len(segs)
         /\ cursor.file = 0 /\ closed = 0 => cursor.off = off
         /\ cursor.file = 0 /\ closed # 0 => b[closed] - b[closed - 1] <= cursor.off
         /\ cursor.file # 0 => /\ live = <<>> /\ b[cursor.file] = b[LastSource]
                               /\ b[cursor.file] - b[cursor.file - 1] <= cursor.off
    (* Between an append that rotated nothing and its fold. *)
    /\ up /\ pending # NoRecord /\ pending.into = 0 =>
         /\ cursor.file \in 0..Len(segs)
         /\ cursor.file = 0 => cursor.off + 1 = off
         /\ cursor.file # 0 => /\ b[cursor.file] = b[LastSource] - 1
                               /\ b[cursor.file] - b[cursor.file - 1] <= cursor.off

Boundaries == [0..LastSource -> 0..MaxRecords]
Memory(b) == Told(b) /\ Tallied(b) /\ Measured(b) /\ Pointed(b)
Quiet == (stale => live # <<>>) /\ (~up => pending = NoRecord /\ closed = 0)
Core(b, m) == Laid(b) /\ Saved(b, m) /\ Memory(b)
Exact == Quiet /\ \E b \in Boundaries, m \in 0..MaxRecords : Core(b, m)
LedgerInv == LedgerTypes /\ (trouble = {} => Exact)

-----------------------------------------------------------------------------
LEMMA HeldOfHolds ==
    ASSUME NEW s \in Seq(Nat), NEW lo \in Nat, NEW hi \in Nat, Holds(s, lo, hi)
    PROVE  Held(s) = lo + 1..hi
<1>1. ASSUME NEW r \in lo + 1..hi PROVE r \in Held(s)
  <2>1. r - lo \in 1..Len(s) /\ s[r - lo] = r
    BY DEF Holds
  <2> QED
    BY <2>1 DEF Held
<1>2. Held(s) \subseteq lo + 1..hi
  BY DEF Held, Holds
<1> QED
  BY <1>1, <1>2

LEMMA SourcesTyped ==
    ASSUME LedgerTypes
    PROVE  /\ LastSource \in Nat /\ LastSource > 0 /\ Len(segs) \in Nat /\ DOMAIN segs = 1..Len(segs)
           /\ \A i \in 1..LastSource : RecsOf(SourceAt(i)) \in Seq(Nat)
<1>1. Len(segs) \in Nat /\ DOMAIN segs = 1..Len(segs) /\ LastSource = Len(segs) + 1
  BY DEF LedgerTypes, LastSource
<1>2. ASSUME NEW i \in 1..LastSource PROVE RecsOf(SourceAt(i)) \in Seq(Nat)
  <2>1. CASE i < LastSource
    <3>1. i \in DOMAIN segs /\ SourceAt(i) = i /\ i # 0
      BY <1>1, <2>1 DEF SourceAt
    <3>2. segs[i] \in Segment
      BY <1>1, <3>1 DEF LedgerTypes
    <3> QED
      BY <3>1, <3>2 DEF RecsOf, Segment
  <2>2. CASE ~(i < LastSource)
    BY <2>2 DEF SourceAt, RecsOf, LedgerTypes
  <2> QED
    BY <2>1, <2>2
<1> QED
  BY <1>1, <1>2

(* Boundaries are numbers that do not fall. *)
LEMMA BoundariesRise ==
    ASSUME LedgerTypes, NEW b \in Boundaries, Laid(b)
    PROVE  /\ \A k \in 0..LastSource : b[k] \in Nat /\ b[k] <= MaxRecords
           /\ \A k, l \in 0..LastSource : k <= l => b[k] <= b[l]
           /\ LastSource \in 0..LastSource /\ LastSource \in 1..LastSource
<1>1. \A k \in 0..LastSource : b[k] \in Nat /\ b[k] <= MaxRecords
  BY LedgerAssumption DEF Boundaries
<1>2. ASSUME NEW k \in 0..LastSource, NEW l \in 0..LastSource, k <= l PROVE b[k] <= b[l]
  <2>1. CASE k = l
    BY <1>1, <2>1
  <2>2. CASE k < l
    BY <2>2 DEF Laid
  <2> QED
    BY <1>2, <2>1, <2>2
<1> QED
  BY <1>1, <1>2, SourcesTyped

LEMMA HeldAt ==
    ASSUME LedgerTypes, NEW b \in Boundaries, Laid(b), NEW i \in 1..LastSource
    PROVE  Held(RecsOf(SourceAt(i))) = b[i - 1] + 1..b[i]
<1>1. b[i - 1] \in Nat /\ b[i] \in Nat /\ i - 1 \in 0..LastSource
  BY SMTT(30), SourcesTyped, LedgerAssumption DEF Boundaries
<1> QED
  BY <1>1, HeldOfHolds, SourcesTyped DEF Laid

(* Every record lies in one source. *)
LEMMA InSource ==
    ASSUME LedgerTypes, NEW b \in Boundaries, Laid(b), NEW r \in Nat, 0 < r, r <= b[LastSource]
    PROVE  \E i \in 1..LastSource : b[i - 1] < r /\ r <= b[i]
<1> DEFINE S == {i \in 1..LastSource : r <= b[i]}
<1>1. LastSource \in S
  BY SourcesTyped
<1>2. PICK i \in S : \A j \in S : i <= j
  <2>1. S \in SUBSET Nat /\ S # {}
    BY <1>1, SourcesTyped
  <2> HIDE DEF S
  <2> QED
    BY <2>1, LeastNat
<1>3. CASE i = 1
  BY <1>2, <1>3 DEF Laid
<1>4. CASE i # 1
  <2>1. i - 1 \in 1..LastSource /\ i - 1 \notin S
    BY <1>2, <1>4, SourcesTyped
  <2> QED
    <3>1. i - 1 \in 0..LastSource /\ b[i - 1] \in Nat
      BY <2>1, SourcesTyped, BoundariesRise
    <3> QED
      BY <1>2, <2>1, <3>1
<1> QED
  BY <1>3, <1>4

(* The sources after i up to j hold the records between their boundaries. *)
LEMMA HeldBetween ==
    ASSUME LedgerTypes, NEW b \in Boundaries, Laid(b), NEW i \in 0..LastSource, NEW j \in 0..LastSource
    PROVE  UNION {Held(RecsOf(SourceAt(k))) : k \in i + 1..j} = b[i] + 1..b[j]
<1>0. /\ LastSource \in Nat /\ b[i] \in Nat /\ b[j] \in Nat /\ \A k \in 0..LastSource : b[k] \in Nat
      /\ \A k, l \in 0..LastSource : k <= l => b[k] <= b[l]
  BY SourcesTyped, BoundariesRise
<1>1. ASSUME NEW k \in i + 1..j PROVE Held(RecsOf(SourceAt(k))) \subseteq b[i] + 1..b[j]
  <2>1. k \in 1..LastSource /\ k - 1 \in 0..LastSource /\ k \in 0..LastSource
    BY <1>0
  <2>2. b[i] <= b[k - 1] /\ b[k] <= b[j]
    BY <1>0, <2>1
  <2>3. Held(RecsOf(SourceAt(k))) = b[k - 1] + 1..b[k]
    BY <2>1, HeldAt
  <2> QED
    BY SMTT(30), <1>0, <2>1, <2>2, <2>3
<1>2. ASSUME NEW r \in b[i] + 1..b[j]
      PROVE  \E k \in i + 1..j : r \in Held(RecsOf(SourceAt(k)))
  <2>1. r \in Nat /\ 0 < r /\ r <= b[LastSource] /\ b[i] < r /\ r <= b[j]
    BY <1>0
  <2>2. PICK k \in 1..LastSource : b[k - 1] < r /\ r <= b[k]
    BY <2>1, InSource
  <2>3. k \in 0..LastSource /\ k - 1 \in 0..LastSource
    BY <1>0
  <2>4. k > i
    BY <1>0, <2>1, <2>2, <2>3
  <2>5. k <= j
    <3>1. ASSUME k > j PROVE FALSE
      <4>1. b[j] <= b[k - 1]
        BY <1>0, <2>3, <3>1
      <4> QED
        BY <1>0, <2>1, <2>2, <2>3, <4>1
    <3> QED
      BY <3>1, <1>0
  <2>6. r \in Held(RecsOf(SourceAt(k)))
    BY <2>1, <2>2, <2>3, <1>0, HeldAt
  <2> QED
    BY <2>4, <2>5, <2>6
<1> QED
  BY <1>1, <1>2

LEMMA DurableIs ==
    ASSUME LedgerTypes, NEW b \in Boundaries, Laid(b)
    PROVE  Durable = 1..b[LastSource] /\ NextRecord = b[LastSource] + 1 /\ b[LastSource] \in 0..MaxRecords
<1>1. UNION {Held(RecsOf(SourceAt(k))) : k \in 0 + 1..LastSource} = b[0] + 1..b[LastSource]
  <2>1. 0 \in 0..LastSource /\ LastSource \in 0..LastSource
    BY SourcesTyped
  <2> QED
    BY <2>1, HeldBetween
<1>2. b[0] = 0 /\ b[LastSource] \in 0..MaxRecords
  BY SourcesTyped DEF Laid, Boundaries
<1>3. \A k \in 1..LastSource : RecsOf(SourceAt(k)) = IF k = LastSource THEN live ELSE segs[k].recs
  BY SourcesTyped DEF RecsOf, SourceAt, LastSource
<1>4. Durable = UNION {Held(RecsOf(SourceAt(k))) : k \in 1..LastSource}
  <2>1. ASSUME NEW r \in Durable PROVE \E k \in 1..LastSource : r \in Held(RecsOf(SourceAt(k)))
    <3>1. CASE r \in Held(live)
      <4>1. LastSource \in 1..LastSource
        BY SourcesTyped
      <4> QED
        BY <1>3, <3>1, <4>1
    <3>2. CASE \E i \in DOMAIN segs : r \in Held(segs[i].recs)
      <4>1. PICK i \in DOMAIN segs : r \in Held(segs[i].recs)
        BY <3>2
      <4>2. i \in 1..LastSource /\ i # LastSource
        BY SourcesTyped DEF LastSource
      <4> QED
        BY <1>3, <4>1, <4>2
    <3> QED
      BY <3>1, <3>2 DEF Durable
  <2>2. ASSUME NEW k \in 1..LastSource, NEW r \in Held(RecsOf(SourceAt(k))) PROVE r \in Durable
    <3>1. CASE k = LastSource
      BY <1>3, <3>1 DEF Durable
    <3>2. CASE k # LastSource
      <4>1. k \in DOMAIN segs
        BY <3>2, SourcesTyped DEF LastSource
      <4> QED
        BY <1>3, <3>2, <4>1 DEF Durable
    <3> QED
      BY <3>1, <3>2
  <2> QED
    BY <2>1, <2>2
<1>5. Durable = 1..b[LastSource]
  BY <1>1, <1>2, <1>4
<1>6. Cardinality(1..b[LastSource]) = b[LastSource]
  <2>1. b[LastSource] \in Nat /\ 1 \in Int /\ b[LastSource] \in Int
    BY <1>2, LedgerAssumption
  <2>2. Cardinality(1..b[LastSource]) = IF 1 > b[LastSource] THEN 0 ELSE b[LastSource] - 1 + 1
    BY <2>1, FS_Interval
  <2> QED
    BY <2>1, <2>2
<1> QED
  BY <1>2, <1>5, <1>6 DEF NextRecord

LEMMA RecordUpto ==
    ASSUME NEW m \in 0..MaxRecords
    PROVE  Record(Upto(m)) = m /\ Upto(m) \in [Records -> Nat]
<1>1. {r \in Records : Upto(m)[r] > 0} = 1..m
  BY LedgerAssumption DEF Records, Upto
<1>2. {r \in Records : Upto(m)[r] > 1} = {}
  BY DEF Upto
<1>3. Cardinality(1..m) = m
  <2>1. m \in Nat /\ 1 \in Int /\ m \in Int
    BY LedgerAssumption
  <2>2. Cardinality(1..m) = IF 1 > m THEN 0 ELSE m - 1 + 1
    BY <2>1, FS_Interval
  <2> QED
    BY <2>1, <2>2
<1>4. Cardinality({}) = 0 /\ m \in Nat
  BY FS_EmptySet, LedgerAssumption
<1>5. Record(Upto(m)) = m
  <2> DEFINE A == Cardinality({r \in Records : Upto(m)[r] > 0})
             B == Cardinality({r \in Records : Upto(m)[r] > 1})
  <2>1. A = m /\ B = 0
    BY <1>1, <1>2, <1>3, <1>4
  <2>2. Record(Upto(m)) = A + B
    BY DEF Record
  <2> HIDE DEF A, B
  <2> QED
    BY <1>4, <2>1, <2>2
<1> QED
  BY <1>5 DEF Upto

LEMMA FoldedUpto ==
    ASSUME NEW m \in Nat, NEW n \in Nat, m <= n, NEW S, S = m + 1..n
    PROVE  Folded(Upto(m), S) = Upto(n)
BY DEF Folded, Upto, Records

(* Sources are read in the order of their indices. *)
LEMMA ReadInOrder ==
    ASSUME LedgerTypes
    PROVE  /\ \A j, k \in 1..LastSource : Before(SourceAt(j), SourceAt(k)) <=> j < k
           /\ \A e \in ledgerSources : \E k \in 1..LastSource : e = SourceAt(k)
           /\ \A k \in 1..LastSource : SourceAt(k) \in ledgerSources <=>
                                   (k = LastSource \/ segs[k].form # "gone")
<1>1. Len(segs) \in Nat /\ DOMAIN segs = 1..Len(segs) /\ LastSource = Len(segs) + 1
  BY SourcesTyped DEF LastSource
<1>2. \A j, k \in 1..LastSource : Before(SourceAt(j), SourceAt(k)) <=> j < k
  BY <1>1 DEF Before, SourceAt
<1>3. ASSUME NEW e \in ledgerSources PROVE \E k \in 1..LastSource : e = SourceAt(k)
  <2>1. CASE e = 0
    <3>1. LastSource \in 1..LastSource /\ SourceAt(LastSource) = 0
      BY <1>1 DEF SourceAt
    <3> QED
      BY <2>1, <3>1
  <2>2. CASE e # 0
    <3>1. e \in 1..LastSource /\ SourceAt(e) = e
      BY <1>1, <2>2 DEF ledgerSources, SourceAt
    <3> QED
      BY <3>1
  <2> QED
    BY <2>1, <2>2
<1>4. \A k \in 1..LastSource : SourceAt(k) \in ledgerSources <=> (k = LastSource \/ segs[k].form # "gone")
  BY <1>1 DEF ledgerSources, SourceAt
<1> QED
  BY <1>2, <1>3, <1>4

(* Past a source after which nothing is gone lie the records after its end. *)
LEMMA HeldAfter ==
    ASSUME LedgerTypes, NEW b \in Boundaries, Laid(b), NEW i \in 1..LastSource,
           \A k \in i + 1..Len(segs) : segs[k].form # "gone"
    PROVE  UNION {Held(RecsOf(g)) : g \in {e \in ledgerSources : Before(SourceAt(i), e)}}
             = b[i] + 1..b[LastSource]
<1>0. LastSource \in Nat /\ LastSource = Len(segs) + 1 /\ i \in 0..LastSource /\ LastSource \in 0..LastSource
  BY SourcesTyped DEF LastSource
<1>1. {e \in ledgerSources : Before(SourceAt(i), e)} = {SourceAt(k) : k \in i + 1..LastSource}
  <2>1. ASSUME NEW e \in ledgerSources, Before(SourceAt(i), e)
        PROVE  \E k \in i + 1..LastSource : e = SourceAt(k)
    <3>1. PICK k \in 1..LastSource : e = SourceAt(k)
      BY ReadInOrder
    <3>2. i < k
      BY <2>1, <3>1, ReadInOrder
    <3> QED
      BY <1>0, <3>1, <3>2
  <2>2. ASSUME NEW k \in i + 1..LastSource
        PROVE  SourceAt(k) \in ledgerSources /\ Before(SourceAt(i), SourceAt(k))
    <3>1. k \in 1..LastSource /\ i < k /\ (k = LastSource \/ segs[k].form # "gone")
      BY <1>0
    <3> QED
      BY <3>1, ReadInOrder
  <2> QED
    BY <2>1, <2>2
<1>2. UNION {Held(RecsOf(SourceAt(k))) : k \in i + 1..LastSource} = b[i] + 1..b[LastSource]
  <2>1. i \in 0..LastSource /\ LastSource \in 0..LastSource
    BY <1>0
  <2> QED
    BY <2>1, HeldBetween
<1>3. UNION {Held(RecsOf(g)) : g \in {SourceAt(k) : k \in i + 1..LastSource}}
        = UNION {Held(RecsOf(SourceAt(k))) : k \in i + 1..LastSource}
  OBVIOUS
<1> QED
  BY <1>1, <1>2, <1>3

LEMMA HostAfter ==
    ASSUME LedgerTypes, NEW b \in Boundaries, Laid(b), NEW i \in 0..Len(segs),
           \A k \in 1..Len(segs) : segs[k].form = "gone" <=> k <= i
    PROVE  OnHost = b[i] + 1..b[LastSource]
<1>0. LastSource \in Nat /\ LastSource = Len(segs) + 1 /\ i \in 0..LastSource /\ LastSource \in 0..LastSource
  BY SourcesTyped DEF LastSource
<1>1. ledgerSources = {SourceAt(k) : k \in i + 1..LastSource}
  <2>1. ASSUME NEW e \in ledgerSources PROVE \E k \in i + 1..LastSource : e = SourceAt(k)
    <3>1. PICK k \in 1..LastSource : e = SourceAt(k)
      BY ReadInOrder
    <3>2. k = LastSource \/ segs[k].form # "gone"
      BY <3>1, ReadInOrder
    <3> QED
      BY <1>0, <3>1, <3>2
  <2>2. ASSUME NEW k \in i + 1..LastSource PROVE SourceAt(k) \in ledgerSources
    <3>1. k \in 1..LastSource /\ (k = LastSource \/ segs[k].form # "gone")
      BY <1>0
    <3> QED
      BY <3>1, ReadInOrder
  <2> QED
    BY <2>1, <2>2
<1>2. UNION {Held(RecsOf(SourceAt(k))) : k \in i + 1..LastSource} = b[i] + 1..b[LastSource]
  <2>1. i \in 0..LastSource /\ LastSource \in 0..LastSource
    BY <1>0
  <2> QED
    BY <2>1, HeldBetween
<1>3. UNION {Held(RecsOf(g)) : g \in {SourceAt(k) : k \in i + 1..LastSource}}
        = UNION {Held(RecsOf(SourceAt(k))) : k \in i + 1..LastSource}
  OBVIOUS
<1> QED
  BY <1>1, <1>2, <1>3 DEF OnHost

(* A scan from a position reports what its source holds past the offset and *)
(* what the later ones hold.                                               *)
LEMMA PastAt ==
    ASSUME LedgerTypes, NEW b \in Boundaries, Laid(b), NEW i \in 1..LastSource, NEW o \in Nat,
           i = LastSource \/ segs[i].form # "gone",
           \A k \in i + 1..Len(segs) : segs[k].form # "gone",
           NEW floor \in Position, floor.file = SourceAt(i), floor.off = o
    PROVE  PastFloor(floor) = (b[i - 1] + o + 1..b[i]) \cup (b[i] + 1..b[LastSource])
<1> DEFINE s == RecsOf(SourceAt(i))
<1>1. SourceAt(i) \in ledgerSources
  BY ReadInOrder
<1>2. UNION {Held(RecsOf(g)) : g \in {e \in ledgerSources : Before(SourceAt(i), e)}}
        = b[i] + 1..b[LastSource]
  BY HeldAfter
<1>3. i - 1 \in 0..LastSource /\ i \in 0..LastSource
  BY SourcesTyped
<1>4. b[i - 1] \in Nat /\ b[i] \in Nat /\ s \in Seq(Nat) /\ Holds(s, b[i - 1], b[i])
  BY <1>3, BoundariesRise, SourcesTyped DEF Laid
<1>5. {s[k] : k \in {n \in DOMAIN s : n > o}} = b[i - 1] + o + 1..b[i]
  <2> HIDE DEF s
  <2>1. ASSUME NEW r \in b[i - 1] + o + 1..b[i]
        PROVE  \E k \in {n \in DOMAIN s : n > o} : r = s[k]
    <3>1. r - b[i - 1] \in 1..Len(s) /\ r - b[i - 1] > o
      BY SMTT(30), <1>4 DEF Holds
    <3>2. s[r - b[i - 1]] = b[i - 1] + (r - b[i - 1]) /\ DOMAIN s = 1..Len(s)
      BY <1>4, <3>1 DEF Holds
    <3>3. s[r - b[i - 1]] = r
      BY <1>4, <3>2
    <3> QED
      BY <3>1, <3>2, <3>3
  <2>2. ASSUME NEW k \in DOMAIN s, k > o PROVE s[k] \in b[i - 1] + o + 1..b[i]
    <3>1. k \in 1..Len(s) /\ s[k] = b[i - 1] + k /\ Len(s) = b[i] - b[i - 1]
      BY <1>4 DEF Holds
    <3> QED
      BY SMTT(30), <1>4, <2>2, <3>1
  <2> QED
    BY <2>1, <2>2
<1> QED
  BY <1>1, <1>2, <1>5 DEF PastFloor

LEMMA ThroughAt ==
    ASSUME LedgerTypes, NEW b \in Boundaries, Laid(b), ~Retired, NEW i \in 1..LastSource
    PROVE  Through(SourceAt(i)) = b[i]
<1>0. /\ LastSource \in Nat /\ LastSource = Len(segs) + 1 /\ 0 \in 0..LastSource /\ i \in 0..LastSource /\ i - 1 \in 0..LastSource
      /\ DOMAIN segs = 1..Len(segs)
  BY SourcesTyped DEF LastSource
<1>1. {e \in ledgerSources : Before(e, SourceAt(i))} = {SourceAt(k) : k \in 0 + 1..i - 1}
  <2>1. ASSUME NEW e \in ledgerSources, Before(e, SourceAt(i))
        PROVE  \E k \in 0 + 1..i - 1 : e = SourceAt(k)
    <3>1. PICK k \in 1..LastSource : e = SourceAt(k)
      BY ReadInOrder
    <3>2. k < i
      BY <2>1, <3>1, ReadInOrder
    <3> QED
      BY <1>0, <3>1, <3>2
  <2>2. ASSUME NEW k \in 0 + 1..i - 1
        PROVE  SourceAt(k) \in ledgerSources /\ Before(SourceAt(k), SourceAt(i))
    <3>1. k \in 1..LastSource /\ k < i /\ k # LastSource
      BY <1>0
    <3>2. k \in DOMAIN segs
      BY <1>0, <3>1
    <3> QED
      BY <3>1, <3>2, ReadInOrder DEF Retired
  <2> QED
    BY <2>1, <2>2
<1>2. UNION {Held(RecsOf(SourceAt(k))) : k \in 0 + 1..i - 1} = b[0] + 1..b[i - 1]
  BY <1>0, HeldBetween
<1>3. /\ b[0] = 0 /\ b[i - 1] \in Nat /\ b[i] \in Nat /\ b[i - 1] <= b[i]
  <2>1. i - 1 <= i
    BY <1>0
  <2> QED
    BY <1>0, <2>1, BoundariesRise DEF Laid
<1>4. Held(RecsOf(SourceAt(i)))
        \cup UNION {Held(RecsOf(g)) : g \in {e \in ledgerSources : Before(e, SourceAt(i))}} = 1..b[i]
  <2>1. Held(RecsOf(SourceAt(i))) = b[i - 1] + 1..b[i]
    BY HeldAt
  <2>2. UNION {Held(RecsOf(g)) : g \in {SourceAt(k) : k \in 0 + 1..i - 1}}
          = UNION {Held(RecsOf(SourceAt(k))) : k \in 0 + 1..i - 1}
    OBVIOUS
  <2>3. (b[i - 1] + 1..b[i]) \cup (b[0] + 1..b[i - 1]) = 1..b[i]
    BY <1>3
  <2> QED
    BY <1>1, <1>2, <2>1, <2>2, <2>3
<1>5. Cardinality(1..b[i]) = b[i]
  <2>1. 1 \in Int /\ b[i] \in Int
    BY <1>3
  <2>2. Cardinality(1..b[i]) = IF 1 > b[i] THEN 0 ELSE b[i] - 1 + 1
    BY <2>1, FS_Interval
  <2> QED
    BY <1>3, <2>2
<1> QED
  BY <1>4, <1>5 DEF Through

(* The n-th record lies in the source whose boundaries enclose it. *)
LEMMA PositionIs ==
    ASSUME LedgerTypes, NEW b \in Boundaries, Laid(b), ~Retired,
           NEW n \in Nat, 0 < n, n <= b[LastSource]
    PROVE  \E i \in 1..LastSource : /\ b[i - 1] < n /\ n <= b[i]
                              /\ LedgerPositionOfRecord(n) = At(SourceAt(i), n - b[i - 1])
<1> DEFINE enough == {f \in ledgerSources : Through(f) >= n}
           least(e) == \A g \in enough \ {e} : Before(e, g)
<1>0. LastSource \in Nat /\ LastSource = Len(segs) + 1 /\ DOMAIN segs = 1..Len(segs)
  BY SourcesTyped DEF LastSource
<1>1. PICK i \in 1..LastSource : b[i - 1] < n /\ n <= b[i]
  BY InSource
<1>2. i \in 0..LastSource /\ i - 1 \in 0..LastSource /\ b[i] \in Nat /\ b[i - 1] \in Nat
  BY <1>0, BoundariesRise
<1>3. SourceAt(i) \in enough
  <2>1. i = LastSource \/ segs[i].form # "gone"
    BY <1>0 DEF Retired
  <2> QED
    BY <1>1, <1>2, <2>1, ReadInOrder, ThroughAt
<1>4. ASSUME NEW g \in enough, g # SourceAt(i) PROVE Before(SourceAt(i), g)
  <2>1. PICK k \in 1..LastSource : g = SourceAt(k)
    BY ReadInOrder
  <2>2. b[k] >= n /\ k # i
    BY <1>4, <2>1, ThroughAt
  <2>3. ~(k < i)
    <3>1. ASSUME k < i PROVE FALSE
      <4>1. k \in 0..LastSource /\ k <= i - 1
        BY <1>0, <3>1
      <4>2. b[k] <= b[i - 1] /\ b[k] \in Nat
        BY <1>2, <4>1, BoundariesRise
      <4> QED
        BY <1>1, <1>2, <2>2, <4>2
    <3> QED
      BY <3>1
  <2>4. i < k
    BY <1>0, <2>2, <2>3
  <2> QED
    BY <2>1, <2>4, ReadInOrder
<1>5. ASSUME NEW e \in enough, least(e) PROVE e = SourceAt(i)
  <2>1. PICK k \in 1..LastSource : e = SourceAt(k)
    BY ReadInOrder
  <2>2. ASSUME e # SourceAt(i) PROVE FALSE
    <3>1. Before(e, SourceAt(i)) /\ Before(SourceAt(i), e)
      BY <1>3, <1>4, <1>5, <2>2
    <3>2. k < i /\ i < k
      BY <2>1, <3>1, ReadInOrder
    <3> QED
      BY <1>0, <3>2
  <2> QED
    BY <2>2
<1>6. least(SourceAt(i))
  BY <1>4
<1>7. (CHOOSE e \in enough : \A g \in enough \ {e} : Before(e, g)) = SourceAt(i)
  BY <1>3, <1>5, <1>6
<1>8. LedgerPositionOfRecord(n)
        = At(SourceAt(i), n - (Through(SourceAt(i)) - Len(RecsOf(SourceAt(i)))))
  BY <1>3, <1>7 DEF LedgerPositionOfRecord
<1>9. n - (Through(SourceAt(i)) - Len(RecsOf(SourceAt(i)))) = n - b[i - 1]
  <2>1. Len(RecsOf(SourceAt(i))) = b[i] - b[i - 1] /\ Through(SourceAt(i)) = b[i]
    BY ThroughAt DEF Laid, Holds
  <2> QED
    BY <1>2, <2>1
<1> QED
  BY <1>1, <1>8, <1>9

RollType == [at : Position, first : Nat, count : [Records -> Nat], form : {"whole", "torn", "spliced"}]

(* A start folds the records the saved counters do not hold, and no other. *)
LEMMA ToFoldIs ==
    ASSUME LedgerTypes, NEW b \in Boundaries, Laid(b), NEW m \in 0..MaxRecords,
           NEW saved \in RollType, saved.count = Upto(m),
           StandsFor(b, saved.at, saved.first, m), OldestGo(b, m),
           saved.at.file = 0 /\ ~liveFileMatches(saved) => ~Retired
    PROVE  ToFold(saved) = m + 1..b[LastSource]
<1> DEFINE floor == planReplay(saved)
           older == \A f \in ledgerSources \ {0} : floor.file < f
<1>0. /\ LastSource \in Nat /\ LastSource = Len(segs) + 1 /\ DOMAIN segs = 1..Len(segs) /\ m \in Nat
      /\ LastSource \in 0..LastSource /\ LastSource \in 1..LastSource
  BY SourcesTyped, LedgerAssumption DEF LastSource
<1>1. Record(saved.count) = m
  BY RecordUpto
<1>2. b[0] = 0 /\ m <= b[LastSource] /\ b[LastSource] \in Nat
  BY <1>0, BoundariesRise DEF Laid, StandsFor
<1>3. \A k \in 1..Len(segs) : b[k - 1] \in Nat /\ b[k] \in Nat /\ b[k - 1] < b[k]
  <2>1. ASSUME NEW k \in 1..Len(segs) PROVE b[k - 1] \in Nat /\ b[k] \in Nat /\ b[k - 1] < b[k]
    <3>1. k - 1 \in 0..LastSource /\ k \in 0..LastSource /\ k - 1 < k /\ k < LastSource
      BY <1>0
    <3> QED
      BY <3>1, BoundariesRise DEF Laid
  <2> QED
    BY <2>1
<1>4. CASE m = 0
  <2>1. \A k \in 1..Len(segs) : segs[k].form # "gone"
    BY <1>0, <1>3, <1>4 DEF OldestGo
  <2>2. \A k \in 1..Len(segs) : segs[k].form = "gone" <=> k <= 0
    BY <1>0, <2>1
  <2>3. OnHost = b[0] + 1..b[LastSource]
    BY <1>0, <2>2, HostAfter
  <2> QED
    BY <1>1, <1>2, <1>4, <2>3 DEF ToFold
<1>5. CASE m # 0 /\ saved.at.file # 0
  <2> DEFINE i == saved.at.file
  <2>1. /\ i \in 1..Len(segs) /\ m = b[i] /\ b[i] - b[i - 1] <= saved.at.off /\ floor = saved.at
        /\ i \in 1..LastSource /\ SourceAt(i) = i /\ saved.at \in Position
    BY <1>0, <1>5 DEF StandsFor, planReplay, SourceAt, RollType
  <2>2. \A k \in i + 1..Len(segs) : segs[k].form # "gone"
    <3>1. ASSUME NEW k \in i + 1..Len(segs), segs[k].form = "gone" PROVE FALSE
      <4>1. k \in DOMAIN segs /\ k \in 0..LastSource /\ i \in 0..LastSource /\ i < k /\ k < LastSource
        BY <1>0, <2>1
      <4>2. b[k] <= b[i] /\ b[i] < b[k]
        BY <2>1, <3>1, <4>1 DEF OldestGo, Laid
      <4>3. b[k] \in Nat /\ b[i] \in Nat
        BY <4>1, BoundariesRise
      <4> QED
        BY <4>2, <4>3
    <3> QED
      BY <3>1
  <2>3. CASE segs[i].form = "gone"
    <3>1. \A k \in 1..Len(segs) : segs[k].form = "gone" <=> k <= i
      BY <1>0, <2>1, <2>2, <2>3 DEF OldestGo
    <3>2. OnHost = b[i] + 1..b[LastSource]
      BY <2>1, <3>1, HostAfter, <1>0
    <3>3. floor.file \notin ledgerSources /\ older
      <4>1. i \notin ledgerSources
        BY <1>0, <2>1, <2>3 DEF ledgerSources
      <4>2. ASSUME NEW f \in ledgerSources \ {0} PROVE i < f
        BY <1>0, <2>1, <3>1 DEF ledgerSources
      <4> QED
        BY <2>1, <4>1, <4>2
    <3> QED
      BY <2>1, <3>2, <3>3 DEF ToFold
  <2>4. CASE segs[i].form # "gone"
    <3>1. floor.file \in ledgerSources
      BY <1>0, <2>1, <2>4 DEF ledgerSources
    <3>2. saved.at.off \in Nat
      BY <2>1 DEF Position
    <3>3. PastFloor(floor) = (b[i - 1] + saved.at.off + 1..b[i]) \cup (b[i] + 1..b[LastSource])
      BY SMTT(30), <2>1, <2>2, <2>4, <3>2, PastAt
    <3>4. b[i - 1] + saved.at.off + 1..b[i] = {}
      BY <1>3, <2>1, <3>2
    <3> QED
      BY <1>1, <1>5, <2>1, <3>1, <3>3, <3>4 DEF ToFold
  <2> QED
    BY <2>3, <2>4
<1>6. CASE m # 0 /\ saved.at.file = 0
  <2>1. /\ saved.at.off # 0 /\ saved.first # 0 /\ m = (saved.first - 1) + saved.at.off
        /\ saved.at.off \in Nat /\ saved.first \in Nat /\ saved.at \in Position
    BY <1>6 DEF StandsFor, RollType, Position
  <2>2. SourceAt(LastSource) = 0 /\ b[LastSource - 1] \in Nat /\ b[LastSource - 1] <= b[LastSource] /\ LastSource - 1 \in 0..LastSource
    <3>1. LastSource - 1 \in 0..LastSource /\ LastSource - 1 <= LastSource
      BY <1>0
    <3> QED
      BY <1>0, <3>1, BoundariesRise DEF SourceAt
  <2>3. CASE liveFileMatches(saved)
    <3>1. floor = saved.at /\ FirstOfLive = saved.first
      BY <1>6, <2>1, <2>3 DEF planReplay, liveFileMatches
    <3>2. live # <<>> /\ live[1] = saved.first /\ live = RecsOf(SourceAt(LastSource))
      BY <2>1, <2>2, <3>1 DEF FirstOfLive, RecsOf
    <3>3. saved.first = b[LastSource - 1] + 1
      <4>1. 1 \in 1..Len(live)
        BY <3>2 DEF LedgerTypes
      <4> QED
        BY <1>0, <3>2, <4>1 DEF Laid, Holds
    <3>4. PastFloor(floor) = (b[LastSource - 1] + saved.at.off + 1..b[LastSource]) \cup (b[LastSource] + 1..b[LastSource])
      BY SMTT(30), <1>0, <1>6, <2>1, <2>2, <3>1, PastAt
    <3>5. PastFloor(floor) = m + 1..b[LastSource]
      BY <1>2, <2>1, <2>2, <3>3, <3>4
    <3>6. floor.file \in ledgerSources
      BY <1>6, <3>1 DEF ledgerSources
    <3> QED
      BY <1>1, <1>6, <3>5, <3>6 DEF ToFold
  <2>4. CASE ~liveFileMatches(saved)
    <3>1. ~Retired /\ floor = LedgerPositionOfRecord(m)
      BY <1>1, <1>6, <2>4 DEF planReplay
    <3>2. PICK i \in 1..LastSource : /\ b[i - 1] < m /\ m <= b[i]
                               /\ LedgerPositionOfRecord(m) = At(SourceAt(i), m - b[i - 1])
      BY <1>0, <1>2, <1>6, <3>1, PositionIs
    <3>3. /\ i - 1 \in 0..LastSource /\ i \in 0..LastSource /\ b[i - 1] \in Nat /\ b[i] \in Nat /\ b[i] <= b[LastSource]
          /\ m - b[i - 1] \in Nat
      <4>1. i - 1 \in 0..LastSource /\ i \in 0..LastSource /\ i <= LastSource
        BY <1>0
      <4>2. b[i - 1] \in Nat /\ b[i] \in Nat /\ b[i] <= b[LastSource]
        BY <1>0, <4>1, BoundariesRise
      <4> QED
        BY <1>0, <3>2, <4>1, <4>2
    <3>4. /\ floor \in Position /\ floor.file = SourceAt(i) /\ floor.off = m - b[i - 1]
      BY <1>0, <3>1, <3>2, <3>3 DEF At, Position, SourceAt
    <3>5. \A k \in 1..Len(segs) : segs[k].form # "gone"
      BY <1>0, <3>1 DEF Retired
    <3>6. /\ i = LastSource \/ segs[i].form # "gone"
          /\ \A k \in i + 1..Len(segs) : segs[k].form # "gone"
      BY <1>0, <3>5
    <3>7. PastFloor(floor) = (b[i - 1] + (m - b[i - 1]) + 1..b[i]) \cup (b[i] + 1..b[LastSource])
      BY <3>3, <3>4, <3>6, PastAt
    <3>8. PastFloor(floor) = m + 1..b[LastSource]
      <4>1. b[i - 1] + (m - b[i - 1]) + 1 = m + 1
        BY <1>0, <3>3
      <4>2. (m + 1..b[i]) \cup (b[i] + 1..b[LastSource]) = m + 1..b[LastSource]
        BY SMTT(30), <1>0, <1>2, <3>2, <3>3
      <4> QED
        BY <3>7, <4>1, <4>2
    <3>9. floor.file \in ledgerSources
      BY <3>4, <3>6, ReadInOrder
    <3> QED
      BY <1>1, <1>6, <3>8, <3>9 DEF ToFold
  <2> QED
    BY <2>3, <2>4
<1> QED
  BY <1>4, <1>5, <1>6

-----------------------------------------------------------------------------
LEMMA FoldedTyped ==
    ASSUME NEW c \in [Records -> Nat], NEW S
    PROVE  Folded(c, S) \in [Records -> Nat]
BY DEF Folded

(* What a rotation or an append leaves. *)
LEMMA RotationsTyped ==
    ASSUME LedgerTypes, NEW r \in {Rotated, RotatedUnsynced, NotRotated}
    PROVE  /\ r.segs \in Seq(Segment) /\ r.live \in Seq(Nat) /\ r.off \in Nat /\ r.first \in Nat
           /\ r.into \in Nat /\ r.stale \in BOOLEAN
<1>1. [recs |-> live, form |-> "plain"] \in Segment
  BY DEF LedgerTypes, Segment
<1>2. Append(segs, [recs |-> live, form |-> "plain"]) \in Seq(Segment) /\ <<>> \in Seq(Nat)
  BY <1>1 DEF LedgerTypes
<1>3. Len(segs) + 1 \in Nat
  BY DEF LedgerTypes
<1>4. CASE r = Rotated
  BY <1>2, <1>3, <1>4 DEF Rotated
<1>5. CASE r = RotatedUnsynced
  BY <1>2, <1>5 DEF Rotated, RotatedUnsynced, LedgerTypes
<1>6. CASE r = NotRotated
  BY <1>6 DEF NotRotated, LedgerTypes
<1> QED
  BY <1>4, <1>5, <1>6

LEMMA LoadedTyped == ASSUME roll \in RollType PROVE Loaded \in RollType
<1>1. NoRoll \in RollType
  BY DEF NoRoll, RollType, Start, At, Position, Zero
<1> QED
  BY <1>1 DEF Loaded

(* Loss of a process: what is left of its memory. *)
LEMMA ForgottenTyped ==
    ASSUME off' = 0, first' = 0, cursor' = Start, count' = Zero, pending' = NoRecord, closed' = 0
    PROVE  /\ off' \in Nat /\ first' \in Nat /\ closed' \in Nat
           /\ cursor' \in Position /\ count' \in [Records -> Nat]
           /\ pending' \in Appended
BY DEF Start, At, Position, Zero, NoRecord, Appended

LEMMA LedgerInitTyped == LedgerInit => LedgerTypes
<1> SUFFICES ASSUME LedgerInit PROVE LedgerTypes
  OBVIOUS
<1>1. <<>> \in Seq(Segment) /\ <<>> \in Seq(Nat) /\ NoRoll \in RollType
  BY DEF NoRoll, RollType, Start, At, Position, Zero
<1>2. off \in Nat /\ first \in Nat /\ closed \in Nat /\ cursor \in Position
      /\ count \in [Records -> Nat] /\ pending \in Appended
  BY DEF LedgerInit, Start, At, Position, Zero, NoRecord, Appended
<1> QED
  BY <1>1, <1>2 DEF LedgerInit, LedgerTypes, RollType

LEMMA LedgerTypesStep ==
    ASSUME LedgerTypes, LedgerNext
    PROVE  LedgerTypes'
<1>0. roll \in RollType
  BY DEF LedgerTypes, RollType
<1>1. CASE AppendAt
  <2>1. PICK r \in Rotations : WrittenTo(r) \/ Refused(r) \/ Unsynced(r)
    BY <1>1 DEF AppendAt
  <2>2. NextRecord \in Nat
    BY <1>1, LedgerAssumption DEF AppendAt, Records
  <2>3. /\ r.segs \in Seq(Segment) /\ r.live \in Seq(Nat) /\ r.off \in Nat /\ r.first \in Nat
        /\ r.into \in Nat /\ r.stale \in BOOLEAN
    BY <2>1, RotationsTyped DEF Rotations
  <2>4. segs' \in Seq(Segment) /\ live' \in Seq(Nat) /\ off' \in Nat /\ first' \in Nat
        /\ stale' \in BOOLEAN /\ pending' \in Appended
    <3>1. CASE WrittenTo(r)
      <4>1. Append(r.live, NextRecord) \in Seq(Nat) /\ r.off + 1 \in Nat
        BY <2>2, <2>3
      <4> QED
        BY <2>2, <2>3, <3>1, <4>1 DEF WrittenTo, Appended
    <3>2. CASE Refused(r)
      BY <2>3, <3>2 DEF Refused, LedgerTypes
    <3>3. CASE Unsynced(r)
      BY <2>2, <2>3, <3>3 DEF Unsynced, LedgerTypes
    <3> QED
      BY <2>1, <3>1, <3>2, <3>3
  <2> QED
    BY <1>1, <2>4 DEF AppendAt, LedgerTypes, counters
<1>2. CASE Fold
  <2>1. cursor' \in Position /\ count' \in [Records -> Nat] /\ pending' \in Appended
    BY <1>2, FoldedTyped DEF Fold, LedgerTypes, At, Position, NoRecord, Appended
  <2> QED
    BY <1>2, <2>1 DEF Fold, LedgerTypes, ledgerFiles, days
<1>3. CASE Midnight
  BY <1>3 DEF Midnight, LedgerTypes, counters
<1>4. CASE RotateQuietly
  <2>1. PICK r \in {Rotated, RotatedUnsynced} :
          segs' = r.segs /\ live' = r.live /\ off' = r.off /\ first' = r.first /\ closed' = r.into
    BY <1>4 DEF RotateQuietly
  <2>2. segs' \in Seq(Segment) /\ live' \in Seq(Nat) /\ off' \in Nat /\ first' \in Nat /\ closed' \in Nat
    BY <2>1, RotationsTyped
  <2> QED
    BY <1>4, <2>2 DEF RotateQuietly, LedgerTypes, counters
<1>5. CASE noteRotationLocked
  <2>1. cursor' \in Position /\ closed' \in Nat
    BY <1>5 DEF noteRotationLocked, LedgerTypes, At, Position
  <2> QED
    BY <1>5, <2>1 DEF noteRotationLocked, LedgerTypes, ledgerFiles, days
<1>6. CASE SaveRollup
  <2>1. roll' \in RollType
    BY <1>6, <1>0 DEF SaveRollup, LedgerTypes, RollType, Form
  <2> QED
    BY <1>6, <2>1 DEF SaveRollup, LedgerTypes, RollType
<1>7. CASE SaveFails
  <2>1. roll' \in RollType
    BY <1>7, <1>0 DEF SaveFails, RollType, Torn
  <2> QED
    BY <1>7, <2>1 DEF SaveFails, LedgerTypes, RollType, days
<1>8. CASE LedgerKill
  <2>1. /\ off' \in Nat /\ first' \in Nat /\ closed' \in Nat
        /\ cursor' \in Position /\ count' \in [Records -> Nat]
        /\ pending' \in Appended
    BY <1>8, ForgottenTyped DEF LedgerKill
  <2>2. segs' \in Seq(Segment) /\ live' \in Seq(Nat) /\ stale' \in BOOLEAN /\ roll' \in RollType
        /\ up' \in BOOLEAN
    <3>1. Rotated.segs \in Seq(Segment) /\ <<>> \in Seq(Nat)
      BY RotationsTyped
    <3>2. [roll EXCEPT !.form = Torn] \in RollType
      BY <1>0 DEF RollType, Torn
    <3> QED
      BY <1>0, <1>8, <3>1, <3>2 DEF LedgerKill, LedgerTypes
  <2> QED
    BY <2>1, <2>2 DEF LedgerTypes, RollType
<1>9. CASE New
  <2>1. roll' \in RollType /\ count' \in [Records -> Nat]
    <3>1. Loaded \in RollType /\ Loaded.count \in [Records -> Nat]
      BY <1>0, LoadedTyped DEF RollType
    <3> QED
      BY <1>9, <3>1, FoldedTyped DEF New
  <2>2. segs' \in Seq(Segment)
    <3>1. \A i \in DOMAIN segs : segs[i] \in Segment
      BY DEF LedgerTypes
    <3>2. \A i \in DOMAIN segs : segs'[i] \in Segment
      BY <1>9, <3>1 DEF New, Segment
    <3>3. DOMAIN segs = 1..Len(segs) /\ Len(segs) \in Nat
      BY DEF LedgerTypes
    <3>4. segs' \in [1..Len(segs) -> Segment]
      BY <1>9, <3>1, <3>2, <3>3 DEF New
    <3> QED
      BY <3>3, <3>4, SeqDef
  <2>3. off' \in Nat /\ first' \in Nat /\ cursor' \in Position
    <3>1. Len(live) \in Nat /\ FirstOfLive \in Nat
      BY DEF LedgerTypes, FirstOfLive
    <3> QED
      BY <1>9, <3>1 DEF New, At, Position
  <2> QED
    BY <1>9, <2>1, <2>2, <2>3 DEF New, LedgerTypes, RollType, days
<1>10. ASSUME NEW i \in DOMAIN segs, compressSegment(i) \/ Retire(i) PROVE LedgerTypes'
  <2>1. segs[i] \in Segment
    BY DEF LedgerTypes
  <2>2. PICK f \in {"both", "gz", "gone"} : segs' = [segs EXCEPT ![i].form = f]
    BY <1>10 DEF compressSegment, Retire
  <2>3. segs' = [segs EXCEPT ![i] = [segs[i] EXCEPT !.form = f]]
    BY <2>2
  <2>4. [segs[i] EXCEPT !.form = f] \in Segment
    BY <2>1 DEF Segment
  <2>5. segs' \in Seq(Segment)
    BY <2>3, <2>4 DEF LedgerTypes
  <2> QED
    BY <1>10, <2>5 DEF compressSegment, Retire, LedgerTypes, days, counters
<1> QED
  BY <1>1, <1>2, <1>3, <1>4, <1>5, <1>6, <1>7, <1>8, <1>9, <1>10 DEF LedgerNext

-----------------------------------------------------------------------------
(* How the disk may move.  Files that keep what they hold: *)
LEMMA SameLayout ==
    ASSUME LedgerTypes, LedgerTypes', DOMAIN segs' = DOMAIN segs, live' = live,
           \A i \in DOMAIN segs : segs'[i].recs = segs[i].recs,
           NEW b \in Boundaries, Laid(b)
    PROVE  LastSource' = LastSource /\ Len(segs') = Len(segs) /\ b \in Boundaries' /\ Laid(b)'
<1>1. Len(segs') = Len(segs) /\ DOMAIN segs = 1..Len(segs) /\ Len(segs) \in Nat
  BY DEF LedgerTypes
<1>2. LastSource' = LastSource /\ LastSource = Len(segs) + 1
  BY <1>1 DEF LastSource
<1>3. b \in Boundaries'
  BY <1>2 DEF Boundaries
<1>4. \A i \in 1..LastSource : RecsOf(SourceAt(i))' = RecsOf(SourceAt(i))
  BY <1>1, <1>2 DEF RecsOf, SourceAt
<1> QED
  BY <1>1, <1>2, <1>3, <1>4 DEF Laid

(* a record more in the live file; *)
LEMMA HoldsMore ==
    ASSUME NEW s \in Seq(Nat), NEW lo \in Nat, NEW hi \in Nat, Holds(s, lo, hi)
    PROVE  Holds(Append(s, hi + 1), lo, hi + 1)
<1>1. Len(Append(s, hi + 1)) = Len(s) + 1 /\ Len(s) = hi - lo /\ Len(s) \in Nat /\ lo <= hi
  BY DEF Holds
<1>2. ASSUME NEW k \in 1..Len(s) + 1 PROVE Append(s, hi + 1)[k] = lo + k
  <2>1. CASE k = Len(s) + 1
    BY <1>1, <2>1
  <2>2. CASE k # Len(s) + 1
    <3>1. k \in 1..Len(s)
      BY <1>1, <2>2
    <3> QED
      BY <3>1 DEF Holds
  <2> QED
    BY <2>1, <2>2
<1> QED
  BY <1>1, <1>2 DEF Holds

LEMMA LiveGrows ==
    ASSUME LedgerTypes, LedgerTypes', segs' = segs, NEW b \in Boundaries, Laid(b),
           b[LastSource] < MaxRecords, live' = Append(live, b[LastSource] + 1)
    PROVE  LastSource' = LastSource /\ \E c \in Boundaries' :
               Laid(c)' /\ c[LastSource'] = b[LastSource] + 1 /\ \A i \in 0..Len(segs) : c[i] = b[i]
<1> PICK c : c = [b EXCEPT ![LastSource] = b[LastSource] + 1]
  OBVIOUS
<1>0. LastSource' = LastSource /\ LastSource = Len(segs) + 1 /\ Len(segs) \in Nat /\ LastSource \in 0..LastSource /\ b[LastSource] \in Nat
  BY SourcesTyped, BoundariesRise DEF LastSource
<1>1. c \in Boundaries'
  BY <1>0, LedgerAssumption DEF Boundaries
<1>2. c[LastSource] = b[LastSource] + 1 /\ \A i \in 0..Len(segs) : c[i] = b[i]
  BY <1>0 DEF Boundaries
<1>3. ASSUME NEW i \in 1..LastSource PROVE Holds(RecsOf(SourceAt(i))', c[i - 1], c[i])
  <2>1. CASE i = LastSource
    <3>1. RecsOf(SourceAt(i)) = live /\ RecsOf(SourceAt(i))' = live'
      BY <1>0, <2>1 DEF RecsOf, SourceAt
    <3>2. i - 1 \in 0..Len(segs) /\ i - 1 \in 0..LastSource
      BY <1>0, <2>1
    <3>3. b[i - 1] \in Nat /\ Holds(live, b[i - 1], b[LastSource]) /\ live \in Seq(Nat)
      BY <2>1, <3>1, <3>2, BoundariesRise DEF Laid, LedgerTypes
    <3> QED
      BY <1>0, <1>2, <2>1, <3>1, <3>2, <3>3, HoldsMore
  <2>2. CASE i # LastSource
    <3>1. i \in 0..Len(segs) /\ i - 1 \in 0..Len(segs)
      BY <1>0, <2>2
    <3>2. RecsOf(SourceAt(i))' = RecsOf(SourceAt(i))
      BY <1>0, <2>2 DEF RecsOf, SourceAt
    <3> QED
      BY <1>2, <3>1, <3>2 DEF Laid
  <2> QED
    BY <2>1, <2>2
<1>4. ASSUME NEW i \in 0..LastSource, NEW j \in 0..LastSource, i < j
      PROVE  c[i] <= c[j] /\ (j < LastSource => c[i] < c[j])
  <2>1. i \in 0..Len(segs) /\ b[i] \in Nat /\ b[j] \in Nat /\ b[i] <= b[j] /\ (j < LastSource => b[i] < b[j])
    <3>1. i \in 0..Len(segs) /\ i <= j
      BY <1>0, <1>4
    <3> QED
      BY <1>4, <3>1, BoundariesRise DEF Laid
  <2>2. c[i] = b[i] /\ (j < LastSource => c[j] = b[j]) /\ (j = LastSource => c[j] = b[j] + 1)
    BY <1>0, <1>2, <2>1
  <2> QED
    BY <1>0, <2>1, <2>2
<1>5. c[0] = 0
  BY <1>0, <1>2 DEF Laid
<1> QED
  BY <1>0, <1>1, <1>2, <1>3, <1>4, <1>5 DEF Laid

(* A rotation adds a segment and keeps the others. *)
LEMMA ClosedSegs ==
    ASSUME LedgerTypes, segs' = Append(segs, [recs |-> live, form |-> "plain"])
    PROVE  /\ Len(segs') = Len(segs) + 1 /\ DOMAIN segs' = 1..Len(segs) + 1
           /\ DOMAIN segs = 1..Len(segs) /\ Len(segs) \in Nat
           /\ \A i \in 1..Len(segs) : segs'[i] = segs[i]
           /\ segs'[Len(segs) + 1] = [recs |-> live, form |-> "plain"]
           /\ \A i \in DOMAIN segs' : IF i \in DOMAIN segs THEN segs'[i] = segs[i]
                                                           ELSE segs'[i].form = "plain"
<1>1. segs \in Seq(Segment) /\ [recs |-> live, form |-> "plain"] \in Segment
  BY DEF LedgerTypes, Segment
<1>2. /\ segs' \in Seq(Segment) /\ Len(segs') = Len(segs) + 1
      /\ \A i \in 1..Len(segs) : segs'[i] = segs[i]
      /\ segs'[Len(segs) + 1] = [recs |-> live, form |-> "plain"]
  BY <1>1, AppendProperties
<1>3. DOMAIN segs' = 1..Len(segs) + 1 /\ DOMAIN segs = 1..Len(segs) /\ Len(segs) \in Nat
  BY <1>1, <1>2, LenProperties
<1>4. \A i \in DOMAIN segs' : i \notin DOMAIN segs => i = Len(segs) + 1
  BY <1>3
<1> QED
  BY <1>2, <1>3, <1>4

(* a rotation, after which the live file is empty or has a record. *)
LEMMA LiveCloses ==
    ASSUME LedgerTypes, LedgerTypes', live # <<>>,
           segs' = Append(segs, [recs |-> live, form |-> "plain"]),
           NEW b \in Boundaries, Laid(b),
           NEW n \in 0..MaxRecords, Holds(live', b[LastSource], n)
    PROVE  /\ LastSource' = LastSource + 1 /\ Len(segs') = LastSource /\ b[LastSource] <= n
           /\ \E c \in Boundaries' : Laid(c)' /\ c[LastSource'] = n /\ \A i \in 0..LastSource : c[i] = b[i]
<1> PICK c : c = [i \in 0..LastSource + 1 |-> IF i = LastSource + 1 THEN n ELSE b[i]]
  OBVIOUS
<1>0. /\ LastSource = Len(segs) + 1 /\ Len(segs) \in Nat /\ LastSource \in 0..LastSource /\ b[LastSource] \in Nat
      /\ LastSource' = LastSource + 1 /\ Len(segs') = LastSource /\ n \in Nat /\ b[LastSource] <= n
  <2>1. LastSource = Len(segs) + 1 /\ Len(segs) \in Nat /\ LastSource \in 0..LastSource /\ b[LastSource] \in Nat
    BY SourcesTyped, BoundariesRise DEF LastSource
  <2>2. Len(segs') = Len(segs) + 1
    BY ClosedSegs
  <2> QED
    BY <2>1, <2>2, LedgerAssumption DEF LastSource, Holds
<1>1. c \in Boundaries'
  BY <1>0 DEF Boundaries
<1>2. c[LastSource + 1] = n /\ \A i \in 0..LastSource : c[i] = b[i]
  BY <1>0
<1>3. ASSUME NEW i \in 1..LastSource' PROVE Holds(RecsOf(SourceAt(i))', c[i - 1], c[i])
  <2>1. CASE i = LastSource + 1
    <3>1. RecsOf(SourceAt(i))' = live'
      BY <1>0, <2>1 DEF RecsOf, SourceAt
    <3>2. c[i - 1] = b[LastSource] /\ c[i] = n
      BY <1>0, <1>2, <2>1
    <3> QED
      BY <3>1, <3>2
  <2>2. CASE i # LastSource + 1
    <3>1. i \in 1..LastSource /\ i \in 0..LastSource /\ i - 1 \in 0..LastSource
      BY <1>0, <2>2
    <3>2. RecsOf(SourceAt(i))' = RecsOf(SourceAt(i))
      <4>1. RecsOf(SourceAt(i))' = segs'[i].recs
        BY <1>0, <3>1 DEF RecsOf, SourceAt
      <4>2. CASE i = LastSource
        BY <1>0, <4>1, <4>2, ClosedSegs DEF RecsOf, SourceAt
      <4>3. CASE i # LastSource
        <5>1. i \in 1..Len(segs) /\ segs'[i] = segs[i]
          BY <1>0, <3>1, <4>3, ClosedSegs
        <5> QED
          BY <1>0, <3>1, <4>1, <4>3, <5>1 DEF RecsOf, SourceAt
      <4> QED
        BY <4>2, <4>3
    <3> QED
      BY <1>2, <3>1, <3>2 DEF Laid
  <2> QED
    BY <2>1, <2>2
<1>4. ASSUME NEW i \in 0..LastSource', NEW j \in 0..LastSource', i < j
      PROVE  c[i] <= c[j] /\ (j < LastSource' => c[i] < c[j])
  <2>1. i \in 0..LastSource /\ c[i] = b[i] /\ b[i] \in Nat /\ b[i] <= b[LastSource]
    BY <1>0, <1>2, <1>4, BoundariesRise
  <2>2. CASE j = LastSource + 1
    BY <1>0, <1>2, <2>1, <2>2
  <2>3. CASE j < LastSource
    <3>1. j \in 0..LastSource /\ b[i] < b[j]
      BY <1>0, <1>4, <2>1, <2>3 DEF Laid
    <3>2. b[j] \in Nat /\ c[j] = b[j]
      BY <1>2, <3>1, BoundariesRise
    <3> QED
      BY <2>1, <3>1, <3>2
  <2>4. CASE j = LastSource
    <3>1. b[LastSource - 1] < b[LastSource] /\ b[LastSource - 1] \in Nat
      <4>1. RecsOf(SourceAt(LastSource)) = live /\ LastSource \in 1..LastSource /\ LastSource - 1 \in 0..LastSource
        BY <1>0 DEF RecsOf, SourceAt
      <4>2. Holds(live, b[LastSource - 1], b[LastSource]) /\ b[LastSource - 1] \in Nat
        BY <4>1, BoundariesRise DEF Laid
      <4>3. Len(live) # 0
        BY DEF LedgerTypes
      <4> QED
        BY <1>0, <4>2, <4>3 DEF Holds
    <3>2. b[i] <= b[LastSource - 1]
      <4>1. i <= LastSource - 1 /\ LastSource - 1 \in 0..LastSource
        BY <1>0, <1>4, <2>1, <2>4
      <4> QED
        BY <2>1, <4>1, BoundariesRise
    <3> QED
      BY <1>0, <1>2, <2>1, <2>4, <3>1, <3>2
  <2> QED
    BY <1>0, <2>2, <2>3, <2>4
<1>5. c[0] = 0
  BY <1>0, <1>2 DEF Laid
<1>6. Laid(c)'
  BY <1>3, <1>4, <1>5 DEF Laid
<1> QED
  BY <1>0, <1>1, <1>2, <1>6

(* What is saved stays true of a ledger that only grew. *)
LEMMA SavedStays ==
    ASSUME LedgerTypes, LedgerTypes', NEW b \in Boundaries, NEW m \in 0..MaxRecords, Laid(b), Saved(b, m),
           NEW c \in Boundaries', Len(segs) <= Len(segs'),
           roll'.at = roll.at, roll'.first = roll.first, roll'.count = roll.count,
           \A i \in 0..Len(segs) : c[i] = b[i], b[LastSource] <= c[LastSource'],
           \A i \in DOMAIN segs' : IF i \in DOMAIN segs THEN segs'[i].form = "gone" => segs[i].form = "gone"
                                                        ELSE segs'[i].form # "gone",
           \A i \in DOMAIN segs : segs[i].form = "gone" => segs'[i].form = "gone"
    PROVE  Saved(c, m)'
<1>0. /\ Len(segs) \in Nat /\ DOMAIN segs = 1..Len(segs) /\ LastSource = Len(segs) + 1 /\ b[LastSource] \in Nat
      /\ Len(segs') \in Nat /\ DOMAIN segs' = 1..Len(segs') /\ LastSource' = Len(segs') + 1 /\ m \in Nat
  <2>1. Len(segs') \in Nat /\ DOMAIN segs' = 1..Len(segs') /\ LastSource' = Len(segs') + 1
    BY DEF LedgerTypes, LastSource
  <2> QED
    BY <2>1, SourcesTyped, BoundariesRise, LedgerAssumption DEF LastSource
<1>1. roll'.count = Upto(m) /\ Upto(m)' = Upto(m)
  BY DEF Saved, Upto
<1>2. c[LastSource'] \in Nat
  BY <1>0, LedgerAssumption DEF Boundaries
<1>3. /\ m <= c[LastSource'] /\ roll'.at.file \in 0..Len(segs')
      /\ roll'.at.file = 0 /\ roll'.at.off = 0 => m = 0
      /\ roll'.at.file = 0 /\ roll'.at.off # 0 => roll'.first # 0 /\ m = (roll'.first - 1) + roll'.at.off
      /\ roll'.at.file # 0 => m = c[roll'.at.file]
                             /\ c[roll'.at.file] - c[roll'.at.file - 1] <= roll'.at.off
  <2>1. StandsFor(b, roll.at, roll.first, m)
    BY DEF Saved
  <2>2. m <= c[LastSource'] /\ roll.at.file \in 0..Len(segs')
    BY <1>0, <1>2, <2>1 DEF StandsFor
  <2>3. ASSUME roll.at.file # 0
        PROVE  m = c[roll.at.file] /\ c[roll.at.file] - c[roll.at.file - 1] <= roll.at.off
    <3>1. roll.at.file \in 0..Len(segs) /\ roll.at.file - 1 \in 0..Len(segs)
      BY <1>0, <2>1, <2>3 DEF StandsFor
    <3> QED
      BY <2>1, <2>3, <3>1 DEF StandsFor
  <2> QED
    BY <2>1, <2>2, <2>3 DEF StandsFor
<1>4. OldestGo(c, m)'
  <2>1. ASSUME NEW i \in DOMAIN segs', segs'[i].form = "gone"
        PROVE  c[i] <= m /\ \A j \in 1..i : segs'[j].form = "gone"
    <3>1. i \in DOMAIN segs /\ segs[i].form = "gone" /\ i \in 0..Len(segs)
      BY <1>0, <2>1
    <3>2. b[i] <= m /\ \A j \in 1..i : segs[j].form = "gone"
      BY <3>1 DEF Saved, OldestGo
    <3> QED
      BY <1>0, <3>1, <3>2
  <2> QED
    BY <2>1 DEF OldestGo
<1> QED
  BY <1>1, <1>3, <1>4 DEF Saved, StandsFor

-----------------------------------------------------------------------------
(* One lemma per action, for a run with no trouble. *)
LEMMA MemoryWritten ==
    ASSUME LedgerTypes', NEW b \in Boundaries, b[LastSource] \in Nat, Memory(b), up, up' = up,
           pending = NoRecord, closed' = 0, count' = count, cursor' = cursor, NEW c \in Boundaries',
           c[LastSource'] = b[LastSource] + 1, live' # <<>>, NEW into \in Nat,
           pending' = [rec |-> b[LastSource] + 1, off |-> off', into |-> into],
           first' # 0, (first' - 1) + off' = b[LastSource] + 1, first' <= c[Len(segs')] + 1,
           into = 0 => /\ off' = off + 1 /\ closed = 0 /\ off \in Nat
                       /\ Len(segs) \in Nat /\ Len(segs') \in Nat /\ Len(segs) <= Len(segs')
                       /\ \A i \in 0..Len(segs) : c[i] = b[i]
    PROVE  Memory(c)'
<1>1. pending' # NoRecord
  <2>1. pending'.rec # 0
    OBVIOUS
  <2> QED
    BY <2>1 DEF NoRecord
<1>2. Told(c)' /\ Measured(c)'
  BY <1>1 DEF Told, Measured
<1>3. Tallied(c)'
  <2>1. count' = Upto(c[LastSource'] - 1)
    BY DEF Memory, Tallied
  <2>2. Upto(c[LastSource'] - 1) = Upto(c[LastSource] - 1)'
    BY DEF Upto
  <2> QED
    BY <1>1, <2>1, <2>2 DEF Tallied, NoRecord, Upto
<1>4. ASSUME into = 0
      PROVE  /\ cursor'.file \in 0..Len(segs')
             /\ cursor'.file = 0 => cursor'.off + 1 = off'
             /\ cursor'.file # 0 => /\ c[cursor'.file] = c[LastSource'] - 1
                                    /\ c[cursor'.file] - c[cursor'.file - 1] <= cursor'.off
  <2>1. /\ cursor.file \in 0..Len(segs)
        /\ cursor.file = 0 => cursor.off = off
        /\ cursor.file # 0 => /\ b[cursor.file] = b[LastSource]
                              /\ b[cursor.file] - b[cursor.file - 1] <= cursor.off
    BY <1>4 DEF Memory, Pointed
  <2>2. ASSUME cursor.file # 0
        PROVE  c[cursor.file] = b[cursor.file] /\ c[cursor.file - 1] = b[cursor.file - 1]
    <3>1. cursor.file \in 0..Len(segs) /\ cursor.file - 1 \in 0..Len(segs)
      BY <1>4, <2>1, <2>2
    <3> QED
      BY <1>4, <3>1
  <2> QED
    BY <1>4, <2>1, <2>2
<1>5. Pointed(c)'
  BY <1>1, <1>4 DEF Pointed, NoRecord
<1> QED
  BY <1>2, <1>3, <1>5 DEF Memory

(* With a live file that is not empty the process has a first record. *)
LEMMA LiveMeasured ==
    ASSUME LedgerTypes, NEW b \in Boundaries, Laid(b), Memory(b), up, live # <<>>
    PROVE  /\ first # 0 /\ (first - 1) + off = b[LastSource] /\ first <= b[Len(segs)] + 1
           /\ b[Len(segs)] <= b[LastSource] /\ b[Len(segs)] \in Nat /\ b[LastSource] \in Nat
<1>1. Len(segs) \in 0..LastSource /\ Len(segs) <= LastSource /\ LastSource \in 0..LastSource
  BY SourcesTyped DEF LastSource
<1>2. b[Len(segs)] <= b[LastSource] /\ b[Len(segs)] \in Nat /\ b[LastSource] \in Nat
  BY <1>1, BoundariesRise
<1> QED
  BY <1>2 DEF Memory, Measured

LEMMA AppendStep ==
    ASSUME LedgerTypes, LedgerTypes', trouble = {}, Exact, AppendAt
    PROVE  Exact'
<1>0. /\ up /\ pending = NoRecord /\ closed = 0 /\ up' = up /\ closed' = 0 /\ roll' = roll
      /\ count' = count /\ cursor' = cursor
  BY DEF AppendAt, counters
<1>1. PICK b \in Boundaries, m \in 0..MaxRecords : Core(b, m)
  BY DEF Exact
<1>2. PICK r \in Rotations : WrittenTo(r) \/ (Refused(r) /\ r.into = 0)
  BY DEF AppendAt, Unsynced, Refused
<1>3. Laid(b) /\ Saved(b, m) /\ Memory(b) /\ Quiet
  BY <1>1 DEF Core, Exact
<1>4. /\ NextRecord = b[LastSource] + 1 /\ b[LastSource] \in Nat /\ b[LastSource] < MaxRecords
      /\ b[LastSource] + 1 \in 0..MaxRecords /\ b[LastSource] \in 0..MaxRecords
  <2>1. NextRecord = b[LastSource] + 1 /\ b[LastSource] \in 0..MaxRecords /\ NextRecord \in 1..MaxRecords
    BY <1>3, DurableIs DEF AppendAt, Records
  <2> QED
    BY <2>1, LedgerAssumption
<1>5. /\ Len(segs) \in Nat /\ DOMAIN segs = 1..Len(segs) /\ LastSource = Len(segs) + 1
      /\ Len(segs') \in Nat /\ LastSource' = Len(segs') + 1
  BY SourcesTyped DEF LastSource, LedgerTypes
<1>6. CASE WrittenTo(r) /\ r = NotRotated
  <2>1. /\ segs' = segs /\ live' = Append(live, b[LastSource] + 1) /\ off' = off + 1 /\ stale' = FALSE
        /\ first' = (IF first = 0 THEN b[LastSource] + 1 ELSE first)
        /\ pending' = [rec |-> b[LastSource] + 1, off |-> off', into |-> 0]
    BY <1>4, <1>6 DEF WrittenTo, NotRotated
  <2>2. PICK c \in Boundaries' :
          Laid(c)' /\ c[LastSource'] = b[LastSource] + 1 /\ \A i \in 0..Len(segs) : c[i] = b[i]
    BY <1>3, <1>4, <2>1, LiveGrows
  <2>3. Saved(c, m)'
    <3>1. b[LastSource] <= c[LastSource'] /\ Len(segs) <= Len(segs')
      BY <1>4, <1>5, <2>1, <2>2
    <3>2. /\ \A i \in DOMAIN segs : segs[i].form = "gone" => segs'[i].form = "gone"
          /\ \A i \in DOMAIN segs' : IF i \in DOMAIN segs THEN segs'[i].form = "gone" => segs[i].form = "gone"
                                                          ELSE segs'[i].form # "gone"
      BY <2>1
    <3> QED
      BY <1>0, <1>3, <2>2, <3>1, <3>2, SavedStays
  <2>4. first' # 0 /\ (first' - 1) + off' = b[LastSource] + 1 /\ first' <= c[Len(segs')] + 1
    <3>1. c[Len(segs')] = b[Len(segs)]
      BY <1>5, <2>1, <2>2
    <3>2. CASE live # <<>>
      <4>1. first # 0 /\ (first - 1) + off = b[LastSource] /\ first <= b[Len(segs)] + 1
        BY <1>0, <1>3, <3>2, LiveMeasured
      <4> QED
        BY <1>4, <2>1, <3>1, <4>1 DEF LedgerTypes
    <3>3. CASE live = <<>>
      <4>1. b[Len(segs)] = b[LastSource] /\ b[Len(segs)] \in Nat
        <5>1. RecsOf(SourceAt(LastSource)) = live /\ LastSource \in 1..LastSource /\ LastSource - 1 = Len(segs) /\ LastSource - 1 \in 0..LastSource
          BY <1>5 DEF RecsOf, SourceAt
        <5>2. Holds(live, b[Len(segs)], b[LastSource]) /\ Len(live) = 0 /\ b[Len(segs)] \in Nat
          BY <1>3, <3>3, <5>1, BoundariesRise DEF Laid
        <5> QED
          BY <1>4, <5>2 DEF Holds
      <4>2. \/ first = 0 /\ off = 0
            \/ first # 0 /\ (first - 1) + off = b[LastSource] /\ first <= b[Len(segs)] + 1
        BY <1>0, <1>3 DEF Memory, Measured
      <4> QED
        BY SMTT(30), <1>4, <2>1, <3>1, <4>1, <4>2 DEF LedgerTypes
    <3> QED
      BY <3>2, <3>3
  <2>5. Memory(c)'
    <3>1. off \in Nat /\ Len(segs) \in Nat /\ Len(segs') \in Nat /\ Len(segs) <= Len(segs') /\ 0 \in Nat
      BY <1>5, <2>1 DEF LedgerTypes
    <3>2. live' # <<>>
      <4>1. Len(live') = Len(live) + 1 /\ Len(live) \in Nat
        BY <1>4, <2>1 DEF LedgerTypes
      <4> QED
        BY <4>1
    <3> QED
      BY <1>0, <1>3, <1>4, <2>1, <2>2, <2>4, <3>1, <3>2, MemoryWritten
  <2> QED
    BY <1>0, <2>1, <2>2, <2>3, <2>5 DEF Exact, Core, Quiet
<1>7. ASSUME r \in {Rotated, RotatedUnsynced}, stale
      PROVE  Exact'
  <2>1. /\ live # <<>> /\ r.segs = Append(segs, [recs |-> live, form |-> "plain"]) /\ r.live = <<>>
        /\ r = RotatedUnsynced => r.off = off /\ r.first = first
        /\ r = Rotated => r.off = 0 /\ r.first = 0 /\ r.into # 0
    <3>1. /\ Rotated.segs = Append(segs, [recs |-> live, form |-> "plain"]) /\ Rotated.live = <<>>
          /\ Rotated.off = 0 /\ Rotated.first = 0 /\ Rotated.into = Len(segs) + 1
      BY DEF Rotated
    <3>2. /\ RotatedUnsynced.segs = Append(segs, [recs |-> live, form |-> "plain"])
          /\ RotatedUnsynced.live = <<>> /\ RotatedUnsynced.off = off /\ RotatedUnsynced.first = first
      BY DEF Rotated, RotatedUnsynced
    <3>3. live # <<>> /\ Len(segs) + 1 # 0
      BY <1>3, <1>5, <1>7 DEF Quiet
    <3> QED
      BY <1>7, <3>1, <3>2, <3>3
  <2>2. /\ first # 0 /\ (first - 1) + off = b[LastSource] /\ first <= b[LastSource] + 1
        /\ off \in Nat /\ first \in Nat
    <3>1. /\ first # 0 /\ (first - 1) + off = b[LastSource] /\ first <= b[Len(segs)] + 1
          /\ b[Len(segs)] <= b[LastSource] /\ b[Len(segs)] \in Nat
      BY <1>0, <1>3, <2>1, LiveMeasured
    <3>2. off \in Nat /\ first \in Nat
      BY DEF LedgerTypes
    <3> QED
      BY <1>4, <3>1, <3>2
  <2>3. PICK n \in 0..MaxRecords :
            /\ segs' = Append(segs, [recs |-> live, form |-> "plain"]) /\ Holds(live', b[LastSource], n)
            /\ \/ WrittenTo(r) /\ n = b[LastSource] + 1
               \/ Refused(r) /\ r = RotatedUnsynced /\ n = b[LastSource] /\ live' = <<>>
    <3>1. CASE WrittenTo(r)
      <4>1. Holds(<<>>, b[LastSource], b[LastSource]) /\ <<>> \in Seq(Nat)
        BY <1>4 DEF Holds
      <4>2. Holds(Append(<<>>, b[LastSource] + 1), b[LastSource], b[LastSource] + 1)
        BY <1>4, <4>1, HoldsMore
      <4> QED
        BY <1>4, <2>1, <3>1, <4>2 DEF WrittenTo
    <3>2. CASE Refused(r) /\ r.into = 0
      <4>1. Holds(<<>>, b[LastSource], b[LastSource])
        BY <1>4 DEF Holds
      <4> QED
        BY <1>4, <1>7, <2>1, <3>2, <4>1 DEF Refused
    <3> QED
      BY <1>2, <3>1, <3>2
  <2>4. /\ LastSource' = LastSource + 1 /\ Len(segs') = LastSource /\ b[LastSource] <= n
        /\ \E c \in Boundaries' : Laid(c)' /\ c[LastSource'] = n /\ \A i \in 0..LastSource : c[i] = b[i]
    BY <1>3, <2>1, <2>3, LiveCloses
  <2>5. PICK c \in Boundaries' : Laid(c)' /\ c[LastSource'] = n /\ \A i \in 0..LastSource : c[i] = b[i]
    BY <2>4
  <2>6. Saved(c, m)'
    <3>1. \A i \in DOMAIN segs' : IF i \in DOMAIN segs THEN segs'[i] = segs[i] ELSE segs'[i].form = "plain"
      BY <2>3, ClosedSegs
    <3>2. \A i \in DOMAIN segs : i \in DOMAIN segs'
      <4>1. DOMAIN segs' = 1..Len(segs')
        BY DEF LedgerTypes
      <4> QED
        BY <1>5, <2>4, <4>1
    <3>3. Len(segs) <= Len(segs') /\ \A i \in 0..Len(segs) : c[i] = b[i]
      BY <1>5, <2>4, <2>5
    <3> QED
      BY <1>0, <1>3, <2>4, <2>5, <3>1, <3>2, <3>3, SavedStays
  <2>7. c[Len(segs')] = b[LastSource]
    BY <1>5, <2>4, <2>5
  <2>8. CASE WrittenTo(r) /\ n = b[LastSource] + 1
    <3>1. /\ off' = r.off + 1 /\ stale' = FALSE
          /\ first' = (IF r.first = 0 THEN b[LastSource] + 1 ELSE r.first)
          /\ pending' = [rec |-> b[LastSource] + 1, off |-> off', into |-> r.into]
      BY <1>4, <2>8 DEF WrittenTo
    <3>2. live' # <<>> /\ r.into \in Nat
      <4>1. Len(live') = 1
        BY <1>4, <2>3, <2>8 DEF Holds
      <4>2. live' # <<>>
        BY <4>1
      <4>3. r.into \in Nat
        <5>1. r \in {Rotated, RotatedUnsynced, NotRotated}
          BY <1>7
        <5> QED
          BY <5>1, RotationsTyped
      <4> QED
        BY <4>2, <4>3
    <3>3. first' # 0 /\ (first' - 1) + off' = b[LastSource] + 1 /\ first' <= c[Len(segs')] + 1
      <4>1. CASE r = Rotated
        BY <1>4, <2>1, <2>7, <3>1, <4>1
      <4>2. CASE r = RotatedUnsynced
        <5>1. off' = off + 1 /\ first' = first
          BY <2>1, <2>2, <3>1, <4>2
        <5> QED
          BY <1>4, <2>2, <2>7, <5>1
      <4> QED
        BY <1>7, <4>1, <4>2
    <3>4. Memory(c)'
      <4>1. ASSUME r.into = 0
            PROVE  /\ off' = off + 1 /\ off \in Nat
                   /\ Len(segs) \in Nat /\ Len(segs') \in Nat /\ Len(segs) <= Len(segs')
                   /\ \A i \in 0..Len(segs) : c[i] = b[i]
        BY <1>5, <1>7, <2>1, <2>2, <2>4, <2>5, <3>1, <4>1
      <4> QED
        BY <1>0, <1>3, <1>4, <2>5, <2>8, <3>1, <3>3, <3>2, <4>1, MemoryWritten
    <3> QED
      BY <1>0, <2>5, <2>6, <3>1, <3>4 DEF Exact, Core, Quiet
  <2>9. CASE Refused(r) /\ r = RotatedUnsynced /\ n = b[LastSource] /\ live' = <<>>
    <3>1. off' = off /\ first' = first /\ pending' = pending /\ stale' = FALSE
      BY <2>1, <2>9 DEF Refused
    <3>2. cursor.file = 0 /\ cursor.off = off
      BY <1>0, <1>3, <2>1 DEF Memory, Pointed
    <3>3. Upto(n)' = Upto(n) /\ count = Upto(b[LastSource])
      BY <1>0, <1>3 DEF Memory, Tallied, Upto
    <3>4. Told(c)' /\ Measured(c)' /\ Pointed(c)'
      BY <1>0, <1>4, <1>5, <2>2, <2>4, <2>5, <2>7, <2>9, <3>1, <3>2 DEF Told, Measured, Pointed, NoRecord
    <3>5. Tallied(c)'
      BY <1>0, <2>5, <2>9, <3>1, <3>3 DEF Tallied, NoRecord, Upto
    <3> QED
      BY <1>0, <2>5, <2>6, <3>1, <3>4, <3>5 DEF Exact, Core, Quiet, Memory
  <2> QED
    BY <2>3, <2>8, <2>9
<1>8. CASE Refused(r) /\ r = NotRotated
  <2>1. /\ segs' = segs /\ live' = live /\ off' = off /\ first' = first /\ pending' = pending
        /\ stale' = stale
    BY <1>3, <1>8 DEF Refused, NotRotated, Quiet, LedgerTypes
  <2>2. LastSource' = LastSource /\ b \in Boundaries' /\ Laid(b)'
    BY <1>3, <2>1, SameLayout
  <2>3. Saved(b, m)' /\ Memory(b)' /\ Quiet'
    BY <1>0, <1>3, <2>1, <2>2 DEF Saved, StandsFor, OldestGo, Memory, Told, Tallied, Measured, Pointed,
       Quiet, Upto, NoRecord
  <2> QED
    BY <2>2, <2>3 DEF Exact, Core
<1> QED
  BY <1>2, <1>6, <1>7, <1>8 DEF Rotations

(* A step that leaves the files as they are and keeps what is saved: what  *)
(* remains to be shown is about the process's memory.                      *)
LEMMA DiskStays ==
    ASSUME LedgerTypes, LedgerTypes', NEW b \in Boundaries, NEW m \in 0..MaxRecords,
           Laid(b), Saved(b, m), DOMAIN segs' = DOMAIN segs, live' = live,
           \A i \in DOMAIN segs : /\ segs'[i].recs = segs[i].recs
                                  /\ segs'[i].form = "gone" <=> segs[i].form = "gone",
           roll'.at = roll.at, roll'.first = roll.first, roll'.count = roll.count
    PROVE  /\ LastSource' = LastSource /\ Len(segs') = Len(segs) /\ b \in Boundaries' /\ Laid(b)'
           /\ Saved(b, m)'
<1>1. LastSource' = LastSource /\ Len(segs') = Len(segs) /\ b \in Boundaries' /\ Laid(b)'
  BY SameLayout
<1>2. b[LastSource] \in Nat /\ Len(segs) \in Nat
  BY SourcesTyped, BoundariesRise
<1>3. Saved(b, m)'
  <2>1. /\ \A i \in DOMAIN segs : segs[i].form = "gone" => segs'[i].form = "gone"
        /\ \A i \in DOMAIN segs' : IF i \in DOMAIN segs THEN segs'[i].form = "gone" => segs[i].form = "gone"
                                                        ELSE segs'[i].form # "gone"
    OBVIOUS
  <2>2. b[LastSource] <= b[LastSource'] /\ Len(segs) <= Len(segs') /\ \A i \in 0..Len(segs) : b[i] = b[i]
    BY <1>1, <1>2
  <2> QED
    BY <1>1, <2>1, <2>2, SavedStays
<1> QED
  BY <1>1, <1>3

LEMMA FoldStep ==
    ASSUME LedgerTypes, LedgerTypes', trouble = {}, Exact, Fold
    PROVE  Exact'
<1>1. PICK b \in Boundaries, m \in 0..MaxRecords : Core(b, m)
  BY DEF Exact
<1>2. Laid(b) /\ Saved(b, m) /\ Memory(b) /\ Quiet
  BY <1>1 DEF Core, Exact
<1>3. LastSource' = LastSource /\ Len(segs') = Len(segs) /\ b \in Boundaries' /\ Laid(b)' /\ Saved(b, m)'
  BY <1>2, DiskStays DEF Fold, ledgerFiles
<1>4. pending.rec = b[LastSource] /\ pending.off = off /\ b[LastSource] > 0 /\ closed = 0 /\ b[LastSource] \in Nat
  BY <1>2, SourcesTyped, BoundariesRise DEF Fold, Memory, Told
<1>5. count' = Upto(b[LastSource])
  <2>1. count = Upto(b[LastSource] - 1) /\ b[LastSource] - 1 \in Nat /\ {pending.rec} = (b[LastSource] - 1) + 1..b[LastSource]
    BY <1>2, <1>4 DEF Memory, Tallied, Fold
  <2>2. Folded(Upto(b[LastSource] - 1), {pending.rec}) = Upto(b[LastSource])
    <3>1. b[LastSource] - 1 <= b[LastSource]
      BY <1>4
    <3> QED
      BY <1>4, <2>1, <3>1, FoldedUpto
  <2> QED
    BY <2>1, <2>2 DEF Fold
<1>6. Memory(b)'
  <2>1. Tallied(b)'
    BY <1>3, <1>5 DEF Tallied, Fold, NoRecord, Upto
  <2>2. Told(b)' /\ Measured(b)'
    BY <1>2, <1>3 DEF Memory, Told, Measured, Fold, NoRecord, ledgerFiles
  <2>3. Pointed(b)'
    BY <1>3, <1>4 DEF Pointed, Fold, NoRecord, At, LedgerTypes
  <2> QED
    BY <2>1, <2>2, <2>3 DEF Memory
<1>7. Quiet'
  BY <1>2 DEF Quiet, Fold, ledgerFiles, days
<1> QED
  BY <1>3, <1>6, <1>7 DEF Exact, Core

LEMMA MidnightStep ==
    ASSUME LedgerTypes, LedgerTypes', trouble = {}, Exact, Midnight
    PROVE  Exact'
<1>1. PICK b \in Boundaries, m \in 0..MaxRecords : Core(b, m)
  BY DEF Exact
<1>2. Laid(b) /\ Saved(b, m) /\ Memory(b) /\ Quiet
  BY <1>1 DEF Core, Exact
<1>3. LastSource' = LastSource /\ Len(segs') = Len(segs) /\ b \in Boundaries' /\ Laid(b)' /\ Saved(b, m)'
  BY <1>2, DiskStays DEF Midnight
<1>4. Memory(b)'
  BY <1>2, <1>3 DEF Memory, Told, Tallied, Measured, Pointed, Midnight, counters, Upto, NoRecord
<1>5. Quiet'
  BY <1>2 DEF Quiet, Midnight, NoRecord
<1> QED
  BY <1>3, <1>4, <1>5 DEF Exact, Core

LEMMA QuietlyStep ==
    ASSUME LedgerTypes, LedgerTypes', trouble = {}, Exact, RotateQuietly
    PROVE  Exact'
<1>0. /\ up /\ pending = NoRecord /\ closed = 0 /\ live # <<>> /\ stale' = FALSE
      /\ up' = up /\ pending' = pending /\ roll' = roll /\ count' = count /\ cursor' = cursor
  BY DEF RotateQuietly, counters
<1>1. PICK b \in Boundaries, m \in 0..MaxRecords : Core(b, m)
  BY DEF Exact
<1>2. Laid(b) /\ Saved(b, m) /\ Memory(b) /\ Quiet
  BY <1>1 DEF Core, Exact
<1>3. /\ segs' = Append(segs, [recs |-> live, form |-> "plain"]) /\ live' = <<>>
      /\ \/ off' = 0 /\ first' = 0 /\ closed' = LastSource
         \/ off' = off /\ first' = first /\ closed' = 0
  <2>1. PICK r \in {Rotated, RotatedUnsynced} :
          segs' = r.segs /\ live' = r.live /\ off' = r.off /\ first' = r.first /\ closed' = r.into
    BY DEF RotateQuietly
  <2>2. CASE r = Rotated
    BY <2>1, <2>2 DEF Rotated, LastSource
  <2>3. CASE r = RotatedUnsynced
    BY <2>1, <2>3 DEF Rotated, RotatedUnsynced
  <2> QED
    BY <2>2, <2>3
<1>4. /\ Len(segs) \in Nat /\ DOMAIN segs = 1..Len(segs) /\ LastSource = Len(segs) + 1
      /\ b[LastSource] \in Nat /\ b[LastSource] \in 0..MaxRecords /\ DOMAIN segs' = 1..Len(segs')
  <2>1. DOMAIN segs' = 1..Len(segs')
    BY DEF LedgerTypes
  <2> QED
    BY <1>2, <2>1, SourcesTyped, DurableIs, LedgerAssumption DEF LastSource
<1>5. Holds(live', b[LastSource], b[LastSource])
  BY <1>3, <1>4 DEF Holds
<1>6. /\ LastSource' = LastSource + 1 /\ Len(segs') = LastSource
      /\ \E c \in Boundaries' : Laid(c)' /\ c[LastSource'] = b[LastSource] /\ \A i \in 0..LastSource : c[i] = b[i]
  BY <1>0, <1>2, <1>3, <1>4, <1>5, LiveCloses
<1>7. PICK c \in Boundaries' : Laid(c)' /\ c[LastSource'] = b[LastSource] /\ \A i \in 0..LastSource : c[i] = b[i]
  BY <1>6
<1>8. Saved(c, m)'
  <2>1. \A i \in DOMAIN segs' : IF i \in DOMAIN segs THEN segs'[i] = segs[i] ELSE segs'[i].form = "plain"
    BY <1>3, ClosedSegs
  <2>2. \A i \in DOMAIN segs : i \in DOMAIN segs'
    BY <1>4, <1>6
  <2>3. Len(segs) <= Len(segs') /\ \A i \in 0..Len(segs) : c[i] = b[i]
    BY <1>4, <1>6, <1>7
  <2>4. b[LastSource] <= c[LastSource']
    BY <1>4, <1>7
  <2> QED
    BY <1>0, <1>2, <1>7, <2>1, <2>2, <2>3, <2>4, SavedStays
<1>9. /\ first # 0 /\ (first - 1) + off = b[LastSource] /\ first <= b[Len(segs)] + 1
      /\ b[Len(segs)] <= b[LastSource] /\ b[Len(segs)] \in Nat
  BY <1>0, <1>2, LiveMeasured
<1>10. cursor.file = 0 /\ cursor.off = off /\ off \in Nat /\ first \in Nat
  BY <1>0, <1>2 DEF Memory, Pointed, LedgerTypes
<1>11. c[Len(segs')] = b[LastSource] /\ c[LastSource - 1] = b[Len(segs)] /\ c[LastSource] = b[LastSource]
  BY <1>4, <1>6, <1>7
<1>12. Told(c)' /\ Measured(c)'
  BY <1>0, <1>3, <1>4, <1>7, <1>9, <1>10, <1>11 DEF Told, Measured
<1>13. Tallied(c)'
  BY <1>0, <1>2, <1>7 DEF Memory, Tallied, NoRecord, Upto
<1>14. Pointed(c)'
  <2>1. CASE off' = 0 /\ first' = 0 /\ closed' = LastSource
    <3>1. b[LastSource] - b[Len(segs)] <= off
      BY <1>4, <1>9, <1>10
    <3> QED
      BY <1>0, <1>3, <1>4, <1>6, <1>10, <1>11, <2>1, <3>1 DEF Pointed, NoRecord
  <2>2. CASE off' = off /\ first' = first /\ closed' = 0
    BY <1>0, <1>3, <1>4, <1>6, <1>10, <2>2 DEF Pointed, NoRecord
  <2> QED
    BY <1>3, <2>1, <2>2
<1> QED
  BY <1>0, <1>7, <1>8, <1>12, <1>13, <1>14 DEF Exact, Core, Memory, Quiet

LEMMA NoteStep ==
    ASSUME LedgerTypes, LedgerTypes', trouble = {}, Exact, noteRotationLocked
    PROVE  Exact'
<1>1. PICK b \in Boundaries, m \in 0..MaxRecords : Core(b, m)
  BY DEF Exact
<1>2. Laid(b) /\ Saved(b, m) /\ Memory(b) /\ Quiet
  BY <1>1 DEF Core, Exact
<1>3. LastSource' = LastSource /\ Len(segs') = Len(segs) /\ b \in Boundaries' /\ Laid(b)' /\ Saved(b, m)'
  BY <1>2, DiskStays DEF noteRotationLocked, ledgerFiles
<1>4. Told(b)' /\ Tallied(b)' /\ Measured(b)' /\ Quiet'
  BY <1>2, <1>3 DEF Memory, Told, Tallied, Measured, Quiet, noteRotationLocked, ledgerFiles, days, Upto, NoRecord
<1>5. Pointed(b)'
  <2>1. closed = Len(segs) /\ live = <<>> /\ pending = NoRecord /\ closed # 0 /\ up /\ closed' = 0
    BY <1>2 DEF Memory, Pointed, noteRotationLocked
  <2>2. b[closed] = b[LastSource]
    <3>1. LastSource \in 1..LastSource /\ LastSource - 1 = Len(segs) /\ LastSource - 1 \in 0..LastSource /\ RecsOf(SourceAt(LastSource)) = live
      BY SourcesTyped DEF LastSource, SourceAt, RecsOf
    <3>2. Holds(live, b[LastSource - 1], b[LastSource]) /\ b[LastSource - 1] \in Nat /\ b[LastSource] \in Nat /\ Len(live) = 0
      BY <1>2, <2>1, <3>1, SourcesTyped, BoundariesRise DEF Laid
    <3> QED
      BY <2>1, <3>1, <3>2 DEF Holds
  <2>3. live' = <<>> /\ Len(segs) \in Nat
    BY <2>1, SourcesTyped DEF noteRotationLocked, ledgerFiles
  <2>4. pending' = NoRecord
    BY <2>1 DEF noteRotationLocked
  <2>5. CASE cursor.file = 0
    <3>1. b[closed] - b[closed - 1] <= cursor.off /\ cursor' = [file |-> closed, off |-> cursor.off]
      BY <1>2, <2>1, <2>5 DEF Memory, Pointed, noteRotationLocked, At
    <3> QED
      BY <1>3, <2>1, <2>2, <2>3, <2>4, <3>1 DEF Pointed
  <2>6. CASE cursor.file # 0
    <3>1. cursor' = cursor
      BY <2>6 DEF noteRotationLocked
    <3> QED
      BY <1>2, <1>3, <2>1, <2>3, <2>6, <2>4, <3>1 DEF Memory, Pointed
  <2> QED
    BY <2>5, <2>6
<1> QED
  BY <1>3, <1>4, <1>5 DEF Exact, Core, Memory

LEMMA SaveStep ==
    ASSUME LedgerTypes, LedgerTypes', trouble = {}, Exact, SaveRollup
    PROVE  Exact'
<1>0. /\ up /\ pending.into = 0 /\ closed = 0 /\ (cursor = Start => Record(count) = 0)
      /\ segs' = segs /\ live' = live
      /\ roll'.at = cursor /\ roll'.first = first /\ roll'.count = count
  BY DEF SaveRollup, MaySave, Untold
<1>1. PICK b \in Boundaries, m \in 0..MaxRecords : Core(b, m)
  BY DEF Exact
<1>2. Laid(b) /\ Saved(b, m) /\ Memory(b) /\ Quiet
  BY <1>1 DEF Core, Exact
<1>3. LastSource' = LastSource /\ Len(segs') = Len(segs) /\ b \in Boundaries' /\ Laid(b)'
  BY <1>0, <1>2, SameLayout
<1>4. Memory(b)' /\ Quiet'
  BY <1>2, <1>3 DEF Memory, Told, Tallied, Measured, Pointed, Quiet, SaveRollup, Upto, NoRecord
<1>5. b[LastSource] \in 0..MaxRecords /\ b[LastSource] \in Nat
  BY <1>2, DurableIs, SourcesTyped, BoundariesRise
<1>6. /\ off \in Nat /\ first \in Nat /\ cursor \in Position /\ LastSource = Len(segs) + 1
      /\ Len(segs) \in Nat /\ DOMAIN segs = 1..Len(segs)
  BY SourcesTyped DEF LedgerTypes, LastSource
(* What the saved counters hold: every record, or all but the one that is  *)
(* written and not folded.                                                 *)
<1>7. PICK e \in 0..MaxRecords :
          /\ count = Upto(e) /\ e <= b[LastSource] /\ cursor.file \in 0..Len(segs)
          /\ cursor.file = 0 /\ cursor.off # 0 => first # 0 /\ e = (first - 1) + cursor.off
          /\ cursor.file # 0 => e = b[cursor.file] /\ b[cursor.file] - b[cursor.file - 1] <= cursor.off
          /\ e = b[LastSource] \/ (e = b[LastSource] - 1 /\ live # <<>>)
  <2>1. CASE pending = NoRecord
    <3>1. /\ cursor.file \in 0..Len(segs)
          /\ cursor.file = 0 => cursor.off = off
          /\ cursor.file # 0 => b[cursor.file] = b[LastSource]
                                /\ b[cursor.file] - b[cursor.file - 1] <= cursor.off
      BY <1>0, <1>2, <2>1 DEF Memory, Pointed
    <3>2. cursor.file = 0 /\ cursor.off # 0 => first # 0 /\ b[LastSource] = (first - 1) + cursor.off
      BY <1>0, <1>2, <3>1 DEF Memory, Measured
    <3>3. count = Upto(b[LastSource])
      BY <1>0, <1>2, <2>1 DEF Memory, Tallied
    <3> QED
      BY <1>5, <3>1, <3>2, <3>3
  <2>2. CASE pending # NoRecord
    <3>1. /\ cursor.file \in 0..Len(segs)
          /\ cursor.file = 0 => cursor.off + 1 = off
          /\ cursor.file # 0 => b[cursor.file] = b[LastSource] - 1
                                /\ b[cursor.file] - b[cursor.file - 1] <= cursor.off
      BY <1>0, <1>2, <2>2 DEF Memory, Pointed
    <3>2. b[LastSource] > 0 /\ live # <<>>
      BY <1>0, <1>2, <2>2 DEF Memory, Told
    <3>3. first # 0 /\ (first - 1) + off = b[LastSource]
      BY <1>0, <1>2, <3>2 DEF Memory, Measured
    <3>4. cursor.file = 0 => b[LastSource] - 1 = (first - 1) + cursor.off
      BY <1>5, <1>6, <3>1, <3>3 DEF Position
    <3>5. count = Upto(b[LastSource] - 1)
      BY <1>0, <1>2, <2>2 DEF Memory, Tallied
    <3>6. b[LastSource] - 1 \in 0..MaxRecords /\ b[LastSource] - 1 <= b[LastSource]
      BY <1>5, <3>2, LedgerAssumption
    <3> QED
      BY <3>1, <3>2, <3>3, <3>4, <3>5, <3>6
  <2> QED
    BY <2>1, <2>2
<1>8. StandsFor(b, cursor, first, e)
  <2>1. ASSUME cursor.file = 0, cursor.off = 0 PROVE e = 0
    <3>1. cursor = Start
      BY <1>6, <2>1 DEF Position, Start, At
    <3> QED
      BY <1>0, <1>7, <3>1, RecordUpto
  <2> QED
    BY <1>7, <2>1 DEF StandsFor
<1>9. OldestGo(b, e)
  <2>1. ASSUME NEW i \in DOMAIN segs, segs[i].form = "gone" PROVE b[i] <= e
    <3>1. b[i] <= m /\ m <= b[LastSource] /\ m \in Nat
      BY <1>2, <2>1, LedgerAssumption DEF Saved, OldestGo, StandsFor
    <3>2. /\ i \in 0..LastSource /\ Len(segs) \in 0..LastSource /\ i <= Len(segs)
          /\ LastSource - 1 = Len(segs) /\ LastSource \in 1..LastSource
      BY <1>6
    <3>3. b[i] \in Nat /\ b[Len(segs)] \in Nat /\ b[i] <= b[Len(segs)]
      BY <1>2, <3>2, BoundariesRise
    <3>4. live # <<>> => b[Len(segs)] < b[LastSource]
      <4>1. Holds(live, b[Len(segs)], b[LastSource])
        BY <1>2, <3>2 DEF Laid, RecsOf, SourceAt
      <4>2. live # <<>> => Len(live) # 0 /\ Len(live) \in Nat
        BY DEF LedgerTypes
      <4> QED
        BY <1>5, <3>3, <4>1, <4>2 DEF Holds
    <3> QED
      BY <1>5, <1>7, <3>1, <3>3, <3>4
  <2> QED
    BY <1>2, <2>1 DEF Saved, OldestGo
<1>10. Saved(b, e)'
  <2>1. Upto(e)' = Upto(e)
    BY DEF Upto
  <2> QED
    BY <1>0, <1>3, <1>7, <1>8, <1>9, <2>1 DEF Saved, StandsFor, OldestGo
<1> QED
  BY <1>3, <1>4, <1>7, <1>10 DEF Exact, Core

LEMMA SaveFailsStep ==
    ASSUME LedgerTypes, LedgerTypes', trouble = {}, Exact, SaveFails
    PROVE  Exact'
<1>1. PICK b \in Boundaries, m \in 0..MaxRecords : Core(b, m)
  BY DEF Exact
<1>2. Laid(b) /\ Saved(b, m) /\ Memory(b) /\ Quiet
  BY <1>1 DEF Core, Exact
<1>3. roll'.at = roll.at /\ roll'.first = roll.first /\ roll'.count = roll.count
  BY DEF SaveFails, LedgerTypes
<1>4. LastSource' = LastSource /\ Len(segs') = Len(segs) /\ b \in Boundaries' /\ Laid(b)' /\ Saved(b, m)'
  BY <1>2, <1>3, DiskStays DEF SaveFails
<1>5. Memory(b)' /\ Quiet'
  BY <1>2, <1>4 DEF Memory, Told, Tallied, Measured, Pointed, Quiet, SaveFails, days, Upto, NoRecord
<1> QED
  BY <1>4, <1>5 DEF Exact, Core

LEMMA FormsStep ==
    ASSUME LedgerTypes, LedgerTypes', trouble = {}, Exact,
           NEW i \in DOMAIN segs, compressSegment(i)
    PROVE  Exact'
<1>1. PICK b \in Boundaries, m \in 0..MaxRecords : Core(b, m)
  BY DEF Exact
<1>2. Laid(b) /\ Saved(b, m) /\ Memory(b) /\ Quiet
  BY <1>1 DEF Core, Exact
<1>3. /\ DOMAIN segs' = DOMAIN segs /\ live' = live /\ roll' = roll
      /\ \A j \in DOMAIN segs : /\ segs'[j].recs = segs[j].recs
                                /\ segs'[j].form = "gone" <=> segs[j].form = "gone"
  <2>1. \A j \in DOMAIN segs : segs[j] \in Segment
    BY DEF LedgerTypes
  <2>2. PICK f \in {"both", "gz"} : segs' = [segs EXCEPT ![i].form = f] /\ segs[i].form # "gone"
    BY DEF compressSegment
  <2> QED
    BY <2>1, <2>2 DEF compressSegment, Segment
<1>4. LastSource' = LastSource /\ Len(segs') = Len(segs) /\ b \in Boundaries' /\ Laid(b)' /\ Saved(b, m)'
  BY <1>2, <1>3, DiskStays
<1>5. Memory(b)' /\ Quiet'
  BY <1>2, <1>4 DEF Memory, Told, Tallied, Measured, Pointed, Quiet, compressSegment, days, counters,
     Upto, NoRecord
<1> QED
  BY <1>4, <1>5 DEF Exact, Core

LEMMA RetireSegmentStep ==
    ASSUME LedgerTypes, LedgerTypes', trouble = {}, Exact,
           NEW i \in DOMAIN segs, Retire(i)
    PROVE  Exact'
<1>1. PICK b \in Boundaries, m \in 0..MaxRecords : Core(b, m)
  BY DEF Exact
<1>2. Laid(b) /\ Saved(b, m) /\ Memory(b) /\ Quiet
  BY <1>1 DEF Core, Exact
<1>3. /\ DOMAIN segs' = DOMAIN segs /\ live' = live /\ roll' = roll
      /\ \A j \in DOMAIN segs : /\ segs'[j].recs = segs[j].recs
                                /\ segs'[j].form = "gone" <=> (j = i \/ segs[j].form = "gone")
  <2>1. \A j \in DOMAIN segs : segs[j] \in Segment
    BY DEF LedgerTypes
  <2> QED
    BY <2>1 DEF Retire, Segment
<1>4. LastSource' = LastSource /\ Len(segs') = Len(segs) /\ b \in Boundaries' /\ Laid(b)'
  BY <1>2, <1>3, SameLayout
<1>5. Memory(b)' /\ Quiet'
  BY <1>2, <1>4 DEF Memory, Told, Tallied, Measured, Pointed, Quiet, Retire, days, counters, Upto, NoRecord
<1>6. DOMAIN segs = 1..Len(segs) /\ Len(segs) \in Nat /\ LastSource = Len(segs) + 1 /\ m \in Nat
  BY SourcesTyped, LedgerAssumption DEF LastSource
<1>7. b[i] <= m
  <2>1. i \in 1..LastSource /\ i - 1 \in 0..LastSource /\ i \in 0..LastSource /\ i - 1 < i /\ i < LastSource /\ SourceAt(i) = i /\ i # 0
    BY <1>6 DEF SourceAt
  <2>2. b[i - 1] < b[i] /\ b[i] \in Nat /\ b[i - 1] \in Nat /\ b[i] <= MaxRecords
    BY <1>2, <2>1, BoundariesRise DEF Laid
  <2>3. Held(segs[i].recs) = b[i - 1] + 1..b[i]
    BY <1>2, <2>1, HeldAt DEF RecsOf
  <2>4. b[i] \in Held(segs[i].recs) /\ b[i] \in Records
    BY <2>2, <2>3, LedgerAssumption DEF Records
  <2>5. Upto(m)[b[i]] > 0
    BY <1>2, <2>4 DEF Retire, Saved
  <2> QED
    BY <1>6, <2>2, <2>4, <2>5 DEF Upto
<1>8. \A j \in 1..i - 1 : segs[j].form = "gone"
  BY DEF Retire
<1>9. OldestGo(b, m)'
  <2>1. ASSUME NEW k \in DOMAIN segs, segs'[k].form = "gone"
        PROVE  b[k] <= m /\ \A j \in 1..k : segs'[j].form = "gone"
    <3>1. CASE k = i
      <4>1. ASSUME NEW j \in 1..i PROVE segs'[j].form = "gone"
        <5>1. j \in DOMAIN segs /\ (j = i \/ j \in 1..i - 1)
          BY <1>6
        <5> QED
          BY <1>3, <1>8, <5>1
      <4> QED
        BY <1>7, <3>1, <4>1
    <3>2. CASE k # i
      <4>1. segs[k].form = "gone"
        BY <1>3, <2>1, <3>2
      <4>2. b[k] <= m /\ \A j \in 1..k : segs[j].form = "gone"
        BY <1>2, <4>1 DEF Saved, OldestGo
      <4>3. \A j \in 1..k : j \in DOMAIN segs
        BY <1>6
      <4> QED
        BY <1>3, <4>2, <4>3
    <3> QED
      BY <3>1, <3>2
  <2> QED
    BY <1>3, <2>1 DEF OldestGo
<1>10. Saved(b, m)'
  BY <1>2, <1>3, <1>4, <1>9 DEF Saved, StandsFor, Upto
<1> QED
  BY <1>4, <1>5, <1>10 DEF Exact, Core

LEMMA KillStep ==
    ASSUME LedgerTypes, LedgerTypes', trouble = {}, Exact, LedgerKill
    PROVE  Exact'
<1>1. PICK b \in Boundaries, m \in 0..MaxRecords : Core(b, m)
  BY DEF Exact
<1>2. Laid(b) /\ Saved(b, m) /\ Memory(b) /\ Quiet
  BY <1>1 DEF Core, Exact
<1>3. roll'.at = roll.at /\ roll'.first = roll.first /\ roll'.count = roll.count
  BY DEF LedgerKill, LedgerTypes
<1>4. up' = FALSE /\ pending' = NoRecord /\ closed' = 0
  BY DEF LedgerKill
<1>5. \A c : Memory(c)'
  BY <1>4 DEF Memory, Told, Tallied, Measured, Pointed
<1>6. CASE segs' = segs /\ live' = live /\ stale' = stale
  <2>1. LastSource' = LastSource /\ b \in Boundaries' /\ Laid(b)' /\ Saved(b, m)'
    BY <1>2, <1>3, <1>6, DiskStays
  <2> QED
    BY <1>2, <1>4, <1>5, <1>6, <2>1 DEF Exact, Core, Quiet, NoRecord
<1>7. CASE stale /\ live # <<>> /\ segs' = Rotated.segs /\ live' = <<>> /\ stale' = FALSE
  <2>1. segs' = Append(segs, [recs |-> live, form |-> "plain"])
    BY <1>7 DEF Rotated
  <2>2. /\ Len(segs) \in Nat /\ DOMAIN segs = 1..Len(segs) /\ LastSource = Len(segs) + 1
        /\ b[LastSource] \in Nat /\ b[LastSource] \in 0..MaxRecords /\ DOMAIN segs' = 1..Len(segs')
    <3>1. DOMAIN segs' = 1..Len(segs')
      BY DEF LedgerTypes
    <3> QED
      BY <1>2, <3>1, SourcesTyped, DurableIs, LedgerAssumption DEF LastSource
  <2>3. Holds(live', b[LastSource], b[LastSource])
    BY <1>7, <2>2 DEF Holds
  <2>4. /\ LastSource' = LastSource + 1 /\ Len(segs') = LastSource
        /\ \E c \in Boundaries' : Laid(c)' /\ c[LastSource'] = b[LastSource] /\ \A i \in 0..LastSource : c[i] = b[i]
    BY <1>2, <1>7, <2>1, <2>2, <2>3, LiveCloses
  <2>5. PICK c \in Boundaries' : Laid(c)' /\ c[LastSource'] = b[LastSource] /\ \A i \in 0..LastSource : c[i] = b[i]
    BY <2>4
  <2>6. Saved(c, m)'
    <3>1. \A i \in DOMAIN segs' : IF i \in DOMAIN segs THEN segs'[i] = segs[i] ELSE segs'[i].form = "plain"
      BY <2>1, ClosedSegs
    <3>2. \A i \in DOMAIN segs : i \in DOMAIN segs'
      BY <2>2, <2>4
    <3>3. Len(segs) <= Len(segs') /\ \A i \in 0..Len(segs) : c[i] = b[i]
      BY <2>2, <2>4, <2>5
    <3>4. b[LastSource] <= c[LastSource']
      BY <2>2, <2>5
    <3> QED
      BY <1>2, <1>3, <2>5, <3>1, <3>2, <3>3, <3>4, SavedStays
  <2> QED
    BY <1>4, <1>5, <1>7, <2>5, <2>6 DEF Exact, Core, Quiet, NoRecord
<1> QED
  BY <1>6, <1>7 DEF LedgerKill

LEMMA NewStep ==
    ASSUME LedgerTypes, LedgerTypes', trouble = {}, Exact, New
    PROVE  Exact'
<1>0. /\ ~up /\ up' = TRUE /\ (Converts => ~Retired) /\ (roll.form = "spliced" => ~Retired)
      /\ live' = live /\ stale' = stale /\ pending' = pending /\ closed' = closed
      /\ roll' = Loaded /\ count' = Folded(Loaded.count, ToFold(Loaded))
      /\ cursor' = [file |-> 0, off |-> Len(live)] /\ off' = Len(live) /\ first' = FirstOfLive
  BY DEF New, days, At
<1>1. PICK b \in Boundaries, m \in 0..MaxRecords : Core(b, m)
  BY DEF Exact
<1>2. Laid(b) /\ Saved(b, m) /\ Memory(b) /\ Quiet
  BY <1>1 DEF Core, Exact
<1>3. pending' = NoRecord /\ closed' = 0
  BY <1>0, <1>2 DEF Quiet
<1>4. /\ DOMAIN segs' = DOMAIN segs
      /\ \A j \in DOMAIN segs : /\ segs'[j].recs = segs[j].recs
                                /\ segs'[j].form = "gone" <=> segs[j].form = "gone"
  <2>1. \A j \in DOMAIN segs : segs[j] \in Segment
    BY DEF LedgerTypes
  <2> QED
    BY <2>1 DEF New, Segment
<1>5. LastSource' = LastSource /\ Len(segs') = Len(segs) /\ b \in Boundaries' /\ Laid(b)'
  BY <1>0, <1>2, <1>4, SameLayout
<1>6. /\ Len(segs) \in Nat /\ DOMAIN segs = 1..Len(segs) /\ LastSource = Len(segs) + 1
      /\ b[LastSource] \in Nat /\ m \in Nat /\ 0 \in 0..MaxRecords
  BY <1>2, SourcesTyped, BoundariesRise, LedgerAssumption DEF LastSource
<1>7. PICK n \in 0..MaxRecords :
          Loaded.count = Upto(n) /\ StandsFor(b, Loaded.at, Loaded.first, n) /\ OldestGo(b, n)
  <2>1. CASE roll.form = "spliced"
    <3>1. Loaded = NoRoll /\ ~Retired
      BY <1>0, <2>1 DEF Loaded
    <3>2. Zero = Upto(0)
      BY DEF Zero, Upto, Records
    <3>3. StandsFor(b, Start, 0, 0) /\ OldestGo(b, 0)
      BY <1>6, <3>1 DEF StandsFor, Start, At, OldestGo, Retired
    <3> QED
      BY <1>6, <3>1, <3>2, <3>3 DEF NoRoll
  <2>2. CASE roll.form # "spliced"
    BY <1>2, <2>2 DEF Loaded, Saved
  <2> QED
    BY <2>1, <2>2
<1>8. Loaded \in RollType
  BY LoadedTyped DEF LedgerTypes, RollType
<1>9. ToFold(Loaded) = n + 1..b[LastSource]
  BY <1>0, <1>2, <1>7, <1>8, ToFoldIs DEF Converts
<1>10. count' = Upto(b[LastSource])
  <2>1. n \in Nat /\ n <= b[LastSource]
    BY <1>7, LedgerAssumption DEF StandsFor
  <2> QED
    <3>1. Folded(Upto(n), ToFold(Loaded)) = Upto(b[LastSource])
      BY <1>6, <1>9, <2>1, FoldedUpto
    <3> QED
      BY <1>0, <1>7, <3>1
<1>11. Saved(b, n)'
  <2>1. roll'.count = Upto(n)'
    BY <1>0, <1>7 DEF Upto
  <2>2. OldestGo(b, n)'
    <3>1. \A i \in DOMAIN segs : \A j \in 1..i : j \in DOMAIN segs
      BY <1>6
    <3> QED
      BY <1>4, <1>7, <3>1 DEF OldestGo
  <2> QED
    BY <1>0, <1>5, <1>7, <2>1, <2>2 DEF Saved, StandsFor
<1>12. Measured(b)'
  <2>1. LastSource \in 1..LastSource /\ LastSource - 1 = Len(segs) /\ LastSource - 1 \in 0..LastSource /\ RecsOf(SourceAt(LastSource)) = live
    BY <1>6 DEF SourceAt, RecsOf
  <2>2. Holds(live, b[Len(segs)], b[LastSource]) /\ b[Len(segs)] \in Nat
    BY <1>2, <2>1, BoundariesRise DEF Laid
  <2>3. CASE live = <<>>
    BY <1>0, <2>3 DEF Measured, FirstOfLive
  <2>4. CASE live # <<>>
    <3>1. 1 \in 1..Len(live) /\ Len(live) \in Nat
      BY SMTT(30), <2>4 DEF LedgerTypes
    <3>2. live[1] = b[Len(segs)] + 1 /\ Len(live) = b[LastSource] - b[Len(segs)]
      BY <2>2, <3>1 DEF Holds
    <3>3. first' = b[Len(segs)] + 1 /\ off' = b[LastSource] - b[Len(segs)]
      BY <1>0, <2>4, <3>2 DEF FirstOfLive
    <3>4. first' # 0 /\ (first' - 1) + off' = b[LastSource] /\ first' <= b[Len(segs)] + 1
      <4>1. \A x, y \in Nat : x + 1 # 0 /\ ((x + 1) - 1) + (y - x) = y /\ x + 1 <= x + 1
        OBVIOUS
      <4> QED
        BY <1>6, <2>2, <3>3, <4>1
    <3> QED
      BY <1>5, <3>4 DEF Measured
  <2> QED
    BY <2>3, <2>4
<1>13. Told(b)' /\ Tallied(b)' /\ Pointed(b)' /\ Quiet'
  <2>1. Tallied(b)'
    BY <1>3, <1>5, <1>10 DEF Tallied, Upto, NoRecord
  <2>2. Told(b)'
    BY <1>3 DEF Told, NoRecord
  <2>3. Pointed(b)'
    BY <1>0, <1>3, <1>5, <1>6 DEF Pointed
  <2>4. Quiet'
    BY <1>0, <1>2 DEF Quiet
  <2> QED
    BY <2>1, <2>2, <2>3, <2>4
<1> QED
  BY <1>5, <1>11, <1>12, <1>13 DEF Exact, Core, Memory

LEMMA LedgerInitExact == LedgerInit => LedgerInv
<1> SUFFICES ASSUME LedgerInit PROVE LedgerInv
  OBVIOUS
<1>1. LedgerTypes
  BY LedgerInitTyped
<1>2. LastSource = 1 /\ segs = <<>> /\ live = <<>> /\ Len(segs) = 0 /\ DOMAIN segs = {}
  BY DEF LedgerInit, LastSource
<1> PICK b : b = [i \in 0..1 |-> 0]
  OBVIOUS
<1>3. b \in Boundaries /\ 0 \in 0..MaxRecords /\ b[0] = 0 /\ b[1] = 0 /\ b[LastSource] = 0
  BY <1>2, LedgerAssumption DEF Boundaries
<1>4. Laid(b)
  <2>1. ASSUME NEW i \in 1..LastSource PROVE Holds(RecsOf(SourceAt(i)), b[i - 1], b[i])
    BY <1>2, <1>3 DEF Holds, RecsOf, SourceAt
  <2>2. ASSUME NEW i \in 0..LastSource, NEW j \in 0..LastSource, i < j
        PROVE  b[i] <= b[j] /\ (j < LastSource => b[i] < b[j])
    <3>1. i = 0 /\ j = 1
      BY <1>2, <2>2
    <3> QED
      BY <1>2, <1>3, <3>1
  <2> QED
    BY <1>3, <2>1, <2>2 DEF Laid
<1>5. Saved(b, 0)
  <2>1. Zero = Upto(0)
    BY DEF Zero, Upto, Records
  <2> QED
    BY <1>2, <1>3, <2>1 DEF LedgerInit, NoRoll, Saved, StandsFor, OldestGo, Start, At
<1>6. Memory(b) /\ Quiet
  BY DEF LedgerInit, Memory, Told, Tallied, Measured, Pointed, Quiet
<1> QED
  BY <1>1, <1>3, <1>4, <1>5, <1>6 DEF LedgerInv, Exact, Core

LEMMA LedgerStep == LedgerInv /\ [LedgerNext]_ledgerVars => LedgerInv'
<1> SUFFICES ASSUME LedgerInv, [LedgerNext]_ledgerVars PROVE LedgerInv'
  OBVIOUS
<1>1. CASE LedgerNext
  <2>1. LedgerTypes /\ LedgerTypes'
    BY <1>1, LedgerTypesStep DEF LedgerInv
  <2>2. trouble' = trouble
    BY <1>1 DEF LedgerNext, AppendAt, Fold, Midnight, RotateQuietly, noteRotationLocked, SaveRollup,
       SaveFails, LedgerKill, New, compressSegment, Retire
  <2>3. ASSUME trouble = {} PROVE Exact'
    <3>1. Exact
      BY <2>3 DEF LedgerInv
    <3> QED
      BY <1>1, <2>1, <2>3, <3>1, AppendStep, FoldStep, MidnightStep, QuietlyStep, NoteStep, SaveStep,
         SaveFailsStep, KillStep, NewStep, FormsStep, RetireSegmentStep DEF LedgerNext
  <2> QED
    BY <2>1, <2>2, <2>3 DEF LedgerInv
<1>2. CASE UNCHANGED ledgerVars
  <2>1. /\ trouble' = trouble /\ segs' = segs /\ live' = live /\ stale' = stale /\ roll' = roll
        /\ up' = up /\ off' = off /\ first' = first /\ cursor' = cursor /\ count' = count
        /\ pending' = pending /\ closed' = closed
    BY <1>2 DEF ledgerVars, ledgerFiles, days, counters
  <2>2. LedgerTypes'
    BY <2>1 DEF LedgerInv, LedgerTypes
  <2>3. ASSUME trouble = {} PROVE Exact'
    <3>1. PICK b \in Boundaries, m \in 0..MaxRecords : Core(b, m)
      BY <2>3 DEF Exact, LedgerInv
    <3>2. LastSource' = LastSource /\ b \in Boundaries' /\ Laid(b)' /\ Saved(b, m)'
      BY <2>1, <2>2, <3>1, DiskStays DEF Core, LedgerInv
    <3>3. Memory(b)' /\ Quiet'
      BY <2>1, <2>3, <3>1, <3>2 DEF Core, Memory, Told, Tallied, Measured, Pointed, Quiet, Exact,
         LedgerInv, Upto, NoRecord
    <3> QED
      BY <3>2, <3>3 DEF Exact, Core
  <2> QED
    BY <2>1, <2>2, <2>3 DEF LedgerInv
<1> QED
  BY <1>1, <1>2

(* What is counted once: in the invariant's terms, every record up to the   *)
(* last, less the one in hand.                                             *)
LEMMA LedgerInvCounts == LedgerInv => CountedOnce
<1> SUFFICES ASSUME LedgerInv, trouble = {}, up, NEW r \in Durable \ {pending.rec}
             PROVE  count[r] = 1
  BY DEF CountedOnce
<1>1. PICK b \in Boundaries, m \in 0..MaxRecords : Core(b, m)
  BY DEF LedgerInv, Exact
<1>2. Laid(b) /\ Memory(b) /\ LedgerTypes
  BY <1>1 DEF Core, LedgerInv
<1>3. Durable = 1..b[LastSource] /\ b[LastSource] \in 0..MaxRecords
  BY <1>2, DurableIs
<1>4. r \in Records /\ r \in Nat /\ r <= b[LastSource] /\ b[LastSource] \in Nat
  BY <1>3, LedgerAssumption DEF Records
<1>5. CASE pending = NoRecord
  BY <1>2, <1>4, <1>5 DEF Memory, Tallied, Upto
<1>6. CASE pending # NoRecord
  <2>1. pending.rec = b[LastSource] /\ r <= b[LastSource] - 1
    BY <1>2, <1>4, <1>6 DEF Memory, Told
  <2> QED
    BY <1>2, <1>4, <1>6, <2>1 DEF Memory, Tallied, Upto
<1> QED
  BY <1>5, <1>6

(* Every durable record is counted once, whatever number of records and of *)
(* kills, at whatever steps: appends, rotations told and untold, saves cut  *)
(* short, compressions, retirements and the replay of the next start.      *)
THEOREM EveryRecordOnce == LedgerSpec => []CountedOnce
<1>1. LedgerInit => LedgerInv
  BY LedgerInitExact
<1>2. LedgerInv /\ [LedgerNext]_ledgerVars => LedgerInv'
  BY LedgerStep
<1>3. LedgerInv => CountedOnce
  BY LedgerInvCounts
<1> QED
  BY <1>1, <1>2, <1>3, PTL DEF LedgerSpec
=============================================================================
