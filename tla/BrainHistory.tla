---------------------------- MODULE BrainHistory ----------------------------
(***************************************************************************)
(* The archive's brain history: how many genomes were measured in each     *)
(* five minutes, kept in memory, appended to brains.jsonl by a save,       *)
(* rewritten by a compaction, and replayed at a start.                     *)
(*                                                                         *)
(* Sources: src/go/internal/archive/brainhist.go (mark, observeBrainSeen,  *)
(* observeBrainHeld), brainsave.go; archive.go (onMigration,               *)
(* onGenomeResponse, the save on the tick).                                *)
(*                                                                         *)
(* The measurements of a bucket are their number.  Which genomes crossed   *)
(* in it is the roll-up's to keep (Ledger), and so is which are wanted     *)
(* (Gaps): both outlive the process here.  A species' record is saved with *)
(* the buckets and in the same way.                                        *)
(***************************************************************************)
EXTENDS Integers, Sequences, SequencesExt, FiniteSets

CONSTANTS
    Measured,      \* the genomes that cross
    BrainDisks,    \* what can go wrong, in each run
    MaxBuckets, MaxBrainLines, MaxBrainKills  \* bounds

ASSUME BrainAssumption ==
    /\ \A F \in BrainDisks : F \subseteq {"short_write", "torn_kill", "dirsync_error"}
    /\ IsFiniteSet(Measured) /\ MaxBuckets \in Nat \ {0}
    /\ MaxBrainLines \in Nat /\ MaxBrainKills \in Nat

Bucket == 1..MaxBuckets

VARIABLES
    brainFaults,   \* what can go wrong: never changes
    nowBucket,     \* the five minutes it is: g.frontier
    crossed,       \* <<bucket, genome>>: what is seen, bit 1
    wantedIn,      \* the bucket of a genome's pending fetch, 0 for none
    blobs,         \* the genomes the archive holds
    heldIn,        \* of each bucket, how many were measured into it
    marked,        \* bit 2 of g.dedup
    dirtyBuckets,
    brainLines,    \* brains.jsonl behind its header
    orphan,        \* the handle is open on a file the path no longer names
    saver,         \* down, idle, writing, compacting
    toWrite,       \* the lines being written
    savedIn,       \* what saves that succeeded have written of each bucket
    startedIn,     \* the bucket of the last start
    brainKills

factVars == <<brainFaults, nowBucket, crossed, wantedIn, blobs>>
aggVars == <<heldIn, marked, dirtyBuckets>>
saveVars == <<brainLines, orphan, saver, toWrite, savedIn, startedIn, brainKills>>
brainVars == <<factVars, aggVars, saveVars>>

TornLine == [t |-> 0, held |-> 0]   \* no newline yet
BrokenLine == [t |-> -1, held |-> 0]
bucketLine(b, h) == [t |-> b, held |-> h[b]]
LinesOf(S, h) == [k \in 1..Cardinality(S) |-> bucketLine(SetToSeq(S)[k], h)]

-----------------------------------------------------------------------------
(* What is appended after a torn tail makes one line with it. *)
AppendLines(f, ls) ==
    IF f = <<>> \/ ls = <<>> \/ Last(f) # TornLine THEN f \o ls
    ELSE Front(f) \o <<IF Head(ls) = TornLine THEN TornLine ELSE BrokenLine>> \o Tail(ls)

(* A write that stops early: some of its lines, and part of the next. *)
Partial(ls) == {SubSeq(ls, 1, k) \o <<TornLine>> : k \in 0..Len(ls) - 1}

(* A last line that does not parse is dropped; one before it refuses the file. *)
Broken(f) == {k \in DOMAIN f : f[k] \in {TornLine, BrokenLine}}
UsableBrains(f) == Broken(f) \subseteq {Len(f)}

(* The last line of a bucket replaces the earlier ones. *)
ReplayBrains(f) ==
    [b \in Bucket |->
       LET at == {k \in DOMAIN f \ Broken(f) : f[k].t = b}
       IN  IF at = {} THEN 0 ELSE f[CHOOSE k \in at : \A j \in at : j <= k].held]

-----------------------------------------------------------------------------
BrainInit ==
    /\ brainFaults \in BrainDisks
    /\ nowBucket = 1 /\ crossed = {} /\ wantedIn = [g \in Measured |-> 0] /\ blobs = {}
    /\ heldIn = [b \in Bucket |-> 0] /\ marked = {} /\ dirtyBuckets = {}
    /\ brainLines = <<>> /\ orphan = FALSE /\ saver = "idle" /\ toWrite = <<>>
    /\ savedIn = [b \in Bucket |-> 0] /\ startedIn = 0 /\ brainKills = 0

Recording == saver # "down"

BucketEnds ==
    /\ nowBucket < MaxBuckets /\ nowBucket' = nowBucket + 1
    /\ UNCHANGED <<brainFaults, crossed, wantedIn, blobs, aggVars, saveVars>>

(* Mutant: a genome is measured at every crossing of it. *)
observeBrainHeldAgain(b, g) ==
    /\ marked' = marked \cup {<<b, g>>}
    /\ heldIn' = [heldIn EXCEPT ![b] = @ + 1] /\ dirtyBuckets' = dirtyBuckets \cup {b}

(* A genome is measured once in a bucket, as the process remembers it. *)
observeBrainHeld(b, g) ==
    IF <<b, g>> \in marked THEN UNCHANGED aggVars
    ELSE /\ marked' = marked \cup {<<b, g>>}
         /\ heldIn' = [heldIn EXCEPT ![b] = @ + 1] /\ dirtyBuckets' = dirtyBuckets \cup {b}

(* A crossing of a genome the archive holds is measured; of another, fetched. *)
CrossesAgain(g) ==
    /\ Recording /\ crossed' = crossed \cup {<<nowBucket, g>>}
    /\ IF g \in blobs THEN observeBrainHeld(nowBucket, g) /\ UNCHANGED wantedIn
       ELSE /\ wantedIn' = [wantedIn EXCEPT ![g] = IF @ = 0 THEN nowBucket ELSE @]
            /\ UNCHANGED aggVars
    /\ UNCHANGED <<brainFaults, nowBucket, blobs, saveVars>>

(* The fetch is answered: measured in the bucket of the crossing it was for. *)
GenomeArrives(g) ==
    /\ Recording /\ wantedIn[g] > 0
    /\ blobs' = blobs \cup {g} /\ wantedIn' = [wantedIn EXCEPT ![g] = 0]
    /\ observeBrainHeld(wantedIn[g], g)
    /\ UNCHANGED <<brainFaults, nowBucket, crossed, saveVars>>

-----------------------------------------------------------------------------
(* A save takes what is dirty, and forgets that it was, before it writes. *)
SaveBrains ==
    /\ saver = "idle" /\ dirtyBuckets # {} /\ Len(brainLines) < MaxBrainLines
    /\ saver' = "writing" /\ toWrite' = LinesOf(dirtyBuckets, heldIn) /\ dirtyBuckets' = {}
    /\ UNCHANGED <<factVars, heldIn, marked, brainLines, orphan, savedIn, startedIn, brainKills>>

OnPath(ls) == IF orphan THEN brainLines ELSE AppendLines(brainLines, ls)
SavedWith(ls) == [b \in Bucket |-> IF \E k \in DOMAIN ls : ls[k].t = b
                                   THEN ls[CHOOSE k \in DOMAIN ls : ls[k].t = b].held ELSE savedIn[b]]

(* Written and synced; a file that has grown past its worth is compacted. *)
WriteLands ==
    /\ saver = "writing" /\ toWrite # <<>>
    /\ brainLines' = OnPath(toWrite) /\ savedIn' = SavedWith(toWrite)
    /\ toWrite' = <<>> /\ saver' \in {"idle", "compacting"}
    /\ UNCHANGED <<factVars, aggVars, orphan, startedIn, brainKills>>

(* The volume is full: part of it lands, and the error is logged. *)
WriteStops ==
    /\ saver = "writing" /\ "short_write" \in brainFaults
    /\ \E ls \in Partial(toWrite) : brainLines' = OnPath(ls)
    /\ toWrite' = <<>> /\ saver' = "idle"
    /\ UNCHANGED <<factVars, aggVars, orphan, savedIn, startedIn, brainKills>>

(* Mutant: only what is dirty is rewritten. *)
LiveBucketsDirty == dirtyBuckets

(* The live set a compaction copies; what was marked since the save goes with it. *)
LiveBuckets == {b \in Bucket : heldIn[b] > 0}
BeginRewrite ==
    /\ saver = "compacting" /\ toWrite = <<>> /\ LiveBuckets # {}
    /\ toWrite' = LinesOf(LiveBuckets, heldIn) /\ dirtyBuckets' = {}
    /\ UNCHANGED <<factVars, heldIn, marked, brainLines, orphan, saver, savedIn, startedIn, brainKills>>

RenameInPlace ==
    /\ saver = "compacting" /\ toWrite # <<>>
    /\ brainLines' = toWrite /\ savedIn' = SavedWith(toWrite) /\ orphan' = FALSE
    /\ toWrite' = <<>> /\ saver' = "idle"
    /\ UNCHANGED <<factVars, aggVars, startedIn, brainKills>>

(* The rename stands and its directory sync fails: the handle is not reopened. *)
RenameUnsyncedDir ==
    /\ saver = "compacting" /\ toWrite # <<>> /\ "dirsync_error" \in brainFaults
    /\ brainLines' = toWrite /\ orphan' = TRUE
    /\ toWrite' = <<>> /\ saver' = "idle"
    /\ UNCHANGED <<factVars, aggVars, savedIn, startedIn, brainKills>>

-----------------------------------------------------------------------------
(* The process dies, in the middle of a write too. *)
KillBrain ==
    /\ Recording /\ brainKills < MaxBrainKills /\ brainKills' = brainKills + 1
    /\ \/ UNCHANGED brainLines
       \/ /\ saver = "writing" /\ "torn_kill" \in brainFaults
          /\ \E ls \in Partial(toWrite) : brainLines' = OnPath(ls)
    /\ saver' = "down" /\ toWrite' = <<>> /\ orphan' = FALSE
    /\ heldIn' = [b \in Bucket |-> 0] /\ marked' = {} /\ dirtyBuckets' = {}
    /\ UNCHANGED <<factVars, savedIn, startedIn>>

(* A file that cannot be used is set aside; the one that can is kept as it is, *)
(* its torn tail too.                                                          *)
openBrainSidecar ==
    /\ saver = "down" /\ saver' = "idle" /\ startedIn' = nowBucket
    /\ IF UsableBrains(brainLines)
       THEN heldIn' = ReplayBrains(brainLines) /\ UNCHANGED brainLines
       ELSE heldIn' = [b \in Bucket |-> 0] /\ brainLines' = <<>>
    /\ UNCHANGED <<factVars, marked, dirtyBuckets, orphan, toWrite, savedIn, brainKills>>

BrainNext ==
    \/ BucketEnds \/ \E g \in Measured : CrossesAgain(g) \/ GenomeArrives(g)
    \/ SaveBrains \/ WriteLands \/ WriteStops \/ BeginRewrite \/ RenameInPlace \/ RenameUnsyncedDir
    \/ KillBrain \/ openBrainSidecar

BrainSpec == BrainInit /\ [][BrainNext]_brainVars

-----------------------------------------------------------------------------
BrainTypeOK ==
    /\ nowBucket \in Bucket /\ crossed \subseteq Bucket \X Measured /\ marked \subseteq Bucket \X Measured
    /\ wantedIn \in [Measured -> 0..MaxBuckets] /\ blobs \subseteq Measured
    /\ heldIn \in [Bucket -> Nat] /\ savedIn \in [Bucket -> Nat] /\ dirtyBuckets \subseteq Bucket
    /\ saver \in {"down", "idle", "writing", "compacting"}

(* What a hard kill loses is half a minute of arrivals: a measurement a save *)
(* has written is in the history after every later start (brainSaveInterval, *)
(* Save, compactLocked, replay).                                             *)
KillLosesLittle == saver # "down" => \A b \in Bucket : heldIn[b] >= savedIn[b]

(* "held is a subset of seen by construction": as far as the process has     *)
(* seen the whole bucket (observeBrainHeld, mark).                           *)
HeldWithinSeen ==
    \A b \in Bucket : b > startedIn => heldIn[b] <= Cardinality({g \in Measured : <<b, g>> \in crossed})

(* Both, on a disk whose writes are whole and whose directory syncs. *)
MeasurementsKept == brainFaults = {} => KillLosesLittle /\ HeldWithinSeen
=============================================================================
