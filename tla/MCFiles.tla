------------------------------ MODULE MCFiles ------------------------------
(***************************************************************************)
(* What is kept on a disk, or rebuilt from one: the sidecar's custody      *)
(* journal, the archive's population and brain histories and its duplicate *)
(* set, each in all its behaviours while the others stand still; a         *)
(* behaviour is one part's, chosen at the start.                           *)
(***************************************************************************)
EXTENDS Journal, MetricsHistory, BrainHistory, Crossings, DedupShard, TLC

CONSTANTS n1, n2   \* two migrations in the journal, and the two worlds of a crossing

FilesSymmetry == Permutations({n1, n2})

(* Disks under the journal: the worse they are, the shorter the log. *)
ShortWrites == {"short_write"}
FailedSyncs == {"short_write", "sync_error"}
FailedDirSyncs == {"short_write", "dirsync_error"}
FailedRepairs == {"short_write", "truncate_error", "sync_error"}
WithAReader == {"reader"}

Disks == {ShortWrites, FailedSyncs, FailedDirSyncs, FailedRepairs, WithAReader}
Lines == [F \in Disks |->
            CASE F = ShortWrites -> 5 [] F = FailedSyncs -> 4 [] F = FailedRepairs -> 3
              [] F = FailedDirSyncs -> 2 [] F = WithAReader -> 1]

(* Disks under the brain history: one that is whole, and one that is not. *)
WholeAndNot == {{}, {"short_write", "torn_kill", "dirsync_error"}}

(* Fingerprints that collide in a table of 4, of 8 and of 16, and 0. *)
Colliding == {<<0, 0>>, <<0, 1>>, <<4, 0>>, <<8, 0>>, <<3, 0>>, <<7, 0>>, <<11, 1>>, <<3, 1>>}

VARIABLE part

histories == <<metricsVars, brainVars>>
duplicates == <<crossingsVars, shardVars>>
filesVars == <<part, journalVars, histories, duplicates>>

(* A part that stands still does so in one of its initial states. *)
FilesInit ==
    /\ part \in {"journal", "metrics", "brains", "window", "crossings", "shard"}
    /\ JournalInit /\ MetricsInit /\ BrainInit /\ CrossingsInit /\ ShardInit
    /\ part # "journal" => faults = WithAReader
    /\ part # "brains" => brainFaults = {}

HistoriesNext ==
    \/ part = "metrics" /\ MetricsNext /\ UNCHANGED brainVars
    \/ part = "brains" /\ BrainNext /\ UNCHANGED metricsVars

(* The window alone, with two keys and a clock that outlasts it; and with   *)
(* the copies of a migration, which come a window later if it was offered   *)
(* once.                                                                    *)
TwoKeys == {<<"MIGRATION", "", 0>>, <<"ACK", "", 0>>}
OnTwoKeys == \A k \in Key \ TwoKeys : k \notin win'.cur /\ recorded'[k] = Never

DuplicatesNext ==
    \/ part = "window" /\ DedupNext /\ OnTwoKeys /\ UNCHANGED <<hopVars, worldVars, shardVars>>
    \/ part = "crossings" /\ CrossingsNext /\ UNCHANGED shardVars
       /\ clock' <= IF Len(offers') < 2 THEN Span + 1 ELSE 1
    \/ part = "shard" /\ ShardNext /\ UNCHANGED crossingsVars

FilesNext ==
    /\ UNCHANGED part
    /\ \/ part = "journal" /\ JournalNext /\ UNCHANGED <<histories, duplicates>>
       \/ HistoriesNext /\ UNCHANGED <<journalVars, duplicates>>
       \/ DuplicatesNext /\ UNCHANGED <<journalVars, histories>>

FilesSpec == FilesInit /\ [][FilesNext]_filesVars
=============================================================================
