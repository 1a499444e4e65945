------------------------------ MODULE Journal ------------------------------
(***************************************************************************)
(* The durable custody journal of one sidecar (src/go/internal/journal):   *)
(* an append-only log of create / status / purge records, the state the    *)
(* records replay to, the rewrite ("compaction") that keeps only the live  *)
(* states, and the disk that can fail or lose power under each of them.    *)
(*                                                                         *)
(* A line of the log is a record, or Torn (a partial line with no newline  *)
(* yet), or Bad (an unparsable line that is newline terminated).  The state *)
(* of an entry is abstracted to the fields custody decisions read.          *)
(* j.mu is held for the whole of every method, so one method runs at a time *)
(* and only a crash or another process can come between its disk steps.     *)
(***************************************************************************)
EXTENDS Naturals, Sequences, SequencesExt

CONSTANTS
    Ids,        \* migrationIds
    FaultSets,  \* the disks there are: which faults happen, besides a crash
    MaxLines    \* bound, for each: no append starts at a log of this many lines

FaultKinds == {"short_write", "truncate_error", "sync_error",
               "dirsync_error", "reader"}

ASSUME FaultsAssumption == FaultSets \subseteq SUBSET FaultKinds
ASSUME MaxLinesAssumption == \A F \in FaultSets : MaxLines[F] \in Nat

VARIABLES
    faults,   \* what can go wrong on this disk: never changes
    file,     \* journal.log: the lines of the file the path names
    synced,   \* how many lines of file an fsync has made durable
    old,      \* what a crash can bring back: files a rename replaced whose
              \* directory entry no sync has retired
    phase,    \* where the owning process is
    starting, \* Open is still running (there is no append handle yet)
    refusing, \* j.closed while the process runs: every write is refused
    mem,      \* j.states, in journal order
    reported, \* what callers were last told is durable (survives a crash)
    rec,      \* the record an append is writing
    reader    \* an OpenReadOnly in another process: lines it replayed

journalVars == <<faults, file, synced, old, phase, starting, refusing, mem, reported, rec, reader>>

-----------------------------------------------------------------------------
(* Records and the states they build. *)

Directions == {"out", "in"}
Statuses   == {"open", "in_flight", "done"}
Handoffs   == {"none", "pending", "sent", "refused", "done", "lost"}
Keep       == "keep"      \* a status record's field that is absent
Torn       == [op |-> "torn"]
Bad        == [op |-> "bad"]

Entry == [id : Ids, dir : Directions, status : Statuses,
          handoff : Handoffs, acked : {"yes", "no"}]

CreateRec(i, d) == [op |-> "create", id |-> i, dir |-> d]

StatusRec(i, d, s, h, a) ==
    [op |-> "status", id |-> i, dir |-> d, status |-> s, handoff |-> h, acked |-> a]

PurgeRec(i) == [op |-> "purge", id |-> i]

NoRec == [op |-> "none"]

(* The updates the sidecar's custody code writes to an entry in state e. *)
Updates(e) ==
    LET U(d, s, h, a) == StatusRec(e.id, d, s, h, a)
    IN  CASE e.dir = "out" /\ e.status # "done" ->
               { U(Keep, "in_flight", "sent", Keep),   \* forwardLocked
                 U(Keep, Keep, "refused", Keep),       \* markRefusedLocked
                 U(Keep, Keep, "pending", Keep),       \* rerouteLocked
                 U("in", "open", "done", Keep),        \* bounceLocked
                 U(Keep, "done", "lost", Keep),        \* loseLocked
                 U(Keep, "done", "done", "yes") }      \* onMigrationAck
          [] e.dir = "in" /\ e.status # "done" ->
               { U(Keep, "in_flight", Keep, Keep),     \* deliverLocked
                 U(Keep, "done", Keep, Keep) }         \* onMigrateInAck
          [] e.dir = "in" /\ e.status = "done" ->
               { U(Keep, Keep, Keep, "yes") }          \* ackUpstreamLocked
          [] OTHER -> {}

Known(st, i) == \E k \in DOMAIN st : st[k].id = i

Place(st, i) == CHOOSE k \in DOMAIN st : st[k].id = i
Get(st, i) == st[Place(st, i)]

Set(x, keepOld) == IF x = Keep THEN keepOld ELSE x

(* A status record overwrites the fields it carries; an outbound in_flight *)
(* with no handoff field is a pre-M4 record and means "sent".              *)
Merged(e, r) ==
    LET d == Set(r.dir, e.dir)
        h == IF r.handoff # Keep THEN r.handoff
             ELSE IF d = "out" /\ r.status = "in_flight" /\ e.handoff = "pending"
                  THEN "sent" ELSE e.handoff
    IN  [e EXCEPT !.dir = d, !.status = Set(r.status, e.status),
                  !.handoff = h, !.acked = Set(r.acked, e.acked)]

Created(r) ==
    [id |-> r.id, dir |-> r.dir, status |-> "open",
     handoff |-> IF r.dir = "out" THEN "pending" ELSE "none", acked |-> "no"]

Without(st, i) == IF Known(st, i) THEN RemoveAt(st, Place(st, i)) ELSE st

ApplyRec(st, r) ==
    CASE r.op = "create" -> Append(Without(st, r.id), Created(r))
      [] r.op = "purge"  -> Without(st, r.id)
      [] r.op = "status" -> [k \in DOMAIN st |->
                               IF st[k].id = r.id THEN Merged(st[k], r) ELSE st[k]]
      [] OTHER           -> st

(* Replay reads records up to the first line that does not parse. *)
Parses(line) == line \notin {Torn, Bad}

GoodLines(f) ==
    LET bad == {k \in DOMAIN f : ~Parses(f[k])}
    IN  IF bad = {} THEN Len(f) ELSE (CHOOSE k \in bad : \A j \in bad : k <= j) - 1

GoodPrefix(f) == SubSeq(f, 1, GoodLines(f))

(* The state after each line; what does not parse changes nothing. *)
ReplayStates(f) ==
    LET state[n \in 0..Len(f)] == IF n = 0 THEN <<>> ELSE ApplyRec(state[n - 1], f[n])
    IN  state

Replay(f) == ReplayStates(f)[GoodLines(f)]

(* compact() writes one create and one full status record per live state. *)
FullStatus(e) ==
    StatusRec(e.id, e.dir, e.status, IF e.handoff = "none" THEN Keep ELSE e.handoff, e.acked)

Compacted(st) ==
    [n \in 1..2 * Len(st) |->
        LET e == st[(n + 1) \div 2]
        IN  IF n % 2 = 1 THEN CreateRec(e.id, e.dir) ELSE FullStatus(e)]

(* A write lands after whatever the file ends with; after a torn tail the *)
(* two make one unparsable line.                                          *)
Written(f, line) ==
    IF f # <<>> /\ Last(f) = Torn
    THEN Append(Front(f), IF line = Torn THEN Torn ELSE Bad)
    ELSE Append(f, line)

(* What a power cut can leave of a file whose first n lines are synced. *)
CutImages(f, n) ==
    UNION { { SubSeq(f, 1, k) } \cup
            (IF k < Len(f) THEN { Append(SubSeq(f, 1, k), Torn) } ELSE {})
            : k \in n..Len(f) }

(* A rename is not durable before the directory is synced: until then a *)
(* crash can also leave the file it replaced.                            *)
CrashImages == CutImages(file, synced) \cup old

-----------------------------------------------------------------------------
Phases == {"down", "idle", "written", "scratch", "detached", "renamed"}

JournalTypeOK ==
    /\ faults \in FaultSets
    /\ \A k \in DOMAIN file : file[k].op \in {"create", "status", "purge", "torn", "bad"}
    /\ synced \in 0..Len(file)
    /\ phase \in Phases
    /\ starting \in BOOLEAN /\ refusing \in BOOLEAN
    /\ \A k \in DOMAIN mem : mem[k] \in Entry
    /\ \A k \in DOMAIN reported : reported[k] \in Entry
    /\ reader \in {-1} \cup Nat

JournalInit ==
    /\ faults \in FaultSets
    /\ file = <<>> /\ synced = 0 /\ old = {}
    /\ phase = "down" /\ starting = FALSE /\ refusing = FALSE
    /\ mem = <<>> /\ reported = <<>> /\ rec = NoRec
    /\ reader = -1

-----------------------------------------------------------------------------
(* Appending: Create, Apply and PurgeExpired hand one record to append. *)

Ready == phase = "idle" /\ ~refusing /\ Len(file) < MaxLines[faults]

(* The bytes reach the file; the fsync is still to come. *)
BeginAppend(r) ==
    /\ Ready
    /\ file' = Written(file, r)
    /\ rec' = r
    /\ phase' = "written"
    /\ UNCHANGED <<faults, synced, old, starting, refusing, mem, reported, reader>>

(* Mutant: a failed append leaves its bytes behind. *)
ShortWriteLeft ==
    /\ Ready
    /\ "short_write" \in faults
    /\ file' = Written(file, Torn)
    /\ UNCHANGED <<faults, synced, old, phase, starting, refusing, mem, reported, rec, reader>>

(* The volume fills: part of the record lands, the call fails, and the file *)
(* is truncated back, best effort.                                          *)
ShortWrite ==
    /\ Ready
    /\ "short_write" \in faults
    /\ \/ UNCHANGED file
       \/ "truncate_error" \in faults /\ file' = Written(file, Torn)
    /\ UNCHANGED <<faults, synced, old, phase, starting, refusing, mem, reported, rec, reader>>

(* fsync succeeds: only now does the caller see the new state. *)
FinishAppend ==
    /\ phase = "written"
    /\ synced' = Len(file)
    /\ mem' = ApplyRec(mem, rec)
    /\ reported' = ApplyRec(mem, rec)
    /\ rec' = NoRec
    /\ phase' = "idle"
    /\ UNCHANGED <<faults, file, old, starting, refusing, reader>>

(* fsync fails: append returns its error, and the record stays where it is. *)
SyncFails ==
    /\ phase = "written"
    /\ "sync_error" \in faults
    /\ rec' = NoRec
    /\ phase' = "idle"
    /\ UNCHANGED <<faults, file, synced, old, starting, refusing, mem, reported, reader>>

Create(i, d) == ~Known(mem, i) /\ BeginAppend(CreateRec(i, d))

Apply(i) == Known(mem, i) /\ \E u \in Updates(Get(mem, i)) : BeginAppend(u)

AwaitsUpstreamAck(e) == e.dir = "in" /\ e.status = "done" /\ e.acked = "no"

(* PurgeExpired, one tombstone: retention has expired and no ACK is owed. *)
Purge(i) ==
    /\ Known(mem, i)
    /\ Get(mem, i).status = "done"
    /\ ~AwaitsUpstreamAck(Get(mem, i))
    /\ BeginAppend(PurgeRec(i))

-----------------------------------------------------------------------------
(* Compaction: scratch file, close the append handle, rename, reopen, sync  *)
(* the directory.  At Open there is no append handle to close or reopen.    *)

BeginCompact ==
    /\ phase = "idle" /\ ~refusing
    /\ phase' = "scratch"
    /\ UNCHANGED <<faults, file, synced, old, starting, refusing, mem, reported, rec, reader>>

(* An error return of compact: Open fails with it, Compact goes on. *)
GiveUp(refuse) ==
    /\ phase' = IF starting THEN "down" ELSE "idle"
    /\ starting' = FALSE
    /\ refusing' = (refuse /\ ~starting)
    /\ mem' = IF starting THEN <<>> ELSE mem

ScratchFails ==
    /\ phase = "scratch"
    /\ GiveUp(FALSE)
    /\ UNCHANGED <<faults, file, synced, old, reported, rec, reader>>

CloseHandle ==
    /\ phase = "scratch"
    /\ \/ /\ phase' = "detached"
          /\ UNCHANGED <<starting, refusing, mem>>
       \/ ~starting /\ GiveUp(TRUE)
    /\ UNCHANGED <<faults, file, synced, old, reported, rec, reader>>

(* Mutant: the scratch file is renamed before it is synced. *)
RenameUnsynced ==
    /\ phase = "detached"
    /\ file' = Compacted(mem)
    /\ synced' = 0
    /\ old' = old \cup CutImages(file, synced)
    /\ phase' = "renamed"
    /\ reader' = -1
    /\ UNCHANGED <<faults, starting, refusing, mem, reported, rec>>

Rename ==
    /\ phase = "detached"
    /\ file' = Compacted(mem)
    /\ synced' = Len(file')
    /\ old' = old \cup CutImages(file, synced)
    /\ phase' = "renamed"
    /\ reader' = -1       \* a reader keeps the file it opened: it is past harm
    /\ UNCHANGED <<faults, starting, refusing, mem, reported, rec>>

(* The rename fails and the reopen succeeds, or fails too. *)
RenameFails ==
    /\ phase = "detached"
    /\ \E reopened \in BOOLEAN : GiveUp(~reopened)
    /\ UNCHANGED <<faults, file, synced, old, reported, rec, reader>>

ReopenFails ==
    /\ phase = "renamed"
    /\ GiveUp(TRUE)
    /\ UNCHANGED <<faults, file, synced, old, reported, rec, reader>>

SyncDir ==
    /\ phase = "renamed"
    /\ old' = {}
    /\ phase' = "idle"
    /\ starting' = FALSE
    /\ reported' = mem       \* news only when it ends Open
    /\ rec' = NoRec
    /\ UNCHANGED <<faults, file, synced, refusing, mem, reader>>

SyncDirFails ==
    /\ phase = "renamed"
    /\ "dirsync_error" \in faults
    /\ GiveUp(FALSE)
    /\ UNCHANGED <<faults, file, synced, old, reported, rec, reader>>

-----------------------------------------------------------------------------
(* The process: Open replays, truncates a torn tail and compacts. *)

Open ==
    /\ phase = "down"
    /\ file' = GoodPrefix(file)
    /\ synced' = IF synced < Len(file') THEN synced ELSE Len(file')
    /\ mem' = Replay(file)
    /\ phase' = "scratch"
    /\ starting' = TRUE
    /\ UNCHANGED <<faults, old, refusing, reported, rec, reader>>

Close ==
    /\ phase = "idle"
    /\ synced' = Len(file)
    /\ phase' = "down"
    /\ refusing' = FALSE
    /\ mem' = <<>>
    /\ UNCHANGED <<faults, file, old, starting, reported, rec, reader>>

(* The process dies at any step; what it wrote stays in the file. *)
Kill ==
    /\ phase # "down"
    /\ phase' = "down"
    /\ starting' = FALSE /\ refusing' = FALSE
    /\ mem' = <<>>
    /\ UNCHANGED <<faults, file, synced, old, reported, rec, reader>>

(* The machine dies: only what was synced is sure to be found again. *)
PowerCut ==
    /\ file' \in CrashImages
    /\ synced' = Len(file')
    /\ old' = {}
    /\ phase' = "down"
    /\ starting' = FALSE /\ refusing' = FALSE
    /\ mem' = <<>>
    /\ reader' = -1
    /\ UNCHANGED <<faults, reported, rec>>

-----------------------------------------------------------------------------
(* OpenReadOnly in another process (--diagnose, --list-inflight): replay    *)
(* reads the records it can see, then stats the file and truncates what is  *)
(* past them.                                                               *)

ReaderReads ==
    /\ "reader" \in faults /\ reader = -1
    /\ reader' = GoodLines(file)
    /\ UNCHANGED <<faults, file, synced, old, phase, starting, refusing, mem, reported, rec>>

ReaderStats ==
    /\ reader # -1
    /\ file' = IF Len(file) > reader THEN SubSeq(file, 1, reader) ELSE file
    /\ synced' = IF synced > Len(file') THEN Len(file') ELSE synced
    /\ reader' = -1
    /\ UNCHANGED <<faults, old, phase, starting, refusing, mem, reported, rec>>

-----------------------------------------------------------------------------
JournalNext ==
    \/ \E i \in Ids : \/ \E d \in Directions : Create(i, d)
                      \/ Apply(i)
                      \/ Purge(i)
    \/ ShortWrite \/ FinishAppend \/ SyncFails
    \/ BeginCompact \/ ScratchFails \/ CloseHandle
    \/ Rename \/ RenameFails \/ ReopenFails \/ SyncDir \/ SyncDirFails
    \/ Open \/ Close \/ Kill \/ PowerCut
    \/ ReaderReads \/ ReaderStats

JournalSpec == JournalInit /\ [][JournalNext]_journalVars

-----------------------------------------------------------------------------
(* Properties. *)

(* Whatever instant the machine dies at, the log it leaves replays to what  *)
(* callers were last told is durable, or to that plus the one record whose  *)
(* append had not returned: no acknowledged custody is lost and none is     *)
(* invented, across appends, short writes, compactions and their renames    *)
(* ("no crash can lose an entry", Compact).                                 *)
NoCrashLosesAnEntry ==
    \A img \in CrashImages : Replay(img) \in {reported, ApplyRec(reported, rec)}

(* Between calls the log replays to exactly the state in memory, in the same *)
(* order, and has no damaged line to discard: an append that returned an     *)
(* error left nothing behind ("a failed append must leave no bytes behind",  *)
(* append).                                                                  *)
FailedAppendsLeaveNothing == phase = "idle" =>
    Replay(file) = mem /\ \A k \in DOMAIN file : file[k] \notin {Bad, Torn}

(* The disks on which it is so: a failed directory sync does no harm to the  *)
(* process that goes on, a failed fsync or truncate does (append, compact).  *)
LogMirrorsMemory ==
    faults \subseteq {"short_write", "dirsync_error"} => FailedAppendsLeaveNothing

(* An entry callers were told is durable and unresolved is still known after *)
(* any crash.                                                                *)
OpenCustodySurvives == \A img \in CrashImages : \A k \in DOMAIN reported :
    reported[k].status # "done" => Known(Replay(img), reported[k].id)

(* The disks on which the code keeps these: writes may land short, but a     *)
(* sync that returned an error costs the first of them, and an entry that is *)
(* open still survives it (append, compact, Create).                         *)
CrashSafe ==
    /\ faults \subseteq {"short_write"} => NoCrashLosesAnEntry
    /\ faults \subseteq {"short_write", "sync_error"} => OpenCustodySurvives

(* A diagnostic that opens the journal read-only changes nothing in it       *)
(* (OpenReadOnly).                                                           *)
ReadOnlyChangesNothing == [][ReaderStats => UNCHANGED file]_journalVars

=============================================================================
