------------------------------- MODULE Ledger -------------------------------
(***************************************************************************)
(* The archive's record and what it has counted of it: the live ledger     *)
(* file, the segments closed behind it at each day boundary, and the       *)
(* roll-up file, whose cursor says which records the saved counters hold.  *)
(* The process may be killed anywhere; the next one folds what the cursor  *)
(* does not cover.                                                         *)
(*                                                                         *)
(* Sources: src/go/internal/archive/store.go, segments.go, rollup.go,      *)
(* archive.go.                                                             *)
(*                                                                         *)
(* Records are numbered in the order they are written and are all one      *)
(* offset long.  A position is a file and an offset in it: file 0 is the   *)
(* live one and file i the i-th segment closed.  How often a record is     *)
(* counted is kept up to twice.                                            *)
(***************************************************************************)
EXTENDS Naturals, Sequences, FiniteSets

CONSTANTS
    Troubles,    \* the sets of windows and faults a run may be given
    MaxRecords,  \* bound: records written
    MaxKills     \* bound: kills

ASSUME LedgerAssumption == MaxRecords \in Nat /\ MaxKills \in Nat

VARIABLES
    trouble,  \* which of them this run has, see where the name is tested:
              \*   sync       the fsync behind an append fails
              \*   between    a save falls between a rotation and the roll-up's hearing of it
              \*   quiet      an append falls there, or a quiet rotation before a fold
              \*   refused    the append that rotates is refused
              \*   emptyLive  a start over an empty live file saves before the first record
              \*   convert    a start after a kill behind a rotation, with a segment retired
              \*   splice     a start over a spliced roll-up file, with a segment retired
    segs,     \* the closed segments, in order: what they hold and in which form
    live,     \* the live file
    stale,    \* the day of the records in it is over
    young,    \* nothing was saved since the roll-up was told of the day's rotation
    roll,     \* the roll-up file
    up,       \* a process runs; what follows is its memory
    off,      \* l.off
    first,    \* l.firstMs: the live file's first record, or 0
    cursor,   \* a.ledgerPos
    count,    \* how often each record is in the aggregates
    dirty,    \* "no", "delta" or "everything"
    pending,  \* the record written and not yet folded, or NoRecord
    closed,   \* the segment a quiet rotation made and nobody was told of, or 0
    kills

days == <<stale, young>>
ledgerFiles == <<segs, live, days, roll>>
counters == <<cursor, count, dirty>>
ledgerVars == <<trouble, ledgerFiles, up, off, first, counters, pending, closed, kills>>

Records == 1..MaxRecords
NoRecord == [rec |-> 0, off |-> 0, into |-> 0]   \* what AppendAt returns to its caller
At(file, offset) == [file |-> file, off |-> offset]
Start == At(0, 0)
Zero == [r \in Records |-> 0]
NoRoll == [at |-> Start, first |-> 0, count |-> Zero, form |-> "whole"]

Folded(c, S) == [r \in Records |-> IF r \in S /\ c[r] < 2 THEN c[r] + 1 ELSE c[r]]
Record(c) == Cardinality({r \in Records : c[r] > 0}) + Cardinality({r \in Records : c[r] > 1})   \* a.recordCount

Held(s) == {s[i] : i \in DOMAIN s}
Durable == Held(live) \cup UNION {Held(segs[i].recs) : i \in DOMAIN segs}
NextRecord == Cardinality(Durable) + 1

-----------------------------------------------------------------------------
(* Reading: the segments still on the host in order, then the live file. *)
ledgerSources == {i \in DOMAIN segs : segs[i].form # "gone"} \cup {0}
RecsOf(f) == IF f = 0 THEN live ELSE segs[f].recs
Before(f, g) == f # 0 /\ (g = 0 \/ f < g)
OnHost == UNION {Held(RecsOf(f)) : f \in ledgerSources}

(* The records a scan has come by when it has read the source f. *)
Through(f) == Cardinality(Held(RecsOf(f)) \cup UNION {Held(RecsOf(g)) : g \in {e \in ledgerSources : Before(e, f)}})

(* The position of the n-th record that is on the host, or their end. *)
LedgerPositionOfRecord(n) ==
    LET enough == {f \in ledgerSources : Through(f) >= n}
    IN  IF enough = {} THEN At(0, Len(live))
        ELSE LET f == CHOOSE e \in enough : \A g \in enough \ {e} : Before(e, g)
             IN  At(f, n - (Through(f) - Len(RecsOf(f))))

(* What a scan reports as past the floor; nothing past a file that is not here. *)
PastFloor(floor) ==
    IF floor.file \notin ledgerSources THEN {}
    ELSE {RecsOf(floor.file)[k] : k \in {i \in DOMAIN RecsOf(floor.file) : i > floor.off}}
         \cup UNION {Held(RecsOf(g)) : g \in {e \in ledgerSources : Before(floor.file, e)}}

FirstOfLive == IF live = <<>> THEN 0 ELSE live[1]

(* Is a saved position still about the file it names? *)
liveFileMatches(saved) == saved.at.off = 0 \/ FirstOfLive = saved.first

planReplay(saved) ==
    IF saved.at.file # 0 \/ liveFileMatches(saved) THEN saved.at
    ELSE LedgerPositionOfRecord(Record(saved.count))

(* What a start folds on top of a saved state, after resolveFloor. *)
ToFold(saved) ==
    LET floor == planReplay(saved)
        older == \A f \in ledgerSources \ {0} : floor.file < f
    IN  IF \/ Record(saved.count) = 0
           \/ floor.file \notin ledgerSources /\ older
        THEN OnHost
        ELSE PastFloor(floor)

-----------------------------------------------------------------------------
(* rotateLocked.  Each outcome: the segments and live file it leaves, the  *)
(* length and first record the process believes, the segment it reports    *)
(* and whether the live file's day is still over.                          *)
Rotated == [segs |-> Append(segs, [recs |-> live, form |-> "plain"]), live |-> <<>>,
            off |-> 0, first |-> 0, into |-> Len(segs) + 1, stale |-> FALSE]
NotRotated == [segs |-> segs, live |-> live, off |-> off, first |-> first, into |-> 0,
               stale |-> stale]
(* The last directory sync failed: the rotation is made and not told. *)
RotatedUnsynced == [Rotated EXCEPT !.off = off, !.first = first, !.into = 0, !.stale = TRUE]

Rotations == IF stale THEN {Rotated, RotatedUnsynced, NotRotated} ELSE {NotRotated}

(* AppendAt: the rotation its day calls for, then the write. *)
WrittenTo(r) ==
    /\ segs' = r.segs /\ live' = Append(r.live, NextRecord)
    /\ off' = r.off + 1
    /\ first' = IF r.first = 0 THEN NextRecord ELSE r.first
    /\ stale' = FALSE
    /\ pending' = [rec |-> NextRecord, off |-> r.off + 1, into |-> r.into]

(* A short write, cut back; the caller returns without folding anything. *)
Refused(r) ==
    /\ "refused" \notin trouble => r.into = 0
    /\ segs' = r.segs /\ live' = r.live /\ off' = r.off /\ first' = r.first
    /\ stale' = (r.stale /\ r.live # <<>>)
    /\ UNCHANGED pending

(* The write lands and its fsync fails: the bytes stay and off does not move. *)
Unsynced(r) ==
    /\ "sync" \in trouble
    /\ segs' = r.segs /\ live' = Append(r.live, NextRecord) /\ off' = r.off /\ first' = r.first
    /\ stale' = r.stale
    /\ UNCHANGED pending

AppendAt ==
    /\ up /\ pending = NoRecord /\ NextRecord \in Records
    /\ "quiet" \notin trouble => closed = 0
    /\ \E r \in Rotations : WrittenTo(r) \/ Refused(r) \/ Unsynced(r)
    /\ young' = (young \/ segs' # segs)
    /\ UNCHANGED <<trouble, roll, up, counters, closed, kills>>

Marked == IF dirty = "everything" THEN dirty ELSE "delta"

(* notePositionLocked and countRecordLocked, under a.mu. *)
Fold ==
    /\ up /\ pending # NoRecord
    /\ cursor' = At(0, pending.off)
    /\ count' = Folded(count, {pending.rec})
    /\ dirty' = Marked
    /\ pending' = NoRecord
    /\ UNCHANGED <<trouble, ledgerFiles, up, off, first, closed, kills>>

(* Midnights are a day apart and saves half a minute: what a day's first   *)
(* rotation moved is saved before the next one.                            *)
Midnight ==
    /\ live # <<>> /\ ~stale /\ stale' = TRUE
    /\ closed = 0 /\ (young => dirty = "no")
    /\ UNCHANGED <<trouble, segs, live, young, roll, up, off, first, counters, pending, closed, kills>>

(* rotateIfStale: the maintenance pass closes a day nobody appends behind. *)
RotateQuietly ==
    /\ up /\ stale /\ closed = 0 /\ live # <<>>
    /\ "quiet" \notin trouble => pending = NoRecord
    /\ \E r \in {Rotated, RotatedUnsynced} :
          /\ segs' = r.segs /\ live' = r.live /\ off' = r.off /\ first' = r.first
          /\ stale' = FALSE
          /\ closed' = r.into
    /\ young' = TRUE
    /\ UNCHANGED <<trouble, roll, up, counters, pending, kills>>

(* Mutant: the roll-up is not told of the rotation. *)
noteRotationForgotten ==
    /\ up /\ closed # 0 /\ closed' = 0
    /\ dirty' = Marked
    /\ UNCHANGED <<trouble, ledgerFiles, up, off, first, cursor, count, pending, kills>>

noteRotationLocked ==
    /\ up /\ closed # 0 /\ closed' = 0
    /\ cursor' = IF cursor.file = 0 THEN At(closed, cursor.off) ELSE cursor
    /\ dirty' = Marked
    /\ UNCHANGED <<trouble, ledgerFiles, up, off, first, count, pending, kills>>

-----------------------------------------------------------------------------
(* Save: a batch of what moved, closed by the floor line, appended to the  *)
(* file or, after a failure, rewritten whole.  The tick loop saves whenever *)
(* its interval is over, also while another loop has appended a record it  *)
(* has not folded.                                                         *)
Form == CASE dirty = "everything" -> "whole"
          [] roll.form = "torn"   -> "spliced"
          [] OTHER                -> roll.form

Torn == IF dirty = "delta" /\ roll.form = "whole" THEN "torn" ELSE roll.form

(* A rotation is made, by an append or by the maintenance pass, and the    *)
(* roll-up is told of it only under a.mu, a moment later.                  *)
Untold == pending.into # 0 \/ closed # 0

MaySave ==
    /\ up /\ dirty # "no"
    /\ "between" \notin trouble => ~Untold
    /\ "emptyLive" \notin trouble /\ cursor = Start => Record(count) = 0

SaveRollup ==
    /\ MaySave
    /\ roll' = [at |-> cursor, first |-> first, count |-> count, form |-> Form]
    /\ dirty' = "no"
    /\ young' = (young /\ Untold)
    /\ UNCHANGED <<trouble, segs, live, stale, up, off, first, cursor, count, pending, closed, kills>>

SaveFails ==
    /\ MaySave
    /\ roll' \in {roll, [roll EXCEPT !.form = Torn]}
    /\ dirty' = "everything"
    /\ UNCHANGED <<trouble, segs, live, days, up, off, first, cursor, count, pending, closed, kills>>

(* compressSegment: the copy is verified before the rename, the plain file *)
(* goes after it; the removal may fail, or the process be killed before it. *)
compressSegment(i) ==
    /\ up
    /\ \/ segs[i].form = "plain" /\ segs' = [segs EXCEPT ![i].form = "both"]
       \/ segs[i].form = "both" /\ segs' = [segs EXCEPT ![i].form = "gz"]
    /\ UNCHANGED <<trouble, live, days, roll, up, off, first, counters, pending, closed, kills>>

(* A segment outlives the window, behind its receipt.  Windows are days and *)
(* saves are seconds apart: what leaves was saved long ago.  Cold copies are *)
(* taken oldest first.                                                     *)
Retire(i) ==
    /\ up /\ segs[i].form = "gz"
    /\ \A r \in Held(segs[i].recs) : roll.count[r] > 0
    /\ \A j \in 1..i - 1 : segs[j].form = "gone"
    /\ segs' = [segs EXCEPT ![i].form = "gone"]
    /\ UNCHANGED <<trouble, live, days, roll, up, off, first, counters, pending, closed, kills>>

-----------------------------------------------------------------------------
(* A kill, between two steps or inside a rotation or a save. *)
LedgerKill ==
    /\ up /\ kills < MaxKills /\ kills' = kills + 1
    /\ \/ UNCHANGED <<segs, live, stale, roll>>
       \/ /\ stale /\ live # <<>>
          /\ segs' = Rotated.segs /\ live' = <<>> /\ stale' = FALSE
          /\ UNCHANGED roll
       \/ /\ MaySave
          /\ roll' = [roll EXCEPT !.form = Torn]
          /\ UNCHANGED <<segs, live, stale>>
    /\ up' = FALSE /\ young' = FALSE
    /\ off' = 0 /\ first' = 0 /\ cursor' = Start /\ count' = Zero
    /\ dirty' = "no" /\ pending' = NoRecord /\ closed' = 0
    /\ UNCHANGED trouble

(* loadRollupState, reconcileSegments, the replay and the cursor it ends at. *)
Loaded == IF roll.form = "spliced" THEN NoRoll ELSE roll

Retired == \E i \in DOMAIN segs : segs[i].form = "gone"
Converts == Loaded.at.file = 0 /\ ~liveFileMatches(Loaded)

New ==
    /\ ~up /\ up' = TRUE
    /\ "convert" \notin trouble /\ Converts => ~Retired
    /\ "splice" \notin trouble /\ roll.form = "spliced" => ~Retired
    /\ segs' = [i \in DOMAIN segs |->
                  IF segs[i].form = "both" THEN [segs[i] EXCEPT !.form = "gz"] ELSE segs[i]]
    /\ roll' = Loaded
    /\ count' = Folded(Loaded.count, ToFold(Loaded))
    /\ cursor' = At(0, Len(live))
    /\ off' = Len(live) /\ first' = FirstOfLive
    /\ dirty' = CASE Record(Loaded.count) = 0 -> "everything"
                  [] ToFold(Loaded) # {}      -> "delta"
                  [] OTHER                    -> "no"
    /\ UNCHANGED <<trouble, live, days, pending, closed, kills>>

LedgerInit ==
    /\ trouble \in Troubles
    /\ segs = <<>> /\ live = <<>> /\ stale = FALSE /\ young = FALSE /\ roll = NoRoll
    /\ up = FALSE /\ off = 0 /\ first = 0 /\ cursor = Start /\ count = Zero
    /\ dirty = "no" /\ pending = NoRecord /\ closed = 0 /\ kills = 0

LedgerNext ==
    \/ AppendAt \/ Fold \/ Midnight \/ RotateQuietly \/ noteRotationLocked
    \/ SaveRollup \/ SaveFails \/ LedgerKill \/ New
    \/ \E i \in DOMAIN segs : compressSegment(i) \/ Retire(i)

LedgerSpec == LedgerInit /\ [][LedgerNext]_ledgerVars

-----------------------------------------------------------------------------
(* What the saved cursor is for: every record that was ever made durable   *)
(* and whose writer has gone on is in the aggregates, once.  A kill at any *)
(* step, a start over half-finished rotations and compressions, a save cut *)
(* short, also between an append and its fold, and a retirement change     *)
(* nothing of it.  Promised while none of the windows and faults that      *)
(* trouble names occurs: the code leaves them open.                        *)
CountedOnce ==
    trouble = {} /\ up => \A r \in Durable \ {pending.rec} : count[r] = 1

(* The same whatever windows are open, which is what the code's comments   *)
(* say a hard kill costs.                                                  *)
EveryRecordCounted == up => \A r \in Durable \ {pending.rec} : count[r] > 0
=============================================================================
