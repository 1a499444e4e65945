----------------------------- MODULE DedupWindow -----------------------------
(***************************************************************************)
(* The archive's duplicate set: two generations of keys, the older one     *)
(* dropped whole when the newer is a window old.  It is memory only; a     *)
(* start rebuilds it from the ledger.                                      *)
(*                                                                         *)
(* Sources: src/go/internal/archive/dedup.go (dedupWindow), archive.go     *)
(* (markSeen, replayRawLocked).                                            *)
(***************************************************************************)
EXTENDS Integers

CONSTANTS
    Key,      \* what a record is told apart by: dedupKey
    Span,     \* cfg.DedupWindow
    MaxTime   \* bound: the clock

ASSUME DedupAssumption == Span \in Nat \ {0} /\ MaxTime \in Nat

VARIABLES
    clock,
    win,       \* a.seen
    recorded   \* when the ledger's last record of a key was written, or Never

dedupVars == <<clock, win, recorded>>

Never == -1

(* Mutant: a rotation drops both generations. *)
tickDropsAll(w, now) ==
    IF now < w.rotateAt THEN w
    ELSE [cur |-> {}, prev |-> {}, rotateAt |-> now + Span]

(* w.tick: a gap of several windows is one rotation, of both generations. *)
tick(w, now) ==
    IF now < w.rotateAt THEN w
    ELSE IF now - w.rotateAt >= Span
         THEN [cur |-> {}, prev |-> {}, rotateAt |-> now + Span]
         ELSE [cur |-> {}, prev |-> w.cur, rotateAt |-> w.rotateAt + Span]

holds(w, k) == k \in w.cur \/ k \in w.prev

(* A key of the older generation is not copied forward. *)
addKey(w, k) == IF k \in w.prev THEN w ELSE [w EXCEPT !.cur = @ \cup {k}]

newDedupWindow(S, now) == [cur |-> S, prev |-> {}, rotateAt |-> now + Span]
Replayed == {k \in Key : recorded[k] # Never /\ clock - recorded[k] < Span}

-----------------------------------------------------------------------------
DedupInit ==
    /\ clock = 0 /\ recorded = [k \in Key |-> Never]
    /\ win = newDedupWindow({}, 0)

Elapses == \E t \in clock + 1 .. MaxTime : clock' = t /\ UNCHANGED <<win, recorded>>

(* What is seen is refused; what is not is marked, and then appended or not. *)
markSeen(k) == win' = addKey(tick(win, clock), k)
Seen(k) == holds(tick(win, clock), k)
appendRecord(k) == recorded' = [recorded EXCEPT ![k] = clock]

Refuse(k) == Seen(k) /\ markSeen(k) /\ UNCHANGED <<clock, recorded>>
RecordNew(k) == ~Seen(k) /\ markSeen(k) /\ appendRecord(k) /\ UNCHANGED clock
AppendFails(k) == ~Seen(k) /\ markSeen(k) /\ UNCHANGED <<clock, recorded>>

RestartArchive == win' = newDedupWindow(Replayed, clock) /\ UNCHANGED <<clock, recorded>>

DedupNext ==
    \/ Elapses \/ RestartArchive
    \/ \E k \in Key : Refuse(k) \/ RecordNew(k) \/ AppendFails(k)

DedupSpec == DedupInit /\ [][DedupNext]_dedupVars

-----------------------------------------------------------------------------
DedupTypeOK ==
    /\ clock \in Nat /\ recorded \in [Key -> Nat \cup {Never}]
    /\ win \in [cur : SUBSET Key, prev : SUBSET Key, rotateAt : Nat]

(* "A duplicate that arrives inside window of the original is always       *)
(* refused", over rotations early and late, gaps and restarts: the ledger  *)
(* has no two records of one key closer than the window (dedupWindow.add). *)
Again(k) == recorded[k] # Never /\ recorded'[k] # recorded[k]
RecordedOnce == [][\A k \in Key : Again(k) => recorded'[k] - recorded[k] >= Span]_dedupVars

(* What a refusal may rest on: a key leaves the set only when its record is *)
(* a window old, is newer than no rotation to come, and in the older        *)
(* generation will be a window old by the next.                             *)
Age(k) == recorded[k] <= clock /\ recorded[k] < win.rotateAt
LeavesLate(k) ==
    /\ ~holds(win, k) => recorded[k] + Span <= clock
    /\ k \in win.prev => recorded[k] + Span <= win.rotateAt
DedupInv == DedupTypeOK /\ \A k \in Key : recorded[k] # Never => Age(k) /\ LeavesLate(k)
=============================================================================
