--------------------------- MODULE MetricsHistory ---------------------------
(***************************************************************************)
(* The archive's population history: a sample a day in the live file, the  *)
(* segments closed behind it, and the roll-up that answers for a segment   *)
(* once its raw samples have left the host.  A maintenance pass rotates,   *)
(* folds, compresses and retires; the process may be killed at any step.   *)
(*                                                                         *)
(* Sources: src/go/internal/archive/metrics.go, metricsseg.go,             *)
(* metricshist.go, history.go (HistoryAllView).                            *)
(*                                                                         *)
(* A sample is the day it was taken on, and the cumulative count of        *)
(* migrations it carries is that day's number: the flow between two        *)
(* samples is the difference of their days.  A segment is named by its     *)
(* first sample's day.                                                     *)
(***************************************************************************)
EXTENDS Integers, FiniteSetsExt

CONSTANTS
    PassFaults,     \* "read": a segment cannot be read; "save": the roll-up cannot be saved
    MetricsWindow,  \* cfg.MetricsWindow, in days
    LastDay,        \* bound: days
    MetricsKills    \* bound: kills

Day == 1..LastDay

ASSUME MetricsAssumption ==
    PassFaults \subseteq {"read", "save"} /\ {MetricsWindow, LastDay} \subseteq Nat \ {0}

VARIABLES
    today,
    liveDays,   \* metrics.jsonl
    segDays,    \* of each segment, the days in it
    form,       \* of each segment: none, plain, both, gz or gone
    confirmed,  \* the segments whose off-host copy has a receipt
    history,    \* the roll-up of the process: which segments, how often each day, the flow
    onDisk,     \* metrics-rollup.json
    metricsPass,  \* down, idle, or the phase of the pass and the segment it looks at next
    shown,      \* the buckets an all-record view has copied and not yet added the live file to
    metricsKills

hostFiles == <<liveDays, segDays, form, confirmed>>
metricsVars == <<today, hostFiles, history, onDisk, metricsPass, shown, metricsKills>>

-----------------------------------------------------------------------------
OnThisHost(n) == form[n] \in {"plain", "both", "gz"}
Taken == liveDays \cup UNION {segDays[n] : n \in Day}
Raw == liveDays \cup UNION {segDays[n] : n \in {k \in Day : OnThisHost(k)}}

NoHistory == [folded |-> {}, days |-> [d \in Day |-> 0], flow |-> 0, last |-> 0]
Newest(n) == Max(segDays[n])

(* Counted to two: enough to tell once from more often. *)
More(k) == IF k = 2 THEN 2 ELSE k + 1

(* The samples are folded in the order of their time: the carry goes from the *)
(* last sample folded to the first of these, and never below nothing.         *)
foldSamples(h, S) ==
    LET step == Min(S) - h.last
    IN  [folded |-> h.folded,
         days |-> [d \in Day |-> IF d \in S THEN More(h.days[d]) ELSE h.days[d]],
         flow |-> h.flow + (IF h.last = 0 \/ step < 0 THEN 0 ELSE step) + Max(S) - Min(S),
         last |-> Max(S)]

(* Mutant: nothing is out of order. *)
OutOfOrderNever(h, n) == FALSE

(* A segment that ends before the last sample folded. *)
OutOfOrder(h, n) == h.last > 0 /\ Newest(n) < h.last

(* Folded and marked folded; what a save that fails leaves is the same. *)
foldSegment(h, n) == [foldSamples(h, segDays[n]) EXCEPT !.folded = @ \cup {n}]

(* A segment is past the window when its last sample is, as the roll-up knows it. *)
metricsSegEnd(n) == IF n \in history.folded THEN Newest(n) ELSE n
PastWindow(n) == today > metricsSegEnd(n) + MetricsWindow

-----------------------------------------------------------------------------
PassAt(phase, n) == [at |-> phase, seg |-> n]
Stopped == PassAt("down", 0)
Resting == PassAt("idle", 0)
Serving == metricsPass.at \notin {"down", "pending"}

MetricsInit ==
    /\ today = 1
    /\ liveDays = {} /\ confirmed = {}
    /\ segDays = [n \in Day |-> {}] /\ form = [n \in Day |-> "none"]
    /\ history = NoHistory /\ onDisk = NoHistory
    /\ metricsPass = Resting /\ shown = {} /\ metricsKills = 0

DayEnds ==
    /\ today < LastDay /\ today' = today + 1
    /\ UNCHANGED <<hostFiles, history, onDisk, metricsPass, shown, metricsKills>>

sampleMetrics ==
    /\ Serving /\ today \notin Taken
    /\ liveDays' = liveDays \cup {today}
    /\ UNCHANGED <<today, segDays, form, confirmed, history, onDisk, metricsPass, shown, metricsKills>>

(* The phases of a pass, each over the segments, oldest first. *)
After(phase, n) ==
    IF n < LastDay THEN PassAt(phase, n + 1)
    ELSE CASE phase = "pending" -> Resting [] phase = "fold" -> PassAt("compress", 1)
           [] phase = "compress" -> PassAt("retire", 1) [] phase = "retire" -> Resting
Reaches(phase, n) == metricsPass = PassAt(phase, n)

(* The live file is closed into a segment when its first sample's day is over. *)
rotateMetricsIfStale ==
    /\ metricsPass = Resting /\ metricsPass' = PassAt("fold", 1)
    /\ IF liveDays # {} /\ Min(liveDays) < today
       THEN /\ segDays' = [segDays EXCEPT ![Min(liveDays)] = liveDays]
            /\ form' = [form EXCEPT ![Min(liveDays)] = "plain"]
            /\ liveDays' = {}
       ELSE UNCHANGED <<segDays, form, liveDays>>
    /\ UNCHANGED <<today, confirmed, history, onDisk, shown, metricsKills>>

(* A pass folds, and so does a start; a segment that cannot be read is left, one *)
(* that is out of order refused, and a save that fails is logged.                *)
Foldable(n) == OnThisHost(n) /\ n \notin history.folded
Folds(n) ==
    \/ /\ Foldable(n) /\ ~OutOfOrder(history, n)
       /\ history' = foldSegment(history, n)
       /\ onDisk' = history' \/ ("save" \in PassFaults /\ UNCHANGED onDisk)
    \/ /\ Foldable(n) => OutOfOrder(history, n) \/ "read" \in PassFaults
       /\ UNCHANGED <<history, onDisk>>

foldPass(phase, n) ==
    /\ phase \in {"pending", "fold"} /\ Reaches(phase, n) /\ metricsPass' = After(phase, n)
    /\ Folds(n)
    /\ UNCHANGED <<today, hostFiles, shown, metricsKills>>

(* The compressed form is renamed into place before the plain one is removed. *)
compressPlainFile(n) ==
    /\ Reaches("compress", n) /\ form[n] \in {"plain", "both"}
    /\ \/ form' = [form EXCEPT ![n] = "both"] /\ UNCHANGED metricsPass /\ form[n] = "plain"
       \/ form' = [form EXCEPT ![n] = "gz"] /\ metricsPass' = After("compress", n) /\ form[n] = "both"
    /\ UNCHANGED <<today, liveDays, segDays, confirmed, history, onDisk, shown, metricsKills>>

(* Mutant: the roll-up is not asked. *)
MayRetireUnfolded(n) ==
    form[n] = "gz" /\ PastWindow(n) /\ n \in confirmed

(* Past the window, in the roll-up, and confirmed elsewhere. *)
MayRetire(n) ==
    form[n] = "gz" /\ n \in history.folded /\ PastWindow(n) /\ n \in confirmed

retirePass(n) ==
    /\ Reaches("retire", n) /\ metricsPass' = After("retire", n)
    /\ form' = IF MayRetire(n) THEN [form EXCEPT ![n] = "gone"] ELSE form
    /\ UNCHANGED <<today, liveDays, segDays, confirmed, history, onDisk, shown, metricsKills>>

Skip(n) ==
    /\ Reaches("compress", n) /\ form[n] \notin {"plain", "both"} /\ metricsPass' = After("compress", n)
    /\ UNCHANGED <<today, hostFiles, history, onDisk, shown, metricsKills>>

(* The uploader's receipt (deploy/coldcopy.sh). *)
WriteReceipt(n) ==
    /\ form[n] \in {"both", "gz"} /\ n \notin confirmed
    /\ confirmed' = confirmed \cup {n}
    /\ UNCHANGED <<today, liveDays, segDays, form, history, onDisk, metricsPass, shown, metricsKills>>

(* The all-record view copies the roll-up, then reads the live file. *)
HistoryAllView ==
    /\ Serving /\ shown = {}
    /\ shown' = {d \in Day : history.days[d] > 0}
    /\ UNCHANGED <<today, hostFiles, history, onDisk, metricsPass, metricsKills>>
mergeLiveIntoBase ==
    /\ shown # {} /\ shown' = {}
    /\ UNCHANGED <<today, hostFiles, history, onDisk, metricsPass, metricsKills>>

(* A start loads the file and folds what an earlier run closed and did not fold. *)
KillArchive ==
    /\ metricsPass # Stopped /\ metricsKills < MetricsKills /\ metricsKills' = metricsKills + 1
    /\ metricsPass' = Stopped /\ history' = NoHistory /\ shown' = {}
    /\ UNCHANGED <<today, hostFiles, onDisk>>
openMetricsRollup ==
    /\ metricsPass = Stopped /\ metricsPass' = PassAt("pending", 1) /\ history' = onDisk
    /\ UNCHANGED <<today, hostFiles, onDisk, shown, metricsKills>>

MetricsNext ==
    \/ DayEnds \/ sampleMetrics \/ rotateMetricsIfStale \/ HistoryAllView \/ mergeLiveIntoBase
    \/ KillArchive \/ openMetricsRollup
    \/ \E n \in Day :
         \/ foldPass("pending", n) \/ foldPass("fold", n)
         \/ compressPlainFile(n) \/ Skip(n) \/ retirePass(n) \/ WriteReceipt(n)

MetricsSpec == MetricsInit /\ [][MetricsNext]_metricsVars

-----------------------------------------------------------------------------
Rollup == [folded : SUBSET Day, days : [Day -> 0..2], flow : Nat, last : 0..LastDay]
MetricsTypeOK ==
    /\ today \in Day /\ liveDays \subseteq Day /\ confirmed \subseteq Day
    /\ segDays \in [Day -> SUBSET Day]
    /\ form \in [Day -> {"none", "plain", "both", "gz", "gone"}]
    /\ history \in Rollup /\ onDisk \in Rollup /\ shown \subseteq Day
    /\ metricsPass \in [at : {"down", "idle", "pending", "fold", "compress", "retire"}, seg : 0..LastDay]

(* "The aggregate is written before the raw it summarises can go": a sample *)
(* that was taken is raw on this host, or in the roll-up's file and past    *)
(* what a rolling view needs, for its segment's last day too                *)
(* (metricsMaintenancePass, foldSegment, metricsSegEnd).                    *)
HistoryKept ==
    \A d \in Taken : d \in Raw \/ (onDisk.days[d] > 0 /\ d + MetricsWindow < today)

(* A day is folded once however passes, starts and saves fall, the flow is  *)
(* the difference of the record's two ends, and a view adds no day twice    *)
(* (foldSegment's two refusals, HistoryAllView's order of reading).         *)
FoldedDays(h) == {d \in Day : h.days[d] > 0}
FoldedOnce ==
    /\ \A h \in {history, onDisk} :
         /\ \A d \in Day : h.days[d] <= 1
         /\ FoldedDays(h) # {} => h.flow = Max(FoldedDays(h)) - Min(FoldedDays(h))
    /\ shown \cap liveDays = {}

(* Nothing is missing from the record, and nothing is in it twice, through *)
(* every pass, kill and start (metricsMaintenancePass, foldSegment).       *)
EveryDayOnce == HistoryKept /\ FoldedOnce
=============================================================================
