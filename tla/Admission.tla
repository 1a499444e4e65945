----------------------------- MODULE Admission -----------------------------
(***************************************************************************)
(* The population gate of a receiving sidecar.  It decides, before custody *)
(* is taken, on what it knows of the world: the population of the last     *)
(* heartbeat, the deliveries it still holds, and the arrivals acknowledged *)
(* since that heartbeat.  The limit is fixed, or learned from what the     *)
(* machine could carry in the last hour, and survives a restart.           *)
(*                                                                         *)
(* Sources: src/go/internal/sidecar/admission.go, contracta_server.go,     *)
(* contractb_client.go; the mod's side is MultiverseClient.cs.             *)
(***************************************************************************)
EXTENDS Integers, Sequences, FiniteSets, SequencesExt

CONSTANTS
    FixedLimit, Hysteresis,  \* the fixed gate and how far below it reopens
    MinLimit, MaxLimit,      \* the range of a learned limit
    MinSamples, Window,      \* evidence it takes, and how many intervals it counts
    Budgets,                 \* what one sample says the machine can carry
    QueueMax,                \* inboundQueueMax
    MaxExtra                 \* bound: births, bounces and unseen admissions

(* What validateAdmissionConfig and applyDefaults leave of a configuration. *)
ASSUME AdmissionAssumption ==
    /\ {FixedLimit, MinLimit, MaxLimit, Window, QueueMax, MaxExtra} \subseteq Nat
    /\ {Hysteresis, MinSamples} \subseteq Nat \ {0} /\ Budgets \subseteq Nat \ {0}

VARIABLES
    mode,       \* fixed or adaptive
    alive,      \* organisms alive in the game
    waiting,    \* inbound entries whose organism is not in the world yet
    spawned,    \* inbound entries whose organism is, and whose ACK is not here
    chan,       \* frames of the mod under way: an ACK, or a heartbeat's population
    pop,        \* the population of the last heartbeat, or Unknown
    admitted,   \* admittedSinceHeartbeat
    closed,     \* the gate is closed
    samples,    \* [age in intervals, budget], oldest first
    learned,    \* ready and the effective limit
    stateFile,      \* the state file: samples, and whether it was ready
    extra       \* organisms the gate was not asked about

admissionVars == <<mode, alive, waiting, spawned, chan, pop, admitted, closed,
                   samples, learned, stateFile, extra>>

Unknown == -1
Largest(a, b) == IF a > b THEN a ELSE b
Smallest(a, b) == IF a < b THEN a ELSE b
(* The most the gate may let the world reach. *)
Highest == IF mode = "fixed" THEN FixedLimit ELSE MaxLimit
Unlearned == [ready |-> FALSE, limit |-> 0]

-----------------------------------------------------------------------------
(* The estimator: a median, moved a tenth down or a twentieth up at a time. *)
(* The k-th of the sorted budgets. *)
Ranked(s, k) == CHOOSE v \in {s[i].budget : i \in DOMAIN s} :
    /\ Cardinality({i \in DOMAIN s : s[i].budget < v}) < k
    /\ Cardinality({i \in DOMAIN s : s[i].budget <= v}) >= k

Median(s) ==
    LET half == Len(s) \div 2
    IN  IF Len(s) % 2 = 1 THEN Ranked(s, half + 1)
        ELSE (Ranked(s, half) + Ranked(s, half + 1)) \div 2

Estimate(s) == Smallest(MaxLimit, Largest(MinLimit, Median(s)))

recalculate(s, l) ==
    IF Len(s) < MinSamples THEN l
    ELSE LET e == Estimate(s) IN
         [ready |-> TRUE,
          limit |-> CASE ~l.ready -> e
                      [] e < l.limit -> Largest(e, l.limit - Largest(1, (l.limit + 9) \div 10))
                      [] OTHER -> Smallest(e, l.limit + Largest(1, (l.limit + 19) \div 20))]

(* Samples before the window's cut go. *)
trim(s) ==
    LET recent == {i \in DOMAIN s : s[i].age <= Window}
    IN  IF recent = {} THEN <<>>
        ELSE SubSeq(s, CHOOSE i \in recent : \A j \in recent : i <= j, Len(s))
trimmed(l, s) == IF Len(s) < MinSamples THEN [l EXCEPT !.ready = FALSE] ELSE l

(* The limit in force; 0 is none. *)
limit(l) == IF mode = "fixed" THEN FixedLimit ELSE IF l.ready THEN l.limit ELSE 0

(* refresh: the gate closes at the limit and reopens below it. *)
Refreshed(committed, known, l) ==
    /\ known /\ limit(l) > 0
    /\ IF closed THEN committed > Largest(0, limit(l) - Hysteresis) ELSE committed >= limit(l)

Committed == pop + waiting + spawned + admitted   \* when pop is known

-----------------------------------------------------------------------------
AdmissionInit ==
    /\ mode \in {"fixed", "adaptive"} /\ alive \in 0..Highest
    /\ waiting = 0 /\ spawned = 0 /\ chan = <<>> /\ pop = Unknown /\ admitted = 0
    /\ closed = FALSE /\ samples = <<>> /\ learned = Unlearned
    /\ stateFile = [samples |-> <<>>, ready |-> FALSE] /\ extra = 0

Save(s, l) == stateFile' = [samples |-> trim(s), ready |-> l.ready]

(* A migration arrives: the gate decides, and what it refuses is counted    *)
(* and saved.  One it admits without knowing the world is one it never      *)
(* counted.                                                                 *)
onMigrationPayload ==
    /\ waiting + spawned < QueueMax
    /\ LET known == pop # Unknown
           blind == ~known \/ limit(learned) = 0
       IN  /\ blind => extra < MaxExtra
           /\ closed' = Refreshed(Committed, known, learned)
           /\ \/ /\ closed'
                 /\ samples' = trim(samples) /\ learned' = trimmed(learned, samples')
                 /\ Save(samples', learned') /\ UNCHANGED <<waiting, extra>>
              \/ /\ ~closed' /\ waiting' = waiting + 1
                 /\ extra' = IF blind THEN extra + 1 ELSE extra
                 /\ UNCHANGED <<samples, learned, stateFile>>
    /\ UNCHANGED <<mode, alive, spawned, chan, pop, admitted>>

(* An organism comes home without asking (bounceLocked). *)
bounce ==
    /\ extra < MaxExtra /\ extra' = extra + 1 /\ waiting' = waiting + 1
    /\ UNCHANGED <<mode, alive, spawned, chan, pop, admitted, closed, samples, learned, stateFile>>

(* The mod spawns a delivery and acknowledges it, on its one thread. *)
spawn ==
    /\ waiting > 0 /\ waiting' = waiting - 1 /\ alive' = alive + 1
    /\ spawned' = spawned + 1 /\ chan' = Append(chan, [ack |-> "spawned"])
    /\ UNCHANGED <<mode, pop, admitted, closed, samples, learned, stateFile, extra>>

AcksUnderWay == Cardinality({k \in DOMAIN chan : chan[k].ack # "none"})

(* A delivery whose ACK was lost is replayed, and acknowledged as a duplicate. *)
replay ==
    /\ AcksUnderWay < spawned /\ chan' = Append(chan, [ack |-> "duplicate"])
    /\ UNCHANGED <<mode, alive, waiting, spawned, pop, admitted, closed, samples, learned,
                   stateFile, extra>>

(* HEARTBEAT: the population, and what the machine achieved (none: paused). *)
beat ==
    /\ \A k \in DOMAIN chan : chan[k].ack # "none"
    /\ \E b \in Budgets \cup {0} :
         /\ mode = "fixed" => b = 0
         /\ chan' = Append(chan, [ack |-> "none", pop |-> alive, budget |-> b])
    /\ UNCHANGED <<mode, alive, waiting, spawned, pop, admitted, closed, samples, learned,
                   stateFile, extra>>

(* Mutant: an acknowledged arrival is counted nowhere until the next heartbeat. *)
onMigrateInAckUncounted ==
    /\ chan # <<>> /\ Head(chan).ack # "none" /\ chan' = Tail(chan)
    /\ spawned' = spawned - 1 /\ UNCHANGED admitted
    /\ closed' = Refreshed(pop + waiting + spawned' + admitted', pop # Unknown, learned)
    /\ UNCHANGED <<mode, alive, waiting, pop, samples, learned, stateFile, extra>>

onMigrateInAckCounted ==
    /\ chan # <<>> /\ Head(chan).ack # "none" /\ chan' = Tail(chan)
    /\ spawned' = spawned - 1
    /\ admitted' = IF Head(chan).ack = "duplicate" THEN admitted ELSE admitted + 1
    /\ closed' = Refreshed(pop + waiting + spawned' + admitted', pop # Unknown, learned)
    /\ UNCHANGED <<mode, alive, waiting, pop, samples, learned, stateFile, extra>>

(* A sample at most once per interval; a heartbeat without one only trims. *)
onHeartbeat ==
    /\ chan # <<>> /\ Head(chan).ack = "none" /\ chan' = Tail(chan)
    /\ pop' = Head(chan).pop /\ admitted' = 0
    /\ LET kept == trim(samples)
           counts == Head(chan).budget > 0 /\ (kept = <<>> \/ Last(kept).age > 0)
           now == IF counts THEN Append(kept, [age |-> 0, budget |-> Head(chan).budget]) ELSE kept
           l == IF counts THEN recalculate(now, trimmed(trimmed(learned, kept), now))
                ELSE trimmed(learned, kept)
       IN  /\ samples' = now /\ learned' = l
           /\ IF counts THEN Save(now, l) ELSE UNCHANGED stateFile
           /\ closed' = Refreshed(pop' + waiting + spawned, TRUE, l)
    /\ UNCHANGED <<mode, alive, waiting, spawned, extra>>

Interval ==
    /\ samples # <<>> /\ Head(samples).age <= Window
    /\ samples' = [k \in DOMAIN samples |-> [samples[k] EXCEPT !.age = @ + 1]]
    /\ UNCHANGED <<mode, alive, waiting, spawned, chan, pop, admitted, closed, learned,
                   stateFile, extra>>

born ==
    /\ extra < MaxExtra /\ extra' = extra + 1 /\ alive' = alive + 1
    /\ UNCHANGED <<mode, waiting, spawned, chan, pop, admitted, closed, samples, learned, stateFile>>

die ==
    /\ alive > 0 /\ alive' = alive - 1
    /\ UNCHANGED <<mode, waiting, spawned, chan, pop, admitted, closed, samples, learned,
                   stateFile, extra>>

(* The mod's connection ends: nothing is known until a new session's heartbeat. *)
disconnect ==
    /\ chan' = <<>> /\ pop' = Unknown
    /\ UNCHANGED <<mode, alive, waiting, spawned, admitted, closed, samples, learned,
                   stateFile, extra>>

(* restore: the newest sample reads as just measured, the others keep their spacing. *)
restore(s) ==
    IF s = <<>> THEN s ELSE trim([k \in DOMAIN s |-> [s[k] EXCEPT !.age = @ - Last(s).age]])

restartGate ==
    /\ chan' = <<>> /\ pop' = Unknown /\ admitted' = 0 /\ closed' = FALSE
    /\ samples' = restore(stateFile.samples) /\ learned' = recalculate(samples', Unlearned)
    /\ UNCHANGED <<mode, alive, waiting, spawned, stateFile, extra>>

AdmissionNext ==
    \/ onMigrationPayload \/ bounce \/ spawn \/ replay \/ beat \/ onMigrateInAckCounted
    \/ onHeartbeat \/ Interval \/ born \/ die \/ disconnect \/ restartGate

AdmissionSpec == AdmissionInit /\ [][AdmissionNext]_admissionVars

-----------------------------------------------------------------------------
(* The gate holds: whatever is under way between the game and the sidecar,  *)
(* and whatever acknowledgements and connections are lost, deliveries never *)
(* push the world past the limit; only births, bounces and arrivals it      *)
(* admitted without a limit or a population do (committedPopulationLocked). *)
GateHolds == alive + waiting <= Highest + extra

=============================================================================
