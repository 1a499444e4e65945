----------------------------- MODULE WorldLink -----------------------------
(***************************************************************************)
(* Contract A: one world and the sidecar beside it.  The mod offers an     *)
(* organism, keeps it inert until the sidecar has journaled it, and spawns *)
(* what the sidecar delivers.  Between them: a socket that drops, a world  *)
(* that is loaded again from its last save, a sidecar that restarts, and   *)
(* two sessions whose handlers overlap.                                    *)
(*                                                                         *)
(* Sources: src/go/internal/sidecar/contracta_server.go, and the mod's     *)
(* MigrationExporter.cs, MigrationImporter.cs and MultiverseClient.cs.     *)
(*                                                                         *)
(* A migration is <<o, n>>: the n-th border crossing of organism o, out of *)
(* this world or into it.  What happens to it elsewhere is module Custody; *)
(* here it is abroad, and may come back under a new migrationId.           *)
(***************************************************************************)
EXTENDS Naturals, Sequences, FiniteSets, SequencesExt

CONSTANTS
    Org,        \* entityIds
    MaxTrips,   \* bound: border crossings of one organism
    Faults,     \* the faults that happen: of drop, load and crash
    MaxFaults   \* bound: how many of them

ASSUME BoundsAssumption ==
    /\ MaxTrips \in Nat /\ MaxFaults \in Nat
    /\ Faults \subseteq {"drop", "load", "crash"}

Trip == 1..MaxTrips
Id == Org \X Trip

VARIABLES
    body,    \* the organism in the running world: live, inert or none
    offered, \* the mod's in-flight record of an inert organism: a trip, or 0
    ledger,  \* the mod's dedup ledger: migrations handled in this world session
    resting, \* organisms in a cooldown or in the entry immunity window
    saved,   \* the organisms in the last save
    world,   \* the mod's sessionId: a new one at each world load
    minted,  \* minted[o]: how many migrationIds organism o has had
    jr,      \* the sidecar's journal
    known,   \* the sidecar's seenSessions
    link,    \* down, up, or shaken: the sidecar has read the CONFIG_UPDATE
    toMod, toSide,  \* the frames under way, oldest first
    cur, old, \* the MIGRATE_OUT that this connection's handler, and the one
              \* before it, are working on
    abroad,  \* the organisms that are somewhere else on the map
    faults   \* how many faults there have been

modVars   == <<body, offered, ledger, resting, saved, world>>
sideVars  == <<jr, known>>
wireVars  == <<link, toMod, toSide, cur, old>>
vars == <<modVars, minted, sideVars, wireVars, abroad, faults>>

-----------------------------------------------------------------------------
(* Journal entries, frames and handlers. *)

As(d, s) == [dir |-> d, status |-> s]
NoEntry == As("none", "none")
Entry == {NoEntry} \cup [dir : {"out", "in"}, status : {"open", "in_flight", "done", "held"}]
Known(m) == jr[m] # NoEntry

Frame == [type : {"config"}, world : Nat]
    \cup [type : {"out", "in", "out_ack", "out_nack", "in_ack", "in_nack"}, m : Id]
Config == [type |-> "config", world |-> world]
Msg(t, m) == [type |-> t, m |-> m]

Idle == <<>>
Job == {Idle} \cup (Id \X {"read", "checked", "created"})

(* A frame goes to the current connection, or nowhere. *)
ToMod(fs) == toMod' = IF link = "down" THEN toMod ELSE toMod \o fs
ToSide(fs) == toSide' = IF link = "down" THEN toSide ELSE toSide \o fs

-----------------------------------------------------------------------------
(* The mod. *)

(* An organism in a capture band is frozen, recorded and offered. *)
TryBegin(o) ==
    LET n == minted[o] + 1 IN
    /\ link = "shaken" /\ body[o] = "live" /\ o \notin resting /\ n \in Trip
    /\ body' = [body EXCEPT ![o] = "inert"]
    /\ offered' = [offered EXCEPT ![o] = n]
    /\ minted' = [minted EXCEPT ![o] = n]
    /\ ToSide(<<Msg("out", <<o, n>>)>>)
    /\ UNCHANGED <<ledger, resting, saved, world, sideVars, link, toMod, cur, old, abroad, faults>>

(* Custody moved: the organism goes, by its record or by its entityId.  An *)
(* inert one is out of the tracker, so only its own record finds it.       *)
HandleAck(m) ==
    LET o == m[1] mine == offered[o] = m[2] IN
    /\ body' = IF mine \/ body[o] = "live" THEN [body EXCEPT ![o] = "none"] ELSE body
    /\ offered' = IF mine THEN [offered EXCEPT ![o] = 0] ELSE offered
    /\ resting' = IF mine \/ body[o] = "live" THEN resting \ {o} ELSE resting
    /\ UNCHANGED <<ledger, toSide>>

(* Custody did not move: the organism is revived. *)
HandleNack(m) ==
    LET o == m[1] mine == offered[o] = m[2] IN
    /\ body' = IF mine THEN [body EXCEPT ![o] = "live"] ELSE body
    /\ offered' = IF mine THEN [offered EXCEPT ![o] = 0] ELSE offered
    /\ resting' = IF mine THEN resting \cup {o} ELSE resting
    /\ UNCHANGED <<ledger, toSide>>

(* A delivery is a duplicate by either key, spawned, or refused. *)
Here(o) == body[o] = "live" \/ offered[o] # 0
Handle(m) ==
    LET o == m[1] IN
    /\ UNCHANGED offered
    /\ \/ /\ m \in ledger \/ Here(o)
          /\ ledger' = ledger \cup {m}
          /\ ToSide(<<Msg("in_ack", m)>>)
          /\ UNCHANGED <<body, resting>>
       \/ /\ m \notin ledger /\ ~Here(o)
          /\ ledger' = ledger \cup {m}
          /\ body' = [body EXCEPT ![o] = "live"]
          /\ resting' = resting \cup {o}
          /\ ToSide(<<Msg("in_ack", m)>>)
       \/ /\ m \notin ledger /\ ~Here(o)
          /\ ToSide(<<Msg("in_nack", m)>>)
          /\ UNCHANGED <<body, ledger, resting>>
       \/ UNCHANGED <<body, ledger, resting, toSide>>   \* not ready: refused for now

(* One pending mutation, in arrival order.  What was read before the *)
(* connection went is still applied; its answer is dropped.          *)
ApplyMutations ==
    /\ toMod # <<>> /\ toMod' = Tail(toMod)
    /\ LET f == Head(toMod) IN
         CASE f.type = "out_ack"  -> HandleAck(f.m)
           [] f.type = "out_nack" -> HandleNack(f.m)
           [] f.type = "in"       -> Handle(f.m)
    /\ UNCHANGED <<saved, world, minted, sideVars, link, cur, old, abroad, faults>>

(* Both windows are seconds of simulated time: they outlast the frames  *)
(* about an organism that are under way when they start.                *)
About(o, f) == f.type # "config" /\ f.m[1] = o
Quiet(o) == /\ \A k \in DOMAIN toMod : ~About(o, toMod[k])
            /\ \A k \in DOMAIN toSide : ~About(o, toSide[k])
            /\ \A job \in {cur, old} : job # Idle => job[1][1] # o
Rest(o) ==
    /\ o \in resting /\ Quiet(o)
    /\ resting' = resting \ {o}
    /\ UNCHANGED <<body, offered, ledger, saved, world, minted, sideVars, wireVars, abroad, faults>>

(* A save holds what is tracked; an inert organism is in it or not. *)
SaveWorld ==
    /\ \E s \in SUBSET {o \in Org : body[o] = "inert"} :
         saved' = {o \in Org : body[o] = "live"} \cup s
    /\ UNCHANGED <<body, offered, ledger, resting, world, minted, sideVars, wireVars, abroad, faults>>

(* Mutant: the offers are forgotten with the connection. *)
OnConnectedForgetful ==
    /\ link = "down" /\ link' = "up" /\ toSide' = <<Config>>
    /\ UNCHANGED <<modVars, minted, sideVars, toMod, cur, old, abroad, faults>>

(* The handshake, and behind it every unresolved MIGRATE_OUT again. *)
OnConnected ==
    /\ link = "down" /\ link' = "up"
    /\ toSide' = <<Config>> \o
           SetToSeq({Msg("out", <<o, offered[o]>>) : o \in {x \in Org : offered[x] # 0}})
    /\ UNCHANGED <<modVars, minted, sideVars, toMod, cur, old, abroad, faults>>

-----------------------------------------------------------------------------
(* The sidecar. *)

Departed == {m \in Id : jr[m].dir = "out"}

(* Mutant: a new world session is not told of the departed. *)
onConfigUpdateSilent(f) ==
    /\ link' = "shaken" /\ known' = known \cup {f.world}
    /\ UNCHANGED <<jr, cur, toMod>>

(* The handshake.  A world session never seen before is told of every *)
(* organism that left, in case the load brought it back.              *)
onConfigUpdate(f) ==
    /\ link' = "shaken"
    /\ known' = known \cup {f.world}
    /\ ToMod(IF f.world \in known THEN <<>>
             ELSE SetToSeq({Msg("out_ack", m) : m \in Departed}))
    /\ UNCHANGED <<jr, cur>>

onMigrateInAck(m) ==
    /\ jr' = IF Known(m) /\ jr[m].status # "done"
             THEN [jr EXCEPT ![m].status = "done"] ELSE jr
    /\ UNCHANGED <<known, link, toMod, cur>>

onMigrateInNack(m) ==
    /\ jr' = IF Known(m) THEN [jr EXCEPT ![m].status = "held"] ELSE jr
    /\ UNCHANGED <<known, link, toMod, cur>>

handleModFrame ==
    /\ toSide # <<>> /\ cur = Idle /\ toSide' = Tail(toSide)
    /\ LET f == Head(toSide) IN
         CASE f.type = "config"  -> onConfigUpdate(f)
           [] f.type = "in_ack"  -> onMigrateInAck(f.m)
           [] f.type = "in_nack" -> onMigrateInNack(f.m)
           [] f.type = "out"     -> /\ cur' = <<f.m, "read">>
                                    /\ UNCHANGED <<jr, known, link, toMod>>
    /\ UNCHANGED <<modVars, minted, old, abroad, faults>>

(* onMigrateOut releases the lock twice: to build the annex, and after the *)
(* journal write.  An ACK goes to whichever connection is current, a NACK  *)
(* to the handler's own.                                                   *)
Nacked(m, own) == ToMod(IF own THEN <<Msg("out_nack", m)>> ELSE <<>>)

(* Mutant: acknowledged before it is journaled. *)
CheckAcksFirst(m, own, next) ==
    /\ UNCHANGED jr /\ ToMod(<<Msg("out_ack", m)>>)
    /\ next = IF Known(m) THEN Idle ELSE <<m, "checked">>

Check(m, own, next) ==
    /\ UNCHANGED jr
    /\ \/ Known(m) /\ ToMod(<<Msg("out_ack", m)>>) /\ next = Idle
       \/ ~Known(m) /\ Nacked(m, own) /\ next = Idle   \* edge closed, journal full
       \/ ~Known(m) /\ UNCHANGED toMod /\ next = <<m, "checked">>

(* Mutant: a failed journal write falls through to the acknowledgement. *)
CreateEntryFallsThrough(m, own, next) ==
    \/ ~Known(m) /\ jr' = [jr EXCEPT ![m] = As("out", "open")]
       /\ UNCHANGED toMod /\ next = <<m, "created">>
    \/ UNCHANGED <<jr, toMod>> /\ next = <<m, "created">>

CreateEntry(m, own, next) ==
    \/ ~Known(m) /\ jr' = [jr EXCEPT ![m] = As("out", "open")]
       /\ UNCHANGED toMod /\ next = <<m, "created">>
    \/ UNCHANGED jr /\ Nacked(m, own) /\ next = Idle   \* a duplicate, or the disk

onMigrateOut(job, own, next) ==
    \/ job # Idle /\ job[2] = "read" /\ Check(job[1], own, next)
    \/ job # Idle /\ job[2] = "checked" /\ CreateEntry(job[1], own, next)
    \/ /\ job # Idle /\ job[2] = "created" /\ next = Idle
       /\ ToMod(<<Msg("out_ack", job[1])>>) /\ UNCHANGED jr

Handler ==
    /\ \/ onMigrateOut(cur, TRUE, cur') /\ UNCHANGED old
       \/ onMigrateOut(old, FALSE, old') /\ UNCHANGED cur
    /\ UNCHANGED <<modVars, minted, known, link, toSide, abroad, faults>>

(* The custody tick, reduced to how it ends: gone, or home again.  Both a   *)
(* bounce deadline and a journey abroad outlast the step from a handler's   *)
(* journal write to its answer, and that much of the clock is kept.         *)
Answered(o) == \A job \in {cur, old} : job # Idle => ~(job[1][1] = o /\ job[2] = "created")

Forward(m) ==
    /\ jr[m] = As("out", "open")
    /\ jr' = [jr EXCEPT ![m].status = "in_flight"]
    /\ abroad' = abroad \cup {m[1]}
    /\ UNCHANGED <<modVars, minted, known, wireVars, faults>>

Bounce(m) ==
    /\ jr[m] = As("out", "open") /\ Answered(m[1])
    /\ jr' = [jr EXCEPT ![m] = As("in", "open")]
    /\ UNCHANGED <<modVars, minted, known, wireVars, abroad, faults>>

Arrive(o) ==
    LET n == minted[o] + 1 IN
    /\ o \in abroad /\ n \in Trip /\ Answered(o)
    /\ minted' = [minted EXCEPT ![o] = n]
    /\ jr' = [jr EXCEPT ![<<o, n>>] = As("in", "open")]
    /\ abroad' = abroad \ {o}
    /\ UNCHANGED <<modVars, known, wireVars, faults>>

(* A delivery, and again when no answer came within migrateInAckTimeoutMs; *)
(* at most two copies of one, with their answers, are under way.           *)
Answers(m) == {Msg("in_ack", m), Msg("in_nack", m)}
Copies(m) == Cardinality({k \in DOMAIN toMod : toMod[k] = Msg("in", m)})
           + Cardinality({k \in DOMAIN toSide : toSide[k] \in Answers(m)})
Deliver(m) ==
    /\ link = "shaken" /\ jr[m] \in {As("in", "open"), As("in", "in_flight")}
    /\ Copies(m) < 2
    /\ jr' = [jr EXCEPT ![m].status = "in_flight"]
    /\ ToMod(<<Msg("in", m)>>)
    /\ UNCHANGED <<modVars, minted, known, link, toSide, cur, old, abroad, faults>>

-----------------------------------------------------------------------------
(* What goes wrong. *)

Fault(kind) == kind \in Faults /\ faults < MaxFaults /\ faults' = faults + 1

(* The connection ends: what the sidecar had not read is lost, and what it *)
(* had read goes on in the old handler.  The mod keeps what it had read.   *)
Broken(kept) ==
    /\ link' = "down" /\ toSide' = <<>> /\ toMod' = kept
    /\ old = Idle /\ old' = cur /\ cur' = Idle

Drop ==
    /\ link # "down" /\ Fault("drop")
    /\ \E k \in 0..Len(toMod) : Broken(SubSeq(toMod, 1, k))
    /\ UNCHANGED <<modVars, minted, sideVars, abroad>>

LoadWorld ==
    /\ Fault("load")
    /\ world' = world + 1
    /\ body' = [o \in Org |-> IF o \in saved THEN "live" ELSE "none"]
    /\ offered' = [o \in Org |-> 0] /\ ledger' = {} /\ resting' = {}
    /\ Broken(<<>>)
    /\ UNCHANGED <<saved, minted, sideVars, abroad>>

CrashSidecar ==
    /\ Fault("crash")
    /\ known' = {} /\ link' = "down" /\ toSide' = <<>>
    /\ cur' = Idle /\ old' = Idle
    /\ \E k \in 0..Len(toMod) : toMod' = SubSeq(toMod, 1, k)
    /\ UNCHANGED <<modVars, minted, jr, abroad>>

-----------------------------------------------------------------------------

Init ==
    /\ body = [o \in Org |-> "live"] /\ saved = Org
    /\ offered = [o \in Org |-> 0] /\ minted = [o \in Org |-> 0]
    /\ ledger = {} /\ resting = {} /\ world = 1
    /\ jr = [m \in Id |-> NoEntry] /\ known = {}
    /\ link = "down" /\ toMod = <<>> /\ toSide = <<>> /\ cur = Idle /\ old = Idle
    /\ abroad = {} /\ faults = 0

Next ==
    \/ \E o \in Org : TryBegin(o) \/ Rest(o) \/ Arrive(o)
    \/ \E m \in Id : Forward(m) \/ Bounce(m) \/ Deliver(m)
    \/ ApplyMutations \/ SaveWorld \/ OnConnected
    \/ handleModFrame \/ Handler
    \/ Drop \/ LoadWorld \/ CrashSidecar

Spec == Init /\ [][Next]_vars

(* The mod dials until it is connected, and both ends work through what is *)
(* queued for them.                                                        *)
Progress == WF_vars(OnConnected) /\ WF_vars(handleModFrame)
            /\ WF_vars(Handler) /\ WF_vars(ApplyMutations)
FairSpec == Spec /\ Progress

-----------------------------------------------------------------------------
TypeOK ==
    /\ body \in [Org -> {"live", "inert", "none"}]
    /\ offered \in [Org -> 0..MaxTrips] /\ minted \in [Org -> 0..MaxTrips]
    /\ ledger \subseteq Id /\ saved \subseteq Org /\ resting \subseteq Org /\ world \in Nat \ {0}
    /\ jr \in [Id -> Entry] /\ known \subseteq Nat
    /\ link \in {"down", "up", "shaken"}
    /\ toMod \in Seq(Frame) /\ toSide \in Seq(Frame) /\ cur \in Job /\ old \in Job
    /\ abroad \subseteq Org /\ faults \in 0..MaxFaults

(* Nothing is under way between the two. *)
Settled == /\ link = "shaken" /\ toMod = <<>> /\ toSide = <<>>
           /\ cur = Idle /\ old = Idle

SentAway(o) == \E n \in Trip : jr[<<o, n>>] = As("out", "open")
ToCome(o) == \E n \in Trip : jr[<<o, n>>] \in {As("in", s) : s \in {"open", "in_flight", "held"}}

(* Contract A's D2: loss is preferred over duplication.  Once the two ends *)
(* have talked it out, no organism that the sidecar is sending away, or     *)
(* that is in another world, is alive in this one.                          *)
Duplicated(o) == body[o] = "live" /\ (o \in abroad \/ SentAway(o))
OnePlace == Settled => \A o \in Org : ~Duplicated(o)

(* The part of OnePlace the code keeps through any one lost connection,     *)
(* sidecar restart or world load: replayed offers, overlapping handlers and *)
(* replayed deliveries make no second copy, and the reassertion destroys a  *)
(* copy that a world load brought back, unless the mod offers that copy     *)
(* again first.                                                             *)
HealedAfterOneFault ==
    Settled => \A o \in Org : (world = 1 \/ minted[o] <= 1) => ~Duplicated(o)

(* No organism vanishes: it is in this world, in another one, or the       *)
(* sidecar's journal still means to deliver it.                            *)
NotLost == Settled => \A o \in Org :
    body[o] # "none" \/ o \in abroad \/ SentAway(o) \/ ToCome(o)

(* The part of NotLost the code keeps: in one world session, an organism on *)
(* its first journey that was not sent back is never lost, whatever         *)
(* connections and sidecar restarts do to its MIGRATE_OUT and the answer.   *)
FirstDepartureKept == Settled /\ world = 1 => \A o \in Org :
    (minted[o] <= 1 /\ \A n \in Trip : jr[<<o, n>>].dir # "in")
        => body[o] # "none" \/ o \in abroad \/ SentAway(o)

(* Neither two copies nor none, as far as the code keeps it: through one fault *)
(* (onMigrateOut, reassertCustodyLocked, replayInboundLocked).                 *)
OneCopyKept == HealedAfterOneFault /\ FirstDepartureKept

(* The mod destroys an organism only on durable custody: the sidecar's      *)
(* journal has had it, under the id the acknowledgement names.              *)
DestroyedOnCustody ==
    [][\A o \in Org : (body[o] # "none" /\ body'[o] = "none" /\ world' = world)
          => \E n \in Trip : Known(<<o, n>>)]_vars

(* A reassertion destroys what a rollback resurrected, and not an organism *)
(* that left, came home under a new migrationId and lives here by right.   *)
HomecomersStay ==
    [][\A o \in Org : (body[o] = "live" /\ body'[o] = "none" /\ world' = world)
          => <<o, minted[o]>> \notin ledger]_vars

(* Every offer is resolved: an organism does not stay inert for ever.       *)
OffersResolve == \A o \in Org : offered[o] # 0 ~> offered[o] = 0
=============================================================================
