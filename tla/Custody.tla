------------------------------ MODULE Custody ------------------------------
(***************************************************************************)
(* Contract B custody: how one organism crosses the map from its home      *)
(* world to another one, through the home sidecar's journal, the relay and *)
(* the receiving sidecar's journal (src/go/internal/sidecar and relay).    *)
(*                                                                         *)
(* One migrationId is one journey of one organism.  Every peer holds one   *)
(* slot for good, so a slot is named by its peer.  A journal write is      *)
(* atomic and durable here; module Journal is about what that takes.  A    *)
(* live organism in a world is a member of world[m]; the mod makes an      *)
(* organism inert before it offers it, and spawns a delivery once.         *)
(***************************************************************************)
EXTENDS Naturals, FiniteSets

CONSTANTS
    Peer,        \* sidecars, one slot each
    NoPeer,      \* no destination, no neighbour, or the relay as a NACK's source
    Mig,         \* migrationIds
    Home,        \* the sidecar whose world each one leaves
    Rerouting,   \* FALSE: maxReroutes is negative
    MaxReroutes, \* maxReroutes
    MaxRestarts  \* bound: how many times the relay restarts

ASSUME PeerAssumption == NoPeer \notin Peer
ASSUME HomeAssumption == Home \in [Mig -> Peer]
ASSUME ReroutesAssumption == Rerouting \in BOOLEAN /\ MaxReroutes \in Nat
ASSUME RestartsAssumption == MaxRestarts \in Nat

VARIABLES
    jr,        \* jr[p][m]: the journal of each sidecar (durable)
    world,     \* world[m]: the worlds a live copy of the organism is in
    bounceAt,  \* bounceAt[m]: the home sidecar's no-lane clock (volatile)
    conn,      \* the peers whose relay link is up
    view,      \* view[p]: the live peers in p's last PEER_STATUS, {} if none came
    nb,        \* nb[p]: the effective neighbour in p's last SECTOR_GRANT
    session,   \* the relay's session, a new one at each restart
    forwarded, \* the relay's record of what this session handed over
    draining,  \* the relay is shutting down
    net        \* the frames between the processes

vars == <<jr, world, bounceAt, conn, view, nb, session, forwarded, draining, net>>

-----------------------------------------------------------------------------
(* Journal entries and frames. *)

Statuses  == {"none", "open", "in_flight", "done", "held", "purged"}
Handoffs  == {"none", "pending", "sent", "refused", "done", "lost"}
Proofs    == {"none", "never_sent", "peer_refused", "relay_never_forwarded"}
Clock     == {"off", "running", "passed"}
NackCodes == {"local", "payload", "not_forwarded", "draining", "offline"}
AnyPeer   == Peer \cup {NoPeer}

Entry == [status : Statuses, dir : {"out", "in"}, handoff : Handoffs,
          dest : AnyPeer, count : Nat, proof : Proofs, refused : SUBSET AnyPeer,
          deadline : Clock, sess : Nat, receiptSess : Nat, receiptDest : AnyPeer,
          acked : BOOLEAN]

NoEntry == [status |-> "none", dir |-> "in", handoff |-> "none",
            dest |-> NoPeer, count |-> 0, proof |-> "none", refused |-> {},
            deadline |-> "off", sess |-> 0, receiptSess |-> 0,
            receiptDest |-> NoPeer, acked |-> FALSE]

Offer == [type : {"offer"}, m : Mig, dest : Peer, count : Nat]
Payload == [type : {"payload"}, m : Mig, dest : Peer]
Ack == [type : {"ack"}, m : Mig, from : Peer]
Nack == [type : {"nack"}, m : Mig, from : AnyPeer, code : NackCodes,
         dest : Peer, count : Nat, never : BOOLEAN, sess : Nat]
Receipt == [type : {"receipt"}, m : Mig, dest : Peer, sess : Nat]

Frame == Offer \cup Payload \cup Ack \cup Nack \cup Receipt

OfferOf(m, e) == [type |-> "offer", m |-> m, dest |-> e.dest, count |-> e.count]
PayloadOf(f) == [type |-> "payload", m |-> f.m, dest |-> f.dest]
AckFrom(p, m) == [type |-> "ack", m |-> m, from |-> p]
ReceiptOf(f) == [type |-> "receipt", m |-> f.m, dest |-> f.dest, sess |-> session]

(* A relay NACK names the refused attempt; a peer NACK names its sender.  *)
RelayNack(f, code, never) ==
    [type |-> "nack", m |-> f.m, from |-> NoPeer, code |-> code,
     dest |-> f.dest, count |-> f.count, never |-> never, sess |-> session]
PeerNack(f, code) ==
    [type |-> "nack", m |-> f.m, from |-> f.dest, code |-> code,
     dest |-> f.dest, count |-> 0, never |-> FALSE, sess |-> 0]

Sender(f) ==
    CASE f.type = "offer"                 -> Home[f.m]
      [] f.type \in {"ack", "nack"}       -> f.from
      [] OTHER                            -> NoPeer
Receiver(f) ==
    CASE f.type = "payload"                     -> f.dest
      [] f.type \in {"ack", "nack", "receipt"}  -> Home[f.m]
      [] OTHER                                  -> NoPeer

Known(p, m)      == jr[p][m].status \notin {"none", "purged"}
Unresolved(p, m) == jr[p][m].status \in {"open", "in_flight"}
Outbound(m)      == Unresolved(Home[m], m) /\ jr[Home[m]][m].dir = "out"

(* Mutant: an arrival is answered as soon as it is journaled. *)
AwaitsAckEarly(p, m) ==
    /\ jr[p][m].status \in {"open", "in_flight", "done"} /\ jr[p][m].dir = "in"
    /\ ~jr[p][m].acked /\ p # Home[m]

(* A delivered arrival whose MIGRATION_ACK has not left; a bounce owes none. *)
AwaitsUpstreamAck(p, m) ==
    /\ jr[p][m].status = "done" /\ jr[p][m].dir = "in"
    /\ ~jr[p][m].acked /\ p # Home[m]

hasPendingAck(p) == \E m \in Mig : AwaitsUpstreamAck(p, m)

-----------------------------------------------------------------------------
(* What an outbound entry can become. *)

(* Mutant: the offer leaves before the journal says so. *)
SentInMemoryOnly(e) == e

Sent(e) == [e EXCEPT !.status = "in_flight", !.handoff = "sent", !.sess = session]

(* Mutant: the bounce closes the record and forgets to turn the entry round. *)
BouncedAsDone(e) == [e EXCEPT !.status = "done", !.handoff = "done"]

Bounced(e) == [e EXCEPT !.status = "open", !.dir = "in", !.handoff = "done"]

(* Mutants: the timeout brings the organism home, or calls silence a refusal. *)
LostByBouncing(e) == Bounced(e)
LostByRefusal(e) == [e EXCEPT !.handoff = "refused", !.proof = "never_sent", !.sess = 0]

Lost(e) == [e EXCEPT !.status = "done", !.handoff = "lost"]

Acked(e) == [e EXCEPT !.status = "done", !.handoff = "done", !.acked = TRUE]

(* A refusal ends the attempt: its session can prove nothing more. *)
MarkRefused(e, why) ==
    [e EXCEPT !.handoff = "refused", !.proof = why, !.sess = 0,
              !.refused = IF why = "peer_refused" THEN @ \cup {e.dest} ELSE @]

MarkTransportRefused(e) ==
    [e EXCEPT !.handoff = "refused", !.proof = "relay_never_forwarded", !.sess = 0,
              !.refused = @ \cup {e.dest},
              !.deadline = IF @ = "off" THEN "running" ELSE @]

Rerouted(e, why, d) ==
    [e EXCEPT !.handoff = "pending", !.dest = d, !.count = @ + 1,
              !.proof = why, !.sess = 0]

Bounded(e) == e.deadline # "off"

(* Mutant: the walk forgets the worlds that already refused. *)
UntriedForgetful(e, h) == view[h] \ {e.dest, h}

(* The worlds a refusal chain may still walk to: live, not home, not tried. *)
Untried(e, h) == view[h] \ (e.refused \cup {e.dest, h})

(* What rerouteLocked makes of the entry; {e}: it found nothing to do. *)
Reroute(e, why, h) ==
    IF e.deadline = "passed" THEN {Bounced(e)}
    ELSE IF ~Rerouting THEN {IF Bounded(e) THEN Bounced(e) ELSE e}
    ELSE IF e.count >= MaxReroutes THEN {Bounced(e)}
    ELSE IF why = "peer_refused" \/ Bounded(e)
         THEN IF Untried(e, h) # {} THEN {Rerouted(e, why, d) : d \in Untried(e, h)}
              ELSE {IF Bounded(e) /\ view[h] # {} THEN Bounced(e) ELSE e}
    ELSE {IF nb[h] \notin {NoPeer, e.dest} THEN Rerouted(e, why, nb[h]) ELSE e}

-----------------------------------------------------------------------------
TypeOK ==
    /\ jr \in [Peer -> [Mig -> Entry]]
    /\ world \in [Mig -> SUBSET Peer]
    /\ bounceAt \in [Mig -> Clock]
    /\ conn \in SUBSET Peer
    /\ view \in [Peer -> SUBSET Peer]
    /\ nb \in [Peer -> AnyPeer]
    /\ session \in Nat
    /\ forwarded \in SUBSET Mig
    /\ draining \in BOOLEAN
    /\ net \in SUBSET Frame

Init ==
    /\ jr = [p \in Peer |-> [m \in Mig |-> NoEntry]]
    /\ world = [m \in Mig |-> {Home[m]}]
    /\ bounceAt = [m \in Mig |-> "off"]
    /\ conn = {} /\ view = [p \in Peer |-> {}] /\ nb = [p \in Peer |-> NoPeer]
    /\ session = 1 /\ forwarded = {} /\ draining = FALSE
    /\ net = {}

(* Which variables belong to whom. *)
links == <<conn, view, nb>>
relay == <<session, forwarded, draining>>

SetEntry(p, m, e) == jr' = [jr EXCEPT ![p][m] = e]

-----------------------------------------------------------------------------
(* The home sidecar: an export, and the custody tick over it. *)

(* onMigrateOut: the neighbour is read, the lock released while the annex is *)
(* built, and the entry journaled against what was read, whatever the link   *)
(* has become; then the mod destroys its inert organism.                     *)
Export(m) ==
    LET h == Home[m] IN
    /\ jr[h][m].status = "none"
    /\ \E d \in Peer \ {h} :
         SetEntry(h, m, [NoEntry EXCEPT !.status = "open", !.dir = "out",
                                       !.handoff = "pending", !.dest = d])
    /\ world' = [world EXCEPT ![m] = @ \ {h}]
    /\ UNCHANGED <<bounceAt, links, relay, net>>

(* destLiveLocked *)
Live(e, h) == h \in conn /\ e.dest \in view[h]

PeerRefusal(e) == e.handoff = "refused" /\ e.proof = "peer_refused" /\ ~Bounded(e)

(* Nothing is left to walk to, and no exact chain waits for its own deadline. *)
NoLane(e, h) == ~Bounded(e) /\ Reroute(e, e.proof, h) = {e}

(* The branches of tickOutbound that offer the entry to its destination. *)
MayForward(m) ==
    LET h == Home[m]  e == jr[h][m] IN
    /\ Live(e, h)
    /\ \/ e.handoff = "pending" /\ e.deadline # "passed"
       \/ e.handoff = "refused" /\ ~Bounded(e) /\ e.proof # "peer_refused"
       \/ PeerRefusal(e) /\ Reroute(e, e.proof, h) = {e} /\ bounceAt[m] # "passed"

(* Mutant: every retry restarts the no-lane clock. *)
ClockForgotten(m, e) == "off"

(* A re-offer to a peer that refused leaves the no-lane clock running. *)
ClockAfterForward(m, e) ==
    IF ~PeerRefusal(e) THEN "off"
    ELSE IF bounceAt[m] = "off" THEN "running" ELSE bounceAt[m]

(* forwardLocked: sent is durable before the frame enters the writer, which *)
(* may refuse it, or the process may die in between.                        *)
Forward(m) ==
    LET h == Home[m]  e == jr[h][m] IN
    /\ MayForward(m)
    /\ SetEntry(h, m, Sent(e))
    /\ \E lost \in BOOLEAN : net' = IF lost THEN net ELSE net \cup {OfferOf(m, e)}
    /\ bounceAt' = [bounceAt EXCEPT ![m] = ClockAfterForward(m, e)]
    /\ UNCHANGED <<world, links, relay>>

(* The branches that rewrite the destination, or bounce at a bound. *)
TickReroute(m) ==
    LET h   == Home[m]
        e   == jr[h][m]
        why == IF e.handoff = "pending" THEN "never_sent" ELSE e.proof
    IN  /\ e.handoff \in {"pending", "refused"}
        /\ Live(e, h) => \/ e.deadline = "passed"
                         \/ e.handoff = "refused" /\ (Bounded(e) \/ PeerRefusal(e))
        /\ \E new \in Reroute(e, why, h) \ {e} : SetEntry(h, m, new)
        /\ bounceAt' = [bounceAt EXCEPT ![m] = "off"]
        /\ UNCHANGED <<world, links, relay, net>>

(* No lane: start the clock, and bounce home when it has run out. *)
WaitOrBounce(m) ==
    LET h == Home[m]  e == jr[h][m] IN
    /\ e.handoff \in {"pending", "refused"}
    /\ IF e.handoff = "pending"
       THEN ~Bounded(e) /\ Reroute(e, "never_sent", h) = {e} ELSE NoLane(e, h)
    /\ \/ /\ bounceAt[m] = "off" /\ ~Live(e, h)
          /\ bounceAt' = [bounceAt EXCEPT ![m] = "running"]
          /\ UNCHANGED jr
       \/ /\ bounceAt[m] = "passed" /\ (~Live(e, h) \/ PeerRefusal(e))
          /\ SetEntry(h, m, Bounced(e))
          /\ bounceAt' = [bounceAt EXCEPT ![m] = "off"]
    /\ UNCHANGED <<world, links, relay, net>>

(* Mutant: an entry whose destination is live is left to wait. *)
LoseOnlyDark(m) ==
    LET h == Home[m] IN
    /\ jr[h][m].handoff = "sent" /\ ~Live(jr[h][m], h)
    /\ SetEntry(h, m, Lost(jr[h][m]))
    /\ UNCHANGED <<world, bounceAt, links, relay, net>>

(* forwardTimeoutMs passed without an answer: a record, and no action. *)
Lose(m) ==
    LET h == Home[m] IN
    /\ jr[h][m].handoff = "sent"
    /\ SetEntry(h, m, Lost(jr[h][m]))
    /\ bounceAt' = [bounceAt EXCEPT ![m] = "off"]
    /\ UNCHANGED <<world, links, relay, net>>

(* The tick leaves every outbound entry alone while an ACK waits to leave. *)
tickOutbound(m) ==
    /\ Outbound(m) /\ ~hasPendingAck(Home[m])
    /\ Forward(m) \/ TickReroute(m) \/ WaitOrBounce(m) \/ Lose(m)

(* bounceTimeoutMs of the no-lane clock, and of the first exact refusal. *)
BounceClockPasses(m) ==
    /\ bounceAt[m] = "running"
    /\ bounceAt' = [bounceAt EXCEPT ![m] = "passed"]
    /\ UNCHANGED <<jr, world, links, relay, net>>

RefusalDeadlinePasses(m) ==
    LET h == Home[m] IN
    /\ Outbound(m) /\ jr[h][m].deadline = "running"
    /\ SetEntry(h, m, [jr[h][m] EXCEPT !.deadline = "passed"])
    /\ UNCHANGED <<world, bounceAt, links, relay, net>>

-----------------------------------------------------------------------------
(* The relay. *)

(* onMigrationPayload: routes on the destination slot.  The record of the    *)
(* forward is made before anybody can ask for a proof; a receipt may be shed. *)
RelayOffer(f) ==
    /\ f \in net /\ f.type = "offer"
    /\ \/ /\ draining
          /\ net' = (net \ {f}) \cup {RelayNack(f, "draining", FALSE)}
          /\ UNCHANGED forwarded
       \/ /\ ~draining /\ f.dest \notin conn
          /\ net' = (net \ {f}) \cup {RelayNack(f, "offline", f.m \notin forwarded)}
          /\ UNCHANGED forwarded
       \/ /\ ~draining /\ f.dest \in conn   \* its paced queue is full
          /\ net' = (net \ {f}) \cup {RelayNack(f, "not_forwarded", f.m \notin forwarded)}
          /\ UNCHANGED forwarded
       \/ /\ ~draining /\ f.dest \in conn
          /\ forwarded' = forwarded \cup {f.m}
          /\ \E shed \in BOOLEAN :
               net' = (net \ {f}) \cup {PayloadOf(f)} \cup (IF shed THEN {} ELSE {ReceiptOf(f)})
    /\ UNCHANGED <<jr, world, bounceAt, links, session, draining>>

(* A frame addressed to a peer that is not connected goes nowhere. *)
RelayDrops(f) ==
    /\ f \in net /\ f.type \in {"ack", "nack", "receipt"}
    /\ Receiver(f) \notin conn
    /\ net' = net \ {f}
    /\ UNCHANGED <<jr, world, bounceAt, links, relay>>

SweepForwardRecord(m) ==
    /\ m \in forwarded
    /\ forwarded' = forwarded \ {m}
    /\ UNCHANGED <<jr, world, bounceAt, links, session, draining, net>>

Drain ==
    /\ ~draining
    /\ draining' = TRUE
    /\ UNCHANGED <<jr, world, bounceAt, links, session, forwarded, net>>

RelayRestart ==
    /\ session <= MaxRestarts
    /\ session' = session + 1
    /\ forwarded' = {} /\ draining' = FALSE
    /\ conn' = {} /\ view' = [p \in Peer |-> {}] /\ nb' = [p \in Peer |-> NoPeer]
    /\ net' = {}
    /\ UNCHANGED <<jr, world, bounceAt>>

(* PEER_STATUS and SECTOR_GRANT, as of when the peer applies them; what they *)
(* tell a peer that exports nothing decides nothing, and is left out.        *)
Exporter(p) == \E m \in Mig : Home[m] = p

PeerStatus(p) ==
    /\ p \in conn /\ Exporter(p)
    /\ view' = [view EXCEPT ![p] = conn]
    /\ UNCHANGED <<jr, world, bounceAt, conn, nb, relay, net>>

Grant(p) ==
    /\ p \in conn /\ Exporter(p)
    /\ \E n \in IF conn = {p} THEN {NoPeer} ELSE conn \ {p} : nb' = [nb EXCEPT ![p] = n]
    /\ UNCHANGED <<jr, world, bounceAt, conn, view, relay, net>>

-----------------------------------------------------------------------------
(* Links and processes.  What was queued to a peer dies with its connection; *)
(* what it had sent may or may not have been read.                           *)

Connect(p) ==
    /\ p \notin conn /\ ~draining
    /\ conn' = conn \cup {p}
    /\ UNCHANGED <<jr, world, bounceAt, view, nb, relay, net>>

Unlink(p) ==
    /\ conn' = conn \ {p}
    /\ view' = [view EXCEPT ![p] = {}]
    /\ nb' = [nb EXCEPT ![p] = NoPeer]
    /\ \E lost \in SUBSET {f \in net : Sender(f) = p} :
         net' = {f \in net \ lost : Receiver(f) # p}

Disconnect(p) ==
    /\ p \in conn
    /\ Unlink(p)
    /\ UNCHANGED <<jr, world, bounceAt, relay>>

(* The sidecar dies and comes back with its journal and without its clocks. *)
Crash(p) ==
    /\ Unlink(p)
    /\ bounceAt' = [m \in Mig |-> IF Home[m] = p THEN "off" ELSE bounceAt[m]]
    /\ UNCHANGED <<jr, world, relay>>

-----------------------------------------------------------------------------
(* The receiving sidecar, and the mod beside it. *)

(* onMigrationPayload: a known migrationId delivers nothing and is answered  *)
(* only once it was delivered; a new one is refused, or journaled and often  *)
(* delivered at once.  Queue depth, admission and validation can refuse it.  *)
onMigrationPayload(f) ==
    LET q == f.dest  m == f.m  e == jr[q][m] IN
    /\ f \in net /\ f.type = "payload" /\ q \in conn
    /\ IF Known(q, m)
       THEN /\ net' = (net \ {f}) \cup
                      (IF e.status = "done" \/ e.acked THEN {AckFrom(q, m)} ELSE {})
            /\ UNCHANGED jr
       ELSE \/ /\ \E code \in {"local", "payload"} :
                     net' = (net \ {f}) \cup {PeerNack(f, code)}
               /\ UNCHANGED jr
            \/ /\ \E s \in {"open", "in_flight"} :
                     SetEntry(q, m, [NoEntry EXCEPT !.status = s])
               /\ net' = net \ {f}
    /\ UNCHANGED <<world, bounceAt, links, relay>>

(* deliverLocked, for an arrival and for an organism bounced home. *)
Deliver(p, m) ==
    /\ jr[p][m].dir = "in" /\ jr[p][m].status = "open"
    /\ SetEntry(p, m, [jr[p][m] EXCEPT !.status = "in_flight"])
    /\ UNCHANGED <<world, bounceAt, links, relay, net>>

(* The mod spawns the organism of a MIGRATE_IN it has not seen before. *)
Spawn(p, m) ==
    /\ jr[p][m].dir = "in" /\ jr[p][m].status = "in_flight"
    /\ p \notin world[m]
    /\ world' = [world EXCEPT ![m] = @ \cup {p}]
    /\ UNCHANGED <<jr, bounceAt, links, relay, net>>

(* ackUpstreamLocked: the mark may fail, or the process die, after the send. *)
SendAckUpstream(p, m, e) ==
    /\ p \in conn
    /\ net' = net \cup {AckFrom(p, m)}
    /\ \E marked \in BOOLEAN : SetEntry(p, m, [e EXCEPT !.acked = marked])

(* onMigrateInAck: done, and the upstream answer at once if it can leave. *)
onMigrateInAck(p, m) ==
    LET done == [jr[p][m] EXCEPT !.status = "done"] IN
    /\ jr[p][m].dir = "in" /\ jr[p][m].status = "in_flight"
    /\ p \in world[m]
    /\ \/ p # Home[m] /\ SendAckUpstream(p, m, done)
       \/ SetEntry(p, m, done) /\ UNCHANGED net
    /\ UNCHANGED <<world, bounceAt, links, relay>>

(* onMigrateInNack, permanent: held for an operator, never returned. *)
onMigrateInNack(p, m) ==
    /\ jr[p][m].dir = "in" /\ jr[p][m].status = "in_flight"
    /\ p \notin world[m]
    /\ SetEntry(p, m, [jr[p][m] EXCEPT !.status = "held"])
    /\ UNCHANGED <<world, bounceAt, links, relay, net>>

(* tickInbound *)
tickInbound(p, m) ==
    /\ AwaitsUpstreamAck(p, m)
    /\ SendAckUpstream(p, m, jr[p][m])
    /\ UNCHANGED <<world, bounceAt, links, relay>>

(* PurgeExpired: a tombstone past its retention that owes no ACK. *)
Purge(p, m) ==
    /\ jr[p][m].status = "done" /\ ~AwaitsUpstreamAck(p, m)
    /\ SetEntry(p, m, [NoEntry EXCEPT !.status = "purged"])
    /\ UNCHANGED <<world, bounceAt, links, relay, net>>

-----------------------------------------------------------------------------
(* The answers, at home. *)

Arrives(f, type) == f \in net /\ f.type = type /\ Home[f.m] \in conn

onMigrationAck(f) ==
    LET h == Home[f.m] IN
    /\ Arrives(f, "ack")
    /\ net' = net \ {f}
    /\ IF Outbound(f.m)
       THEN /\ SetEntry(h, f.m, Acked(jr[h][f.m]))
            /\ bounceAt' = [bounceAt EXCEPT ![f.m] = "off"]
       ELSE UNCHANGED <<jr, bounceAt>>
    /\ UNCHANGED <<world, links, relay>>

onForwardReceipt(f) ==
    LET h == Home[f.m] IN
    /\ Arrives(f, "receipt")
    /\ net' = net \ {f}
    /\ IF Outbound(f.m)
       THEN SetEntry(h, f.m, [jr[h][f.m] EXCEPT !.receiptSess = f.sess,
                                                !.receiptDest = f.dest])
       ELSE UNCHANGED jr
    /\ UNCHANGED <<world, bounceAt, links, relay>>

(* Does a peer's NACK name the destination of the current attempt? *)
FromCurrentDest(e, n, h) == view[h] # {} /\ n.from = e.dest

(* An exact NOT_FORWARDED, or neverForwarded, under the entry's own session. *)
AttemptProof(e, n) ==
    /\ n.code = "not_forwarded"
    /\ e.sess # 0 /\ n.sess = e.sess /\ n.dest = e.dest /\ n.count = e.count
NeverProof(e, n) == n.code = "offline" /\ n.never /\ e.sess # 0 /\ n.sess = e.sess

(* A receipt on file for the same forward contradicts the proof. *)
Contradicted(e, n) ==
    /\ e.receiptSess = n.sess
    /\ n.code = "not_forwarded" => e.receiptDest = n.dest

(* The evidence table of onMigrationNack.  A journal write may fail: the     *)
(* refusal is then not recorded, or recorded and not yet acted upon.         *)
AfterNack(e, n, h) ==
    LET Refused(r, why) == {e, r} \cup Reroute(r, why, h)
    IN  IF n.from # NoPeer
        THEN IF ~FromCurrentDest(e, n, h) THEN {e}
             ELSE IF n.code = "payload" THEN {e, Bounced(e)}
             ELSE Refused(MarkRefused(e, "peer_refused"), "peer_refused")
        ELSE IF Contradicted(e, n) THEN {e}
        ELSE IF AttemptProof(e, n)
             THEN Refused(MarkTransportRefused(e), "relay_never_forwarded")
        ELSE IF NeverProof(e, n)
             THEN Refused(MarkRefused(e, "relay_never_forwarded"), "relay_never_forwarded")
        ELSE {e}

onMigrationNack(n) ==
    LET h == Home[n.m]  e == jr[h][n.m] IN
    /\ Arrives(n, "nack")
    /\ net' = net \ {n}
    /\ IF Outbound(n.m)
       THEN \E new \in AfterNack(e, n, h) :
              /\ SetEntry(h, n.m, new)
              /\ bounceAt' = [bounceAt EXCEPT ![n.m] =
                                IF new.count # e.count \/ new.dir = "in" THEN "off" ELSE @]
       ELSE UNCHANGED <<jr, bounceAt>>
    /\ UNCHANGED <<world, links, relay>>

-----------------------------------------------------------------------------
Next ==
    \/ \E m \in Mig : \/ Export(m) \/ tickOutbound(m)
                      \/ BounceClockPasses(m) \/ RefusalDeadlinePasses(m)
                      \/ SweepForwardRecord(m)
    \/ \E f \in net : \/ RelayOffer(f) \/ RelayDrops(f) \/ onMigrationPayload(f)
                      \/ onMigrationAck(f) \/ onForwardReceipt(f) \/ onMigrationNack(f)
    \/ \E p \in Peer : \/ Connect(p) \/ Disconnect(p) \/ Crash(p)
                       \/ PeerStatus(p) \/ Grant(p)
                       \/ \E m \in Mig : \/ Deliver(p, m) \/ Spawn(p, m)
                                         \/ onMigrateInAck(p, m) \/ onMigrateInNack(p, m)
                                         \/ tickInbound(p, m) \/ Purge(p, m)
    \/ Drain \/ RelayRestart

Spec == Init /\ [][Next]_vars

(* The custody ticker, its deadlines, and the relay's broadcasts run for as  *)
(* long as their processes do, and an ACK that leaves is marked sooner or      *)
(* later; nothing makes a link come up or an answer come.                      *)
Fairness ==
    /\ \A m \in Mig : /\ WF_vars(tickOutbound(m))
                      /\ WF_vars(BounceClockPasses(m))
                      /\ WF_vars(RefusalDeadlinePasses(m))
    /\ \A p \in Peer : /\ WF_vars(PeerStatus(p)) /\ WF_vars(Grant(p))
                       /\ \A m \in Mig : WF_vars(tickInbound(p, m) /\ jr'[p][m].acked)

FairSpec == Spec /\ Fairness

-----------------------------------------------------------------------------
(* Properties. *)

(* Where the organism, or the right to produce it, can be. *)
AtHome(m) ==
    LET e == jr[Home[m]][m] IN
    \/ e.dir = "out" /\ e.handoff \in {"pending", "refused"}
    \/ e.dir = "in" /\ e.status \in {"open", "in_flight", "held"} /\ Home[m] \notin world[m]

Carriers(m) == {f \in net : f.m = m /\ f.type \in {"offer", "payload", "nack"}}

Holders(m) == {q \in Peer \ {Home[m]} :
                 jr[q][m].status \in {"open", "in_flight", "held"} /\ q \notin world[m]}

Places(m) == (IF AtHome(m) THEN {<<"home">>} ELSE {})
             \cup {<<"frame", f>> : f \in Carriers(m)}
             \cup {<<"inbox", q>> : q \in Holders(m)}
             \cup {<<"world", p>> : p \in world[m]}

(* D2: migration is at most once.  One journey never has two places the       *)
(* organism could come alive from, counting the journals that would deliver   *)
(* it and the frames that would make one do so (forwardLocked, rerouteLocked, *)
(* bounceLocked, onMigrationNack).                                            *)
AtMostOnePlace == \A m \in Mig : \A x, y \in Places(m) : x = y

(* An organism that is nowhere is one the home journal answers for: it waits  *)
(* in sent, or was recorded lost, never done or bounced (loseLocked).         *)
NoSilentLoss ==
    \A m \in Mig : Places(m) = {} =>
        jr[Home[m]][m].status = "purged" \/ jr[Home[m]][m].handoff \in {"sent", "lost"}

(* A MIGRATION_ACK says a world has the organism, not that a journal has it   *)
(* (onMigrationPayload's duplicate branch, onMigrateInAck).                   *)
AckMeansDelivered ==
    \A m \in Mig :
        jr[Home[m]][m].dir = "out" /\ jr[Home[m]][m].handoff = "done"
            => world[m] \ {Home[m]} # {}

(* Inside an exact refusal chain no destination is tried twice, across        *)
(* restarts, reconnects and the peer refusals that came before it             *)
(* (markTransportRefusedLocked, rerouteLocked).                               *)
NoRetryInAChain ==
    \A m \in Mig : LET e == jr[Home[m]][m] IN
        Outbound(m) /\ Bounded(e) /\ e.handoff \in {"pending", "sent"} => e.dest \notin e.refused

(* While an attempt is unanswered, the frame and the answers under way are    *)
(* about that very attempt: no answer to an earlier one can still come        *)
(* (peerNackMatchesCurrentDestinationLocked, ProvesAttemptRefusal).           *)
OnlyTheCurrentAttempt ==
    \A m \in Mig : LET e == jr[Home[m]][m] IN
        Outbound(m) /\ e.handoff = "sent" =>
            \A f \in Carriers(m) : f.dest = e.dest /\ (f.type = "offer" => f.count = e.count)

(* How far a journey is: gone once no place is left to produce it from. *)
stage == [m \in Mig |->
            IF jr[Home[m]][m].status = "none" THEN "home"
            ELSE IF world[m] # {} THEN "landed"
            ELSE IF AtHome(m) \/ Carriers(m) # {} \/ Holders(m) # {} THEN "moving"
            ELSE "gone"]

J == INSTANCE Journeys

(* Custody keeps the promise of Journeys: what landed stays where it is, what  *)
(* is gone stays gone whatever answer comes late (onMigrationAck and           *)
(* onMigrationNack on a tombstone, loseLocked, bounceLocked), and only a       *)
(* moving organism is spawned.                                                 *)
JourneysKept == J!Spec

(* An unanswered forward is answered or recorded lost (forwardTimeoutMs).      *)
SentResolves ==
    \A m \in Mig : (Outbound(m) /\ jr[Home[m]][m].handoff = "sent")
                   ~> ~(Outbound(m) /\ jr[Home[m]][m].handoff = "sent")

(* Once crashes and link changes stop, every export stops being outbound: it  *)
(* is delivered, recorded lost, or comes home (tickOutbound).                 *)
EveryExportEnds ==
    <>[][\A p \in Peer : ~Disconnect(p) /\ ~Crash(p) /\ ~Connect(p)]_vars
        => \A m \in Mig : Outbound(m) ~> ~Outbound(m)

=============================================================================
