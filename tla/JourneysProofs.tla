--------------------------- MODULE JourneysProofs ---------------------------
(***************************************************************************)
(* Custody implements Journeys, for every map and every set of journeys.   *)
(*                                                                         *)
(* Only Export and Spawn move an organism in or out of a world.  What is   *)
(* left to show of every other step is that it takes no journey back to    *)
(* its start and brings none back from nowhere.                            *)
(***************************************************************************)
EXTENDS CustodyProofs

(* No place is left to produce the organism from. *)
Nowhere(m) ==
    /\ jr[Home[m]][m].status # "none"
    /\ world[m] = {} /\ ~AtHome(m) /\ Carriers(m) = {} /\ Holders(m) = {}

(* A step under which journey m goes nowhere, or at most is lost. *)
Still(m) ==
    /\ world'[m] = world[m]
    /\ jr'[Home[m]][m].status = "none" <=> jr[Home[m]][m].status = "none"
    /\ Nowhere(m) => Nowhere(m)'

(* When the organism is nowhere, home waits for an answer, gave it up, or   *)
(* has forgotten it, and nobody else ever heard of it.                      *)
LEMMA NowhereShape ==
    ASSUME TypeOK, Inv, NEW m \in Mig, Nowhere(m)
    PROVE  /\ \/ jr[Home[m]][m].status = "purged"
              \/ /\ jr[Home[m]][m].dir = "out"
                 /\ jr[Home[m]][m].handoff \in {"sent", "lost"}
           /\ \A q \in Peer \ {Home[m]} : jr[q][m].status = "none"
           /\ \A f \in net : f.m = m => f.type \notin Telling
  <1>. DEFINE h == Home[m]
              e == jr[h][m]
  <1>h. h \in Peer /\ \A q \in Peer : jr[q][m] \in Entry
    BY HomeIsPeer DEF TypeOK
  <1>j. Journey(m)
    BY DEF Inv
  <1>1. e.status = "purged" \/ (e.dir = "out" /\ e.handoff \in {"sent", "lost"})
    <2>. SUFFICES ASSUME e.status # "purged"
                  PROVE  e.dir = "out" /\ e.handoff \in {"sent", "lost"}
      OBVIOUS
    <2>1. e.dir = "out"
      <3>. SUFFICES ASSUME e.dir = "in" PROVE FALSE
        BY <1>h DEF Entry
      <3>1. e.status \notin {"open", "in_flight", "held"}
        BY DEF Nowhere, AtHome
      <3>2. e.status # "done"
        BY <1>j DEF Nowhere, Journey, HomeEntry
      <3>. QED
        BY <1>h, <3>1, <3>2 DEF Nowhere, Entry, Statuses
    <2>2. e.handoff \notin {"pending", "refused"}
      BY <2>1 DEF Nowhere, AtHome
    <2>3. e.handoff \notin {"none", "done"}
      BY <2>1, <1>j DEF Nowhere, Journey, HomeEntry
    <2>. QED
      BY <1>h, <2>1, <2>2, <2>3 DEF Entry, Handoffs
  <1>2. ASSUME NEW q \in Peer \ {h} PROVE jr[q][m].status = "none"
    <2>1. jr[q][m].status \notin {"done", "purged"}
      BY <1>j DEF Nowhere, Journey, AwayEntries
    <2>2. jr[q][m].status \notin {"open", "in_flight", "held"}
      BY DEF Nowhere, Holders
    <2>. QED
      BY <1>h, <2>1, <2>2 DEF Entry, Statuses
  <1>3. \A f \in net : f.m = m => f.type \notin Telling
    BY <1>j DEF Nowhere, Carriers, Telling, Journey, FramesTrue
  <1>. QED
    BY <1>1, <1>2, <1>3

(* A step that changes no status, direction or handoff of a journey, and adds *)
(* no frame of it but a receipt, leaves it still.                            *)
LEMMA QuietStill ==
    ASSUME NEW m \in Mig, Home[m] \in Peer,
           \A q \in Peer : /\ jr'[q][m].status = jr[q][m].status
                           /\ jr'[q][m].dir = jr[q][m].dir
                           /\ jr'[q][m].handoff = jr[q][m].handoff,
           world'[m] = world[m],
           \A f \in net' : f.m = m /\ f.type \in Telling => f \in net
    PROVE  Still(m)
  <1>1. Carriers(m)' \subseteq Carriers(m)
    BY DEF Carriers, Telling
  <1>2. Holders(m)' = Holders(m)
    BY DEF Holders
  <1>3. AtHome(m)' = AtHome(m)
    BY DEF AtHome
  <1>. QED
    BY <1>1, <1>2, <1>3 DEF Still, Nowhere

(* The home entry of a journey that is not nowhere may be rewritten. *)
LEMMA HomeStill ==
    ASSUME TypeOK, NEW m \in Mig, Home[m] \in Peer, ~Nowhere(m),
           jr[Home[m]][m].status # "none", jr'[Home[m]][m].status # "none",
           world'[m] = world[m]
    PROVE  Still(m)
  BY DEF Still

(* The custody tick, its clocks and the sweep. *)
LEMMA MigStepStill ==
    ASSUME TypeOK, Inv, NEW m \in Mig,
           \/ tickOutbound(m) \/ BounceClockPasses(m)
           \/ RefusalDeadlinePasses(m) \/ SweepForwardRecord(m)
    PROVE  \A k \in Mig : Still(k)
  <1>. DEFINE h == Home[m]
              e == jr[h][m]
  <1>h. h \in Peer /\ e \in Entry
    BY HomeIsPeer DEF TypeOK
  <1>j. Journey(m) /\ NeighbourAway
    BY DEF Inv
  <1>1. CASE tickOutbound(m)
    <2>o. e.status \in {"open", "in_flight"} /\ e.dir = "out" /\ e.dest # h
      BY <1>1, <1>j DEF tickOutbound, Outbound, Unresolved, Journey, HomeEntry
    <2>f. OfferOf(m, e).m = m
      BY DEF OfferOf
    <2>w. world' = world /\ net' \subseteq net \cup {OfferOf(m, e)}
      BY <1>1 DEF tickOutbound, Forward, TickReroute, WaitOrBounce, Lose
    <2>s. UNCHANGED jr \/ \E new : SetEntry(h, m, new)
      BY <1>1 DEF tickOutbound, Forward, TickReroute, WaitOrBounce, Lose
    <2>k. \A q \in Peer, k \in Mig \ {m} : jr'[q][k] = jr[q][k]
      <3>1. ASSUME NEW new, SetEntry(h, m, new)
            PROVE  \A q \in Peer, k \in Mig \ {m} : jr'[q][k] = jr[q][k]
        BY <3>1, <1>h DEF SetEntry, TypeOK
      <3>. QED
        BY <2>s, <3>1
    <2>1. \A k \in Mig \ {m} : Still(k)
      BY <2>f, <2>w, <2>k, QuietStill, HomeIsPeer
    <2>2. CASE Lose(m)
      <3>1. e.handoff = "sent" /\ UNCHANGED <<world, net>>
        BY <2>2 DEF Lose
      <3>2. jr'[h][m] = Lost(e) /\ \A q \in Peer \ {h} : jr'[q][m] = jr[q][m]
        BY <2>2, <1>h DEF Lose, SetEntry, TypeOK
      <3>3. Lost(e).handoff = "lost" /\ Lost(e).status = "done" /\ Lost(e).dir = "out"
        BY <1>h, <2>o DEF Lost, Entry
      <3>4. Carriers(m)' = Carriers(m) /\ Holders(m)' = Holders(m) /\ ~AtHome(m)'
        BY <3>1, <3>2, <3>3 DEF Carriers, Holders, AtHome
      <3>5. Still(m)
        BY <3>1, <3>2, <3>3, <3>4, <2>o DEF Still, Nowhere
      <3>. QED
        BY <2>1, <3>5
    <2>3. CASE Forward(m) \/ TickReroute(m) \/ WaitOrBounce(m)
      <3>1. e.handoff \in {"pending", "refused"}
        BY <2>3 DEF Forward, MayForward, PeerRefusal, TickReroute, WaitOrBounce
      <3>2. ~Nowhere(m)
        BY <2>o, <3>1 DEF Nowhere, AtHome
      <3>3. jr'[h][m].status # "none"
        <4>1. CASE Forward(m)
          <5>1. jr'[h][m] = Sent(e)
            BY <4>1, <1>h DEF Forward, SetEntry, TypeOK
          <5>. QED
            BY <5>1, <1>h DEF Sent, Entry
        <4>2. CASE TickReroute(m)
          <5>. DEFINE why == IF e.handoff = "pending" THEN "never_sent" ELSE e.proof
          <5>1. why \in Proofs
            BY <1>h DEF Entry, Proofs
          <5>2. PICK new \in Reroute(e, why, h) : SetEntry(h, m, new)
            BY <4>2 DEF TickReroute
          <5>3. Homeward(new, h)
            BY <5>1, <5>2, <3>1, <2>o, <1>h, <1>j, RerouteHome
          <5>4. jr'[h][m] = new
            BY <5>2, <1>h DEF SetEntry, TypeOK
          <5>. QED
            BY <5>3, <5>4 DEF Homeward
        <4>3. CASE WaitOrBounce(m)
          <5>1. UNCHANGED jr \/ jr'[h][m] = Bounced(e)
            BY <4>3, <1>h DEF WaitOrBounce, SetEntry, TypeOK
          <5>2. Bounced(e).status = "open"
            BY <1>h DEF Bounced, Entry
          <5>. QED
            BY <5>1, <5>2, <2>o
        <4>. QED
          BY <2>3, <4>1, <4>2, <4>3
      <3>4. Still(m)
        BY <2>o, <2>w, <3>2, <3>3, <1>h, HomeStill
      <3>. QED
        BY <2>1, <3>4
    <2>. QED
      BY <1>1, <2>2, <2>3 DEF tickOutbound
  <1>2. CASE BounceClockPasses(m) \/ SweepForwardRecord(m)
    <2>1. UNCHANGED <<jr, world, net>>
      BY <1>2 DEF BounceClockPasses, SweepForwardRecord
    <2>. QED
      BY <2>1, QuietStill, HomeIsPeer
  <1>3. CASE RefusalDeadlinePasses(m)
    <2>1. UNCHANGED <<world, net>> /\ SetEntry(h, m, [e EXCEPT !.deadline = "passed"])
      BY <1>3 DEF RefusalDeadlinePasses
    <2>2. \A q \in Peer, k \in Mig :
             /\ jr'[q][k].status = jr[q][k].status /\ jr'[q][k].dir = jr[q][k].dir
             /\ jr'[q][k].handoff = jr[q][k].handoff
      BY <2>1, <1>h DEF SetEntry, TypeOK, Entry
    <2>. QED
      BY <2>1, <2>2, QuietStill, HomeIsPeer
  <1>. QED
    BY <1>1, <1>2, <1>3

(* The handlers of frames. *)
LEMMA FrameStepStill ==
    ASSUME TypeOK, Inv, NEW f \in net,
           \/ RelayOffer(f) \/ RelayDrops(f) \/ onMigrationPayload(f)
           \/ onMigrationAck(f) \/ onForwardReceipt(f) \/ onMigrationNack(f)
    PROVE  \A k \in Mig : Still(k)
  <1>. DEFINE m == f.m
              h == Home[m]
              e == jr[h][m]
  <1>f. f \in Frame /\ m \in Mig
    BY FrameKinds DEF TypeOK
  <1>h. h \in Peer /\ e \in Entry
    BY <1>f, HomeIsPeer DEF TypeOK
  <1>j. Journey(m) /\ NeighbourAway
    BY <1>f DEF Inv
  <1>k. ASSUME NEW p \in Peer, NEW new, SetEntry(p, m, new)
        PROVE  /\ jr'[p][m] = new
               /\ \A q \in Peer \ {p} : jr'[q][m] = jr[q][m]
               /\ \A q \in Peer, k \in Mig \ {m} : jr'[q][k] = jr[q][k]
    BY <1>f, <1>k DEF SetEntry, TypeOK
  <1>w. world' = world
    BY DEF RelayOffer, RelayDrops, onMigrationPayload, onMigrationAck,
           onForwardReceipt, onMigrationNack
  <1>t. f.type \in Telling => ~Nowhere(m)
    BY <1>f, NowhereShape
  <1>n. \A g \in net' : g \in net \/ (g.m = m /\ f.type \in {"offer", "payload"})
    <2>1. /\ ReceiptOf(f).m = m /\ PayloadOf(f).m = m
          /\ \A code, never : RelayNack(f, code, never).m = m
          /\ \A code : PeerNack(f, code).m = m
          /\ \A q : AckFrom(q, m).m = m
      BY DEF ReceiptOf, PayloadOf, RelayNack, PeerNack, AckFrom
    <2>2. CASE RelayOffer(f)
      BY <2>1, <2>2 DEF RelayOffer
    <2>3. CASE onMigrationPayload(f)
      BY <2>1, <2>3 DEF onMigrationPayload
    <2>4. CASE RelayDrops(f) \/ onMigrationAck(f) \/ onForwardReceipt(f) \/ onMigrationNack(f)
      BY <2>4 DEF RelayDrops, onMigrationAck, onForwardReceipt, onMigrationNack
    <2>. QED
      BY <2>2, <2>3, <2>4
  <1>o. ASSUME \A q \in Peer, k \in Mig \ {m} : jr'[q][k] = jr[q][k]
        PROVE  \A k \in Mig \ {m} : Still(k)
    BY <1>o, <1>w, <1>n, QuietStill, HomeIsPeer
  <1>1. CASE UNCHANGED jr
    <2>1. CASE f.type \in Telling
      <3>1. Still(m)
        BY <1>1, <1>w, <1>t, <2>1 DEF Still
      <3>. QED
        BY <1>1, <1>o, <3>1
    <2>2. CASE f.type \notin Telling
      <3>1. net' \subseteq net
        BY <1>n, <2>2 DEF Telling
      <3>. QED
        BY <1>1, <1>w, <3>1, QuietStill, HomeIsPeer
    <2>. QED
      BY <2>1, <2>2
  <1>2. CASE onMigrationPayload(f)
    <2>. DEFINE q == f.dest
    <2>1. f.type = "payload" /\ f \in Payload /\ q \in Peer
      BY <1>2, <1>f, FrameKinds DEF onMigrationPayload, Payload
    <2>2. q # h
      BY <2>1, <1>j DEF Carriers, Journey, FramesTrue
    <2>3. CASE \E new : SetEntry(q, m, new)
      <3>1. jr'[h][m] = jr[h][m] /\ \A p \in Peer, k \in Mig \ {m} : jr'[p][k] = jr[p][k]
        BY <2>1, <2>2, <2>3, <1>h, <1>k
      <3>2. Still(m)
        BY <2>1, <3>1, <1>w, <1>t DEF Still, Telling
      <3>. QED
        BY <3>1, <3>2, <1>o
    <2>. QED
      BY <1>1, <1>2, <2>3 DEF onMigrationPayload
  <1>3. CASE onMigrationAck(f)
    <2>1. f.type = "ack"
      BY <1>3 DEF onMigrationAck, Arrives
    <2>2. CASE Outbound(m) /\ SetEntry(h, m, Acked(e))
      <3>1. jr'[h][m] = Acked(e) /\ \A p \in Peer, k \in Mig \ {m} : jr'[p][k] = jr[p][k]
        BY <2>2, <1>h, <1>k
      <3>2. Acked(e).status = "done" /\ e.status # "none"
        BY <2>2, <1>h DEF Acked, Entry, Outbound, Unresolved
      <3>3. Still(m)
        BY <2>1, <3>1, <3>2, <1>w, <1>t, <1>f, <1>h, HomeStill DEF Telling
      <3>. QED
        BY <3>1, <3>3, <1>o
    <2>. QED
      BY <1>1, <1>3, <2>2 DEF onMigrationAck
  <1>4. CASE onForwardReceipt(f)
    <2>1. net' = net \ {f}
      BY <1>4 DEF onForwardReceipt
    <2>2. CASE SetEntry(h, m, [e EXCEPT !.receiptSess = f.sess, !.receiptDest = f.dest])
      <3>1. \A q \in Peer, k \in Mig :
               /\ jr'[q][k].status = jr[q][k].status /\ jr'[q][k].dir = jr[q][k].dir
               /\ jr'[q][k].handoff = jr[q][k].handoff
        BY <2>2, <1>f, <1>h DEF SetEntry, TypeOK, Entry
      <3>. QED
        BY <2>1, <3>1, <1>w, QuietStill, HomeIsPeer
    <2>. QED
      BY <1>1, <1>4, <2>2 DEF onForwardReceipt
  <1>5. CASE onMigrationNack(f)
    <2>1. f.type = "nack" /\ f \in Nack
      BY <1>5, <1>f, FrameKinds DEF onMigrationNack, Arrives
    <2>2. CASE Outbound(m) /\ \E new \in AfterNack(e, f, h) : SetEntry(h, m, new)
      <3>1. PICK new \in AfterNack(e, f, h) : SetEntry(h, m, new)
        BY <2>2
      <3>2. e.dir = "out" /\ e.dest # h /\ e.status \in {"open", "in_flight"}
        BY <2>2, <1>j DEF Outbound, Unresolved, Journey, HomeEntry
      <3>3. new = e \/ Homeward(new, h)
        BY <2>1, <3>1, <3>2, <1>h, <1>j, AfterNackHome
      <3>4. jr'[h][m] = new /\ \A q \in Peer, k \in Mig \ {m} : jr'[q][k] = jr[q][k]
        BY <3>1, <1>h, <1>k
      <3>5. new.status # "none"
        BY <3>2, <3>3 DEF Homeward
      <3>6. Still(m)
        BY <2>1, <3>2, <3>4, <3>5, <1>w, <1>t, <1>f, <1>h, HomeStill DEF Telling
      <3>. QED
        BY <3>4, <3>6, <1>o
    <2>. QED
      BY <1>1, <1>5, <2>2 DEF onMigrationNack
  <1>. QED
    BY <1>1, <1>2, <1>3, <1>4, <1>5 DEF RelayOffer, RelayDrops

(* Links, processes and the relay's own life. *)
LEMMA LinkStepStill ==
    ASSUME TypeOK, Inv,
           \/ Drain \/ RelayRestart
           \/ \E p \in Peer : Connect(p) \/ Disconnect(p) \/ Crash(p) \/ PeerStatus(p) \/ Grant(p)
    PROVE  \A k \in Mig : Still(k)
  <1>1. UNCHANGED <<jr, world>> /\ net' \subseteq net
    BY DEF Drain, RelayRestart, Connect, Disconnect, Crash, PeerStatus, Grant, Unlink, relay
  <1>. QED
    BY <1>1, QuietStill, HomeIsPeer

(* A delivery, once the organism is spawned or while it is not. *)
LEMMA DeliveryStepStill ==
    ASSUME TypeOK, Inv, NEW p \in Peer, NEW m \in Mig,
           \/ Deliver(p, m) \/ onMigrateInAck(p, m)
           \/ onMigrateInNack(p, m) \/ tickInbound(p, m) \/ Purge(p, m)
    PROVE  \A k \in Mig : Still(k)
  <1>. DEFINE h == Home[m]
              e == jr[p][m]
  <1>h. h \in Peer /\ e \in Entry
    BY HomeIsPeer DEF TypeOK
  <1>w. world' = world /\ net' \subseteq net \cup {AckFrom(p, m)}
    BY DEF Deliver, onMigrateInAck, onMigrateInNack, tickInbound, Purge, SendAckUpstream
  <1>a. AckFrom(p, m).m = m
    BY DEF AckFrom
  <1>e. e.status \notin {"none", "purged"}
    BY DEF Deliver, onMigrateInAck, onMigrateInNack, tickInbound, Purge, AwaitsUpstreamAck
  <1>n. Nowhere(m) => p = h /\ e.dir = "out" /\ e.handoff \in {"sent", "lost"}
    BY <1>e, NowhereShape
  <1>s. PICK new : SetEntry(p, m, new) /\ new.status # "none"
    <2>1. ASSUME NEW s \in Statuses, NEW b \in BOOLEAN
          PROVE  /\ [e EXCEPT !.status = s].status = s
                 /\ [[e EXCEPT !.status = s] EXCEPT !.acked = b].status = s
      BY <1>h DEF Entry
    <2>2. CASE Deliver(p, m) \/ onMigrateInNack(p, m)
      BY <2>1, <2>2 DEF Deliver, onMigrateInNack, Statuses
    <2>3. CASE onMigrateInAck(p, m)
      <3>1. PICK b \in BOOLEAN : \/ SetEntry(p, m, [e EXCEPT !.status = "done"])
                                \/ SetEntry(p, m, [[e EXCEPT !.status = "done"] EXCEPT !.acked = b])
        BY <2>3 DEF onMigrateInAck, SendAckUpstream
      <3>. DEFINE done == [e EXCEPT !.status = "done"]
                  told == [done EXCEPT !.acked = b]
      <3>2. done.status = "done" /\ told.status = "done"
        BY <2>1 DEF Statuses
      <3>3. SetEntry(p, m, done) \/ SetEntry(p, m, told)
        BY <3>1
      <3>. HIDE DEF done, told
      <3>. QED
        BY <3>2, <3>3
    <2>4. CASE tickInbound(p, m)
      <3>1. PICK b \in BOOLEAN : SetEntry(p, m, [e EXCEPT !.acked = b])
        BY <2>4 DEF tickInbound, SendAckUpstream
      <3>. DEFINE told == [e EXCEPT !.acked = b]
      <3>2. told.status = e.status
        BY <1>h DEF Entry
      <3>. HIDE DEF told
      <3>. QED
        BY <3>1, <3>2, <1>e DEF told
    <2>5. CASE Purge(p, m)
      <3>1. SetEntry(p, m, [NoEntry EXCEPT !.status = "purged"])
        BY <2>5 DEF Purge
      <3>2. [NoEntry EXCEPT !.status = "purged"].status = "purged"
        BY DEF NoEntry
      <3>. QED
        BY <3>1, <3>2
    <2>. QED
      BY <2>2, <2>3, <2>4, <2>5
  <1>k. /\ jr'[p][m] = new
        /\ \A q \in Peer \ {p} : jr'[q][m] = jr[q][m]
        /\ \A q \in Peer, k \in Mig \ {m} : jr'[q][k] = jr[q][k]
    BY <1>s DEF SetEntry, TypeOK
  <1>1. \A k \in Mig \ {m} : Still(k)
    BY <1>w, <1>a, <1>k, QuietStill, HomeIsPeer
  <1>2. CASE ~Nowhere(m)
    <2>1. jr'[h][m].status = "none" <=> jr[h][m].status = "none"
      BY <1>h, <1>k, <1>s, <1>e
    <2>2. Still(m)
      BY <1>2, <1>w, <2>1 DEF Still
    <2>. QED
      BY <1>1, <2>2
  <1>3. CASE Nowhere(m)
    <2>1. p = h /\ e.dir = "out" /\ world[m] = {}
      BY <1>3, <1>n DEF Nowhere
    <2>2. Purge(p, m)
      BY <2>1 DEF Deliver, onMigrateInAck, onMigrateInNack, tickInbound, AwaitsUpstreamAck
    <2>3. net' = net /\ jr'[h][m] = [NoEntry EXCEPT !.status = "purged"]
      BY <2>1, <2>2, <1>h DEF Purge, SetEntry, TypeOK
    <2>4. ~AtHome(m)' /\ jr'[h][m].status # "none"
      BY <2>3 DEF AtHome, NoEntry
    <2>5. Carriers(m)' = {} /\ Holders(m)' = {}
      BY <1>3, <1>k, <1>w, <2>1, <2>3 DEF Nowhere, Carriers, Holders
    <2>6. Still(m)
      BY <1>3, <1>w, <2>4, <2>5 DEF Still, Nowhere
    <2>. QED
      BY <1>1, <2>6
  <1>. QED
    BY <1>2, <1>3

-----------------------------------------------------------------------------
(* Stages. *)

(* The stage of a journey, one case at a time. *)
LEMMA StageIs ==
    ASSUME NEW m \in Mig
    PROVE  /\ jr[Home[m]][m].status = "none" => stage[m] = "home"
           /\ jr[Home[m]][m].status # "none" /\ world[m] # {} => stage[m] = "landed"
           /\ jr[Home[m]][m].status # "none" /\ world[m] = {} /\ ~Nowhere(m)
                 => stage[m] = "moving"
           /\ Nowhere(m) => stage[m] = "gone"
  BY DEF stage, Nowhere

(* A journey that a step leaves still keeps its stage, or is lost. *)
LEMMA StillStage ==
    ASSUME NEW m \in Mig, Still(m)
    PROVE  \/ stage'[m] = stage[m]
           \/ stage[m] = "moving" /\ stage'[m] = "gone"
  BY DEF Still, stage, Nowhere

(* A journey whose entries, frames and worlds a step leaves alone. *)
LEMMA SameStage ==
    ASSUME NEW k \in Mig, Home[k] \in Peer, \A q \in Peer : jr'[q][k] = jr[q][k],
           world'[k] = world[k], net' = net
    PROVE  stage'[k] = stage[k]
  <1>1. AtHome(k)' = AtHome(k) /\ Carriers(k)' = Carriers(k) /\ Holders(k)' = Holders(k)
    BY DEF AtHome, Carriers, Holders
  <1>. QED
    BY <1>1 DEF stage

(* A step that leaves every journey still is a Vanish, of none or of some. *)
LEMMA StillVanishes ==
    ASSUME TypeOK, TypeOK', \A k \in Mig : Still(k)
    PROVE  J!Vanish
  <1>. DEFINE lost == {m \in Mig : stage[m] = "moving" /\ stage'[m] = "gone"}
  <1>1. world' = world
    BY DEF Still, TypeOK
  <1>2. lost \in SUBSET {m \in Mig : stage[m] = "moving"}
    OBVIOUS
  <1>3. stage' = [m \in Mig |-> stage'[m]]
    BY DEF stage
  <1>4. \A m \in Mig : stage'[m] = IF m \in lost THEN "gone" ELSE stage[m]
    BY StillStage
  <1>5. stage' = [m \in Mig |-> IF m \in lost THEN "gone" ELSE stage[m]]
    BY <1>3, <1>4
  <1>. QED
    BY <1>1, <1>2, <1>5 DEF J!Vanish

(* onMigrateOut takes an organism off its home world. *)
LEMMA ExportLeaves ==
    ASSUME TypeOK, Inv, NEW m \in Mig, Export(m)
    PROVE  J!Leave(m)
  <1>. DEFINE h == Home[m]
  <1>h. h \in Peer
    BY HomeIsPeer
  <1>1. world[m] = {h} /\ jr[h][m].status = "none"
    BY DEF Export, Inv, Journey, HomeEntry
  <1>2. world' = [world EXCEPT ![m] = {}]
    BY <1>1 DEF Export, TypeOK
  <1>3. PICK d \in Peer \ {h} :
           SetEntry(h, m, [NoEntry EXCEPT !.status = "open", !.dir = "out",
                                          !.handoff = "pending", !.dest = d])
    BY DEF Export
  <1>. DEFINE new == [NoEntry EXCEPT !.status = "open", !.dir = "out",
                                     !.handoff = "pending", !.dest = d]
  <1>4. new.status = "open" /\ new.dir = "out" /\ new.handoff = "pending"
    BY DEF NoEntry
  <1>. HIDE DEF new
  <1>5. jr'[h][m] = new /\ \A q \in Peer, k \in Mig \ {m} : jr'[q][k] = jr[q][k]
    BY <1>3, <1>h DEF SetEntry, TypeOK, new
  <1>6. stage[m] = "home"
    BY <1>1, StageIs
  <1>7. stage'[m] = "moving"
    <2>1. world'[m] = {}
      BY <1>2 DEF TypeOK
    <2>2. AtHome(m)' /\ jr'[h][m].status # "none"
      BY <1>4, <1>5 DEF AtHome
    <2>. QED
      BY <2>1, <2>2 DEF stage
  <1>8. ASSUME NEW k \in Mig, k # m PROVE stage'[k] = stage[k]
    <2>1. world'[k] = world[k] /\ net' = net /\ Home[k] \in Peer
      BY <1>2, <1>8, HomeIsPeer DEF Export, TypeOK
    <2>. QED
      BY <2>1, <1>5, <1>8, SameStage
  <1>9. stage' = [stage EXCEPT ![m] = "moving"]
    <2>1. stage' = [k \in Mig |-> stage'[k]] /\ stage = [k \in Mig |-> stage[k]]
      BY DEF stage
    <2>. QED
      BY <2>1, <1>7, <1>8
  <1>. QED
    BY <1>2, <1>6, <1>9 DEF J!Leave

(* MigrationImporter brings a moving one into a world. *)
LEMMA SpawnLands ==
    ASSUME TypeOK, Inv, NEW p \in Peer, NEW m \in Mig, Spawn(p, m)
    PROVE  J!Land(m)
  <1>. DEFINE h == Home[m]
              e == jr[p][m]
  <1>h. h \in Peer
    BY HomeIsPeer
  <1>j. Journey(m)
    BY DEF Inv
  <1>1. /\ UNCHANGED <<jr, net>> /\ e.dir = "in" /\ e.status = "in_flight" /\ p \notin world[m]
        /\ world' = [world EXCEPT ![m] = world[m] \cup {p}]
    BY DEF Spawn
  <1>2. world[m] = {} /\ ~Nowhere(m)
    <2>1. CASE p = h
      <3>1. AtHome(m)
        BY <1>1, <2>1 DEF AtHome
      <3>. QED
        BY <3>1, <2>1, <1>1, <1>j DEF Journey, HomeAlone, Nowhere
    <2>2. CASE p # h
      <3>1. p \in Holders(m)
        BY <1>1, <2>2 DEF Holders
      <3>. QED
        BY <3>1, <1>j DEF Journey, OneHolder, Nowhere
    <2>. QED
      BY <2>1, <2>2
  <1>3. jr[h][m].status # "none"
    BY <1>2, <1>j DEF Journey, HomeEntry
  <1>4. stage[m] = "moving"
    BY <1>2, <1>3, StageIs
  <1>5. world' = [world EXCEPT ![m] = {p}]
    BY <1>1, <1>2
  <1>6. stage'[m] = "landed"
    <2>1. world'[m] = {p}
      BY <1>5 DEF TypeOK
    <2>. QED
      BY <2>1, <1>1, <1>3 DEF stage
  <1>7. ASSUME NEW k \in Mig, k # m PROVE stage'[k] = stage[k]
    <2>1. world'[k] = world[k] /\ Home[k] \in Peer
      BY <1>5, <1>7, HomeIsPeer DEF TypeOK
    <2>. QED
      BY <2>1, <1>1, <1>7, SameStage
  <1>8. stage' = [stage EXCEPT ![m] = "landed"]
    <2>1. stage' = [k \in Mig |-> stage'[k]] /\ stage = [k \in Mig |-> stage[k]]
      BY DEF stage
    <2>. QED
      BY <2>1, <1>6, <1>7
  <1>. QED
    BY <1>4, <1>5, <1>8 DEF J!Land

-----------------------------------------------------------------------------
(* Refinement: every behaviour of the sidecars, the relay and the worlds is a *)
(* behaviour of Journeys.  An organism leaves its world once and ends in one  *)
(* world or in none, whatever crashes, and whatever answer comes late.        *)
THEOREM Refinement == Spec => JourneysKept
  <1>1. Init => J!Init
    <2>. SUFFICES ASSUME Init PROVE J!Init
      OBVIOUS
    <2>1. \A m \in Mig : jr[Home[m]][m].status = "none"
      BY HomeIsPeer DEF Init, NoEntry
    <2>2. stage = [m \in Mig |-> "home"]
      BY <2>1 DEF stage
    <2>. QED
      BY <2>2 DEF Init, J!Init
  <1>2. TypeOK /\ TypeOK' /\ Inv /\ [Next]_vars => [J!Next]_(J!jvars)
    <2>. SUFFICES ASSUME TypeOK, TypeOK', Inv, [Next]_vars
                  PROVE  J!Next \/ UNCHANGED J!jvars
      OBVIOUS
    <2>1. ASSUME \A k \in Mig : Still(k) PROVE J!Next
      BY <2>1, StillVanishes DEF J!Next
    <2>2. CASE UNCHANGED vars
      <3>1. \A k \in Mig : Still(k)
        BY <2>2, QuietStill, HomeIsPeer DEF vars
      <3>. QED
        BY <3>1, <2>1
    <2>3. ASSUME NEW m \in Mig, Export(m) PROVE J!Next
      BY <2>3, ExportLeaves DEF J!Next
    <2>4. ASSUME NEW m \in Mig,
                 \/ tickOutbound(m) \/ BounceClockPasses(m)
                 \/ RefusalDeadlinePasses(m) \/ SweepForwardRecord(m)
          PROVE  J!Next
      BY <2>4, <2>1, MigStepStill
    <2>5. ASSUME NEW f \in net,
                 \/ RelayOffer(f) \/ RelayDrops(f) \/ onMigrationPayload(f)
                 \/ onMigrationAck(f) \/ onForwardReceipt(f) \/ onMigrationNack(f)
          PROVE  J!Next
      BY <2>5, <2>1, FrameStepStill
    <2>6. ASSUME \/ Drain \/ RelayRestart
                 \/ \E p \in Peer : \/ Connect(p) \/ Disconnect(p) \/ Crash(p)
                                    \/ PeerStatus(p) \/ Grant(p)
          PROVE  J!Next
      BY <2>6, <2>1, LinkStepStill
    <2>7. ASSUME NEW p \in Peer, NEW m \in Mig, Spawn(p, m) PROVE J!Next
      BY <2>7, SpawnLands DEF J!Next
    <2>8. ASSUME NEW p \in Peer, NEW m \in Mig,
                 \/ Deliver(p, m) \/ onMigrateInAck(p, m)
                 \/ onMigrateInNack(p, m) \/ tickInbound(p, m) \/ Purge(p, m)
          PROVE  J!Next
      BY <2>8, <2>1, DeliveryStepStill
    <2>. QED
      BY <2>2, <2>3, <2>4, <2>5, <2>6, <2>7, <2>8 DEF Next
  <1>. QED
    BY <1>1, <1>2, TypeCorrect, JourneyInvariant, PTL DEF Spec, JourneysKept, J!Spec

=============================================================================
