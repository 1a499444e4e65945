---------------------------- MODULE CustodyProofs ----------------------------
(***************************************************************************)
(* Proofs about Custody, for every map, every set of journeys and every    *)
(* number of relay restarts: the state is well-formed, and an organism is  *)
(* never in two places.                                                    *)
(*                                                                         *)
(* AtMostOnePlace is not inductive: that a bounce cannot duplicate an      *)
(* organism depends on which frames can still exist when the home journal  *)
(* turns its entry round.  Inv below says so, one conjunct per place the   *)
(* organism can be; the lemmas show, one per group of actions, that every  *)
(* step keeps it for the journey it touches and leaves the others alone.   *)
(***************************************************************************)
EXTENDS Custody, TLAPS

-----------------------------------------------------------------------------
(* Types. *)

(* An absent entry is an entry. *)
LEMMA NoEntryType == NoEntry \in Entry
  BY DEF NoEntry, Entry, Statuses, Handoffs, Proofs, Clock, AnyPeer

(* Everything an outbound entry becomes is an entry. *)
LEMMA OutcomeTypes ==
    ASSUME NEW e \in Entry, session \in Nat
    PROVE  /\ Sent(e) \in Entry
           /\ Bounced(e) \in Entry
           /\ Lost(e) \in Entry
           /\ Acked(e) \in Entry
           /\ MarkTransportRefused(e) \in Entry
           /\ \A why \in Proofs : MarkRefused(e, why) \in Entry
           /\ \A why \in Proofs, d \in Peer : Rerouted(e, why, d) \in Entry
  <1>1. Sent(e) \in Entry
    BY DEF Entry, Statuses, Handoffs, Proofs, Clock, AnyPeer, Sent
  <1>2. Bounced(e) \in Entry
    BY DEF Entry, Statuses, Handoffs, Proofs, Clock, AnyPeer, Bounced
  <1>3. Lost(e) \in Entry
    BY DEF Entry, Statuses, Handoffs, Proofs, Clock, AnyPeer, Lost
  <1>4. Acked(e) \in Entry
    BY DEF Entry, Statuses, Handoffs, Proofs, Clock, AnyPeer, Acked
  <1>5. MarkTransportRefused(e) \in Entry
    <2>1. e.refused \cup {e.dest} \in SUBSET AnyPeer
      BY DEF Entry
    <2>2. (IF e.deadline = "off" THEN "running" ELSE e.deadline) \in Clock
      BY DEF Entry, Clock
    <2>3. "refused" \in Handoffs /\ "relay_never_forwarded" \in Proofs
      BY DEF Handoffs, Proofs
    <2> QED
      BY <2>1, <2>2, <2>3 DEF Entry, MarkTransportRefused
  <1>6. ASSUME NEW why \in Proofs PROVE MarkRefused(e, why) \in Entry
    <2>1. (IF why = "peer_refused" THEN e.refused \cup {e.dest} ELSE e.refused) \in SUBSET AnyPeer
      BY DEF Entry
    <2>2. "refused" \in Handoffs
      BY DEF Handoffs
    <2> QED
      BY <2>1, <2>2 DEF Entry, MarkRefused
  <1>7. ASSUME NEW why \in Proofs, NEW d \in Peer PROVE Rerouted(e, why, d) \in Entry
    <2>1. e.count + 1 \in Nat
      BY DEF Entry
    <2>. QED
      BY <2>1 DEF Entry, Handoffs, AnyPeer, Rerouted
  <1>. QED
    BY <1>1, <1>2, <1>3, <1>4, <1>5, <1>6, <1>7

(* rerouteLocked returns entries. *)
LEMMA RerouteType ==
    ASSUME TypeOK, NEW e \in Entry, NEW why \in Proofs, NEW h \in Peer
    PROVE  Reroute(e, why, h) \subseteq Entry
  <1>1. Bounced(e) \in Entry /\ \A d \in Peer : Rerouted(e, why, d) \in Entry
    BY OutcomeTypes DEF TypeOK
  <1>2. Untried(e, h) \subseteq Peer
    BY DEF Untried, TypeOK
  <1>3. nb[h] # NoPeer => nb[h] \in Peer
    BY DEF TypeOK, AnyPeer
  <1>. QED
    BY <1>1, <1>2, <1>3 DEF Reroute

(* The frames the processes build are frames. *)
LEMMA FrameTypes ==
    ASSUME TypeOK
    PROVE  /\ \A m \in Mig, e \in Entry : e.dest \in Peer => OfferOf(m, e) \in Frame
           /\ \A f \in Offer : PayloadOf(f) \in Frame /\ ReceiptOf(f) \in Frame
           /\ \A f \in Offer, code \in NackCodes, never \in BOOLEAN :
                 RelayNack(f, code, never) \in Frame
           /\ \A f \in Payload, code \in NackCodes : PeerNack(f, code) \in Frame
           /\ \A p \in Peer, m \in Mig : AckFrom(p, m) \in Frame
  <1>1. \A m \in Mig, e \in Entry : e.dest \in Peer => OfferOf(m, e) \in Offer
    BY DEF OfferOf, Offer, Entry
  <1>2. \A f \in Offer : PayloadOf(f) \in Payload /\ ReceiptOf(f) \in Receipt
    BY DEF PayloadOf, ReceiptOf, Offer, Payload, Receipt, TypeOK
  <1>3. \A f \in Offer, code \in NackCodes, never \in BOOLEAN : RelayNack(f, code, never) \in Nack
    BY DEF RelayNack, Offer, Nack, AnyPeer, TypeOK
  <1>4. \A f \in Payload, code \in NackCodes : PeerNack(f, code) \in Nack
    BY DEF PeerNack, Payload, Nack, AnyPeer
  <1>5. \A p \in Peer, m \in Mig : AckFrom(p, m) \in Ack
    BY DEF AckFrom, Ack
  <1>. QED
    BY <1>1, <1>2, <1>3, <1>4, <1>5 DEF Frame

(* The type of a frame tells which fields it has. *)
LEMMA FrameKinds ==
    ASSUME NEW f \in Frame
    PROVE  /\ f.m \in Mig
           /\ f.type = "offer" => f \in Offer
           /\ f.type = "payload" => f \in Payload
           /\ f.type = "nack" => f \in Nack
           /\ f.type = "ack" => f \in Ack
           /\ f.type = "receipt" => f \in Receipt
  BY DEF Frame, Offer, Payload, Ack, Nack, Receipt

(* A journal write of an entry keeps the journals well-formed. *)
LEMMA SetEntryType ==
    ASSUME TypeOK, NEW p \in Peer, NEW m \in Mig, NEW e \in Entry, SetEntry(p, m, e)
    PROVE  jr' \in [Peer -> [Mig -> Entry]]
  BY DEF TypeOK, SetEntry

(* The evidence table of onMigrationNack returns entries. *)
LEMMA AfterNackType ==
    ASSUME TypeOK, NEW e \in Entry, NEW n \in Nack, NEW h \in Peer
    PROVE  AfterNack(e, n, h) \subseteq Entry
  <1>1. Bounced(e) \in Entry
    BY OutcomeTypes DEF TypeOK
  <1>2. ASSUME NEW r \in Entry, NEW why \in Proofs
        PROVE  {e, r} \cup Reroute(r, why, h) \subseteq Entry
    BY RerouteType
  <1>3. MarkTransportRefused(e) \in Entry /\ \A why \in Proofs : MarkRefused(e, why) \in Entry
    BY OutcomeTypes DEF TypeOK
  <1>. QED
    BY <1>1, <1>2, <1>3 DEF AfterNack, Proofs

(* Every journey starts at a sidecar. *)
LEMMA HomeIsPeer == \A m \in Mig : Home[m] \in Peer
  BY HomeAssumption

(* The empty journals are well-formed. *)
LEMMA TypeInit == Init => TypeOK
  <1>. SUFFICES ASSUME Init PROVE TypeOK
    OBVIOUS
  <1>1. jr \in [Peer -> [Mig -> Entry]]
    BY NoEntryType DEF Init
  <1>2. world \in [Mig -> SUBSET Peer]
    BY HomeIsPeer DEF Init
  <1>3. bounceAt \in [Mig -> Clock]
    BY DEF Init, Clock
  <1>4. conn \in SUBSET Peer /\ view \in [Peer -> SUBSET Peer] /\ nb \in [Peer -> AnyPeer]
    BY DEF Init, AnyPeer
  <1>5. session \in Nat /\ forwarded \in SUBSET Mig /\ draining \in BOOLEAN /\ net \in SUBSET Frame
    BY DEF Init
  <1>. QED
    BY <1>1, <1>2, <1>3, <1>4, <1>5 DEF TypeOK

(* Losing a link keeps the links and the frames well-formed. *)
LEMMA UnlinkType ==
    ASSUME TypeOK, NEW p \in Peer, Unlink(p)
    PROVE  /\ conn' \in SUBSET Peer /\ view' \in [Peer -> SUBSET Peer]
           /\ nb' \in [Peer -> AnyPeer] /\ net' \in SUBSET Frame
  BY DEF TypeOK, Unlink, AnyPeer

(* The export, the custody tick and its clocks keep the types. *)
LEMMA MigStepType ==
    ASSUME TypeOK, NEW m \in Mig,
           \/ Export(m) \/ tickOutbound(m) \/ BounceClockPasses(m)
           \/ RefusalDeadlinePasses(m) \/ SweepForwardRecord(m)
    PROVE  TypeOK'
  <1>. DEFINE h == Home[m]
              e == jr[h][m]
  <1>h. h \in Peer /\ e \in Entry
    BY HomeIsPeer DEF TypeOK
  <1>1. CASE Export(m)
    <2>1. PICK d \in Peer : SetEntry(h, m, [NoEntry EXCEPT !.status = "open", !.dir = "out",
                                            !.handoff = "pending", !.dest = d])
      BY <1>1 DEF Export
    <2>2. [NoEntry EXCEPT !.status = "open", !.dir = "out",
                          !.handoff = "pending", !.dest = d] \in Entry
      BY NoEntryType DEF Entry, Statuses, Handoffs, AnyPeer
    <2>3. jr' \in [Peer -> [Mig -> Entry]]
      BY <2>1, <2>2, <1>h, SetEntryType
    <2>4. world' \in [Mig -> SUBSET Peer]
      BY <1>1 DEF Export, TypeOK
    <2>. QED
      BY <1>1, <2>3, <2>4 DEF Export, TypeOK, links, relay
  <1>2. CASE tickOutbound(m)
    <2>1. CASE Forward(m)
      <3>1. jr' \in [Peer -> [Mig -> Entry]]
        BY <2>1, <1>h, OutcomeTypes, SetEntryType DEF Forward, TypeOK
      <3>2. e.dest \in Peer
        BY <2>1, <1>h DEF Forward, MayForward, Live, TypeOK
      <3>3. net' \in SUBSET Frame
        BY <2>1, <3>2, <1>h, FrameTypes DEF Forward, TypeOK
      <3>4. bounceAt' \in [Mig -> Clock]
        BY <2>1 DEF Forward, ClockAfterForward, TypeOK, Clock
      <3>. QED
        BY <2>1, <3>1, <3>3, <3>4 DEF Forward, TypeOK, links, relay
    <2>2. CASE TickReroute(m)
      <3>. DEFINE why == IF e.handoff = "pending" THEN "never_sent" ELSE e.proof
      <3>1. why \in Proofs
        BY <1>h DEF Entry, Proofs
      <3>2. PICK new \in Reroute(e, why, h) : SetEntry(h, m, new)
        BY <2>2 DEF TickReroute
      <3>3. new \in Entry
        BY <3>1, <3>2, <1>h, RerouteType
      <3>4. jr' \in [Peer -> [Mig -> Entry]]
        BY <3>2, <3>3, <1>h, SetEntryType
      <3>. QED
        BY <2>2, <3>4 DEF TickReroute, TypeOK, links, relay, Clock
    <2>3. CASE WaitOrBounce(m)
      <3>1. jr' \in [Peer -> [Mig -> Entry]]
        BY <2>3, <1>h, OutcomeTypes, SetEntryType DEF WaitOrBounce, TypeOK
      <3>. QED
        BY <2>3, <3>1 DEF WaitOrBounce, TypeOK, links, relay, Clock
    <2>4. CASE Lose(m)
      <3>1. jr' \in [Peer -> [Mig -> Entry]]
        BY <2>4, <1>h, OutcomeTypes, SetEntryType DEF Lose, TypeOK
      <3>. QED
        BY <2>4, <3>1 DEF Lose, TypeOK, links, relay, Clock
    <2>. QED
      BY <1>2, <2>1, <2>2, <2>3, <2>4 DEF tickOutbound
  <1>3. CASE BounceClockPasses(m)
    BY <1>3 DEF BounceClockPasses, TypeOK, links, relay, Clock
  <1>4. CASE RefusalDeadlinePasses(m)
    <2>1. [e EXCEPT !.deadline = "passed"] \in Entry
      BY <1>h DEF Entry, Clock
    <2>2. jr' \in [Peer -> [Mig -> Entry]]
      BY <1>4, <2>1, <1>h, SetEntryType DEF RefusalDeadlinePasses
    <2>. QED
      BY <1>4, <2>2 DEF RefusalDeadlinePasses, TypeOK, links, relay
  <1>5. CASE SweepForwardRecord(m)
    BY <1>5 DEF SweepForwardRecord, TypeOK, links
  <1>. QED
    BY <1>1, <1>2, <1>3, <1>4, <1>5

(* So does every handler of a frame, *)
LEMMA FrameStepType ==
    ASSUME TypeOK, NEW f \in net,
           \/ RelayOffer(f) \/ RelayDrops(f) \/ onMigrationPayload(f)
           \/ onMigrationAck(f) \/ onForwardReceipt(f) \/ onMigrationNack(f)
    PROVE  TypeOK'
  <1>. DEFINE h == Home[f.m]
              e == jr[h][f.m]
  <1>f. f \in Frame /\ f.m \in Mig
    BY FrameKinds DEF TypeOK
  <1>h. h \in Peer /\ e \in Entry
    BY <1>f, HomeIsPeer DEF TypeOK
  <1>1. CASE RelayOffer(f)
    <2>1. f \in Offer
      BY <1>1, <1>f, FrameKinds DEF RelayOffer
    <2>2. RelayNack(f, "draining", FALSE) \in Frame
      BY <2>1, FrameTypes DEF NackCodes
    <2>3. \A never \in BOOLEAN : /\ RelayNack(f, "offline", never) \in Frame
                                 /\ RelayNack(f, "not_forwarded", never) \in Frame
      BY <2>1, FrameTypes DEF NackCodes
    <2>4. PayloadOf(f) \in Frame /\ ReceiptOf(f) \in Frame
      BY <2>1, FrameTypes
    <2>5. (f.m \notin forwarded) \in BOOLEAN
      OBVIOUS
    <2>6. net' \in SUBSET Frame
      BY <1>1, <2>2, <2>3, <2>4, <2>5 DEF RelayOffer, TypeOK
    <2>7. forwarded' \in SUBSET Mig
      BY <1>1, <1>f DEF RelayOffer, TypeOK
    <2>. QED
      BY <1>1, <2>6, <2>7 DEF RelayOffer, TypeOK, links
  <1>2. CASE RelayDrops(f)
    BY <1>2 DEF RelayDrops, TypeOK, links, relay
  <1>3. CASE onMigrationPayload(f)
    <2>1. f \in Payload /\ f.dest \in Peer
      BY <1>3, <1>f, FrameKinds DEF onMigrationPayload, Payload
    <2>2. net' \in SUBSET Frame
      BY <1>3, <1>f, <2>1, FrameTypes DEF onMigrationPayload, TypeOK, NackCodes
    <2>3. jr' \in [Peer -> [Mig -> Entry]]
      <3>1. CASE UNCHANGED jr
        BY <3>1 DEF TypeOK
      <3>2. CASE \E s \in {"open", "in_flight"} :
                   SetEntry(f.dest, f.m, [NoEntry EXCEPT !.status = s])
        <4>1. \A s \in {"open", "in_flight"} : [NoEntry EXCEPT !.status = s] \in Entry
          BY NoEntryType DEF Entry, Statuses
        <4>. QED
          BY <3>2, <4>1, <1>f, <2>1, SetEntryType
      <3>. QED
        BY <1>3, <3>1, <3>2 DEF onMigrationPayload
    <2>. QED
      BY <1>3, <2>2, <2>3 DEF onMigrationPayload, TypeOK, links, relay
  <1>4. CASE onMigrationAck(f)
    <2>1. jr' \in [Peer -> [Mig -> Entry]]
      BY <1>4, <1>f, <1>h, OutcomeTypes, SetEntryType DEF onMigrationAck, TypeOK
    <2>. QED
      BY <1>4, <2>1 DEF onMigrationAck, TypeOK, links, relay, Clock
  <1>5. CASE onForwardReceipt(f)
    <2>1. f \in Receipt
      BY <1>5, <1>f, FrameKinds DEF onForwardReceipt, Arrives
    <2>2. [e EXCEPT !.receiptSess = f.sess, !.receiptDest = f.dest] \in Entry
      BY <1>h, <2>1 DEF Entry, Receipt, AnyPeer
    <2>3. jr' \in [Peer -> [Mig -> Entry]]
      BY <1>5, <1>f, <1>h, <2>2, SetEntryType DEF onForwardReceipt, TypeOK
    <2>. QED
      BY <1>5, <2>3 DEF onForwardReceipt, TypeOK, links, relay
  <1>6. CASE onMigrationNack(f)
    <2>1. f \in Nack
      BY <1>6, <1>f, FrameKinds DEF onMigrationNack, Arrives
    <2>2. AfterNack(e, f, h) \subseteq Entry
      BY <1>h, <2>1, AfterNackType
    <2>3. jr' \in [Peer -> [Mig -> Entry]]
      BY <1>6, <1>f, <1>h, <2>2, SetEntryType DEF onMigrationNack, TypeOK
    <2>4. bounceAt' \in [Mig -> Clock]
      BY <1>6, <1>f DEF onMigrationNack, TypeOK, Clock
    <2>. QED
      BY <1>6, <2>3, <2>4 DEF onMigrationNack, TypeOK, links, relay
  <1>. QED
    BY <1>1, <1>2, <1>3, <1>4, <1>5, <1>6

(* every change of a link, *)
LEMMA PeerStepType ==
    ASSUME TypeOK, NEW p \in Peer,
           \/ Connect(p) \/ Disconnect(p) \/ Crash(p) \/ PeerStatus(p) \/ Grant(p)
    PROVE  TypeOK'
  <1>1. CASE Connect(p)
    BY <1>1 DEF Connect, TypeOK, relay
  <1>2. CASE Disconnect(p)
    BY <1>2, UnlinkType DEF Disconnect, TypeOK, relay
  <1>3. CASE Crash(p)
    <2>1. bounceAt' \in [Mig -> Clock]
      BY <1>3 DEF Crash, TypeOK, Clock
    <2>. QED
      BY <1>3, <2>1, UnlinkType DEF Crash, TypeOK, relay
  <1>4. CASE PeerStatus(p)
    BY <1>4 DEF PeerStatus, TypeOK, relay
  <1>5. CASE Grant(p)
    BY <1>5 DEF Grant, TypeOK, relay, AnyPeer
  <1>. QED
    BY <1>1, <1>2, <1>3, <1>4, <1>5

(* every step of a delivery, *)
LEMMA DeliveryStepType ==
    ASSUME TypeOK, NEW p \in Peer, NEW m \in Mig,
           \/ Deliver(p, m) \/ Spawn(p, m) \/ onMigrateInAck(p, m)
           \/ onMigrateInNack(p, m) \/ tickInbound(p, m) \/ Purge(p, m)
    PROVE  TypeOK'
  <1>. DEFINE e == jr[p][m]
  <1>e. e \in Entry
    BY DEF TypeOK
  <1>s. \A s \in Statuses : [e EXCEPT !.status = s] \in Entry
    BY <1>e DEF Entry
  <1>a. ASSUME NEW d \in Entry, SendAckUpstream(p, m, d)
        PROVE  jr' \in [Peer -> [Mig -> Entry]] /\ net' \in SUBSET Frame
    <2>1. \A marked \in BOOLEAN : [d EXCEPT !.acked = marked] \in Entry
      BY <1>a DEF Entry
    <2>2. jr' \in [Peer -> [Mig -> Entry]]
      BY <1>a, <2>1, SetEntryType DEF SendAckUpstream
    <2>. QED
      BY <1>a, <2>2, FrameTypes DEF SendAckUpstream, TypeOK
  <1>1. CASE Deliver(p, m)
    <2>1. jr' \in [Peer -> [Mig -> Entry]]
      BY <1>1, <1>s, SetEntryType DEF Deliver, Statuses
    <2>. QED
      BY <1>1, <2>1 DEF Deliver, TypeOK, links, relay
  <1>2. CASE Spawn(p, m)
    BY <1>2 DEF Spawn, TypeOK, links, relay
  <1>3. CASE onMigrateInAck(p, m)
    <2>1. [e EXCEPT !.status = "done"] \in Entry
      BY <1>s DEF Statuses
    <2>2. jr' \in [Peer -> [Mig -> Entry]] /\ net' \in SUBSET Frame
      BY <1>3, <2>1, <1>a, SetEntryType DEF onMigrateInAck, TypeOK
    <2>. QED
      BY <1>3, <2>2 DEF onMigrateInAck, TypeOK, links, relay
  <1>4. CASE onMigrateInNack(p, m)
    <2>1. jr' \in [Peer -> [Mig -> Entry]]
      BY <1>4, <1>s, SetEntryType DEF onMigrateInNack, Statuses
    <2>. QED
      BY <1>4, <2>1 DEF onMigrateInNack, TypeOK, links, relay
  <1>5. CASE tickInbound(p, m)
    <2>1. jr' \in [Peer -> [Mig -> Entry]] /\ net' \in SUBSET Frame
      BY <1>5, <1>e, <1>a DEF tickInbound
    <2>. QED
      BY <1>5, <2>1 DEF tickInbound, TypeOK, links, relay
  <1>6. CASE Purge(p, m)
    <2>1. [NoEntry EXCEPT !.status = "purged"] \in Entry
      BY NoEntryType DEF Entry, Statuses
    <2>2. jr' \in [Peer -> [Mig -> Entry]]
      BY <1>6, <2>1, SetEntryType DEF Purge
    <2>. QED
      BY <1>6, <2>2 DEF Purge, TypeOK, links, relay
  <1>. QED
    BY <1>1, <1>2, <1>3, <1>4, <1>5, <1>6

(* and the end of a relay session. *)
LEMMA RelayStepType == TypeOK /\ (Drain \/ RelayRestart) => TypeOK'
  <1>1. TypeOK /\ Drain => TypeOK'
    BY DEF Drain, TypeOK, links
  <1>2. TypeOK /\ RelayRestart => TypeOK'
    <2>. SUFFICES ASSUME TypeOK, RelayRestart PROVE TypeOK'
      OBVIOUS
    <2>1. session' \in Nat
      BY DEF RelayRestart, TypeOK
    <2>4. forwarded' \in SUBSET Mig /\ draining' \in BOOLEAN
      BY DEF RelayRestart
    <2>2. conn' \in SUBSET Peer /\ net' \in SUBSET Frame
      BY DEF RelayRestart
    <2>3. view' \in [Peer -> SUBSET Peer] /\ nb' \in [Peer -> AnyPeer]
      BY DEF RelayRestart, AnyPeer
    <2>. QED
      BY <2>1, <2>2, <2>3, <2>4 DEF RelayRestart, TypeOK
  <1>. QED
    BY <1>1, <1>2

(* Type correctness: whatever the handlers of the sidecars and the relay do,  *)
(* every journal holds entries, and every frame under way is one of the five. *)
THEOREM TypeCorrect == Spec => []TypeOK
  <1>1. Init => TypeOK
    BY TypeInit
  <1>2. TypeOK /\ [Next]_vars => TypeOK'
    <2>. SUFFICES ASSUME TypeOK, [Next]_vars PROVE TypeOK'
      OBVIOUS
    <2>1. CASE UNCHANGED vars
      BY <2>1 DEF vars, TypeOK
    <2>2. CASE Next
      BY <2>2, MigStepType, FrameStepType, PeerStepType, DeliveryStepType, RelayStepType DEF Next
    <2>. QED
      BY <2>1, <2>2
  <1>. QED
    BY <1>1, <1>2, PTL DEF Spec

-----------------------------------------------------------------------------
(* The inductive invariant. *)

(* Nothing moves and nothing is promised elsewhere while home has the organism. *)
HomeAlone(m) ==
    /\ AtHome(m) \/ Home[m] \in world[m] =>
          Carriers(m) = {} /\ Holders(m) = {} /\ world[m] \subseteq {Home[m]}
    /\ AtHome(m) => Home[m] \notin world[m]

(* One frame at a time carries a journey, and only while nobody has it. *)
OneCarrier(m) ==
    /\ \A f, g \in Carriers(m) : f = g
    /\ Carriers(m) # {} => Holders(m) = {} /\ world[m] = {}

OneHolder(m) ==
    /\ \A p, q \in Holders(m) : p = q
    /\ Holders(m) # {} => world[m] = {}

OneWorld(m) == \A p, q \in world[m] : p = q

(* What the home entry says of the organism. *)
HomeEntry(m) ==
    LET h == Home[m]  e == jr[h][m] IN
    /\ e.status = "none" => world[m] = {h}
    /\ e.status \in {"none", "purged"} => e.dir = "in"
    /\ e.dir = "out" => /\ e.dest # h
                        /\ e.handoff # "none"
                        /\ e.status = "done" => e.handoff \in {"done", "lost"}
                        /\ e.status = "held" => FALSE
                        /\ e.handoff = "done" => world[m] \ {h} # {}
    /\ e.dir = "in" /\ e.status \notin {"none", "purged"} =>
                        /\ e.handoff = "done"
                        /\ e.status = "done" => h \in world[m]

(* What a journal elsewhere says of it. *)
AwayEntries(m) ==
    \A q \in Peer \ {Home[m]} :
        /\ jr[q][m].dir = "in"
        /\ jr[q][m].status \in {"done", "purged"} => q \in world[m]

(* What the frames say: none leads home, and an ACK speaks of a delivery. *)
FramesTrue(m) ==
    /\ \A f \in Carriers(m) : f.dest # Home[m]
    /\ \A f \in net : f.m = m /\ f.type = "ack" => f.from \in world[m] \ {Home[m]}

(* What is under way speaks of the attempt that the home entry waits for. *)
Attempt(m) ==
    LET e == jr[Home[m]][m] IN
    Outbound(m) /\ e.handoff = "sent" =>
        \A f \in Carriers(m) : f.dest = e.dest /\ (f.type = "offer" => f.count = e.count)

(* All of it, for one journey. *)
Journey(m) ==
    /\ HomeAlone(m) /\ OneCarrier(m) /\ OneHolder(m) /\ OneWorld(m)
    /\ HomeEntry(m) /\ AwayEntries(m) /\ FramesTrue(m) /\ Attempt(m)

(* The neighbour of a grant is another peer. *)
NeighbourAway == \A p \in Peer : nb[p] # p

(* The inductive invariant. *)
Inv == NeighbourAway /\ \A m \in Mig : Journey(m)

(* The frames whose loss or arrival decides something; a receipt does not. *)
Telling == {"offer", "payload", "nack", "ack"}

(* An entry under which the organism is still home's. *)
Homeward(e, h) ==
    \/ /\ e.dir = "out" /\ e.dest # h
       /\ e.handoff \in {"pending", "refused"} /\ e.status \in {"open", "in_flight"}
    \/ e.dir = "in" /\ e.status = "open" /\ e.handoff = "done"

-----------------------------------------------------------------------------
(* Every step keeps it. *)

(* A step that changes nothing a journey is about, and adds no frame that *)
(* tells anything of it (a receipt, say), keeps the journey as it was.    *)
LEMMA Quiet ==
    ASSUME NEW m \in Mig, Journey(m), Home[m] \in Peer,
           \A q \in Peer : /\ jr'[q][m].status = jr[q][m].status
                           /\ jr'[q][m].dir = jr[q][m].dir
                           /\ jr'[q][m].handoff = jr[q][m].handoff
                           /\ jr'[q][m].dest = jr[q][m].dest
                           /\ jr'[q][m].count = jr[q][m].count,
           world'[m] = world[m],
           \A f \in net' : f.m = m /\ f.type \in Telling => f \in net
    PROVE  Journey(m)'
  <1>1. Carriers(m)' \subseteq Carriers(m)
    BY DEF Carriers, Telling
  <1>2. Holders(m)' = Holders(m)
    BY DEF Holders
  <1>3. AtHome(m)' = AtHome(m)
    BY DEF AtHome
  <1>4. HomeAlone(m)'
    BY <1>1, <1>2, <1>3 DEF Journey, HomeAlone
  <1>5. OneCarrier(m)' /\ OneHolder(m)' /\ OneWorld(m)'
    BY <1>1, <1>2 DEF Journey, OneCarrier, OneHolder, OneWorld
  <1>6. HomeEntry(m)'
    BY DEF Journey, HomeEntry
  <1>7. AwayEntries(m)'
    BY DEF Journey, AwayEntries
  <1>8. FramesTrue(m)'
    BY <1>1 DEF Journey, FramesTrue, Telling
  <1>9. Attempt(m)'
    BY <1>1 DEF Journey, Attempt, Outbound, Unresolved
  <1>. QED
    BY <1>4, <1>5, <1>6, <1>7, <1>8, <1>9 DEF Journey

(* The home entry may be rewritten to another one under which the organism is *)
(* still home's, as long as no frame of the journey is left.                  *)
LEMMA BackHome ==
    ASSUME TypeOK, NEW m \in Mig, Journey(m), Home[m] \in Peer,
           NEW new \in Entry, Homeward(new, Home[m]),
           SetEntry(Home[m], m, new),
           world'[m] = world[m], world[m] = {}, Holders(m) = {},
           Carriers(m)' = {},
           \A f \in net' : f.m = m /\ f.type = "ack" => f \in net
    PROVE  Journey(m)'
  <1>. DEFINE h == Home[m]
  <1>1. jr'[h][m] = new /\ \A q \in Peer \ {h} : jr'[q][m] = jr[q][m]
    BY DEF SetEntry, TypeOK
  <1>2. Holders(m)' = {}
    BY <1>1 DEF Holders
  <1>4. HomeAlone(m)'
    BY <1>1, <1>2 DEF HomeAlone
  <1>5. OneCarrier(m)' /\ OneHolder(m)' /\ OneWorld(m)'
    BY <1>1, <1>2 DEF OneCarrier, OneHolder, OneWorld
  <1>6. HomeEntry(m)'
    BY <1>1 DEF HomeEntry, Homeward
  <1>7. AwayEntries(m)'
    BY <1>1 DEF Journey, AwayEntries
  <1>8. FramesTrue(m)'
    BY DEF Journey, FramesTrue
  <1>9. Attempt(m)'
    BY DEF Attempt
  <1>. QED
    BY <1>4, <1>5, <1>6, <1>7, <1>8, <1>9 DEF Journey

(* rerouteLocked only ever produces such entries: another destination, the *)
(* organism turned round, or the entry as it was.                          *)
LEMMA RerouteHome ==
    ASSUME TypeOK, NeighbourAway, NEW h \in Peer, NEW e \in Entry, NEW why \in Proofs,
           e.dir = "out", e.dest # h, e.handoff \in {"pending", "refused"},
           e.status \in {"open", "in_flight"},
           NEW new \in Reroute(e, why, h)
    PROVE  Homeward(new, h)
  <1>1. Homeward(e, h) /\ Homeward(Bounced(e), h)
    BY DEF Homeward, Bounced, Entry
  <1>2. \A d \in Peer \ {h} : Homeward(Rerouted(e, why, d), h)
    BY DEF Homeward, Rerouted, Entry
  <1>3. Untried(e, h) \subseteq Peer \ {h}
    BY DEF Untried, TypeOK
  <1>4. nb[h] # NoPeer => nb[h] \in Peer \ {h}
    BY DEF TypeOK, AnyPeer, NeighbourAway
  <1>. QED
    BY <1>1, <1>2, <1>3, <1>4 DEF Reroute

(* A step that touches one journey's entries and frames leaves the others be. *)
(* A journal write and a frame of one journey leave every other journey alone. *)
LEMMA OtherJourneys ==
    ASSUME TypeOK, NEW m \in Mig, NEW k \in Mig, k # m, Journey(k),
           \A q \in Peer : jr'[q][k] = jr[q][k],
           world'[k] = world[k],
           \A f \in net' : f.m # m => f \in net
    PROVE  Journey(k)'
  <1>1. Home[k] \in Peer
    BY HomeIsPeer
  <1>. QED
    BY <1>1, Quiet DEF Telling

(* The export, the custody tick, its clocks and the sweep keep Inv. *)
LEMMA MigStepJourney ==
    ASSUME TypeOK, Inv, NEW m \in Mig,
           \/ Export(m) \/ tickOutbound(m) \/ BounceClockPasses(m)
           \/ RefusalDeadlinePasses(m) \/ SweepForwardRecord(m)
    PROVE  Inv'
  <1>. DEFINE h == Home[m]
              e == jr[h][m]
  <1>h. h \in Peer /\ e \in Entry
    BY HomeIsPeer DEF TypeOK
  <1>j. Journey(m) /\ NeighbourAway
    BY DEF Inv
  <1>1. CASE Export(m)
    <2>1. PICK d \in Peer \ {h} :
             SetEntry(h, m, [NoEntry EXCEPT !.status = "open", !.dir = "out",
                                            !.handoff = "pending", !.dest = d])
      BY <1>1 DEF Export
    <2>. DEFINE new == [NoEntry EXCEPT !.status = "open", !.dir = "out",
                                       !.handoff = "pending", !.dest = d]
    <2>2. /\ new.status = "open" /\ new.dir = "out" /\ new.handoff = "pending" /\ new.dest = d
      BY DEF NoEntry
    <2>. HIDE DEF new
    <2>3. jr'[h][m] = new /\ \A q \in Peer, k \in Mig : <<q, k>> # <<h, m>> => jr'[q][k] = jr[q][k]
      BY <2>1, <1>h DEF SetEntry, TypeOK, new
    <2>4. world[m] = {h} /\ Carriers(m) = {} /\ Holders(m) = {}
      BY <1>1, <1>j DEF Export, Journey, HomeEntry, HomeAlone
    <2>5. world'[m] = {} /\ \A k \in Mig \ {m} : world'[k] = world[k]
      BY <1>1, <2>4 DEF Export, TypeOK
    <2>6. net' = net /\ Carriers(m)' = {}
      BY <1>1, <2>4 DEF Export, Carriers
    <2>7. Holders(m)' = {}
      BY <2>3, <2>4, <2>5, <1>j DEF Holders, Journey, AwayEntries
    <2>8. Journey(m)'
      <3>1. AwayEntries(m)' /\ HomeEntry(m)'
        <4>1. \A q \in Peer \ {h} : jr[q][m].status \notin {"done", "purged"}
          BY <2>4, <1>j DEF Journey, AwayEntries
        <4>. QED
          BY <4>1, <2>1, <2>2, <2>3, <1>j DEF Journey, AwayEntries, HomeEntry
      <3>2. FramesTrue(m)'
        <4>1. \A f \in net : ~(f.m = m /\ f.type = "ack")
          BY <2>4, <1>j DEF Journey, FramesTrue
        <4>. QED
          BY <4>1, <2>6 DEF FramesTrue
      <3>3. HomeAlone(m)' /\ OneCarrier(m)' /\ OneHolder(m)' /\ OneWorld(m)' /\ Attempt(m)'
        BY <2>5, <2>6, <2>7 DEF HomeAlone, OneCarrier, OneHolder, OneWorld, Attempt
      <3>. QED
        BY <3>1, <3>2, <3>3 DEF Journey
    <2>9. \A k \in Mig \ {m} : Journey(k)'
      BY <2>3, <2>5, <2>6, OtherJourneys DEF Inv
    <2>10. NeighbourAway'
      BY <1>1, <1>j DEF Export, links, NeighbourAway
    <2>. QED
      BY <2>8, <2>9, <2>10 DEF Inv
  <1>2. CASE tickOutbound(m)
    <2>o. /\ e.status \in {"open", "in_flight"} /\ e.dir = "out" /\ e.dest # h
      BY <1>2, <1>j DEF tickOutbound, Outbound, Unresolved, Journey, HomeEntry
    <2>k. ASSUME NEW new, SetEntry(h, m, new)
          PROVE  /\ jr'[h][m] = new
                 /\ \A q \in Peer \ {h} : jr'[q][m] = jr[q][m]
                 /\ \A q \in Peer, k \in Mig \ {m} : jr'[q][k] = jr[q][k]
      BY <2>k, <1>h DEF SetEntry, TypeOK
    <2>n. NeighbourAway'
      BY <1>2, <1>j DEF tickOutbound, Forward, TickReroute, WaitOrBounce, Lose, links, NeighbourAway
    <2>a. ASSUME e.handoff \in {"pending", "refused"}
          PROVE  Carriers(m) = {} /\ Holders(m) = {} /\ world[m] = {}
      BY <2>a, <2>o, <1>j DEF Journey, HomeAlone, AtHome
    <2>b. ASSUME NEW new \in Entry, Homeward(new, h), SetEntry(h, m, new),
                 e.handoff \in {"pending", "refused"},
                 UNCHANGED <<world, net>>
          PROVE  Inv'
      <3>1. Carriers(m)' = {}
        BY <2>a, <2>b DEF Carriers
      <3>2. Journey(m)'
        BY <2>a, <2>b, <3>1, <1>h, <1>j, BackHome
      <3>3. \A k \in Mig \ {m} : Journey(k)'
        BY <2>b, <2>k, OtherJourneys DEF Inv
      <3>. QED
        BY <3>2, <3>3, <2>n DEF Inv
    <2>1. CASE Forward(m)
      <3>1. e.handoff \in {"pending", "refused"}
        BY <2>1 DEF Forward, MayForward, PeerRefusal
      <3>2. jr'[h][m] = Sent(e) /\ \A q \in Peer \ {h} : jr'[q][m] = jr[q][m]
        BY <2>1, <2>k DEF Forward
      <3>3. /\ Sent(e).handoff = "sent" /\ Sent(e).status = "in_flight"
            /\ Sent(e).dir = "out" /\ Sent(e).dest = e.dest /\ Sent(e).count = e.count
        BY <1>h, <2>o DEF Sent, Entry
      <3>4. world' = world /\ world[m] = {} /\ Holders(m)' = {}
        BY <2>1, <2>a, <3>1, <3>2 DEF Forward, Holders
      <3>5. /\ OfferOf(m, e).dest = e.dest /\ OfferOf(m, e).count = e.count
            /\ OfferOf(m, e).type = "offer" /\ OfferOf(m, e).m = m
        BY DEF OfferOf
      <3>6. net' \subseteq net \cup {OfferOf(m, e)}
        BY <2>1 DEF Forward
      <3>7. Carriers(m)' \subseteq {OfferOf(m, e)}
        BY <3>1, <3>6, <2>a DEF Carriers
      <3>8. Journey(m)'
        <4>1. HomeAlone(m)'
          BY <3>2, <3>3, <3>4 DEF HomeAlone, AtHome
        <4>2. OneCarrier(m)' /\ OneHolder(m)' /\ OneWorld(m)'
          BY <3>4, <3>7 DEF OneCarrier, OneHolder, OneWorld
        <4>3. HomeEntry(m)' /\ AwayEntries(m)'
          BY <3>2, <3>3, <3>4, <2>o, <1>j DEF HomeEntry, AwayEntries, Journey
        <4>4. FramesTrue(m)'
          BY <3>4, <3>5, <3>6, <3>7, <2>o, <1>j DEF FramesTrue, Journey
        <4>5. Attempt(m)'
          BY <3>2, <3>3, <3>5, <3>7 DEF Attempt
        <4>. QED
          BY <4>1, <4>2, <4>3, <4>4, <4>5 DEF Journey
      <3>9. \A k \in Mig \ {m} : Journey(k)'
        BY <2>1, <2>k, <3>4, <3>5, <3>6, OtherJourneys DEF Inv, Forward
      <3>. QED
        BY <3>8, <3>9, <2>n DEF Inv
    <2>2. CASE TickReroute(m)
      <3>. DEFINE why == IF e.handoff = "pending" THEN "never_sent" ELSE e.proof
      <3>1. why \in Proofs
        BY <1>h DEF Entry, Proofs
      <3>2. PICK new \in Reroute(e, why, h) : SetEntry(h, m, new)
        BY <2>2 DEF TickReroute
      <3>3. e.handoff \in {"pending", "refused"} /\ UNCHANGED <<world, net>>
        BY <2>2 DEF TickReroute
      <3>4. new \in Entry /\ Homeward(new, h)
        BY <3>1, <3>2, <3>3, <2>o, <1>h, <1>j, RerouteType, RerouteHome
      <3>. QED
        BY <3>2, <3>3, <3>4, <2>b
    <2>3. CASE WaitOrBounce(m)
      <3>1. e.handoff \in {"pending", "refused"} /\ UNCHANGED <<world, net>>
        BY <2>3 DEF WaitOrBounce
      <3>2. Bounced(e) \in Entry /\ Homeward(Bounced(e), h)
        BY <1>h, OutcomeTypes DEF Homeward, Bounced, Entry, TypeOK
      <3>3. CASE UNCHANGED jr
        <4>1. \A k \in Mig : Journey(k)'
          BY <3>1, <3>3, Quiet, HomeIsPeer DEF Inv
        <4>. QED
          BY <4>1, <2>n DEF Inv
      <3>. QED
        BY <2>3, <3>1, <3>2, <3>3, <2>b DEF WaitOrBounce
    <2>4. CASE Lose(m)
      <3>1. e.handoff = "sent" /\ UNCHANGED <<world, net>>
        BY <2>4 DEF Lose
      <3>2. jr'[h][m] = Lost(e) /\ \A q \in Peer \ {h} : jr'[q][m] = jr[q][m]
        BY <2>4, <2>k DEF Lose
      <3>3. Lost(e).handoff = "lost" /\ Lost(e).status = "done" /\ Lost(e).dir = "out" /\ Lost(e).dest = e.dest
        BY <1>h, <2>o DEF Lost, Entry
      <3>4. Carriers(m)' = Carriers(m) /\ Holders(m)' = Holders(m)
        BY <3>1, <3>2 DEF Carriers, Holders
      <3>5. Journey(m)'
        <4>1. HomeAlone(m)'
          BY <3>1, <3>2, <3>3, <3>4, <1>j DEF HomeAlone, AtHome, Journey
        <4>2. OneCarrier(m)' /\ OneHolder(m)' /\ OneWorld(m)'
          BY <3>1, <3>4, <1>j DEF OneCarrier, OneHolder, OneWorld, Journey
        <4>3. HomeEntry(m)' /\ AwayEntries(m)'
          BY <3>1, <3>2, <3>3, <2>o, <1>j DEF HomeEntry, AwayEntries, Journey
        <4>4. FramesTrue(m)'
          BY <3>1, <3>4, <1>j DEF FramesTrue, Journey
        <4>5. Attempt(m)'
          BY <3>2, <3>3 DEF Attempt, Outbound, Unresolved
        <4>. QED
          BY <4>1, <4>2, <4>3, <4>4, <4>5 DEF Journey
      <3>6. \A k \in Mig \ {m} : Journey(k)'
        BY <2>4, <3>1, <2>k, OtherJourneys DEF Inv, Lose
      <3>. QED
        BY <3>5, <3>6, <2>n DEF Inv
    <2>. QED
      BY <1>2, <2>1, <2>2, <2>3, <2>4 DEF tickOutbound
  <1>3. CASE BounceClockPasses(m) \/ SweepForwardRecord(m)
    <2>1. UNCHANGED <<jr, world, net, nb>>
      BY <1>3 DEF BounceClockPasses, SweepForwardRecord, links
    <2>2. \A k \in Mig : Journey(k)'
      BY <2>1, Quiet, HomeIsPeer DEF Inv
    <2>. QED
      BY <2>1, <2>2 DEF Inv, NeighbourAway
  <1>4. CASE RefusalDeadlinePasses(m)
    <2>1. UNCHANGED <<world, net, nb>> /\ SetEntry(h, m, [e EXCEPT !.deadline = "passed"])
      BY <1>4 DEF RefusalDeadlinePasses, links
    <2>2. \A q \in Peer, k \in Mig :
             /\ jr'[q][k].status = jr[q][k].status /\ jr'[q][k].dir = jr[q][k].dir
             /\ jr'[q][k].handoff = jr[q][k].handoff /\ jr'[q][k].dest = jr[q][k].dest
             /\ jr'[q][k].count = jr[q][k].count
      BY <2>1, <1>h DEF SetEntry, TypeOK, Entry
    <2>3. \A k \in Mig : Journey(k)'
      BY <2>1, <2>2, Quiet, HomeIsPeer DEF Inv
    <2>. QED
      BY <2>1, <2>3, <1>j DEF Inv, NeighbourAway
  <1>. QED
    BY <1>1, <1>2, <1>3, <1>4

(* The relay and the destination replace the frame that carries a journey by *)
(* another one: an offer by a payload, either by a refusal.                  *)
LEMMA CarrierTurns ==
    ASSUME NEW m \in Mig, Journey(m), UNCHANGED <<jr, world>>,
           NEW f \in Carriers(m), NEW x,
           x.m = m, x.type \in {"payload", "nack"}, x.dest = f.dest,
           \A g \in net' : g \in net \ {f} \/ g = x \/ g.type = "receipt"
    PROVE  Journey(m)'
  <1>1. Carriers(m) = {f}
    BY DEF Journey, OneCarrier
  <1>2. Carriers(m)' \subseteq {x}
    BY <1>1 DEF Carriers
  <1>3. Holders(m)' = Holders(m) /\ (AtHome(m)' <=> AtHome(m))
    BY DEF Holders, AtHome
  <1>4. HomeAlone(m)'
    BY <1>1, <1>3 DEF Journey, HomeAlone
  <1>5. OneCarrier(m)' /\ OneHolder(m)' /\ OneWorld(m)'
    BY <1>1, <1>2, <1>3 DEF Journey, OneCarrier, OneHolder, OneWorld
  <1>6. HomeEntry(m)' /\ AwayEntries(m)'
    BY DEF Journey, HomeEntry, AwayEntries
  <1>7. FramesTrue(m)'
    <2>1. \A g \in Carriers(m)' : g.dest # Home[m]
      BY <1>2 DEF Journey, FramesTrue
    <2>2. \A g \in net' : g.m = m /\ g.type = "ack" => g \in net
      OBVIOUS
    <2>. QED
      BY <2>1, <2>2 DEF Journey, FramesTrue
  <1>8. Attempt(m)'
    BY <1>2 DEF Journey, Attempt, Outbound, Unresolved
  <1>. QED
    BY <1>4, <1>5, <1>6, <1>7, <1>8 DEF Journey

(* Whatever the evidence table makes of a refusal, the organism is home's. *)
LEMMA AfterNackHome ==
    ASSUME TypeOK, NeighbourAway, NEW h \in Peer, NEW e \in Entry, NEW n \in Nack,
           e.dir = "out", e.dest # h, e.status \in {"open", "in_flight"},
           NEW new \in AfterNack(e, n, h)
    PROVE  new = e \/ Homeward(new, h)
  <1>1. Homeward(Bounced(e), h)
    BY DEF Homeward, Bounced, Entry
  <1>2. ASSUME NEW r \in Entry, NEW why \in Proofs, r.dir = "out", r.dest # h,
               r.handoff = "refused", r.status \in {"open", "in_flight"}
        PROVE  \A x \in {e, r} \cup Reroute(r, why, h) : x = e \/ Homeward(x, h)
    BY <1>2, RerouteHome DEF Homeward
  <1>3. ASSUME NEW r, r = MarkTransportRefused(e) \/ \E why \in Proofs : r = MarkRefused(e, why)
        PROVE  /\ r \in Entry /\ r.dir = "out" /\ r.dest # h
               /\ r.handoff = "refused" /\ r.status \in {"open", "in_flight"}
    <2>1. r \in Entry
      BY <1>3, OutcomeTypes DEF TypeOK
    <2>. QED
      BY <1>3, <2>1 DEF MarkTransportRefused, MarkRefused, Entry
  <1>. QED
    BY <1>1, <1>2, <1>3 DEF AfterNack, Proofs

(* Every handler of a frame keeps Inv. *)
LEMMA FrameStepJourney ==
    ASSUME TypeOK, Inv, NEW f \in net,
           \/ RelayOffer(f) \/ RelayDrops(f) \/ onMigrationPayload(f)
           \/ onMigrationAck(f) \/ onForwardReceipt(f) \/ onMigrationNack(f)
    PROVE  Inv'
  <1>. DEFINE m == f.m
              h == Home[m]
              e == jr[h][m]
  <1>f. f \in Frame /\ m \in Mig
    BY FrameKinds DEF TypeOK
  <1>h. h \in Peer /\ e \in Entry
    BY <1>f, HomeIsPeer DEF TypeOK
  <1>j. Journey(m) /\ NeighbourAway
    BY <1>f DEF Inv
  <1>n. NeighbourAway'
    BY <1>j DEF RelayOffer, RelayDrops, onMigrationPayload, onMigrationAck,
                onForwardReceipt, onMigrationNack, links, NeighbourAway
  <1>k. ASSUME NEW p \in Peer, NEW new, SetEntry(p, m, new)
        PROVE  /\ jr'[p][m] = new
               /\ \A q \in Peer \ {p} : jr'[q][m] = jr[q][m]
               /\ \A q \in Peer, k \in Mig \ {m} : jr'[q][k] = jr[q][k]
    BY <1>f, <1>k DEF SetEntry, TypeOK
  <1>w. ASSUME f.type \in {"offer", "payload", "nack"}
        PROVE  /\ f \in Carriers(m) /\ Carriers(m) = {f}
               /\ Holders(m) = {} /\ world[m] = {} /\ ~AtHome(m)
    BY <1>w, <1>j DEF Carriers, Journey, OneCarrier, HomeAlone
  <1>1. CASE RelayOffer(f)
    <2>1. f.type = "offer" /\ UNCHANGED <<jr, world>>
      BY <1>1 DEF RelayOffer
    <2>2. /\ ReceiptOf(f).type = "receipt" /\ ReceiptOf(f).m = m
          /\ PayloadOf(f).type = "payload" /\ PayloadOf(f).m = m /\ PayloadOf(f).dest = f.dest
          /\ \A code, never : /\ RelayNack(f, code, never).type = "nack"
                              /\ RelayNack(f, code, never).m = m
                              /\ RelayNack(f, code, never).dest = f.dest
      BY DEF ReceiptOf, PayloadOf, RelayNack
    <2>3. PICK x : /\ x.m = m /\ x.type \in {"payload", "nack"} /\ x.dest = f.dest
                   /\ net' \subseteq (net \ {f}) \cup {x, ReceiptOf(f)}
      <3>1. CASE \E code, never : net' = (net \ {f}) \cup {RelayNack(f, code, never)}
        BY <3>1, <2>2
      <3>2. CASE net' \subseteq (net \ {f}) \cup {PayloadOf(f), ReceiptOf(f)}
        BY <3>2, <2>2
      <3>. QED
        BY <1>1, <3>1, <3>2 DEF RelayOffer
    <2>4. Journey(m)'
      BY <1>f, <1>j, <1>w, <2>1, <2>2, <2>3, CarrierTurns
    <2>5. \A k \in Mig \ {m} : Journey(k)'
      BY <1>f, <2>1, <2>2, <2>3, OtherJourneys DEF Inv
    <2>. QED
      BY <1>n, <2>4, <2>5 DEF Inv
  <1>2. CASE RelayDrops(f)
    <2>1. \A k \in Mig : Journey(k)'
      BY <1>2, Quiet, HomeIsPeer DEF RelayDrops, Inv
    <2>. QED
      BY <2>1, <1>n DEF Inv
  <1>3. CASE onMigrationPayload(f)
    <2>. DEFINE q == f.dest
    <2>1. /\ f.type = "payload" /\ f \in Payload /\ q \in Peer /\ q # h
          /\ world' = world
      BY <1>3, <1>f, <1>j, <1>w, FrameKinds DEF onMigrationPayload, Payload, Journey, FramesTrue
    <2>2. ~Known(q, m)
      <3>1. jr[q][m].status \in Statuses
        BY <1>f, <2>1 DEF TypeOK, Entry
      <3>2. jr[q][m].status \notin {"done", "purged"}
        BY <2>1, <1>w, <1>j DEF Journey, AwayEntries
      <3>3. jr[q][m].status \notin {"open", "in_flight", "held"}
        BY <2>1, <1>w DEF Holders
      <3>. QED
        BY <3>1, <3>2, <3>3 DEF Known, Statuses
    <2>3. CASE UNCHANGED jr /\ \E code \in {"local", "payload"} : net' = (net \ {f}) \cup {PeerNack(f, code)}
      <3>1. PICK code \in {"local", "payload"} : net' = (net \ {f}) \cup {PeerNack(f, code)}
        BY <2>3
      <3>2. PeerNack(f, code).type = "nack" /\ PeerNack(f, code).m = m /\ PeerNack(f, code).dest = f.dest
        BY DEF PeerNack
      <3>3. Journey(m)'
        BY <1>f, <1>j, <1>w, <2>1, <2>3, <3>1, <3>2, CarrierTurns
      <3>4. \A k \in Mig \ {m} : Journey(k)'
        BY <1>f, <2>1, <2>3, <3>1, <3>2, OtherJourneys DEF Inv
      <3>. QED
        BY <1>n, <3>3, <3>4 DEF Inv
    <2>4. CASE /\ net' = net \ {f}
               /\ \E s \in {"open", "in_flight"} : SetEntry(q, m, [NoEntry EXCEPT !.status = s])
      <3>1. PICK s \in {"open", "in_flight"} : SetEntry(q, m, [NoEntry EXCEPT !.status = s])
        BY <2>4
      <3>. DEFINE new == [NoEntry EXCEPT !.status = s]
      <3>2. new.dir = "in" /\ new.status \in {"open", "in_flight"}
        BY DEF NoEntry
      <3>. HIDE DEF new
      <3>3. /\ jr'[q][m] = new /\ \A p \in Peer \ {q} : jr'[p][m] = jr[p][m]
            /\ \A p \in Peer, k \in Mig \ {m} : jr'[p][k] = jr[p][k]
        BY <2>1, <3>1, <1>k DEF new
      <3>4. Carriers(m)' = {} /\ Holders(m)' = {q} /\ world'[m] = {}
        <4>1. Carriers(m)' = {}
          BY <1>w, <2>1, <2>4 DEF Carriers
        <4>2. Holders(m)' \subseteq {q}
          BY <1>w, <2>1, <3>3 DEF Holders
        <4>3. q \in Holders(m)'
          BY <1>w, <2>1, <3>2, <3>3 DEF Holders
        <4>. QED
          BY <4>1, <4>2, <4>3, <1>w, <2>1
      <3>5. jr'[h][m] = jr[h][m] /\ ~AtHome(m)'
        BY <1>h, <1>w, <2>1, <3>3 DEF AtHome
      <3>6. Journey(m)'
        <4>1. HomeAlone(m)' /\ OneCarrier(m)' /\ OneHolder(m)' /\ OneWorld(m)'
          BY <3>4, <3>5 DEF HomeAlone, OneCarrier, OneHolder, OneWorld
        <4>2. HomeEntry(m)'
          BY <2>1, <3>5, <1>j DEF HomeEntry, Journey
        <4>3. AwayEntries(m)'
          BY <2>1, <3>2, <3>3, <1>j DEF AwayEntries, Journey
        <4>4. FramesTrue(m)' /\ Attempt(m)'
          BY <2>1, <2>4, <3>4, <1>j DEF FramesTrue, Attempt, Journey
        <4>. QED
          BY <4>1, <4>2, <4>3, <4>4 DEF Journey
      <3>7. \A k \in Mig \ {m} : Journey(k)'
        BY <1>f, <2>1, <2>4, <3>3, OtherJourneys DEF Inv
      <3>. QED
        BY <1>n, <3>6, <3>7 DEF Inv
    <2>. QED
      BY <1>3, <2>2, <2>3, <2>4 DEF onMigrationPayload
  <1>4. CASE onMigrationAck(f)
    <2>1. f.type = "ack" /\ net' = net \ {f} /\ world' = world
      BY <1>4 DEF onMigrationAck, Arrives
    <2>2. CASE UNCHANGED jr
      <3>1. \A k \in Mig : Journey(k)'
        BY <2>1, <2>2, Quiet, HomeIsPeer DEF Inv
      <3>. QED
        BY <1>n, <3>1 DEF Inv
    <2>3. CASE Outbound(m) /\ SetEntry(h, m, Acked(e))
      <3>1. world[m] \ {h} # {}
        BY <2>1, <1>j DEF Journey, FramesTrue
      <3>2. Carriers(m) = {} /\ Holders(m) = {} /\ ~AtHome(m) /\ h \notin world[m]
        BY <3>1, <1>j DEF Journey, HomeAlone, OneCarrier, OneHolder
      <3>3. e.dir = "out" /\ e.dest # h
        BY <2>3, <1>j DEF Outbound, Journey, HomeEntry
      <3>4. /\ Acked(e).status = "done" /\ Acked(e).handoff = "done"
            /\ Acked(e).dir = "out" /\ Acked(e).dest = e.dest
        BY <3>3, <1>h DEF Acked, Entry
      <3>5. /\ jr'[h][m] = Acked(e) /\ \A q \in Peer \ {h} : jr'[q][m] = jr[q][m]
            /\ \A q \in Peer, k \in Mig \ {m} : jr'[q][k] = jr[q][k]
        BY <2>3, <1>h, <1>k
      <3>6. Carriers(m)' = {} /\ Holders(m)' = {} /\ ~AtHome(m)'
        BY <2>1, <3>2, <3>4, <3>5 DEF Carriers, Holders, AtHome
      <3>7. Journey(m)'
        <4>1. HomeAlone(m)' /\ OneCarrier(m)' /\ OneHolder(m)' /\ OneWorld(m)'
          BY <2>1, <3>6, <3>2, <1>j DEF HomeAlone, OneCarrier, OneHolder, OneWorld, Journey
        <4>2. HomeEntry(m)' /\ AwayEntries(m)'
          BY <2>1, <3>1, <3>3, <3>4, <3>5, <1>j DEF HomeEntry, AwayEntries, Journey
        <4>3. FramesTrue(m)' /\ Attempt(m)'
          BY <2>1, <3>6, <1>j DEF FramesTrue, Attempt, Journey
        <4>. QED
          BY <4>1, <4>2, <4>3 DEF Journey
      <3>8. \A k \in Mig \ {m} : Journey(k)'
        BY <1>f, <2>1, <3>5, OtherJourneys DEF Inv
      <3>. QED
        BY <1>n, <3>7, <3>8 DEF Inv
    <2>. QED
      BY <1>4, <2>2, <2>3 DEF onMigrationAck
  <1>5. CASE onForwardReceipt(f)
    <2>1. f.type = "receipt" /\ net' = net \ {f} /\ world' = world
      BY <1>5 DEF onForwardReceipt, Arrives
    <2>2. \A q \in Peer, k \in Mig :
             /\ jr'[q][k].status = jr[q][k].status /\ jr'[q][k].dir = jr[q][k].dir
             /\ jr'[q][k].handoff = jr[q][k].handoff /\ jr'[q][k].dest = jr[q][k].dest
             /\ jr'[q][k].count = jr[q][k].count
      <3>1. CASE UNCHANGED jr
        BY <3>1
      <3>2. CASE SetEntry(h, m, [e EXCEPT !.receiptSess = f.sess, !.receiptDest = f.dest])
        BY <3>2, <1>f, <1>h DEF SetEntry, TypeOK, Entry
      <3>. QED
        BY <1>5, <3>1, <3>2 DEF onForwardReceipt
    <2>3. \A k \in Mig : Journey(k)'
      BY <2>1, <2>2, Quiet, HomeIsPeer DEF Inv
    <2>. QED
      BY <1>n, <2>3 DEF Inv
  <1>6. CASE onMigrationNack(f)
    <2>1. f.type = "nack" /\ f \in Nack /\ net' = net \ {f} /\ world' = world
      BY <1>6, <1>f, FrameKinds DEF onMigrationNack, Arrives
    <2>2. CASE UNCHANGED jr
      <3>1. \A k \in Mig : Journey(k)'
        BY <2>1, <2>2, Quiet, HomeIsPeer DEF Inv
      <3>. QED
        BY <1>n, <3>1 DEF Inv
    <2>3. CASE Outbound(m) /\ \E new \in AfterNack(e, f, h) : SetEntry(h, m, new)
      <3>1. PICK new \in AfterNack(e, f, h) : SetEntry(h, m, new)
        BY <2>3
      <3>2. e.dir = "out" /\ e.dest # h /\ e.status \in {"open", "in_flight"}
        BY <2>3, <1>j DEF Outbound, Unresolved, Journey, HomeEntry
      <3>3. new \in Entry /\ (new = e \/ Homeward(new, h))
        BY <2>1, <3>1, <3>2, <1>h, <1>j, AfterNackType, AfterNackHome
      <3>4. /\ jr'[h][m] = new /\ \A q \in Peer \ {h} : jr'[q][m] = jr[q][m]
            /\ \A q \in Peer, k \in Mig \ {m} : jr'[q][k] = jr[q][k]
        BY <3>1, <1>h, <1>k
      <3>5. Journey(m)'
        <4>1. CASE new = e
          BY <4>1, <3>4, <2>1, <1>f, <1>h, <1>j, Quiet
        <4>2. CASE Homeward(new, h)
          <5>1. Carriers(m)' = {}
            BY <1>w, <2>1 DEF Carriers
          <5>. QED
            BY <4>2, <5>1, <3>1, <3>3, <2>1, <1>f, <1>h, <1>j, <1>w, BackHome
        <4>. QED
          BY <3>3, <4>1, <4>2
      <3>6. \A k \in Mig \ {m} : Journey(k)'
        BY <1>f, <2>1, <3>4, OtherJourneys DEF Inv
      <3>. QED
        BY <1>n, <3>5, <3>6 DEF Inv
    <2>. QED
      BY <1>6, <2>2, <2>3 DEF onMigrationNack
  <1>. QED
    BY <1>1, <1>2, <1>3, <1>4, <1>5, <1>6

(* Links that come and go, and sidecars that die, keep Inv. *)
LEMMA PeerStepJourney ==
    ASSUME TypeOK, Inv, NEW p \in Peer,
           \/ Connect(p) \/ Disconnect(p) \/ Crash(p) \/ PeerStatus(p) \/ Grant(p)
    PROVE  Inv'
  <1>1. UNCHANGED <<jr, world>> /\ net' \subseteq net
    BY DEF Connect, Disconnect, Crash, PeerStatus, Grant, Unlink, relay
  <1>2. NeighbourAway'
    <2>1. CASE Connect(p) \/ PeerStatus(p)
      BY <2>1 DEF Connect, PeerStatus, Inv, NeighbourAway
    <2>2. CASE Unlink(p)
      BY <2>2, PeerAssumption DEF Unlink, Inv, NeighbourAway, TypeOK
    <2>3. CASE Grant(p)
      BY <2>3, PeerAssumption DEF Grant, Inv, NeighbourAway, TypeOK
    <2>. QED
      BY <2>1, <2>2, <2>3 DEF Disconnect, Crash
  <1>3. \A k \in Mig : Journey(k)'
    BY <1>1, Quiet, HomeIsPeer DEF Inv
  <1>. QED
    BY <1>2, <1>3 DEF Inv

(* The end of a relay session keeps Inv. *)
LEMMA RelayStepJourney ==
    ASSUME TypeOK, Inv, Drain \/ RelayRestart
    PROVE  Inv'
  <1>1. UNCHANGED <<jr, world>> /\ net' \subseteq net
    BY DEF Drain, RelayRestart
  <1>2. NeighbourAway'
    BY PeerAssumption DEF Drain, RelayRestart, links, Inv, NeighbourAway
  <1>3. \A k \in Mig : Journey(k)'
    BY <1>1, Quiet, HomeIsPeer DEF Inv
  <1>. QED
    BY <1>2, <1>3 DEF Inv

(* A delivered arrival whose record moves on to done or purged stays where it *)
(* is: in the world that has it.                                              *)
LEMMA InboxMoves ==
    ASSUME TypeOK, NEW m \in Mig, Journey(m), NEW p \in Peer, NEW new,
           SetEntry(p, m, new), world'[m] = world[m],
           \A f \in net' : f.m = m /\ f.type \in Telling =>
              f \in net \/ (f.type = "ack" /\ f.from = p /\ p # Home[m] /\ p \in world[m]),
           new.dir = "in", new.status # "none",
           p = Home[m] => new.status = "purged" \/ new.handoff = "done",
           new.status \in {"open", "in_flight", "held"} =>
              jr[p][m].dir = "in" /\ jr[p][m].status \in {"open", "in_flight", "held"},
           new.status = "done" => p \in world[m],
           new.status = "purged" => p = Home[m] \/ p \in world[m],
           new.status # "purged" \/ jr[p][m].status # "none"
    PROVE  Journey(m)'
  <1>. DEFINE h == Home[m]
  <1>1. jr'[p][m] = new /\ \A q \in Peer \ {p} : jr'[q][m] = jr[q][m]
    BY DEF SetEntry, TypeOK
  <1>2. Carriers(m)' \subseteq Carriers(m)
    BY DEF Carriers, Telling
  <1>3. Holders(m)' \subseteq Holders(m)
    BY <1>1 DEF Holders
  <1>4. AtHome(m)' => AtHome(m)
    BY <1>1, HomeIsPeer DEF AtHome
  <1>5. HomeAlone(m)'
    BY <1>2, <1>3, <1>4 DEF Journey, HomeAlone
  <1>6. OneCarrier(m)' /\ OneHolder(m)' /\ OneWorld(m)'
    BY <1>2, <1>3 DEF Journey, OneCarrier, OneHolder, OneWorld
  <1>7. HomeEntry(m)'
    BY <1>1, HomeIsPeer DEF Journey, HomeEntry
  <1>8. AwayEntries(m)'
    BY <1>1 DEF Journey, AwayEntries
  <1>9. FramesTrue(m)'
    BY <1>2 DEF Journey, FramesTrue, Telling
  <1>10. Attempt(m)'
    <2>1. CASE p = Home[m]
      <3>1. ~Outbound(m)'
        BY <2>1, <1>1 DEF Outbound
      <3>. QED
        BY <3>1 DEF Attempt
    <2>2. CASE p # Home[m]
      <3>1. jr'[Home[m]][m] = jr[Home[m]][m]
        BY <2>2, <1>1, HomeIsPeer
      <3>. QED
        BY <3>1, <1>2 DEF Journey, Attempt, Outbound, Unresolved
    <2>. QED
      BY <2>1, <2>2
  <1>. QED
    BY <1>5, <1>6, <1>7, <1>8, <1>9, <1>10 DEF Journey

(* Every step of a delivery keeps Inv. *)
LEMMA DeliveryStepJourney ==
    ASSUME TypeOK, Inv, NEW p \in Peer, NEW m \in Mig,
           \/ Deliver(p, m) \/ Spawn(p, m) \/ onMigrateInAck(p, m)
           \/ onMigrateInNack(p, m) \/ tickInbound(p, m) \/ Purge(p, m)
    PROVE  Inv'
  <1>. DEFINE h == Home[m]
              e == jr[p][m]
  <1>h. h \in Peer /\ e \in Entry
    BY HomeIsPeer DEF TypeOK
  <1>j. Journey(m) /\ NeighbourAway
    BY DEF Inv
  <1>n. NeighbourAway'
    BY <1>j DEF Deliver, Spawn, onMigrateInAck, onMigrateInNack, tickInbound, Purge,
                links, NeighbourAway
  <1>d. p = h /\ e.dir = "in" /\ e.status \notin {"none", "purged"} => e.handoff = "done"
    BY <1>j DEF Journey, HomeEntry
  <1>k. ASSUME NEW new, SetEntry(p, m, new)
        PROVE  \A q \in Peer, k \in Mig \ {m} : jr'[q][k] = jr[q][k]
    BY <1>k DEF SetEntry, TypeOK
  <1>a. /\ AckFrom(p, m).m = m /\ AckFrom(p, m).type = "ack" /\ AckFrom(p, m).from = p
    BY DEF AckFrom
  <1>1. CASE Deliver(p, m) \/ onMigrateInNack(p, m)
    <2>1. PICK s \in {"in_flight", "held"} : SetEntry(p, m, [e EXCEPT !.status = s])
      BY <1>1 DEF Deliver, onMigrateInNack
    <2>. DEFINE new == [e EXCEPT !.status = s]
    <2>2. new.status = s /\ new.dir = e.dir /\ new.handoff = e.handoff
      BY <1>h DEF Entry
    <2>. HIDE DEF new
    <2>3. /\ e.dir = "in" /\ e.status \in {"open", "in_flight"} /\ UNCHANGED <<world, net>>
      BY <1>1 DEF Deliver, onMigrateInNack
    <2>4. SetEntry(p, m, new)
      BY <2>1 DEF new
    <2>5. Journey(m)'
      BY <2>2, <2>3, <2>4, <1>d, <1>j, InboxMoves
    <2>6. \A k \in Mig \ {m} : Journey(k)'
      BY <2>3, <2>4, <1>k, OtherJourneys DEF Inv
    <2>. QED
      BY <1>n, <2>5, <2>6 DEF Inv
  <1>2. CASE Spawn(p, m)
    <2>1. /\ UNCHANGED <<jr, net>> /\ world'[m] = world[m] \cup {p}
          /\ \A k \in Mig \ {m} : world'[k] = world[k]
      BY <1>2 DEF Spawn, TypeOK
    <2>2. e.dir = "in" /\ e.status = "in_flight" /\ p \notin world[m]
      BY <1>2 DEF Spawn
    <2>3. world[m] = {} /\ Carriers(m) = {} /\ (p = h => Holders(m) = {})
      <3>1. CASE p = h
        BY <3>1, <2>2, <1>j DEF AtHome, Journey, HomeAlone
      <3>2. CASE p # h
        <4>1. p \in Holders(m)
          BY <3>2, <2>2 DEF Holders
        <4>. QED
          BY <3>2, <4>1, <1>j DEF Journey, OneHolder, OneCarrier
      <3>. QED
        BY <3>1, <3>2
    <2>4. world'[m] = {p} /\ Carriers(m)' = {}
      BY <2>1, <2>3 DEF Carriers
    <2>5. Holders(m)' = {}
      <3>1. Holders(m)' \subseteq Holders(m) \ {p}
        BY <2>1, <2>2 DEF Holders
      <3>2. p # h => p \in Holders(m)
        BY <2>2 DEF Holders
      <3>. QED
        BY <3>1, <3>2, <2>3, <1>j DEF Journey, OneHolder
    <2>6. ~AtHome(m)'
      <3>1. CASE p = h
        BY <3>1, <2>1, <2>2, <2>4 DEF AtHome
      <3>2. CASE p # h
        <4>1. ~AtHome(m)
          BY <3>2, <2>2, <1>j DEF Holders, Journey, HomeAlone
        <4>. QED
          BY <4>1, <3>2, <2>1, <2>3, <2>4 DEF AtHome
      <3>. QED
        BY <3>1, <3>2
    <2>7. Journey(m)'
      <3>1. HomeAlone(m)' /\ OneCarrier(m)' /\ OneHolder(m)' /\ OneWorld(m)'
        BY <2>4, <2>5, <2>6 DEF HomeAlone, OneCarrier, OneHolder, OneWorld
      <3>2. HomeEntry(m)'
        BY <2>1, <2>2, <2>3, <2>4, <1>j DEF Journey, HomeEntry
      <3>3. AwayEntries(m)'
        BY <2>1, <1>j DEF Journey, AwayEntries
      <3>4. FramesTrue(m)' /\ Attempt(m)'
        BY <2>1, <2>4, <1>j DEF Journey, FramesTrue, Attempt
      <3>. QED
        BY <3>1, <3>2, <3>3, <3>4 DEF Journey
    <2>8. \A k \in Mig \ {m} : Journey(k)'
      BY <2>1, OtherJourneys DEF Inv
    <2>. QED
      BY <1>n, <2>7, <2>8 DEF Inv
  <1>3. CASE onMigrateInAck(p, m) \/ tickInbound(p, m)
    <2>1. world' = world /\ e.dir = "in" /\ e.status \in {"in_flight", "done"} /\ p \in world[m]
      BY <1>3, <1>j DEF onMigrateInAck, tickInbound, AwaitsUpstreamAck, Journey, AwayEntries
    <2>2. PICK marked \in BOOLEAN :
             \/ SetEntry(p, m, [e EXCEPT !.status = "done"])
             \/ SetEntry(p, m, [[e EXCEPT !.status = "done"] EXCEPT !.acked = marked])
      <3>1. CASE onMigrateInAck(p, m)
        BY <3>1 DEF onMigrateInAck, SendAckUpstream
      <3>2. CASE tickInbound(p, m)
        <4>1. [e EXCEPT !.status = "done"] = e
          BY <3>2, <1>h DEF tickInbound, AwaitsUpstreamAck, Entry
        <4>. QED
          BY <3>2, <4>1 DEF tickInbound, SendAckUpstream
      <3>. QED
        BY <1>3, <3>1, <3>2
    <2>3. PICK new : /\ SetEntry(p, m, new)
                     /\ new.status = "done" /\ new.dir = "in" /\ new.handoff = e.handoff
      <3>. DEFINE done   == [e EXCEPT !.status = "done"]
                  told(b) == [done EXCEPT !.acked = b]
      <3>1. /\ done.status = "done" /\ done.dir = "in" /\ done.handoff = e.handoff
            /\ told(marked).status = "done" /\ told(marked).dir = "in"
            /\ told(marked).handoff = e.handoff
        BY <2>1, <1>h DEF Entry
      <3>2. CASE SetEntry(p, m, done)
        BY <3>1, <3>2
      <3>3. CASE SetEntry(p, m, told(marked))
        BY <3>1, <3>3
      <3>. QED
        BY <2>2, <3>2, <3>3
    <2>4. net' \subseteq net \cup {AckFrom(p, m)} /\ (net' # net => p # h)
      BY <1>3 DEF onMigrateInAck, tickInbound, SendAckUpstream, AwaitsUpstreamAck
    <2>5. Journey(m)'
      BY <2>1, <2>3, <2>4, <1>a, <1>d, <1>j, InboxMoves
    <2>6. \A k \in Mig \ {m} : Journey(k)'
      BY <2>1, <2>3, <2>4, <1>a, <1>k, OtherJourneys DEF Inv
    <2>. QED
      BY <1>n, <2>5, <2>6 DEF Inv
  <1>4. CASE Purge(p, m)
    <2>. DEFINE new == [NoEntry EXCEPT !.status = "purged"]
    <2>1. new.status = "purged" /\ new.dir = "in"
      BY DEF NoEntry
    <2>2. SetEntry(p, m, new) /\ UNCHANGED <<world, net>> /\ e.status = "done"
      BY <1>4 DEF Purge
    <2>. HIDE DEF new
    <2>3. p = h \/ p \in world[m]
      BY <2>2, <1>j DEF Journey, AwayEntries
    <2>4. Journey(m)'
      BY <2>1, <2>2, <2>3, <1>j, InboxMoves
    <2>5. \A k \in Mig \ {m} : Journey(k)'
      BY <2>2, <1>k, OtherJourneys DEF Inv
    <2>. QED
      BY <1>n, <2>4, <2>5 DEF Inv
  <1>. QED
    BY <1>1, <1>2, <1>3, <1>4

(* Inv holds of a map on which nothing was exported yet, *)
LEMMA InvInit == Init => Inv
  <1>. SUFFICES ASSUME Init PROVE Inv
    OBVIOUS
  <1>1. NeighbourAway
    BY PeerAssumption DEF Init, NeighbourAway
  <1>2. ASSUME NEW m \in Mig PROVE Journey(m)
    <2>1. /\ \A q \in Peer : jr[q][m].status = "none" /\ jr[q][m].dir = "in"
                             /\ jr[q][m].handoff = "none"
          /\ world[m] = {Home[m]} /\ Home[m] \in Peer /\ net = {}
      BY <1>2, HomeIsPeer DEF Init, NoEntry
    <2>2. Carriers(m) = {} /\ Holders(m) = {} /\ ~AtHome(m)
      BY <2>1 DEF Carriers, Holders, AtHome
    <2>3. HomeAlone(m) /\ OneCarrier(m) /\ OneHolder(m) /\ OneWorld(m)
      BY <2>1, <2>2 DEF HomeAlone, OneCarrier, OneHolder, OneWorld
    <2>4. HomeEntry(m) /\ AwayEntries(m) /\ FramesTrue(m) /\ Attempt(m)
      BY <2>1, <2>2 DEF HomeEntry, AwayEntries, FramesTrue, Attempt
    <2>. QED
      BY <2>3, <2>4 DEF Journey
  <1>. QED
    BY <1>1, <1>2 DEF Inv

(* and every step keeps it. *)
LEMMA InvStep == TypeOK /\ Inv /\ [Next]_vars => Inv'
  <1>. SUFFICES ASSUME TypeOK, Inv, [Next]_vars PROVE Inv'
    OBVIOUS
  <1>1. CASE UNCHANGED vars
    <2>1. \A m \in Mig : Journey(m)'
      BY <1>1, Quiet, HomeIsPeer DEF vars, Inv
    <2>. QED
      BY <1>1, <2>1 DEF vars, Inv, NeighbourAway
  <1>2. CASE Next
    BY <1>2, MigStepJourney, FrameStepJourney, PeerStepJourney, DeliveryStepJourney,
       RelayStepJourney DEF Next
  <1>. QED
    BY <1>1, <1>2

(* The inductive invariant: of every journey, the home journal, the other     *)
(* journals, the frames and the worlds agree on the one place the organism is *)
(* (the custody rules of forwardLocked, rerouteLocked, bounceLocked and       *)
(* onMigrationNack at home, and of onMigrationPayload at the destination).    *)
THEOREM JourneyInvariant == Spec => []Inv
  <1>. QED
    BY TypeCorrect, InvInit, InvStep, PTL DEF Spec

-----------------------------------------------------------------------------
(* What follows from it. *)

(* Migration is at most once (D2): no interleaving of crashes, restarts, lost  *)
(* frames, timeouts and refusals gives an organism two places to live or to be *)
(* produced from.                                                              *)
THEOREM AtMostOnce == Spec => []AtMostOnePlace
  <1>1. Inv => AtMostOnePlace
    <2>. SUFFICES ASSUME Inv, NEW m \in Mig, NEW x \in Places(m), NEW y \in Places(m)
                  PROVE  x = y
      BY DEF AtMostOnePlace
    <2>j. HomeAlone(m) /\ OneCarrier(m) /\ OneHolder(m) /\ OneWorld(m)
      BY DEF Inv, Journey
    <2>1. CASE AtHome(m)
      <3>1. Carriers(m) = {} /\ Holders(m) = {} /\ world[m] = {}
        BY <2>1, <2>j DEF HomeAlone
      <3>. QED
        BY <2>1, <3>1 DEF Places
    <2>2. CASE ~AtHome(m) /\ Carriers(m) # {}
      <3>1. Holders(m) = {} /\ world[m] = {}
        BY <2>2, <2>j DEF OneCarrier
      <3>2. PICK f, g \in Carriers(m) : x = <<"frame", f>> /\ y = <<"frame", g>>
        BY <2>2, <3>1 DEF Places
      <3>. QED
        BY <3>2, <2>j DEF OneCarrier
    <2>3. CASE ~AtHome(m) /\ Carriers(m) = {} /\ Holders(m) # {}
      <3>1. world[m] = {}
        BY <2>3, <2>j DEF OneHolder
      <3>2. PICK p, q \in Holders(m) : x = <<"inbox", p>> /\ y = <<"inbox", q>>
        BY <2>3, <3>1 DEF Places
      <3>. QED
        BY <3>2, <2>j DEF OneHolder
    <2>4. CASE ~AtHome(m) /\ Carriers(m) = {} /\ Holders(m) = {}
      <3>1. PICK p, q \in world[m] : x = <<"world", p>> /\ y = <<"world", q>>
        BY <2>4 DEF Places
      <3>. QED
        BY <3>1, <2>j DEF OneWorld
    <2>. QED
      BY <2>1, <2>2, <2>3, <2>4
  <1>. QED
    BY <1>1, JourneyInvariant, PTL

(* No silent loss: an organism that is nowhere was given up by loseLocked, or *)
(* waits in sent for the answer or the timeout that will say so.              *)
THEOREM Accounted == Spec => []NoSilentLoss
  <1>1. TypeOK /\ Inv => NoSilentLoss
    <2>. SUFFICES ASSUME TypeOK, Inv, NEW m \in Mig, Places(m) = {},
                         jr[Home[m]][m].status # "purged",
                         jr[Home[m]][m].handoff \notin {"sent", "lost"}
                  PROVE  FALSE
      BY DEF NoSilentLoss
    <2>. DEFINE h == Home[m]
                e == jr[h][m]
    <2>1. HomeEntry(m) /\ e \in Entry
      BY HomeIsPeer DEF Inv, Journey, TypeOK
    <2>2. ~AtHome(m) /\ world[m] = {}
      BY DEF Places
    <2>3. e.dir = "in"
      BY <2>1, <2>2 DEF HomeEntry, AtHome, Entry, Handoffs
    <2>4. e.status # "none"
      BY <2>1, <2>2 DEF HomeEntry
    <2>5. e.status # "done"
      BY <2>1, <2>2, <2>3 DEF HomeEntry
    <2>. QED
      BY <2>1, <2>2, <2>3, <2>4, <2>5 DEF AtHome, Entry, Statuses
  <1>. QED
    BY <1>1, TypeCorrect, JourneyInvariant, PTL

(* A home journal that records a delivery (onMigrationAck) is right: another *)
(* world has the organism.                                                   *)
THEOREM AcksTellTheTruth == Spec => []AckMeansDelivered
  <1>1. Inv => AckMeansDelivered
    BY DEF Inv, Journey, HomeEntry, AckMeansDelivered
  <1>. QED
    BY <1>1, JourneyInvariant, PTL

(* What is under way while an attempt is unanswered is about that attempt, so *)
(* no late answer to an earlier one can be taken for its answer.              *)
THEOREM AnswersAreCurrent == Spec => []OnlyTheCurrentAttempt
  <1>1. Inv => OnlyTheCurrentAttempt
    BY DEF Inv, Journey, Attempt, OnlyTheCurrentAttempt
  <1>. QED
    BY <1>1, JourneyInvariant, PTL

-----------------------------------------------------------------------------
(* Refusal chains. *)

(* NoRetryInAChain, of one journal entry. *)
Fresh(e) ==
    /\ e.status \in {"open", "in_flight"} /\ e.dir = "out"
    /\ Bounded(e) /\ e.handoff \in {"pending", "sent"}
    => e.dest \notin e.refused

(* What rerouteLocked makes of an entry is fresh: it bounces, or walks on to a *)
(* world that did not refuse, or starts no bounded chain.                      *)
LEMMA RerouteFresh ==
    ASSUME TypeOK, NEW h \in Peer, NEW e \in Entry, NEW why \in Proofs, Fresh(e),
           NEW new \in Reroute(e, why, h)
    PROVE  Fresh(new)
  <1>1. Fresh(Bounced(e))
    BY DEF Fresh, Bounced, Entry
  <1>2. ASSUME NEW d \in Untried(e, h) PROVE Fresh(Rerouted(e, why, d))
    <2>1. d \notin e.refused
      BY DEF Untried
    <2>2. Rerouted(e, why, d).dest = d /\ Rerouted(e, why, d).refused = e.refused
      BY DEF Rerouted, Entry
    <2>. QED
      BY <2>1, <2>2 DEF Fresh
  <1>3. ASSUME ~Bounded(e), NEW d PROVE Fresh(Rerouted(e, why, d))
    <2>1. Rerouted(e, why, d).deadline = e.deadline
      BY DEF Rerouted, Entry
    <2>. QED
      BY <1>3, <2>1 DEF Fresh, Bounded
  <1>. QED
    BY <1>1, <1>2, <1>3 DEF Reroute

(* So is what the evidence table of onMigrationNack makes of one. *)
LEMMA AfterNackFresh ==
    ASSUME TypeOK, NEW h \in Peer, NEW e \in Entry, NEW n \in Nack, Fresh(e),
           NEW new \in AfterNack(e, n, h)
    PROVE  Fresh(new)
  <1>1. Fresh(Bounced(e))
    BY DEF Fresh, Bounced, Entry
  <1>2. ASSUME NEW r, r = MarkTransportRefused(e) \/ \E why \in Proofs : r = MarkRefused(e, why)
        PROVE  r \in Entry /\ Fresh(r)
    <2>1. r \in Entry
      BY <1>2, OutcomeTypes DEF TypeOK
    <2>2. r.handoff = "refused"
      BY <1>2 DEF MarkTransportRefused, MarkRefused, Entry
    <2>. QED
      BY <2>1, <2>2 DEF Fresh
  <1>3. ASSUME NEW r \in Entry, Fresh(r), NEW why \in Proofs
        PROVE  \A x \in {e, r} \cup Reroute(r, why, h) : Fresh(x)
    BY <1>3, RerouteFresh
  <1>. QED
    BY <1>1, <1>2, <1>3 DEF AfterNack, Proofs

(* Every entry a step writes at home is fresh if the one before it was. *)
LEMMA StepFresh ==
    ASSUME TypeOK, NoRetryInAChain, [Next]_vars
    PROVE  NoRetryInAChain'
  <1>. SUFFICES ASSUME NEW k \in Mig PROVE Fresh(jr'[Home[k]][k])
    BY DEF NoRetryInAChain, Fresh, Outbound, Unresolved, Bounded
  <1>. DEFINE h == Home[k]
              e == jr[h][k]
  <1>h. h \in Peer /\ e \in Entry
    BY HomeIsPeer DEF TypeOK
  <1>e. Fresh(e)
    BY DEF NoRetryInAChain, Fresh, Outbound, Unresolved
  <1>s. ASSUME NEW p \in Peer, NEW m \in Mig, NEW new, SetEntry(p, m, new),
               p = h /\ m = k => Fresh(new)
        PROVE  Fresh(jr'[h][k])
    <2>1. CASE p = h /\ m = k
      BY <1>s, <2>1 DEF SetEntry, TypeOK
    <2>2. CASE ~(p = h /\ m = k)
      <3>1. jr'[h][k] = e
        BY <1>s, <1>h, <2>2 DEF SetEntry, TypeOK
      <3>. QED
        BY <1>e, <3>1
    <2>. QED
      BY <2>1, <2>2
  <1>u. ASSUME UNCHANGED jr PROVE Fresh(jr'[h][k])
    BY <1>u, <1>e
  <1>1. ASSUME NEW m \in Mig, Export(m) PROVE Fresh(jr'[h][k])
    <2>1. PICK d \in Peer : SetEntry(Home[m], m, [NoEntry EXCEPT !.status = "open", !.dir = "out",
                                                     !.handoff = "pending", !.dest = d])
      BY <1>1 DEF Export
    <2>2. Fresh([NoEntry EXCEPT !.status = "open", !.dir = "out",
                                !.handoff = "pending", !.dest = d])
      BY DEF Fresh, Bounded, NoEntry
    <2>. QED
      BY <2>1, <2>2, <1>s, HomeIsPeer
  <1>2. ASSUME NEW m \in Mig, tickOutbound(m) PROVE Fresh(jr'[h][k])
    <2>. DEFINE g == Home[m]
                x == jr[g][m]
    <2>h. g \in Peer /\ x \in Entry
      BY HomeIsPeer DEF TypeOK
    <2>e. Fresh(x)
      BY DEF NoRetryInAChain, Fresh, Outbound, Unresolved
    <2>o. Outbound(m) /\ x.dir = "out" /\ x.status \in {"open", "in_flight"}
      BY <1>2 DEF tickOutbound, Outbound, Unresolved
    <2>1. CASE Forward(m)
      <3>1. SetEntry(g, m, Sent(x))
        BY <2>1 DEF Forward
      <3>2. Bounded(x) => x.dest \notin x.refused
        BY <2>1, <2>e, <2>o DEF Forward, MayForward, PeerRefusal, Fresh
      <3>3. Fresh(Sent(x))
        BY <3>2, <2>h DEF Fresh, Sent, Entry, Bounded
      <3>. QED
        BY <3>1, <3>3, <2>h, <1>s
    <2>2. CASE TickReroute(m)
      <3>. DEFINE why == IF x.handoff = "pending" THEN "never_sent" ELSE x.proof
      <3>1. why \in Proofs
        BY <2>h DEF Entry, Proofs
      <3>2. PICK new \in Reroute(x, why, g) : SetEntry(g, m, new)
        BY <2>2 DEF TickReroute
      <3>3. Fresh(new)
        BY <3>1, <3>2, <2>e, <2>h, RerouteFresh
      <3>. QED
        BY <3>2, <3>3, <2>h, <1>s
    <2>3. CASE WaitOrBounce(m) \/ Lose(m)
      <3>1. Fresh(Bounced(x)) /\ Fresh(Lost(x))
        BY <2>h DEF Fresh, Bounced, Lost, Entry
      <3>2. UNCHANGED jr \/ SetEntry(g, m, Bounced(x)) \/ SetEntry(g, m, Lost(x))
        BY <2>3 DEF WaitOrBounce, Lose
      <3>. QED
        BY <3>1, <3>2, <2>h, <1>s, <1>u
    <2>. QED
      BY <1>2, <2>1, <2>2, <2>3 DEF tickOutbound
  <1>3. ASSUME NEW m \in Mig, RefusalDeadlinePasses(m) PROVE Fresh(jr'[h][k])
    <2>. DEFINE g == Home[m]
                x == jr[g][m]
    <2>h. g \in Peer /\ x \in Entry
      BY HomeIsPeer DEF TypeOK
    <2>1. Fresh(x) /\ Bounded(x)
      BY <1>3 DEF NoRetryInAChain, Fresh, Outbound, Unresolved, RefusalDeadlinePasses, Bounded
    <2>2. Fresh([x EXCEPT !.deadline = "passed"])
      BY <2>1, <2>h DEF Fresh, Entry
    <2>. QED
      BY <2>2, <2>h, <1>3, <1>s DEF RefusalDeadlinePasses
  <1>4. ASSUME NEW f \in net, onMigrationAck(f) \/ onForwardReceipt(f) \/ onMigrationNack(f)
        PROVE  Fresh(jr'[h][k])
    <2>. DEFINE m == f.m
                g == Home[m]
                x == jr[g][m]
    <2>f. f \in Frame /\ m \in Mig
      BY FrameKinds DEF TypeOK
    <2>h. g \in Peer /\ x \in Entry
      BY <2>f, HomeIsPeer DEF TypeOK
    <2>e. Fresh(x)
      BY <2>f DEF NoRetryInAChain, Fresh, Outbound, Unresolved
    <2>1. CASE onMigrationAck(f)
      <3>1. Fresh(Acked(x))
        BY <2>h DEF Fresh, Acked, Entry
      <3>2. UNCHANGED jr \/ SetEntry(g, m, Acked(x))
        BY <2>1 DEF onMigrationAck
      <3>. QED
        BY <3>1, <3>2, <2>f, <2>h, <1>s, <1>u
    <2>2. CASE onForwardReceipt(f)
      <3>. DEFINE new == [x EXCEPT !.receiptSess = f.sess, !.receiptDest = f.dest]
      <3>1. Fresh(new)
        BY <2>h, <2>e DEF Fresh, Entry, Bounded
      <3>2. UNCHANGED jr \/ SetEntry(g, m, new)
        BY <2>2 DEF onForwardReceipt
      <3>. QED
        BY <3>1, <3>2, <2>f, <2>h, <1>s, <1>u
    <2>3. CASE onMigrationNack(f)
      <3>1. f \in Nack
        BY <2>3, <2>f, FrameKinds DEF onMigrationNack, Arrives
      <3>2. UNCHANGED jr \/ \E new \in AfterNack(x, f, g) : SetEntry(g, m, new)
        BY <2>3 DEF onMigrationNack
      <3>3. \A new \in AfterNack(x, f, g) : Fresh(new)
        BY <3>1, <2>h, <2>e, AfterNackFresh
      <3>. QED
        BY <3>2, <3>3, <2>f, <2>h, <1>s, <1>u
    <2>. QED
      BY <1>4, <2>1, <2>2, <2>3
  <1>5. ASSUME NEW f \in net, onMigrationPayload(f) PROVE Fresh(jr'[h][k])
    <2>f. f \in Payload /\ f.m \in Mig /\ f.dest \in Peer
      BY <1>5, FrameKinds DEF TypeOK, onMigrationPayload, Payload
    <2>1. \A s \in {"open", "in_flight"} : Fresh([NoEntry EXCEPT !.status = s])
      BY DEF Fresh, NoEntry
    <2>2. UNCHANGED jr \/ \E s \in {"open", "in_flight"} :
                             SetEntry(f.dest, f.m, [NoEntry EXCEPT !.status = s])
      BY <1>5 DEF onMigrationPayload
    <2>. QED
      BY <2>1, <2>2, <2>f, <1>s, <1>u
  <1>6. ASSUME NEW p \in Peer, NEW m \in Mig,
               \/ Deliver(p, m) \/ onMigrateInAck(p, m) \/ onMigrateInNack(p, m)
               \/ tickInbound(p, m) \/ Purge(p, m)
        PROVE  Fresh(jr'[h][k])
    <2>. DEFINE x == jr[p][m]
    <2>h. x \in Entry
      BY DEF TypeOK
    <2>1. CASE Purge(p, m)
      <3>1. Fresh([NoEntry EXCEPT !.status = "purged"])
        BY DEF Fresh, NoEntry
      <3>. QED
        BY <2>1, <3>1, <1>s DEF Purge
    <2>2. CASE ~Purge(p, m)
      <3>1. x.dir = "in"
        BY <1>6, <2>2 DEF Deliver, onMigrateInAck, onMigrateInNack, tickInbound, AwaitsUpstreamAck
      <3>2. \A s, b : /\ Fresh([x EXCEPT !.status = s])
                      /\ Fresh([[x EXCEPT !.status = s] EXCEPT !.acked = b])
                      /\ Fresh([x EXCEPT !.acked = b])
        BY <2>h, <3>1 DEF Fresh, Entry
      <3>3. PICK s, b : \/ SetEntry(p, m, [x EXCEPT !.status = s])
                        \/ SetEntry(p, m, [[x EXCEPT !.status = s] EXCEPT !.acked = b])
                        \/ SetEntry(p, m, [x EXCEPT !.acked = b])
        BY <1>6, <2>2 DEF Deliver, onMigrateInAck, onMigrateInNack, tickInbound, SendAckUpstream
      <3>. QED
        BY <3>2, <3>3, <1>s
    <2>. QED
      BY <2>1, <2>2
  <1>7. ASSUME \/ UNCHANGED vars \/ Drain \/ RelayRestart
               \/ \E m \in Mig : BounceClockPasses(m) \/ SweepForwardRecord(m)
               \/ \E f \in net : RelayOffer(f) \/ RelayDrops(f)
               \/ \E p \in Peer : \/ Connect(p) \/ Disconnect(p) \/ Crash(p)
                                  \/ PeerStatus(p) \/ Grant(p)
                                  \/ \E m \in Mig : Spawn(p, m)
        PROVE  UNCHANGED jr
    BY <1>7 DEF vars, Drain, RelayRestart, BounceClockPasses, SweepForwardRecord, RelayOffer,
                RelayDrops, Connect, Disconnect, Crash, PeerStatus, Grant, Spawn
  <1>. QED
    BY <1>1, <1>2, <1>3, <1>4, <1>5, <1>6, <1>7, <1>u DEF Next

(* A bounded refusal chain never returns to a world that refused, across       *)
(* restarts, reconnects and the peer refusals before it                        *)
(* (markTransportRefusedLocked, rerouteLocked).                                *)
THEOREM ChainsMoveOn == Spec => []NoRetryInAChain
  <1>1. Init => NoRetryInAChain
    BY HomeIsPeer DEF Init, NoEntry, NoRetryInAChain, Outbound, Unresolved
  <1>2. TypeOK /\ NoRetryInAChain /\ [Next]_vars => NoRetryInAChain'
    BY StepFresh
  <1>. QED
    BY <1>1, <1>2, TypeCorrect, PTL DEF Spec

=============================================================================
