----------------------------- MODULE Crossings -----------------------------
(***************************************************************************)
(* What the archive makes of the copies of one migration: the ledger's     *)
(* record of each fact, once, and the feed of delivered hops, which shows  *)
(* an offer only when the receiver it went to has acknowledged it.         *)
(*                                                                         *)
(* Sources: src/go/internal/archive/hops.go; archive.go (onMigration,      *)
(* onAck, onNack, dedupKey).                                               *)
(*                                                                         *)
(* The sender, the receivers and the relay are external: an offer is made  *)
(* again elsewhere once it is refused, and a copy of each frame reaches    *)
(* the archive early or late, more than once, or not at all.  A slot is    *)
(* its owner, known to the archive or not.                                 *)
(***************************************************************************)
EXTENDS DedupWindow, Sequences, SequencesExt

CONSTANTS
    Receiver,           \* the worlds it can be offered to
    HopWindow,          \* hopWindow
    CorrelationWindow,  \* hopCorrelationWindow
    ScanEvery,          \* the minute between two scans for what is older
    MaxOffers, MaxRepeats  \* bounds: offers, copies that come twice

ASSUME WindowsAssumption ==
    /\ HopWindow \in Nat /\ CorrelationWindow \in Nat /\ ScanEvery \in Nat \ {0}
    /\ MaxOffers \in Nat /\ MaxRepeats \in Nat

Relay == ""    \* the sourcePeer of a refusal the relay makes itself
Unbound == ""  \* no peer: a pending hop that no ACK can match

VARIABLES
    offers,     \* to whom, and what came of each: "none", "yes", "no", "unforwarded"
    copies,     \* copies of frames on their way to the archive
    repeats,    \* how many came twice
    placed,     \* the receivers whose slot the last PEER_STATUS named
    pending,    \* a.hopPending of the migration, or NoHop
    early,      \* a.hopEarlyAcks of it: the sender of an ACK with no offer to match, or Unbound
    earlyAt,
    feed        \* a.hops

hopVars == <<pending, early, earlyAt, feed>>
worldVars == <<offers, copies, repeats, placed>>
crossingsVars == <<dedupVars, hopVars, worldVars>>

NoHop == [to |-> Unbound]

-----------------------------------------------------------------------------
AckCopy(x) == [type |-> "ACK", from |-> x]
NackCopy(x, n) == [type |-> "NACK", from |-> x, attempt |-> n]

(* A refusal is told apart by its code, one the relay makes by its attempt too. *)
dedupKey(c) ==
    CASE c.type = "NACK" /\ c.from = Relay -> <<"NACK", "NOT_FORWARDED", c.attempt>>
      [] c.type = "NACK" /\ c.from # Relay -> <<"NACK", "BUSY", 0>>
      [] OTHER -> <<c.type, "", 0>>

Keys ==
    {<<"MIGRATION", "", 0>>, <<"ACK", "", 0>>, <<"NACK", "BUSY", 0>>}
        \cup {<<"NACK", "NOT_FORWARDED", n>> : n \in 1..MaxOffers}

ASSUME KeysAssumption == Keys \subseteq Key

WasRefused(n) == offers[n].answer \in {"no", "unforwarded"}

Offer(x) ==
    /\ Len(offers) < MaxOffers /\ \A n \in DOMAIN offers : WasRefused(n)
    /\ offers' = Append(offers, [to |-> x, answer |-> "none"])
    /\ copies' = copies \cup {[type |-> "MIGRATION", to |-> x, attempt |-> Len(offers')]}
    /\ UNCHANGED <<dedupVars, hopVars, repeats, placed>>

Answer(n, how) ==
    /\ offers[n].answer = "none"
    /\ offers' = [offers EXCEPT ![n].answer = how]
    /\ copies' = copies \cup
         {CASE how = "yes" -> AckCopy(offers[n].to)
            [] how = "no" -> NackCopy(offers[n].to, n)
            [] how = "unforwarded" -> NackCopy(Relay, n)}
    /\ UNCHANGED <<dedupVars, hopVars, repeats, placed>>

PeerStatus(x) ==
    placed' = placed \cup {x} /\ UNCHANGED <<dedupVars, hopVars, offers, copies, repeats>>

(* The other migrations of the map crowd this one out (capHopCorrelationLocked, *)
(* and hopMax of the feed, which keeps the newest).                             *)
Shed ==
    /\ \/ pending' = NoHop /\ UNCHANGED <<early, earlyAt, feed>>
       \/ early' = Unbound /\ earlyAt' = 0 /\ UNCHANGED <<pending, feed>>
       \/ /\ \E k \in DOMAIN feed : feed' = SubSeq(feed, k + 1, Len(feed))
          /\ UNCHANGED <<pending, early, earlyAt>>
    /\ UNCHANGED <<dedupVars, worldVars>>

-----------------------------------------------------------------------------
(* The archive takes a copy, and perhaps another; one it never takes is lost. *)
Takes(c) ==
    /\ \/ copies' = copies \ {c} /\ UNCHANGED repeats
       \/ repeats < MaxRepeats /\ repeats' = repeats + 1 /\ UNCHANGED copies
    /\ UNCHANGED <<offers, placed>>

(* The ledger's side of a copy: seen, or marked and appended, or not appended. *)
AppendAndCount(k) == Refuse(k) \/ RecordNew(k) \/ AppendFails(k)

(* Old entries go at some later copy. *)
trimHopCorrelation ==
    [hop |-> IF pending # NoHop /\ clock - pending.seenAt > CorrelationWindow THEN NoHop ELSE pending,
     ack |-> IF clock - earlyAt > CorrelationWindow THEN Unbound ELSE early]

(* Hops older than the feed's window go, from the front. *)
trimHops(f) ==
    SubSeq(f, Min({k \in DOMAIN f : clock - f[k].at <= HopWindow} \cup {Len(f) + 1}), Len(f))
observeHop(p) == feed' = trimHops(Append(feed, [to |-> p.to, refused |-> p.refused, at |-> clock]))

hopPeerMatches(want, got) == want # Unbound /\ got # Unbound /\ want = got

peerForSlot(x) == IF x \in placed THEN x ELSE Unbound

Correlation(hop, ack, at) == pending' = hop /\ early' = ack /\ earlyAt' = at

observeHopAttempt(c, kept) ==
    LET hop == [to |-> c.to, peer |-> peerForSlot(c.to), seenAt |-> clock,
                refused |-> IF kept.hop = NoHop THEN <<>> ELSE kept.hop.refused]
    IN  IF hopPeerMatches(hop.peer, kept.ack)
        THEN observeHop(hop) /\ Correlation(NoHop, Unbound, 0)
        ELSE Correlation(hop, kept.ack, earlyAt) /\ UNCHANGED feed

(* Mutant: any ACK of the migration confirms its hop. *)
confirmHopBlind(c, kept) ==
    IF kept.hop # NoHop THEN observeHop(kept.hop) /\ Correlation(NoHop, Unbound, 0)
    ELSE Correlation(kept.hop, c.from, clock) /\ UNCHANGED feed

confirmHop(c, kept) ==
    IF kept.hop # NoHop /\ hopPeerMatches(kept.hop.peer, c.from)
    THEN observeHop(kept.hop) /\ Correlation(NoHop, Unbound, 0)
    ELSE Correlation(kept.hop, c.from, clock) /\ UNCHANGED feed

(* Only the refusal of the current attempt's receiver counts against it. *)
rejectHopAttempt(c, kept) ==
    /\ IF kept.hop # NoHop /\ kept.hop.peer # Unbound /\ c.from = kept.hop.peer
       THEN LET was == kept.hop.refused
                more == IF was = <<>> \/ Last(was) # kept.hop.to THEN Append(was, kept.hop.to) ELSE was
            IN  Correlation([kept.hop EXCEPT !.refused = more, !.peer = Unbound, !.seenAt = clock],
                            kept.ack, earlyAt)
       ELSE Correlation(kept.hop, kept.ack, earlyAt)
    /\ UNCHANGED feed

(* The expiry scan runs once a minute, whichever copy comes: what is a   *)
(* scan past its window is gone, what is only past its window may not be. *)
Overdue(at) == clock - at >= CorrelationWindow + ScanEvery
Correlations ==
    {trimHopCorrelation} \cup
    {c \in {[hop |-> pending, ack |-> early]} :
        /\ pending # NoHop => ~Overdue(pending.seenAt)
        /\ early # Unbound => ~Overdue(earlyAt)}

onMigration(c) ==
    /\ c.type = "MIGRATION" /\ Takes(c)
    /\ \E kept \in Correlations : observeHopAttempt(c, kept)
    /\ AppendAndCount(dedupKey(c))

(* An ACK the ledger has seen confirms nothing. *)
onAck(c) ==
    /\ c.type = "ACK" /\ Takes(c)
    /\ AppendAndCount(dedupKey(c))
    /\ IF Seen(dedupKey(c)) THEN UNCHANGED hopVars
       ELSE \E kept \in Correlations : confirmHop(c, kept)

onNack(c) ==
    /\ c.type = "NACK" /\ Takes(c)
    /\ \E kept \in Correlations : rejectHopAttempt(c, kept)
    /\ AppendAndCount(dedupKey(c))

HopFeedView == feed' = trimHops(feed) /\ UNCHANGED <<dedupVars, worldVars, pending, early, earlyAt>>

TimePasses == Elapses /\ UNCHANGED <<hopVars, worldVars>>

(* Correlation and feed are memory; the ledger rebuilds the duplicate set. *)
Restarts ==
    /\ RestartArchive
    /\ pending' = NoHop /\ early' = Unbound /\ earlyAt' = 0 /\ feed' = <<>> /\ placed' = {}
    /\ UNCHANGED <<offers, copies, repeats>>

-----------------------------------------------------------------------------
CrossingsInit ==
    /\ DedupInit
    /\ offers = <<>> /\ copies = {} /\ repeats = 0 /\ placed = {}
    /\ pending = NoHop /\ early = Unbound /\ earlyAt = 0 /\ feed = <<>>

CrossingsNext ==
    \/ TimePasses \/ Restarts \/ Shed \/ HopFeedView
    \/ \E x \in Receiver : Offer(x)
    \/ \E n \in DOMAIN offers, how \in {"yes", "no", "unforwarded"} : Answer(n, how)
    \/ \E x \in Receiver : PeerStatus(x)
    \/ \E c \in copies : onMigration(c) \/ onAck(c) \/ onNack(c)

CrossingsSpec == CrossingsInit /\ [][CrossingsNext]_crossingsVars

-----------------------------------------------------------------------------
CrossingsTypeOK ==
    /\ DedupTypeOK
    /\ Len(offers) <= MaxOffers /\ placed \subseteq Receiver
    /\ early \in Receiver \cup {Unbound} /\ earlyAt \in Nat
    /\ \A k \in DOMAIN feed : feed[k].to \in Receiver

Delivered(x) == \E n \in DOMAIN offers : offers[n] = [to |-> x, answer |-> "yes"]
TurnedAway(x) == \E n \in DOMAIN offers : offers[n] = [to |-> x, answer |-> "no"]

(* "It answers what a receiver acknowledged spawning": whatever order the  *)
(* copies come in, lost and doubled, a hop in the feed was delivered where *)
(* it says, each world it was refused by refused it, and it is shown once  *)
(* (observeHopAttempt, confirmHop, rejectHopAttempt).                      *)
HopsAreTrue == \A k \in DOMAIN feed :
    Delivered(feed[k].to) /\ \A x \in ToSet(feed[k].refused) : TurnedAway(x)
HopsAreDeliveries == Len(feed) <= 1 /\ HopsAreTrue
=============================================================================
