-------------------------------- MODULE Gaps --------------------------------
(***************************************************************************)
(* The archive's gap queue: the genomes its ledger names and it does not   *)
(* hold, asked for one peer at a time until somebody serves them or they   *)
(* age out, and the part of the queue that is on disk.                     *)
(*                                                                         *)
(* Sources: src/go/internal/archive/archive.go (trackLocked, pumpChunk,    *)
(* onGenomeResponse), rollup.go (the "gq" lines), eviction.go.             *)
(*                                                                         *)
(* The read loop and the tick loop share a.mu; onGenomeResponse takes it   *)
(* three times, and the pump may run in between.                           *)
(***************************************************************************)
EXTENDS Integers, SequencesExt

CONSTANTS
    Genome, Peer,
    Source,      \* the peer a hash crossed from
    Holder,      \* the peers whose cache has a hash
    PerPeer,     \* MaxInFlightPerPeer
    Budgets      \* bounds of a run: the hashes that cross, crossings, kills, crossings that pass the horizon,
                 \* and troubles (sessions lost, worlds gone, rate limits, bad bytes, failed writes)

ASSUME GapsAssumption == IsFiniteSet(Genome)   \* hashes are 256 bits

None == "none"
NoGap == [is |-> FALSE]
NoAnswer == [is |-> FALSE]

VARIABLES
    gap,         \* a.pending: the fetch of a hash
    order,       \* a.pendingOrder from a.pendingHead on
    inFlight,    \* a.inFlight: requests counted against a peer in this session
    orphan,      \* a.outstanding without an entry: the hash was stored meanwhile
    wire,        \* requests a peer has not answered
    session,     \* the relay link: "up", "going" (closed, not noticed), "down"
    worlds,      \* a.status: the worlds that are live
    answer,      \* the response the read loop is in, and how far
    held,        \* the hashes a.genomes holds
    file,        \* the "gq" lines of the sidecar that have no tombstone
    staleLines,  \* the hashes whose last line names a crossing past the horizon
    gapsNew, gapsGone, \* a.rollupDirty
    recent,      \* hashes of the crossings past the floor the sidecar names
    missing,     \* the hashes asked for and neither stored nor aged out
    left         \* what is left of the run's budget

queueVars == <<gap, order, inFlight, orphan>>
diskVars == <<file, staleLines, gapsNew, gapsGone, recent, missing>>
netVars == <<wire, session, worlds>>
gapsVars == <<queueVars, diskVars, netVars, answer, held, left>>

Spend(what) == left[what] > 0 /\ left' = [left EXCEPT ![what] = @ - 1]

Pending == {h \in Genome : gap[h].is}
NewGap == [is |-> TRUE, asked |-> {}, due |-> FALSE, peer |-> None,
           now |-> FALSE, late |-> FALSE, old |-> FALSE, again |-> FALSE]

(* Mutant: the mark of an earlier departure stays. *)
markGapNewOnly(h) == gapsNew' = gapsNew \cup {h} /\ UNCHANGED gapsGone

(* The two dirty marks cancel each other. *)
markGapNew(h) == gapsNew' = gapsNew \cup {h} /\ gapsGone' = gapsGone \ {h}
markGapGone(h) == IF h \in gapsNew THEN gapsNew' = gapsNew \ {h} /\ UNCHANGED gapsGone
                  ELSE gapsGone' = gapsGone \cup {h} /\ UNCHANGED gapsNew

Cleared(f) == [f EXCEPT !.peer = None, !.now = FALSE, !.late = FALSE]
OneLess(n) == IF n > 1 THEN n - 1 ELSE 0

(* Mutant: a request of an earlier session is given back in this one. *)
GiveBackBlind(p, now) == IF p # None THEN [inFlight EXCEPT ![p] = OneLess(@)] ELSE inFlight

(* The peer gets its slot back, unless the session it was counted in is over. *)
GiveBack(p, now) == IF now /\ p # None THEN [inFlight EXCEPT ![p] = OneLess(@)] ELSE inFlight

-----------------------------------------------------------------------------
(* trackLocked, for the crossing the read loop has just recorded.  An entry *)
(* keeps the age of the crossing that made it.                             *)
onMigration(h) ==
    /\ session = "up" /\ answer = NoAnswer /\ h \in left.of /\ Spend("crossings")
    /\ recent' = recent \cup {h}
    /\ \/ h \in held /\ UNCHANGED <<gap, order, gapsNew, gapsGone, missing>>
       \/ /\ h \notin held /\ h \in Pending
          /\ gap' = [gap EXCEPT ![h].again = TRUE]
          /\ markGapNew(h) \/ UNCHANGED <<gapsNew, gapsGone>>   \* did a field move
          /\ UNCHANGED <<order, missing>>
       \/ /\ h \notin held /\ h \notin Pending
          /\ gap' = [gap EXCEPT ![h] = NewGap] /\ order' = Append(order, h)
          /\ markGapNew(h) /\ missing' = missing \cup {h}
    /\ UNCHANGED <<inFlight, orphan, file, staleLines, netVars, answer, held>>

-----------------------------------------------------------------------------
(* The tick loop: pumpChunk, entry by entry. *)

nextPeer(h) == LET open == {p \in Peer : worlds[p] /\ p \notin gap[h].asked} IN
    IF Source[h] \in open THEN Source[h]
    ELSE IF open = {} THEN None ELSE CHOOSE p \in open : TRUE

(* The entry leaves the queue, and its request the accounting. *)
Leaves(h) ==
    /\ gap' = [gap EXCEPT ![h] = NoGap] /\ order' = Tail(order)
    /\ inFlight' = GiveBack(gap[h].peer, gap[h].now)
    /\ markGapGone(h) /\ missing' = missing \ {h}

Waits(f) == IF f.peer # None THEN ~f.late ELSE ~f.due

Stays(h) ==
    LET f == gap[h]  target == nextPeer(h) IN
    /\ order' = Append(Tail(order), h)
    /\ \/ Waits(f) /\ UNCHANGED <<gap, inFlight, wire>>
       \/ /\ f.peer # None /\ f.late   \* the timeout
          /\ gap' = [gap EXCEPT ![h] = [Cleared(f) EXCEPT !.due = FALSE]]
          /\ inFlight' = GiveBack(f.peer, f.now) /\ UNCHANGED wire
       \/ /\ f.peer = None /\ f.due /\ target = None   \* the ladder starts again
          /\ gap' = [gap EXCEPT ![h].asked = {}, ![h].due = FALSE]
          /\ UNCHANGED <<inFlight, wire>>
       \/ /\ f.peer = None /\ f.due /\ target # None
          /\ IF inFlight[target] >= PerPeer \/ session = "going"
             THEN UNCHANGED <<gap, inFlight, wire>>
             ELSE /\ gap' = [gap EXCEPT ![h].peer = target, ![h].now = TRUE, ![h].late = FALSE,
                                        ![h].asked = @ \cup {target}]
                  /\ inFlight' = [inFlight EXCEPT ![target] = @ + 1]
                  /\ wire' = wire \cup {<<h, target>>}

Pump ==
    /\ session # "down" /\ order # <<>>
    /\ LET h == Head(order) IN
         \/ /\ h \notin Pending /\ order' = Tail(order)
            /\ UNCHANGED <<gap, inFlight, wire, gapsNew, gapsGone, missing>>
         \/ h \in Pending /\ (h \in held \/ gap[h].old) /\ Leaves(h) /\ UNCHANGED wire
         \/ h \in Pending /\ h \notin held /\ ~gap[h].old /\ Stays(h)
            /\ UNCHANGED <<gapsNew, gapsGone, missing>>
    /\ UNCHANGED <<orphan, file, staleLines, recent, session, worlds, answer, held, left>>

(* genomeRequestTimeoutMs, for one outstanding request, on every tick. *)
reapExpired(h) ==
    /\ \/ /\ h \in Pending /\ gap[h].peer # None /\ gap[h].late
          /\ gap' = [gap EXCEPT ![h] = [Cleared(gap[h]) EXCEPT !.due = FALSE]]
          /\ inFlight' = GiveBack(gap[h].peer, gap[h].now) /\ UNCHANGED orphan
       \/ \E o \in orphan : /\ o.hash = h /\ orphan' = orphan \ {o}
                            /\ inFlight' = GiveBack(o.peer, o.now) /\ UNCHANGED gap
    /\ UNCHANGED <<order, diskVars, netVars, answer, held, left>>

(* Clocks. *)
Elapse(h) ==
    /\ h \in Pending
    /\ \/ gap[h].peer = None /\ ~gap[h].due /\ gap' = [gap EXCEPT ![h].due = TRUE]
       \/ gap[h].peer # None /\ ~gap[h].late /\ gap' = [gap EXCEPT ![h].late = TRUE]
    /\ UNCHANGED <<order, inFlight, orphan, diskVars, netVars, answer, held, left>>
Age(h) ==
    /\ h \in Pending /\ Spend("ages")
    /\ \/ /\ ~gap[h].old /\ gap' = [gap EXCEPT ![h].old = TRUE]
          /\ staleLines' = staleLines \cup (file \cap {h})
       \/ /\ gap[h].old /\ gap[h].again /\ gap' = [gap EXCEPT ![h].again = FALSE]
          /\ UNCHANGED staleLines
    /\ UNCHANGED <<order, inFlight, orphan, file, gapsNew, gapsGone, recent, missing,
                   netVars, answer, held>>

-----------------------------------------------------------------------------
(* The read loop: onGenomeResponse.  The response is matched by its hash. *)

Trouble == Spend("troubles")

onGenomeResponse(h, p, reason) ==
    /\ session = "up" /\ answer = NoAnswer /\ <<h, p>> \in wire
    /\ CASE reason = "found" -> p \in Holder[h] /\ UNCHANGED left
         [] reason = "unknown_hash" -> p \notin Holder[h] /\ UNCHANGED left
         [] OTHER -> Trouble   \* rate_limited, peer_offline, and bytes that do not hash to h
    /\ wire' = wire \ {<<h, p>>}
    /\ answer' = [is |-> TRUE, hash |-> h, peer |-> p, reason |-> reason]
    /\ gap' = IF h \in Pending THEN [gap EXCEPT ![h] = Cleared(gap[h])] ELSE gap
    /\ inFlight' = IF h \in Pending THEN GiveBack(gap[h].peer, gap[h].now) ELSE inFlight
    /\ UNCHANGED <<order, orphan, diskVars, session, worlds, held>>

NotServed ==
    /\ answer.is /\ answer.reason \in {"unknown_hash", "rate_limited", "bad_bytes"}
    /\ answer' = NoAnswer
    /\ gap' = LET h == answer.hash IN
              IF h \notin Pending THEN gap
              ELSE [gap EXCEPT ![h].due = (answer.reason = "unknown_hash"),
                       ![h].asked = IF answer.reason = "rate_limited" THEN @ \ {answer.peer} ELSE @]
    /\ UNCHANGED <<order, inFlight, orphan, diskVars, netVars, held, left>>

StorePut ==
    /\ answer.is /\ answer.reason = "found"
    /\ \/ /\ held' = held \cup {answer.hash} /\ answer' = [answer EXCEPT !.reason = "stored"]
          /\ UNCHANGED left
       \/ Trouble /\ answer' = NoAnswer /\ UNCHANGED held
    /\ UNCHANGED <<queueVars, diskVars, netVars>>

(* The pump may have asked again since the first lock: that request stays *)
(* outstanding without its entry.                                        *)
CloseGap ==
    /\ answer.is /\ answer.reason = "stored" /\ answer' = NoAnswer
    /\ LET h == answer.hash IN
         /\ gap' = [gap EXCEPT ![h] = NoGap] /\ markGapGone(h) /\ missing' = missing \ {h}
         /\ orphan' = orphan \cup
              {[hash |-> h, peer |-> gap[h].peer, now |-> gap[h].now] :
                  x \in {y \in Pending : y = h /\ gap[h].peer # None}}
    /\ UNCHANGED <<order, inFlight, file, staleLines, recent, netVars, held, left>>

-----------------------------------------------------------------------------
(* The link, the other worlds, the disk. *)

Drop ==   \* what was under way may be lost, or answered later
    /\ session = "up" /\ Trouble /\ session' = "going" /\ wire' \in {wire, {}}
    /\ UNCHANGED <<queueVars, diskVars, worlds, answer, held>>
Ended ==
    /\ session = "going" /\ session' = "down"
    /\ UNCHANGED <<queueVars, diskVars, wire, worlds, answer, held, left>>

(* Mutant: a new session inherits the slots of the one before. *)
SubscribeInherits ==
    /\ session = "down" /\ answer = NoAnswer /\ session' = "up"
    /\ gap' = [h \in Genome |-> IF h \in Pending THEN [gap[h] EXCEPT !.now = FALSE] ELSE NoGap]
    /\ orphan' = {[o EXCEPT !.now = FALSE] : o \in orphan}
    /\ UNCHANGED <<order, inFlight, diskVars, wire, worlds, answer, held, left>>

(* A new session inherits no in-flight requests: only the accounting resets. *)
Subscribe ==
    /\ session = "down" /\ answer = NoAnswer /\ session' = "up"
    /\ inFlight' = [p \in Peer |-> 0]
    /\ gap' = [h \in Genome |-> IF h \in Pending THEN [gap[h] EXCEPT !.now = FALSE] ELSE NoGap]
    /\ orphan' = {[o EXCEPT !.now = FALSE] : o \in orphan}
    /\ UNCHANGED <<order, diskVars, wire, worlds, answer, held, left>>

WorldGoes(p) ==
    /\ worlds[p] /\ Trouble /\ worlds' = [worlds EXCEPT ![p] = FALSE]
    /\ wire' = {w \in wire : w[2] # p}
    /\ UNCHANGED <<queueVars, diskVars, session, answer, held>>
WorldComes(p) ==
    /\ ~worlds[p] /\ worlds' = [worlds EXCEPT ![p] = TRUE]
    /\ UNCHANGED <<queueVars, diskVars, wire, session, answer, held, left>>

(* Every thirty seconds: what is dirty, and the floor. *)
SaveQueue ==
    /\ left.crashes > 0   \* bound: only a kill reads the file
    /\ gapsNew # {} \/ gapsGone # {} \/ recent # {}
    /\ file' = (file \cup gapsNew) \ gapsGone /\ staleLines' = staleLines \ gapsNew
    /\ gapsNew' = {} /\ gapsGone' = {} /\ recent' = {}
    /\ UNCHANGED <<queueVars, missing, netVars, answer, held, left>>

(* A kill, and New: the queue of the file, then the crossings past its floor; *)
(* what has arrived, or aged out by the entry that is there, is dropped.      *)
Crash ==
    /\ Spend("crashes")
    /\ LET young == {h \in recent \ file : h \in Pending /\ (gap[h].old => gap[h].again)}
           back == ((file \ staleLines) \cup young) \ held IN
         /\ gap' = [h \in Genome |-> IF h \in back
                      THEN [NewGap EXCEPT !.again = h \in file \cap Pending /\ gap[h].again]
                      ELSE NoGap]
         /\ order' \in SetToSeqs(back)
         /\ gapsNew' = back \ file /\ gapsGone' = file \ back
         /\ missing' = missing \ (held \cup {h \in Pending : gap[h].old /\ ~gap[h].again})
    /\ inFlight' = [p \in Peer |-> 0] /\ orphan' = {} /\ answer' = NoAnswer /\ session' = "down"
    /\ UNCHANGED <<file, staleLines, recent, wire, worlds, held>>

-----------------------------------------------------------------------------
GapsInit ==
    /\ gap = [h \in Genome |-> NoGap] /\ order = <<>> /\ inFlight = [p \in Peer |-> 0]
    /\ orphan = {} /\ wire = {} /\ session = "up" /\ worlds = [p \in Peer |-> TRUE]
    /\ answer = NoAnswer /\ held = {} /\ file = {} /\ gapsNew = {} /\ gapsGone = {}
    /\ staleLines = {} /\ recent = {} /\ missing = {} /\ left \in Budgets

GapsNext ==
    \/ \E h \in Genome : onMigration(h) \/ reapExpired(h) \/ Elapse(h) \/ Age(h)
    \/ \E h \in Genome, p \in Peer :
         \E reason \in {"found", "unknown_hash", "rate_limited", "bad_bytes"} :
           onGenomeResponse(h, p, reason)
    \/ Pump \/ NotServed \/ StorePut \/ CloseGap
    \/ Drop \/ Ended \/ Subscribe \/ SaveQueue \/ Crash
    \/ \E p \in Peer : WorldGoes(p) \/ WorldComes(p)

(* The tick loop, the read loop and the clocks go on, and a session and a   *)
(* world come back.  A holder's answers arrive in the order of the link, so *)
(* one that is awaited again and again is read: the fairness is strong.     *)
GapsFairness ==
    /\ WF_gapsVars(Pump) /\ WF_gapsVars(NotServed \/ StorePut \/ CloseGap)
    /\ WF_gapsVars(Ended \/ Subscribe)
    /\ \A h \in Genome : WF_gapsVars(reapExpired(h)) /\ WF_gapsVars(Elapse(h))
    /\ \A p \in Peer : WF_gapsVars(WorldComes(p))
    /\ \A h \in Genome : SF_gapsVars(\E p \in Holder[h] : onGenomeResponse(h, p, "found"))

GapsSpec == GapsInit /\ [][GapsNext]_gapsVars
GapsLiveSpec == GapsSpec /\ GapsFairness

-----------------------------------------------------------------------------
(* A peer's slots are exactly the requests this session is waiting for,     *)
(* however answers, timeouts, aging, a new session and a store interleave:  *)
(* a slot is neither leaked nor given back twice (clearInFlightLocked).     *)
SlotsAccounted == \A p \in Peer :
    inFlight[p] = Cardinality({h \in Pending : gap[h].peer = p /\ gap[h].now})
                    + Cardinality({o \in orphan : o.peer = p /\ o.now})

(* Whatever the archive was asking for, it asks for after a kill: the       *)
(* sidecar's lines and the crossings past its floor are together the queue  *)
(* (but for a line that names a crossing past the horizon: StillWanted).    *)
NoGapForgotten == missing \ staleLines \subseteq Pending

(* The queue's books are right, over sessions and over starts (clearInFlight, *)
(* expireLoadedGapsLocked).                                                   *)
QueueIsTrue == SlotsAccounted /\ NoGapForgotten

(* A genome somebody holds is stored in the end, or ages out.               *)
GapCloses == \A h \in Genome :
    (h \in Pending /\ Holder[h] # {}) ~> (h \in held \/ h \notin Pending \/ gap[h].old)

(* archive.go:1682: "a hash an old crossing shares with a recent one is     *)
(* still wanted": aging out takes no hash that crossed within the horizon.  *)
StillWanted == [][\A h \in Pending \ held :
                    (gap[h].old /\ gap[h].again) => h \in Pending']_gapsVars

(* rollup.go:1265, "Never written, so nothing to tombstone": the next save  *)
(* makes the file's queue the queue in memory.                              *)
TombstonesWritten == (file \cup gapsNew) \ gapsGone = Pending
=============================================================================
