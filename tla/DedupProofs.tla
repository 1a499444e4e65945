----------------------------- MODULE DedupProofs -----------------------------
(***************************************************************************)
(* The duplicate window keeps its promise for every window, every clock    *)
(* and every set of keys, the archive's handling of a migration's copies   *)
(* keeps to the window, and the feed it makes of them is true.  What the   *)
(* archive has measured and saved is in its brain history after every kill *)
(* and start.                                                              *)
(***************************************************************************)
EXTENDS Crossings, BrainHistory, FiniteSetTheorems, WellFoundedInduction, TLAPS

(* A tick keeps the invariant: what it forgets is a window old, and what it *)
(* moves to the older generation was recorded before the rotation was due.  *)
LEMMA TickKeeps ==
    ASSUME DedupInv, NEW w, w = tick(win, clock)
    PROVE  /\ w \in [cur : SUBSET Key, prev : SUBSET Key, rotateAt : Nat]
           /\ clock < w.rotateAt
           /\ \A k \in Key : recorded[k] # Never =>
                /\ recorded[k] < w.rotateAt
                /\ ~holds(w, k) => recorded[k] + Span <= clock
                /\ k \in w.prev => recorded[k] + Span <= w.rotateAt
<1>a. /\ clock \in Nat /\ Span \in Nat \ {0} /\ win.rotateAt \in Nat
      /\ win \in [cur : SUBSET Key, prev : SUBSET Key, rotateAt : Nat]
      /\ \A k \in Key : recorded[k] \in Nat \cup {Never}
  BY DedupAssumption DEF DedupInv, DedupTypeOK
<1>b. \A k \in Key : recorded[k] # Never =>
        /\ recorded[k] \in Nat /\ recorded[k] < win.rotateAt
        /\ ~holds(win, k) => recorded[k] + Span <= clock
        /\ k \in win.prev => recorded[k] + Span <= win.rotateAt
  BY <1>a DEF DedupInv, Age, LeavesLate
<1>1. CASE clock < win.rotateAt
  BY <1>1, <1>a, <1>b DEF tick
<1>2. CASE ~(clock < win.rotateAt) /\ clock - win.rotateAt >= Span
  <2>1. w = [cur |-> {}, prev |-> {}, rotateAt |-> clock + Span]
    BY <1>2 DEF tick
  <2>2. \A k \in Key : ~holds(w, k)
    BY <2>1 DEF holds
  <2>3. \A k \in Key : recorded[k] # Never => recorded[k] + Span <= clock
    BY <1>2, <1>a, <1>b
  <2>4. clock < w.rotateAt /\ w.rotateAt \in Nat /\ w.prev = {}
    BY <2>1, <1>a
  <2>5. \A k \in Key : recorded[k] # Never => recorded[k] < w.rotateAt
    BY <1>2, <2>1, <1>a, <1>b
  <2> QED
    BY <2>1, <2>2, <2>3, <2>4, <2>5
<1>3. CASE ~(clock < win.rotateAt) /\ ~(clock - win.rotateAt >= Span)
  <2>1. w = [cur |-> {}, prev |-> win.cur, rotateAt |-> win.rotateAt + Span]
    BY <1>3 DEF tick
  <2>2. clock < w.rotateAt /\ w.rotateAt \in Nat
    BY <2>1, <1>3, <1>a
  <2>3. ASSUME NEW k \in Key, recorded[k] # Never
        PROVE  /\ recorded[k] < w.rotateAt
               /\ ~holds(w, k) => recorded[k] + Span <= clock
               /\ k \in w.prev => recorded[k] + Span <= w.rotateAt
    BY <2>1, <2>3, <1>3, <1>a, <1>b DEF holds
  <2>4. w \in [cur : SUBSET Key, prev : SUBSET Key, rotateAt : Nat]
    BY <2>1, <2>2, <1>a
  <2> QED
    BY <2>2, <2>3, <2>4
<1> QED
  BY <1>1, <1>2, <1>3

(* Marking a key adds it to the set and changes nothing else. *)
LEMMA MarkAdds ==
    ASSUME NEW w \in [cur : SUBSET Key, prev : SUBSET Key, rotateAt : Nat], NEW k \in Key
    PROVE  LET m == addKey(w, k) IN
           /\ m \in [cur : SUBSET Key, prev : SUBSET Key, rotateAt : Nat]
           /\ m.prev = w.prev /\ m.rotateAt = w.rotateAt
           /\ holds(m, k) /\ \A j \in Key : holds(w, j) => holds(m, j)
  BY DEF addKey, holds

(* Initially nothing is recorded. *)
LEMMA DedupInitially == DedupInit => DedupInv
  BY DedupAssumption DEF DedupInit, DedupInv, DedupTypeOK, newDedupWindow, Never

(* One step: the invariant holds after it, and it writes no second record *)
(* of a key inside the window.                                            *)
LEMMA DedupStep ==
    ASSUME DedupInv, [DedupNext]_dedupVars
    PROVE  /\ DedupInv'
           /\ \A k \in Key : Again(k) => recorded'[k] - recorded[k] >= Span
<1>a. DedupTypeOK /\ Span \in Nat \ {0}
  BY DedupAssumption DEF DedupInv
<1> DEFINE w == tick(win, clock)
           Kept(v) == \A k \in Key : recorded[k] # Never =>
                /\ recorded[k] <= clock /\ recorded[k] < v.rotateAt
                /\ ~holds(v, k) => recorded[k] + Span <= clock
                /\ k \in v.prev => recorded[k] + Span <= v.rotateAt
<1>b. /\ w \in [cur : SUBSET Key, prev : SUBSET Key, rotateAt : Nat]
      /\ clock < w.rotateAt /\ Kept(w)
  BY TickKeeps DEF DedupInv, Age
<1>c. ASSUME NEW k \in Key, markSeen(k)
      PROVE  /\ win' \in [cur : SUBSET Key, prev : SUBSET Key, rotateAt : Nat]
             /\ clock < win'.rotateAt /\ Kept(win') /\ holds(win', k)
             /\ win'.prev = w.prev /\ win'.rotateAt = w.rotateAt
  <2>1. win' = addKey(w, k)
    BY <1>c DEF markSeen
  <2> HIDE DEF w
  <2> QED
    BY <2>1, <1>b, MarkAdds
<1>1. CASE UNCHANGED dedupVars
  BY <1>1 DEF dedupVars, DedupInv, DedupTypeOK, Age, LeavesLate, holds, Again
<1>2. CASE Elapses
  <2>1. /\ clock' \in Nat /\ clock' > clock /\ UNCHANGED <<win, recorded>>
    BY <1>2, <1>a, DedupAssumption DEF Elapses, DedupTypeOK
  <2>2. \A k \in Key : recorded[k] # Never => recorded[k] \in Nat
    BY <1>a DEF DedupTypeOK
  <2> QED
    BY <2>1, <2>2, <1>a DEF DedupInv, DedupTypeOK, Age, LeavesLate, holds, Again
<1>3. CASE RestartArchive
  <2>1. /\ win' = [cur |-> Replayed, prev |-> {}, rotateAt |-> clock + Span]
        /\ UNCHANGED <<clock, recorded>>
    BY <1>3 DEF RestartArchive, newDedupWindow
  <2>2. DedupTypeOK'
    BY <2>1, <1>a DEF DedupTypeOK, Replayed
  <2>3. ASSUME NEW k \in Key, recorded[k] # Never
        PROVE  (Age(k) /\ LeavesLate(k))'
    <3>1. recorded[k] \in Nat /\ recorded[k] <= clock /\ clock \in Nat
      BY <2>3, <1>a DEF DedupTypeOK, DedupInv, Age
    <3> QED
      BY <2>1, <2>3, <3>1, <1>a DEF Age, LeavesLate, holds, Replayed
  <2> QED
    BY <2>1, <2>2, <2>3 DEF DedupInv, Again
<1>4. ASSUME NEW k \in Key, Refuse(k) \/ AppendFails(k)
      PROVE  DedupInv' /\ \A j \in Key : ~Again(j)
  <2>1. markSeen(k) /\ UNCHANGED <<clock, recorded>>
    BY <1>4 DEF Refuse, AppendFails
  <2> QED
    BY <2>1, <1>a, <1>c DEF DedupInv, DedupTypeOK, Age, LeavesLate, holds, Again
<1>5. ASSUME NEW k \in Key, RecordNew(k)
      PROVE  DedupInv' /\ \A j \in Key : Again(j) => recorded'[j] - recorded[j] >= Span
  <2>1. ~holds(w, k) /\ markSeen(k) /\ UNCHANGED clock /\ recorded' = [recorded EXCEPT ![k] = clock]
    BY <1>5 DEF RecordNew, Seen, appendRecord
  <2>2. /\ recorded' \in [Key -> Nat \cup {Never}] /\ recorded'[k] = clock /\ clock \in Nat
        /\ \A j \in Key : j # k => recorded'[j] = recorded[j]
    BY <2>1, <1>a DEF DedupTypeOK
  <2>3. DedupTypeOK'
    BY <2>1, <2>2, <1>c DEF DedupTypeOK
  <2>4. ~(k \in win'.prev)
    BY <2>1, <1>c DEF holds
  <2>5. (Age(k) /\ LeavesLate(k))'
    BY <2>1, <2>2, <2>4, <1>c DEF Age, LeavesLate, holds
  <2>6. ASSUME NEW j \in Key, j # k, recorded'[j] # Never
        PROVE  (Age(j) /\ LeavesLate(j))'
    BY <2>1, <2>2, <2>6, <1>c DEF Age, LeavesLate, holds
  <2>7. ASSUME NEW j \in Key, Again(j)
        PROVE  recorded'[j] - recorded[j] >= Span
    <3>1. j = k /\ recorded[k] # Never
      BY <2>2, <2>7 DEF Again
    <3>2. recorded[k] \in Nat /\ recorded[k] + Span <= clock
      BY <2>1, <3>1, <1>a, <1>b DEF DedupTypeOK
    <3> QED
      BY <3>1, <3>2, <2>2, <1>a
  <2> QED
    BY <2>3, <2>5, <2>6, <2>7 DEF DedupInv
<1> QED
  BY <1>1, <1>2, <1>3, <1>4, <1>5 DEF DedupNext

(* The generations' invariant, for every window and clock. *)
THEOREM WindowInvariant == DedupSpec => []DedupInv
<1>1. DedupInv /\ [DedupNext]_dedupVars => DedupInv'
  BY DedupStep
<1> QED
  BY <1>1, DedupInitially, PTL DEF DedupSpec

(* No key is recorded twice inside the window, whatever rotations, gaps, *)
(* failed appends and restarts come between (dedupWindow.add, markSeen). *)
THEOREM DuplicatesRefused == DedupSpec => RecordedOnce
<1>1. DedupInv /\ [DedupNext]_dedupVars =>
        [\A k \in Key : Again(k) => recorded'[k] - recorded[k] >= Span]_dedupVars
  BY DedupStep
<1> QED
  BY <1>1, WindowInvariant, PTL DEF DedupSpec, RecordedOnce

-----------------------------------------------------------------------------
(* What a copy can be: one of an offer the archive has a key for. *)
CopiesKeyed ==
    /\ offers \in Seq([to : Receiver, answer : {"none", "yes", "no", "unforwarded"}])
    /\ Len(offers) <= MaxOffers
    /\ \A c \in copies : dedupKey(c) \in Key

(* Every step keeps the copies so. *)
LEMMA CopiesStep ==
    ASSUME CopiesKeyed, [CrossingsNext]_crossingsVars
    PROVE  CopiesKeyed'
<1>a. MaxOffers \in Nat /\ Keys \subseteq Key
  BY WindowsAssumption, KeysAssumption
<1>1. CASE UNCHANGED <<offers, copies>>
  BY <1>1 DEF CopiesKeyed, dedupKey, Keys
<1>2. ASSUME NEW x \in Receiver, Offer(x)
      PROVE  CopiesKeyed'
  <2>1. /\ Len(offers) < MaxOffers
        /\ offers' = Append(offers, [to |-> x, answer |-> "none"])
        /\ copies' = copies \cup {[type |-> "MIGRATION", to |-> x, attempt |-> Len(offers')]}
    BY <1>2 DEF Offer
  <2>2. /\ offers' \in Seq([to : Receiver, answer : {"none", "yes", "no", "unforwarded"}])
        /\ Len(offers') <= MaxOffers
    BY <2>1, <1>a DEF CopiesKeyed
  <2>3. dedupKey([type |-> "MIGRATION", to |-> x, attempt |-> Len(offers')]) = <<"MIGRATION", "", 0>>
    BY DEF dedupKey
  <2>4. <<"MIGRATION", "", 0>> \in Key
    BY <1>a DEF Keys
  <2> QED
    BY <2>1, <2>2, <2>3, <2>4 DEF CopiesKeyed
<1>3. ASSUME NEW n \in DOMAIN offers, NEW how \in {"yes", "no", "unforwarded"}, Answer(n, how)
      PROVE  CopiesKeyed'
  <2>1. n \in 1..MaxOffers
    BY <1>3, <1>a DEF CopiesKeyed
  <2>2. /\ offers' = [offers EXCEPT ![n].answer = how]
        /\ copies' = copies \cup
             {CASE how = "yes" -> AckCopy(offers[n].to)
                [] how = "no" -> NackCopy(offers[n].to, n)
                [] how = "unforwarded" -> NackCopy(Relay, n)}
    BY <1>3 DEF Answer
  <2> DEFINE O == [to : Receiver, answer : {"none", "yes", "no", "unforwarded"}]
  <2>3. offers' \in Seq(O) /\ Len(offers') = Len(offers)
    <3>0. offers \in Seq(O)
      BY DEF CopiesKeyed
    <3>1. offers \in Seq(O) /\ n \in 1..Len(offers) /\ offers[n] \in O
      <4> HIDE DEF O
      <4> QED
        BY <3>0, <1>3
    <3>2. [offers[n] EXCEPT !.answer = how] \in O
      BY <3>1
    <3>3. offers' = [offers EXCEPT ![n] = [offers[n] EXCEPT !.answer = how]]
      BY <2>2
    <3> QED
      BY <3>1, <3>2, <3>3
  <2>4. \A x : dedupKey(AckCopy(x)) = <<"ACK", "", 0>> /\ dedupKey(NackCopy(x, n)) \in
             {<<"NACK", "BUSY", 0>>, <<"NACK", "NOT_FORWARDED", n>>}
    BY DEF dedupKey, AckCopy, NackCopy
  <2>5. {<<"ACK", "", 0>>, <<"NACK", "BUSY", 0>>, <<"NACK", "NOT_FORWARDED", n>>} \subseteq Key
    BY <2>1, <1>a DEF Keys
  <2>6. \A d \in copies' : d \in copies \/ \E x : d = AckCopy(x) \/ d = NackCopy(x, n)
    BY <2>2
  <2>7. \A d \in copies' : dedupKey(d) \in Key
    BY <2>4, <2>5, <2>6 DEF CopiesKeyed
  <2> QED
    BY <2>3, <2>7 DEF CopiesKeyed
<1>4. ASSUME NEW c \in copies, onMigration(c) \/ onAck(c) \/ onNack(c)
      PROVE  CopiesKeyed'
  <2>1. UNCHANGED offers /\ copies' \subseteq copies
    BY <1>4 DEF onMigration, onAck, onNack, Takes
  <2> QED
    BY <2>1 DEF CopiesKeyed, dedupKey
<1>5. ASSUME TimePasses \/ Restarts \/ Shed \/ HopFeedView \/ \E x \in Receiver : PeerStatus(x)
      PROVE  UNCHANGED <<offers, copies>>
  BY <1>5 DEF TimePasses, Restarts, Shed, HopFeedView, PeerStatus, worldVars
<1> QED
  BY <1>1, <1>2, <1>3, <1>4, <1>5 DEF CrossingsNext, crossingsVars, worldVars

(* A step of the archive is a step of its duplicate window, or none. *)
LEMMA CrossingsStep ==
    ASSUME CopiesKeyed, [CrossingsNext]_crossingsVars
    PROVE  [DedupNext]_dedupVars
<1>1. ASSUME NEW c \in copies, onMigration(c) \/ onAck(c) \/ onNack(c)
      PROVE  DedupNext
  <2>1. AppendAndCount(dedupKey(c)) /\ dedupKey(c) \in Key
    BY <1>1 DEF onMigration, onAck, onNack, CopiesKeyed
  <2> QED
    BY <2>1 DEF AppendAndCount, DedupNext
<1>2. TimePasses \/ Restarts => DedupNext
  BY DEF TimePasses, Restarts, DedupNext
<1>3. ASSUME \/ Shed \/ HopFeedView
             \/ \E x \in Receiver : Offer(x) \/ PeerStatus(x)
             \/ \E n \in DOMAIN offers, how \in {"yes", "no", "unforwarded"} : Answer(n, how)
      PROVE  UNCHANGED dedupVars
  BY <1>3 DEF Shed, HopFeedView, Offer, PeerStatus, Answer, dedupVars
<1> QED
  BY <1>1, <1>2, <1>3 DEF CrossingsNext, crossingsVars

(* Whatever copies come, doubled, late or never, the archive's steps are  *)
(* those of its duplicate window (onMigration, onAck, onNack, markSeen).   *)
THEOREM CrossingsUseTheWindow == CrossingsSpec => DedupSpec
<1>1. CrossingsInit => DedupInit /\ CopiesKeyed
  BY WindowsAssumption DEF CrossingsInit, CopiesKeyed
<1>2. CopiesKeyed /\ [CrossingsNext]_crossingsVars => CopiesKeyed' /\ [DedupNext]_dedupVars
  BY CopiesStep, CrossingsStep
<1> QED
  BY <1>1, <1>2, PTL DEF CrossingsSpec, DedupSpec

(* So the ledger has no fact of a migration twice inside the window. *)
THEOREM FactsRecordedOnce == CrossingsSpec => RecordedOnce
  BY CrossingsUseTheWindow, DuplicatesRefused
-----------------------------------------------------------------------------
(***************************************************************************)
(* The feed.  What the archive holds of a migration is true of it, and the *)
(* duplicate set outlasts what it holds: while there is a hop in the feed, *)
(* or an acknowledgement without its offer, another copy of the            *)
(* acknowledgement is refused for a window.                                *)
(***************************************************************************)
Offers == [to : Receiver, answer : {"none", "yes", "no", "unforwarded"}]
Hop == [to : Receiver, peer : Receiver \cup {Unbound}, seenAt : Nat, refused : Seq(Receiver)]
Shown == [to : Receiver, refused : Seq(Receiver), at : Nat]

CrossingTypes ==
    /\ pending \in Hop \cup {NoHop} /\ early \in Receiver \cup {Unbound} /\ earlyAt \in Nat
    /\ feed \in Seq(Shown)

(* The migration ends with the offer that is accepted, and copies are of it. *)
CopiesAreTrue ==
    \A c \in copies :
         /\ c.type = "MIGRATION" => c.to \in Receiver
         /\ c.type = "ACK" => c.from \in Receiver /\ Delivered(c.from)
         /\ c.type = "NACK" => c.from = Relay \/ (c.from \in Receiver /\ TurnedAway(c.from))

HeldIsTrue ==
    /\ early # Unbound => Delivered(early)
    /\ pending # NoHop =>
         /\ pending.peer \in {pending.to, Unbound}
         /\ \A x \in ToSet(pending.refused) : TurnedAway(x)

(* A key marked at t is refused until t + Span. *)
TheAck == <<"ACK", "", 0>>
Marked(t) ==
    /\ t <= clock /\ t < win.rotateAt
    /\ ~holds(win, TheAck) => t + Span <= clock
    /\ TheAck \in win.prev => t + Span <= win.rotateAt

OutlastsTheFeed == feed # <<>> =>
    /\ Len(feed) = 1 /\ feed[1].at <= clock
    /\ early # Unbound => feed[1].at + HopWindow < earlyAt
    /\ \E t \in 0..feed[1].at : Marked(t) /\ feed[1].at < t + CorrelationWindow + ScanEvery
OutlastsTheAck == early # Unbound => Marked(earlyAt)

TrueInv == CopiesKeyed /\ CrossingTypes /\ CopiesAreTrue /\ HeldIsTrue /\ HopsAreTrue
CrossingsInv == TrueInv /\ DedupInv /\ OutlastsTheFeed /\ OutlastsTheAck
(* A set of numbers that is not empty has a least one. *)
LEMMA LeastNat ==
    ASSUME NEW T \in SUBSET Nat, T # {}
    PROVE  \E x \in T : \A y \in T : x <= y
<1> DEFINE R == {ss \in Nat \X Nat : ss[1] < ss[2]}
<1>1. OpToRel(<, Nat) = R
  BY DEF OpToRel
<1>2. PICK x \in T : \A y \in T : ~(<<y, x>> \in R)
  BY ZenonT(30), <1>1, NatLessThanWellFounded, WFMin
<1>3. ASSUME NEW y \in T PROVE x <= y
  <2>1. <<y, x>> \in Nat \X Nat /\ <<y, x>>[1] = y /\ <<y, x>>[2] = x
    OBVIOUS
  <2>2. ~(y < x)
    BY <1>2, <2>1
  <2> QED
    BY <2>2
<1> QED
  BY <1>3

(* What trimming leaves is the end of what was there. *)
LEMMA TrimIsSuffix ==
    ASSUME NEW f \in Seq(Shown)
    PROVE  \E m \in 1..Len(f) + 1 : trimHops(f) = SubSeq(f, m, Len(f))
<1>. DEFINE S == {k \in DOMAIN f : clock - f[k].at <= HopWindow} \cup {Len(f) + 1}
<1>1. Len(f) \in Nat /\ S \in SUBSET Nat /\ S # {} /\ S \subseteq 1..Len(f) + 1
  OBVIOUS
<1>2. trimHops(f) = SubSeq(f, Min(S), Len(f))
  BY DEF trimHops
<1>. HIDE DEF S
<1>3. Min(S) \in S
  BY <1>1, LeastNat DEF Min
<1>. QED
  BY <1>1, <1>2, <1>3

(* The end of a feed shows nothing the feed did not. *)
LEMMA SuffixOf ==
    ASSUME NEW f \in Seq(Shown), NEW m \in 1..Len(f) + 1, NEW g, g = SubSeq(f, m, Len(f))
    PROVE  /\ g \in Seq(Shown) /\ Len(g) <= Len(f)
           /\ \A k \in DOMAIN g : \E j \in DOMAIN f : g[k] = f[j]
           /\ Len(f) <= 1 => g = f \/ g = <<>>
<1>1. /\ g \in Seq(Shown) /\ Len(g) = Len(f) - m + 1 /\ Len(f) \in Nat
      /\ \A k \in 1..Len(g) : g[k] = f[m + k - 1]
  OBVIOUS
<1>2. \A k \in 1..Len(g) : m + k - 1 \in 1..Len(f)
  BY <1>1
<1>3. ASSUME Len(f) <= 1 PROVE g = f \/ g = <<>>
  <2>1. CASE m = 1
    <3>1. Len(g) = Len(f) /\ \A k \in 1..Len(g) : g[k] = f[k]
      BY <2>1, <1>1
    <3>. QED
      BY <3>1, <1>1
  <2>2. CASE m # 1
    BY <2>2, <1>1, <1>3
  <2>. QED
    BY <2>1, <2>2
<1>. QED
  BY <1>1, <1>2, <1>3

(* A new hop displaces one whose window is over. *)
LEMMA NewestStays ==
    ASSUME NEW f \in Seq(Shown), NEW h \in Shown, h.at = clock, clock \in Nat, HopWindow \in Nat,
           f # <<>> => Len(f) = 1 /\ f[1].at + HopWindow < clock
    PROVE  trimHops(Append(f, h)) = <<h>>
<1>. DEFINE g == Append(f, h)
            n == Len(f) + 1
            S == {k \in DOMAIN g : clock - g[k].at <= HopWindow} \cup {Len(g) + 1}
<1>1. /\ g \in Seq(Shown) /\ Len(g) = n /\ n \in {1, 2} /\ g[n] = h /\ DOMAIN g = 1..n
      /\ (n = 2 => g[1] = f[1] /\ f[1].at \in Nat /\ f[1].at + HopWindow < clock)
  <2>1. CASE f = <<>>
    BY <2>1
  <2>2. CASE f # <<>>
    <3>1. Len(f) = 1 /\ f[1] \in Shown /\ f[1].at + HopWindow < clock
      BY <2>2
    <3>2. f[1].at \in Nat
      BY <3>1 DEF Shown
    <3>3. /\ g \in Seq(Shown) /\ Len(g) = Len(f) + 1 /\ g[Len(f) + 1] = h
          /\ (\A k \in 1..Len(f) : g[k] = f[k]) /\ DOMAIN g = 1..Len(g)
      OBVIOUS
    <3>4. g \in Seq(Shown) /\ Len(g) = 2 /\ g[2] = h /\ g[1] = f[1] /\ DOMAIN g = 1..2
      BY <3>1, <3>3
    <3>. QED
      BY <3>1, <3>2, <3>4
  <2>. QED
    BY <2>1, <2>2
<1>2. n \in S /\ \A k \in S : n <= k
  <2>1. n \in S
    BY <1>1
  <2>2. ASSUME NEW k \in S, k < n PROVE FALSE
    <3>1. k = 1 /\ n = 2 /\ clock - g[1].at <= HopWindow
      BY <2>2, <1>1
    <3>. HIDE DEF S, g, n
    <3>2. f[1].at \in Nat /\ f[1].at + HopWindow < clock /\ clock - f[1].at <= HopWindow
      BY <3>1, <1>1
    <3>. QED
      BY <3>2
  <2>3. \A k \in S : k \in Int
    BY <1>1
  <2>. QED
    BY <2>1, <2>2, <2>3, <1>1
<1>3. trimHops(g) = SubSeq(g, Min(S), Len(g))
  BY DEF trimHops
<1>4. S \in SUBSET Nat
  BY <1>1
<1>. HIDE DEF S, g, n
<1>5. Min(S) \in S /\ \A k \in S : Min(S) <= k
  BY <1>2, <1>4, LeastNat DEF Min
<1>6. Min(S) = n
  <2>1. Min(S) <= n /\ n <= Min(S) /\ Min(S) \in Nat /\ n \in Nat
    BY <1>2, <1>4, <1>5
  <2>. QED
    BY <2>1
<1>7. SubSeq(g, n, n) = <<g[n]>>
  <2>1. n \in 1..Len(g) /\ Len(g) \in Nat /\ g[n] = h
    BY <1>1
  <2>2. SubSeq(g, n, n) = [i \in 1..n - n + 1 |-> g[n + i - 1]]
    BY <2>1, <1>1 DEF SubSeq
  <2>3. n - n + 1 = 1 /\ n + 1 - 1 = n
    BY <2>1
  <2>4. SubSeq(g, n, n) = [i \in 1..1 |-> g[n]]
    BY <2>1, <2>2, <2>3
  <2>. QED
    BY <2>4
<1>. QED
  BY <1>1, <1>3, <1>6, <1>7 DEF g

(* What the correlation holds when a copy is handled. *)
LEMMA KeptParts ==
    ASSUME NEW kept \in Correlations, CrossingTypes, clock \in Nat
    PROVE  /\ kept.hop \in {pending, NoHop} /\ kept.ack \in {early, Unbound}
           /\ kept.ack # Unbound => clock < earlyAt + CorrelationWindow + ScanEvery
<1>0. earlyAt \in Nat /\ CorrelationWindow \in Nat /\ ScanEvery \in Nat \ {0}
  BY WindowsAssumption DEF CrossingTypes
<1>1. CASE kept = trimHopCorrelation
  BY <1>0, <1>1 DEF trimHopCorrelation
<1>2. CASE kept = [hop |-> pending, ack |-> early] /\ (early # Unbound => ~Overdue(earlyAt))
  BY <1>0, <1>2 DEF Overdue
<1>. QED
  BY <1>1, <1>2 DEF Correlations

-----------------------------------------------------------------------------
(* What was delivered or refused stays so. *)
LEMMA OffersGrow ==
    ASSUME CopiesKeyed, [CrossingsNext]_crossingsVars, NEW x
    PROVE  /\ Delivered(x) => Delivered(x)'
           /\ TurnedAway(x) => TurnedAway(x)'
<1>1. CASE UNCHANGED offers
  BY <1>1 DEF Delivered, TurnedAway
<1>2. ASSUME NEW y \in Receiver, Offer(y) PROVE \A k \in DOMAIN offers :
        k \in DOMAIN offers' /\ offers'[k] = offers[k]
  <2>1. offers' = Append(offers, [to |-> y, answer |-> "none"]) /\ offers \in Seq(Offers)
    BY <1>2 DEF Offer, CopiesKeyed, Offers
  <2>2. [to |-> y, answer |-> "none"] \in Offers
    BY DEF Offers
  <2>. HIDE DEF Offers
  <2>. QED
    BY <2>1, <2>2
<1>3. ASSUME NEW n \in DOMAIN offers, NEW how \in {"yes", "no", "unforwarded"}, Answer(n, how)
      PROVE  \A k \in DOMAIN offers : offers[k].answer # "none" =>
               k \in DOMAIN offers' /\ offers'[k] = offers[k]
  <2>1. /\ offers' = [offers EXCEPT ![n].answer = how] /\ offers \in Seq(Offers)
        /\ offers[n].answer = "none"
    BY <1>3 DEF Answer, CopiesKeyed, Offers
  <2>. QED
    BY <2>1
<1>4. ASSUME NEW c \in copies, onMigration(c) \/ onAck(c) \/ onNack(c) PROVE UNCHANGED offers
  BY <1>4 DEF onMigration, onAck, onNack, Takes
<1>5. ASSUME TimePasses \/ Restarts \/ Shed \/ HopFeedView \/ \E y \in Receiver : PeerStatus(y)
      PROVE  UNCHANGED offers
  BY <1>5 DEF TimePasses, Restarts, Shed, HopFeedView, PeerStatus, worldVars
<1>6. CASE \E y \in Receiver : Offer(y)
  BY <1>2, <1>6 DEF Delivered, TurnedAway
<1>7. CASE \E n \in DOMAIN offers, how \in {"yes", "no", "unforwarded"} : Answer(n, how)
  <2>1. \A k \in DOMAIN offers : offers[k].answer # "none" =>
          k \in DOMAIN offers' /\ offers'[k] = offers[k]
    BY <1>3, <1>7
  <2>. QED
    BY <2>1 DEF Delivered, TurnedAway
<1>. QED
  BY <1>1, <1>4, <1>5, <1>6, <1>7 DEF CrossingsNext, crossingsVars, worldVars

(* A copy says what its sender did. *)
LEMMA CopiesStayTrue ==
    ASSUME CopiesKeyed, CopiesAreTrue, [CrossingsNext]_crossingsVars
    PROVE  CopiesAreTrue'
<1>0. \A x : (Delivered(x) => Delivered(x)') /\ (TurnedAway(x) => TurnedAway(x)')
  BY OffersGrow
<1>1. ASSUME copies' \subseteq copies PROVE CopiesAreTrue'
  BY <1>0, <1>1 DEF CopiesAreTrue
<1>2. ASSUME NEW y \in Receiver, Offer(y) PROVE CopiesAreTrue'
  <2>1. copies' = copies \cup {[type |-> "MIGRATION", to |-> y, attempt |-> Len(offers')]}
    BY <1>2 DEF Offer
  <2>. QED
    BY <2>1, <1>0 DEF CopiesAreTrue
<1>3. ASSUME NEW n \in DOMAIN offers, NEW how \in {"yes", "no", "unforwarded"}, Answer(n, how)
      PROVE  CopiesAreTrue'
  <2>0. offers \in Seq(Offers) /\ offers[n].answer = "none" /\ offers' = [offers EXCEPT ![n].answer = how]
    BY <1>3 DEF Answer, CopiesKeyed, Offers
  <2>1. offers[n] \in Offers
    <3>. HIDE DEF Offers
    <3>. QED
      BY <2>0
  <2>2. /\ n \in DOMAIN offers' /\ offers'[n] = [to |-> offers[n].to, answer |-> how]
        /\ offers[n].to \in Receiver
    BY <2>0, <2>1 DEF Offers
  <2>3. \E c : /\ copies' = copies \cup {c}
               /\ \/ how = "yes" /\ c = [type |-> "ACK", from |-> offers[n].to]
                  \/ how = "no" /\ c = [type |-> "NACK", from |-> offers[n].to, attempt |-> n]
                  \/ how = "unforwarded" /\ c = [type |-> "NACK", from |-> Relay, attempt |-> n]
    BY <1>3 DEF Answer, AckCopy, NackCopy
  <2>4. (how = "yes" => Delivered(offers[n].to)') /\ (how = "no" => TurnedAway(offers[n].to)')
    BY <2>2 DEF Delivered, TurnedAway
  <2>. QED
    BY <2>2, <2>3, <2>4, <1>0 DEF CopiesAreTrue
<1>4. ASSUME NEW c \in copies, onMigration(c) \/ onAck(c) \/ onNack(c)
      PROVE  copies' \subseteq copies
  BY <1>4 DEF onMigration, onAck, onNack, Takes
<1>5. ASSUME TimePasses \/ Restarts \/ Shed \/ HopFeedView \/ \E y \in Receiver : PeerStatus(y)
      PROVE  UNCHANGED copies
  BY <1>5 DEF TimePasses, Restarts, Shed, HopFeedView, PeerStatus, worldVars
<1>. QED
  BY <1>1, <1>2, <1>3, <1>4, <1>5 DEF CrossingsNext, crossingsVars, worldVars

-----------------------------------------------------------------------------
(* A hop enters the feed as it was delivered. *)
LEMMA ObservedIsTrue ==
    ASSUME CrossingTypes, HopsAreTrue, clock \in Nat, UNCHANGED offers,
           NEW p \in Hop, observeHop(p), Delivered(p.to), \A x \in ToSet(p.refused) : TurnedAway(x)
    PROVE  feed' \in Seq(Shown) /\ HopsAreTrue'
<1>. DEFINE h == [to |-> p.to, refused |-> p.refused, at |-> clock]
            f == Append(feed, h)
<1>1. h \in Shown /\ feed \in Seq(Shown) /\ feed' = trimHops(f)
  BY DEF Shown, Hop, CrossingTypes, observeHop
<1>2. f \in Seq(Shown) /\ \A k \in DOMAIN f : f[k] = h \/ (k \in DOMAIN feed /\ f[k] = feed[k])
  <2>. HIDE DEF h
  <2>. QED
    BY <1>1
<1>3. \A k \in DOMAIN f : Delivered(f[k].to) /\ \A x \in ToSet(f[k].refused) : TurnedAway(x)
  <2>1. Delivered(h.to) /\ \A x \in ToSet(h.refused) : TurnedAway(x)
    OBVIOUS
  <2>. HIDE DEF h, f
  <2>. QED
    BY <1>2, <2>1 DEF HopsAreTrue
<1>. HIDE DEF f
<1>4. feed' \in Seq(Shown) /\ \A k \in DOMAIN feed' : \E j \in DOMAIN f : feed'[k] = f[j]
  BY <1>1, <1>2, TrimIsSuffix, SuffixOf
<1>5. \A x : (Delivered(x) => Delivered(x)') /\ (TurnedAway(x) => TurnedAway(x)')
  BY DEF Delivered, TurnedAway
<1>. QED
  BY <1>3, <1>4, <1>5 DEF HopsAreTrue

(* A feed cut from the front shows what it did. *)
LEMMA ShedIsTrue ==
    ASSUME CrossingTypes, HopsAreTrue, UNCHANGED offers, NEW m \in 1..Len(feed) + 1,
           feed' = SubSeq(feed, m, Len(feed))
    PROVE  feed' \in Seq(Shown) /\ HopsAreTrue'
<1>0. feed \in Seq(Shown)
  BY DEF CrossingTypes
<1>1. ASSUME NEW g, g = SubSeq(feed, m, Len(feed))
      PROVE  g \in Seq(Shown) /\ \A k \in DOMAIN g : \E j \in DOMAIN feed : g[k] = feed[j]
  <2>1. m \in 1..Len(feed) + 1
    OBVIOUS
  <2>2. g \in Seq(Shown)
    BY <1>0, <1>1, <2>1, SuffixOf
  <2>3. \A k \in DOMAIN g : \E j \in DOMAIN feed : g[k] = feed[j]
    BY <1>0, <1>1, <2>1, SuffixOf
  <2>. QED
    BY <2>2, <2>3
<1>2. \A x : (Delivered(x) => Delivered(x)') /\ (TurnedAway(x) => TurnedAway(x)')
  BY DEF Delivered, TurnedAway
<1>. QED
  BY <1>1, <1>2 DEF HopsAreTrue

(* Whichever pair of correlations is kept is true. *)
LEMMA KeptIsTrue ==
    ASSUME CrossingTypes, HeldIsTrue, clock \in Nat, NEW kept \in Correlations
    PROVE  /\ kept.hop \in Hop \cup {NoHop} /\ kept.ack \in Receiver \cup {Unbound}
           /\ kept.ack # Unbound => Delivered(kept.ack)
           /\ kept.hop # NoHop =>
                /\ kept.hop \in Hop /\ kept.hop.peer \in {kept.hop.to, Unbound}
                /\ kept.hop.to \in Receiver /\ kept.hop.refused \in Seq(Receiver)
                /\ \A x \in ToSet(kept.hop.refused) : TurnedAway(x)
<1>1. kept.hop \in {pending, NoHop} /\ kept.ack \in {early, Unbound}
  BY KeptParts
<1>2. pending \in Hop \cup {NoHop} /\ early \in Receiver \cup {Unbound}
  BY DEF CrossingTypes
<1>3. kept.hop # NoHop => kept.hop = pending /\ pending \in Hop
  BY <1>1, <1>2
<1>4. \A p \in Hop : p.to \in Receiver /\ p.refused \in Seq(Receiver)
  BY DEF Hop
<1>. QED
  BY <1>1, <1>2, <1>3, <1>4 DEF HeldIsTrue

(* What is held once a copy is handled. *)
LEMMA CorrelationIsTrue ==
    ASSUME UNCHANGED offers, NEW h \in Hop \cup {NoHop}, NEW k \in Receiver \cup {Unbound},
           NEW t \in Nat, Correlation(h, k, t), k # Unbound => Delivered(k),
           h # NoHop => /\ h.peer \in {h.to, Unbound}
                        /\ \A x \in ToSet(h.refused) : TurnedAway(x)
    PROVE  /\ pending' \in Hop \cup {NoHop} /\ early' \in Receiver \cup {Unbound} /\ earlyAt' \in Nat
           /\ HeldIsTrue'
<1>1. pending' = h /\ early' = k /\ earlyAt' = t
  BY DEF Correlation
<1>2. \A x : (Delivered(x) => Delivered(x)') /\ (TurnedAway(x) => TurnedAway(x)')
  BY DEF Delivered, TurnedAway
<1>. QED
  BY <1>1, <1>2 DEF HeldIsTrue

(* A feed nobody writes. *)
LEMMA FeedUnchanged ==
    ASSUME CrossingTypes, HopsAreTrue, UNCHANGED <<offers, feed>>
    PROVE  feed' \in Seq(Shown) /\ HopsAreTrue'
  BY DEF CrossingTypes, HopsAreTrue, Delivered, TurnedAway

(* An offer's copy: it replaces what is pending, and finds its acknowledgement. *)
LEMMA MigrationIsTrue ==
    ASSUME TrueInv, clock \in Nat, NEW c \in copies, onMigration(c)
    PROVE  CrossingTypes' /\ HeldIsTrue' /\ HopsAreTrue'
<1>0. CrossingTypes /\ HopsAreTrue /\ HeldIsTrue /\ earlyAt \in Nat /\ c.to \in Receiver
      /\ UNCHANGED offers
  BY DEF TrueInv, CopiesAreTrue, onMigration, Takes, CrossingTypes
<1>1. PICK kept \in Correlations : observeHopAttempt(c, kept)
  BY DEF onMigration
<1>2. /\ kept.ack \in Receiver \cup {Unbound} /\ (kept.ack # Unbound => Delivered(kept.ack))
      /\ kept.hop # NoHop => /\ kept.hop.refused \in Seq(Receiver)
                             /\ \A x \in ToSet(kept.hop.refused) : TurnedAway(x)
  BY <1>0, KeptIsTrue
<1>. DEFINE r == IF kept.hop = NoHop THEN <<>> ELSE kept.hop.refused
            hop == [to |-> c.to, peer |-> peerForSlot(c.to), seenAt |-> clock, refused |-> r]
<1>3. r \in Seq(Receiver) /\ \A x \in ToSet(r) : TurnedAway(x)
  BY <1>2 DEF ToSet
<1>. HIDE DEF r
<1>4. /\ hop \in Hop /\ hop.to = c.to /\ hop.peer \in {hop.to, Unbound} /\ hop.refused = r
      /\ \A x \in ToSet(hop.refused) : TurnedAway(x)
  BY <1>0, <1>3 DEF Hop, peerForSlot
<1>5. IF hopPeerMatches(hop.peer, kept.ack)
      THEN observeHop(hop) /\ Correlation(NoHop, Unbound, 0)
      ELSE Correlation(hop, kept.ack, earlyAt) /\ UNCHANGED feed
  BY <1>1 DEF observeHopAttempt, r
<1>. HIDE DEF hop
<1>6. CASE hopPeerMatches(hop.peer, kept.ack)
  <2>1. Delivered(hop.to)
    BY <1>2, <1>4, <1>6 DEF hopPeerMatches
  <2>2. feed' \in Seq(Shown) /\ HopsAreTrue'
    BY <1>0, <1>4, <1>5, <1>6, <2>1, ObservedIsTrue
  <2>3. /\ pending' \in Hop \cup {NoHop} /\ early' \in Receiver \cup {Unbound} /\ earlyAt' \in Nat
        /\ HeldIsTrue'
    BY <1>0, <1>5, <1>6, CorrelationIsTrue
  <2>. QED
    BY <2>2, <2>3 DEF CrossingTypes
<1>7. CASE ~hopPeerMatches(hop.peer, kept.ack)
  <2>1. feed' \in Seq(Shown) /\ HopsAreTrue'
    BY <1>0, <1>5, <1>7, FeedUnchanged
  <2>2. /\ pending' \in Hop \cup {NoHop} /\ early' \in Receiver \cup {Unbound} /\ earlyAt' \in Nat
        /\ HeldIsTrue'
    BY <1>0, <1>2, <1>4, <1>5, <1>7, CorrelationIsTrue
  <2>. QED
    BY <2>1, <2>2 DEF CrossingTypes
<1>. QED
  BY <1>6, <1>7

(* An acknowledgement's copy: it confirms the offer it answers, or waits for it. *)
LEMMA AckIsTrue ==
    ASSUME TrueInv, clock \in Nat, NEW c \in copies, onAck(c)
    PROVE  CrossingTypes' /\ HeldIsTrue' /\ HopsAreTrue'
<1>0. CrossingTypes /\ HopsAreTrue /\ HeldIsTrue /\ c.from \in Receiver /\ Delivered(c.from)
      /\ UNCHANGED offers
  BY DEF TrueInv, CopiesAreTrue, onAck, Takes
<1>1. CASE UNCHANGED hopVars
  BY <1>0, <1>1 DEF hopVars, CrossingTypes, HeldIsTrue, HopsAreTrue, Delivered, TurnedAway
<1>2. ASSUME NEW kept \in Correlations, confirmHop(c, kept)
      PROVE  CrossingTypes' /\ HeldIsTrue' /\ HopsAreTrue'
  <2>1. /\ kept.hop \in Hop \cup {NoHop}
        /\ kept.hop # NoHop =>
             /\ kept.hop \in Hop /\ kept.hop.peer \in {kept.hop.to, Unbound}
             /\ \A x \in ToSet(kept.hop.refused) : TurnedAway(x)
    BY <1>0, KeptIsTrue
  <2>2. CASE kept.hop # NoHop /\ hopPeerMatches(kept.hop.peer, c.from)
    <3>1. observeHop(kept.hop) /\ Correlation(NoHop, Unbound, 0) /\ Delivered(kept.hop.to)
      BY <1>0, <1>2, <2>1, <2>2 DEF confirmHop, hopPeerMatches
    <3>2. feed' \in Seq(Shown) /\ HopsAreTrue'
      BY <1>0, <2>1, <2>2, <3>1, ObservedIsTrue
    <3>3. /\ pending' \in Hop \cup {NoHop} /\ early' \in Receiver \cup {Unbound} /\ earlyAt' \in Nat
          /\ HeldIsTrue'
      BY <1>0, <3>1, CorrelationIsTrue
    <3>. QED
      BY <3>2, <3>3 DEF CrossingTypes
  <2>3. CASE ~(kept.hop # NoHop /\ hopPeerMatches(kept.hop.peer, c.from))
    <3>1. Correlation(kept.hop, c.from, clock) /\ UNCHANGED feed
      BY <1>2, <2>3 DEF confirmHop
    <3>2. feed' \in Seq(Shown) /\ HopsAreTrue'
      BY <1>0, <3>1, FeedUnchanged
    <3>3. /\ pending' \in Hop \cup {NoHop} /\ early' \in Receiver \cup {Unbound} /\ earlyAt' \in Nat
          /\ HeldIsTrue'
      BY <1>0, <2>1, <3>1, CorrelationIsTrue
    <3>. QED
      BY <3>2, <3>3 DEF CrossingTypes
  <2>. QED
    BY <2>2, <2>3
<1>. QED
  BY <1>1, <1>2 DEF onAck

(* A refusal's copy: the receiver of the pending offer, and no other, has refused it. *)
LEMMA NackIsTrue ==
    ASSUME TrueInv, clock \in Nat, NEW c \in copies, onNack(c)
    PROVE  CrossingTypes' /\ HeldIsTrue' /\ HopsAreTrue'
<1>0. CrossingTypes /\ HopsAreTrue /\ HeldIsTrue /\ earlyAt \in Nat
      /\ (c.from = Unbound \/ (c.from \in Receiver /\ TurnedAway(c.from))) /\ UNCHANGED offers
  BY DEF TrueInv, CopiesAreTrue, onNack, Takes, CrossingTypes, Relay, Unbound
<1>1. PICK kept \in Correlations : rejectHopAttempt(c, kept)
  BY DEF onNack
<1>2. /\ kept.hop \in Hop \cup {NoHop} /\ kept.ack \in Receiver \cup {Unbound}
      /\ kept.ack # Unbound => Delivered(kept.ack)
      /\ kept.hop # NoHop =>
           /\ kept.hop \in Hop /\ kept.hop.peer \in {kept.hop.to, Unbound}
           /\ kept.hop.to \in Receiver /\ kept.hop.refused \in Seq(Receiver)
           /\ \A x \in ToSet(kept.hop.refused) : TurnedAway(x)
  BY <1>0, KeptIsTrue
<1>3. feed' \in Seq(Shown) /\ HopsAreTrue'
  BY <1>0, <1>1, FeedUnchanged DEF rejectHopAttempt
<1>4. CASE kept.hop # NoHop /\ kept.hop.peer # Unbound /\ c.from = kept.hop.peer
  <2>. DEFINE was == kept.hop.refused
              more == IF was = <<>> \/ Last(was) # kept.hop.to THEN Append(was, kept.hop.to) ELSE was
              h == [kept.hop EXCEPT !.refused = more, !.peer = Unbound, !.seenAt = clock]
  <2>1. TurnedAway(kept.hop.to) /\ was \in Seq(Receiver) /\ kept.hop.to \in Receiver
    BY <1>0, <1>2, <1>4
  <2>2. more \in Seq(Receiver) /\ \A x \in ToSet(more) : x = kept.hop.to \/ x \in ToSet(was)
    <3>. HIDE DEF was
    <3>. QED
      BY <2>1 DEF ToSet
  <2>3. \A x \in ToSet(more) : TurnedAway(x)
    BY <1>2, <1>4, <2>1, <2>2
  <2>4. Correlation(h, kept.ack, earlyAt)
    BY <1>1, <1>4 DEF rejectHopAttempt
  <2>. HIDE DEF more
  <2>5. h \in Hop /\ h.peer \in {h.to, Unbound} /\ h.refused = more
    BY <1>2, <1>4, <2>2 DEF Hop
  <2>. HIDE DEF h
  <2>6. \A x \in ToSet(h.refused) : TurnedAway(x)
    BY <2>3, <2>5
  <2>. QED
    BY <1>0, <1>2, <1>3, <2>4, <2>5, <2>6, CorrelationIsTrue DEF CrossingTypes
<1>5. CASE ~(kept.hop # NoHop /\ kept.hop.peer # Unbound /\ c.from = kept.hop.peer)
  <2>1. Correlation(kept.hop, kept.ack, earlyAt)
    BY <1>1, <1>5 DEF rejectHopAttempt
  <2>. QED
    BY <1>0, <1>2, <1>3, <2>1, CorrelationIsTrue DEF CrossingTypes
<1>. QED
  BY <1>4, <1>5

(* What the archive shows and holds of a migration stays true of it. *)
LEMMA TrueStep ==
    ASSUME TrueInv, clock \in Nat, [CrossingsNext]_crossingsVars
    PROVE  TrueInv'
<1>0. CopiesKeyed' /\ CopiesAreTrue'
  BY CopiesStep, CopiesStayTrue DEF TrueInv
<1>1. ASSUME UNCHANGED hopVars PROVE CrossingTypes' /\ HeldIsTrue' /\ HopsAreTrue'
  <2>1. \A x : (Delivered(x) => Delivered(x)') /\ (TurnedAway(x) => TurnedAway(x)')
    BY OffersGrow DEF TrueInv
  <2>. QED
    BY <1>1, <2>1 DEF hopVars, CrossingTypes, HeldIsTrue, HopsAreTrue, TrueInv
<1>2. ASSUME Shed \/ HopFeedView PROVE CrossingTypes' /\ HeldIsTrue' /\ HopsAreTrue'
  <2>0. UNCHANGED offers /\ CrossingTypes /\ HeldIsTrue /\ HopsAreTrue /\ feed \in Seq(Shown)
    BY <1>2 DEF Shed, HopFeedView, worldVars, TrueInv, CrossingTypes
  <2>1. \E m \in 1..Len(feed) + 1 : feed' = SubSeq(feed, m, Len(feed))
    <3>1. CASE HopFeedView
      BY <3>1, <2>0, TrimIsSuffix DEF HopFeedView
    <3>2. CASE feed' = feed
      <4>1. Len(feed) \in Nat /\ SubSeq(feed, 1, Len(feed)) = feed
        BY <2>0
      <4>. QED
        BY <3>2, <4>1
    <3>3. CASE \E k \in DOMAIN feed : feed' = SubSeq(feed, k + 1, Len(feed))
      <4>1. \A k \in DOMAIN feed : k + 1 \in 1..Len(feed) + 1
        BY <2>0
      <4>. QED
        BY <3>3, <4>1
    <3>. QED
      BY <1>2, <3>1, <3>2, <3>3 DEF Shed
  <2>2. feed' \in Seq(Shown) /\ HopsAreTrue'
    BY <2>0, <2>1, ShedIsTrue
  <2>3. /\ pending' \in {pending, NoHop} /\ early' \in {early, Unbound} /\ earlyAt' \in {earlyAt, 0}
    BY <1>2 DEF Shed, HopFeedView
  <2>4. HeldIsTrue'
    BY <2>0, <2>3 DEF HeldIsTrue, Delivered, TurnedAway
  <2>. QED
    BY <2>0, <2>2, <2>3, <2>4 DEF CrossingTypes
<1>3. ASSUME Restarts PROVE CrossingTypes' /\ HeldIsTrue' /\ HopsAreTrue'
  BY <1>3 DEF Restarts, CrossingTypes, HeldIsTrue, HopsAreTrue
<1>4. ASSUME \/ TimePasses \/ \E x \in Receiver : Offer(x) \/ PeerStatus(x)
             \/ \E n \in DOMAIN offers, how \in {"yes", "no", "unforwarded"} : Answer(n, how)
      PROVE  UNCHANGED hopVars
  BY <1>4 DEF TimePasses, Offer, PeerStatus, Answer, hopVars
<1>5. ASSUME NEW c \in copies, onMigration(c) \/ onAck(c) \/ onNack(c)
      PROVE  CrossingTypes' /\ HeldIsTrue' /\ HopsAreTrue'
  BY <1>5, MigrationIsTrue, AckIsTrue, NackIsTrue
<1>6. CrossingTypes' /\ HeldIsTrue' /\ HopsAreTrue'
  BY <1>1, <1>2, <1>3, <1>4, <1>5 DEF CrossingsNext, crossingsVars
<1>. QED
  BY <1>0, <1>6 DEF TrueInv

(* Nothing is known at the start. *)
LEMMA TrueInitially == CrossingsInit => TrueInv
  BY WindowsAssumption DEF CrossingsInit, TrueInv, CopiesKeyed, CrossingTypes, CopiesAreTrue,
     HeldIsTrue, HopsAreTrue

-----------------------------------------------------------------------------
(* A tick forgets no mark that is not a window old. *)
LEMMA TickMarks ==
    ASSUME DedupInv, NEW t \in Nat, Marked(t), NEW w, w = tick(win, clock)
    PROVE  /\ t < w.rotateAt
           /\ ~holds(w, TheAck) => t + Span <= clock
           /\ TheAck \in w.prev => t + Span <= w.rotateAt
<1>a. /\ clock \in Nat /\ Span \in Nat \ {0} /\ win.rotateAt \in Nat
      /\ t <= clock /\ t < win.rotateAt
      /\ ~holds(win, TheAck) => t + Span <= clock
      /\ TheAck \in win.prev => t + Span <= win.rotateAt
  BY DedupAssumption DEF DedupInv, DedupTypeOK, Marked
<1>1. CASE clock < win.rotateAt
  BY <1>1, <1>a DEF tick
<1>2. CASE ~(clock < win.rotateAt) /\ clock - win.rotateAt >= Span
  <2>1. w.rotateAt = clock + Span /\ w.prev = {}
    BY <1>2 DEF tick
  <2>. QED
    BY <2>1, <1>2, <1>a
<1>3. CASE ~(clock < win.rotateAt) /\ ~(clock - win.rotateAt >= Span)
  <2>1. w = [cur |-> {}, prev |-> win.cur, rotateAt |-> win.rotateAt + Span]
    BY <1>3 DEF tick
  <2>. QED
    BY <2>1, <1>3, <1>a DEF holds
<1>. QED
  BY <1>1, <1>2, <1>3

(* A mark stays, but for a restart, which the feed does not outlive. *)
LEMMA MarkStays ==
    ASSUME DedupInv, NEW t \in Nat, Marked(t),
           UNCHANGED dedupVars \/ Elapses \/ \E k \in Key : AppendAndCount(k)
    PROVE  Marked(t)'
<1>1. CASE UNCHANGED dedupVars
  BY <1>1 DEF dedupVars, Marked, holds
<1>2. CASE Elapses
  <2>1. clock' \in Nat /\ clock' > clock /\ win' = win /\ clock \in Nat /\ Span \in Nat
    BY <1>2, DedupAssumption DEF Elapses, DedupInv, DedupTypeOK
  <2>. QED
    BY <2>1 DEF Marked, holds
<1>3. CASE \E k \in Key : AppendAndCount(k)
  <2>1. PICK k \in Key : win' = addKey(tick(win, clock), k) /\ clock' = clock
    BY <1>3 DEF AppendAndCount, Refuse, RecordNew, AppendFails, markSeen
  <2>. DEFINE w == tick(win, clock)
  <2>2. /\ t < w.rotateAt /\ (~holds(w, TheAck) => t + Span <= clock)
        /\ TheAck \in w.prev => t + Span <= w.rotateAt
    BY TickMarks
  <2>3. w \in [cur : SUBSET Key, prev : SUBSET Key, rotateAt : Nat]
    BY TickKeeps
  <2>. HIDE DEF w
  <2>4. win'.prev = w.prev /\ win'.rotateAt = w.rotateAt /\ (holds(w, TheAck) => holds(win', TheAck))
    BY <2>1, <2>3 DEF addKey, holds, w
  <2>5. t <= clock
    BY DEF Marked
  <2>. QED
    BY <2>1, <2>2, <2>4, <2>5 DEF Marked
<1>. QED
  BY <1>1, <1>2, <1>3

(* An acknowledgement that is not refused is marked now, and what was marked *)
(* before was marked a window ago.                                           *)
LEMMA MarkedNow ==
    ASSUME DedupInv, AppendAndCount(TheAck), ~Seen(TheAck)
    PROVE  Marked(clock)' /\ \A t \in Nat : Marked(t) => t + Span <= clock
<1>. DEFINE w == tick(win, clock)
<1>1. win' = addKey(w, TheAck) /\ clock' = clock /\ ~holds(w, TheAck)
  BY DEF AppendAndCount, Refuse, RecordNew, AppendFails, markSeen, Seen
<1>2. clock < w.rotateAt /\ w \in [cur : SUBSET Key, prev : SUBSET Key, rotateAt : Nat]
      /\ clock \in Nat
  BY TickKeeps DEF DedupInv, DedupTypeOK
<1>3. \A t \in Nat : Marked(t) => t + Span <= clock
  BY <1>1, TickMarks
<1>. HIDE DEF w
<1>4. /\ TheAck \in win'.cur /\ TheAck \notin win'.prev /\ win'.rotateAt = w.rotateAt
  BY <1>1, <1>2 DEF addKey, holds
<1>5. clock' < win'.rotateAt /\ clock' <= clock' /\ holds(win', TheAck)
  BY <1>1, <1>2, <1>4 DEF holds
<1>. QED
  BY <1>3, <1>4, <1>5 DEF Marked

(* Nothing is shown or held at the start. *)
LEMMA OnceInitially == CrossingsInit => OutlastsTheFeed /\ OutlastsTheAck
  BY DEF CrossingsInit, OutlastsTheFeed, OutlastsTheAck

(* Every step keeps the feed within what the duplicate set outlasts. *)
LEMMA OnceStep ==
    ASSUME CrossingsInv, [CrossingsNext]_crossingsVars,
           HopWindow + CorrelationWindow + ScanEvery <= Span
    PROVE  OutlastsTheFeed' /\ OutlastsTheAck'
<1>0. /\ DedupInv /\ TrueInv /\ CrossingTypes /\ OutlastsTheFeed /\ OutlastsTheAck
      /\ feed \in Seq(Shown) /\ earlyAt \in Nat /\ clock \in Nat
      /\ HopWindow \in Nat /\ CorrelationWindow \in Nat /\ ScanEvery \in Nat \ {0} /\ Span \in Nat
  BY WindowsAssumption, DedupAssumption
  DEF CrossingsInv, TrueInv, CrossingTypes, DedupInv, DedupTypeOK
<1>1. ASSUME feed # <<>> PROVE feed[1] \in Shown /\ feed[1].at \in Nat
  <2>1. feed[1] \in Shown
    BY <1>0, <1>1
  <2>. QED
    BY <2>1 DEF Shown
(* While marks stay, a feed that does not grow is as covered as it was. *)
<1>2. ASSUME \A t \in Nat : Marked(t) => Marked(t)', clock <= clock', clock' \in Nat,
             feed' = feed \/ feed' = <<>>, early' # Unbound => early # Unbound /\ earlyAt' = earlyAt
      PROVE  OutlastsTheFeed' /\ OutlastsTheAck'
  <2>1. OutlastsTheAck'
    BY <1>0, <1>2 DEF OutlastsTheAck, Marked
  <2>2. ASSUME feed' # <<>> PROVE OutlastsTheFeed'
    <3>1. /\ feed' = feed /\ feed # <<>> /\ Len(feed) = 1 /\ feed[1].at <= clock
          /\ early # Unbound => feed[1].at + HopWindow < earlyAt
      BY <1>0, <1>2, <2>2 DEF OutlastsTheFeed
    <3>2. PICK t \in 0..feed[1].at :
            Marked(t) /\ feed[1].at < t + CorrelationWindow + ScanEvery
      BY <1>0, <3>1 DEF OutlastsTheFeed
    <3>3. t \in Nat /\ feed[1].at \in Nat
      BY <1>1, <3>1
    <3>4. Marked(t)'
      BY <1>2, <3>2, <3>3
    <3>5. feed[1].at <= clock'
      BY <1>0, <1>2, <3>1, <3>3
    <3>. QED
      BY <1>2, <3>1, <3>2, <3>4, <3>5 DEF OutlastsTheFeed
  <2>. QED
    BY <2>1, <2>2 DEF OutlastsTheFeed
<1>3. ASSUME NEW c \in copies, onMigration(c) \/ onAck(c) \/ onNack(c)
      PROVE  /\ \E k \in Key : AppendAndCount(k)
             /\ \A t \in Nat : Marked(t) => Marked(t)'
             /\ clock' = clock
  <2>1. dedupKey(c) \in Key /\ AppendAndCount(dedupKey(c))
    BY <1>0, <1>3 DEF onMigration, onAck, onNack, TrueInv, CopiesKeyed
  <2>2. clock' = clock
    BY <2>1 DEF AppendAndCount, Refuse, RecordNew, AppendFails
  <2>. QED
    BY <1>0, <2>1, <2>2, MarkStays
(* A new hop, of an acknowledgement marked lately, finds the old one's window over. *)
<1>4. ASSUME NEW p, p \in Hop, observeHop(p), Correlation(NoHop, Unbound, 0), clock' = clock,
             feed # <<>> => feed[1].at + HopWindow < clock,
             NEW t \in 0..clock, Marked(t)', clock < t + CorrelationWindow + ScanEvery
      PROVE  OutlastsTheFeed' /\ OutlastsTheAck'
  <2>. DEFINE h == [to |-> p.to, refused |-> p.refused, at |-> clock]
  <2>1. h \in Shown /\ h.at = clock
    BY <1>0, <1>4 DEF Shown, Hop
  <2>2. feed' = trimHops(Append(feed, h)) /\ early' = Unbound
    BY <1>4 DEF observeHop, Correlation
  <2>3. feed # <<>> => Len(feed) = 1 /\ feed[1].at + HopWindow < clock
    BY <1>0, <1>4 DEF OutlastsTheFeed
  <2>. HIDE DEF h
  <2>4. feed' = <<h>>
    BY <1>0, <2>1, <2>2, <2>3, NewestStays
  <2>5. Len(feed') = 1 /\ feed'[1].at = clock
    BY <2>1, <2>4
  <2>6. clock <= clock'
    BY <1>0, <1>4
  <2>. QED
    BY <1>4, <2>2, <2>5, <2>6 DEF OutlastsTheFeed, OutlastsTheAck
<1>5. ASSUME NEW c \in copies, onMigration(c) PROVE OutlastsTheFeed' /\ OutlastsTheAck'
  <2>1. PICK kept \in Correlations : observeHopAttempt(c, kept)
    BY <1>5 DEF onMigration
  <2>2. /\ kept.ack \in {early, Unbound}
        /\ kept.ack # Unbound => clock < earlyAt + CorrelationWindow + ScanEvery
    BY <1>0, KeptParts
  <2>. DEFINE r == IF kept.hop = NoHop THEN <<>> ELSE kept.hop.refused
              hop == [to |-> c.to, peer |-> peerForSlot(c.to), seenAt |-> clock, refused |-> r]
  <2>3. hop \in Hop
    <3>1. c.to \in Receiver
      BY <1>5 DEF onMigration, CrossingsInv, TrueInv, CopiesAreTrue
    <3>2. r \in Seq(Receiver)
      BY <1>0, KeptIsTrue DEF TrueInv
    <3>. QED
      BY <1>0, <3>1, <3>2 DEF Hop, peerForSlot
  <2>4. IF hopPeerMatches(hop.peer, kept.ack)
        THEN observeHop(hop) /\ Correlation(NoHop, Unbound, 0)
        ELSE Correlation(hop, kept.ack, earlyAt) /\ UNCHANGED feed
    BY <2>1 DEF observeHopAttempt
  <2>. HIDE DEF hop, r
  <2>5. CASE hopPeerMatches(hop.peer, kept.ack)
    <3>1. early # Unbound /\ kept.ack # Unbound
      BY <2>2, <2>5 DEF hopPeerMatches
    <3>2. Marked(earlyAt) /\ earlyAt \in 0..clock
      BY <1>0, <3>1 DEF OutlastsTheAck, Marked
    <3>3. feed # <<>> => feed[1].at + HopWindow < clock
      <4>1. ASSUME feed # <<>> PROVE feed[1].at + HopWindow < earlyAt
        BY <1>0, <3>1, <4>1 DEF OutlastsTheFeed
      <4>. QED
        BY <1>0, <1>1, <3>2, <4>1
    <3>4. \A t \in Nat : Marked(t) => Marked(t)'
      BY <1>3, <1>5
    <3>5. PICK t \in 0..clock : t = earlyAt
      BY <3>2
    <3>6. t \in Nat /\ Marked(t) /\ clock < t + CorrelationWindow + ScanEvery
      BY <2>2, <3>1, <3>2, <3>5
    <3>7. Marked(t)'
      BY <3>4, <3>6
    <3>8. clock' = clock
      BY <1>3, <1>5
    <3>. QED
      BY <1>4, <2>3, <2>4, <2>5, <3>3, <3>6, <3>7, <3>8
  <2>6. CASE ~hopPeerMatches(hop.peer, kept.ack)
    <3>1. early' = kept.ack /\ earlyAt' = earlyAt /\ feed' = feed
      BY <2>4, <2>6 DEF Correlation
    <3>2. early' # Unbound => early # Unbound /\ earlyAt' = earlyAt
      BY <2>2, <3>1
    <3>3. (\A t \in Nat : Marked(t) => Marked(t)') /\ clock <= clock' /\ clock' \in Nat
      BY <1>0, <1>3, <1>5
    <3>. QED
      BY <1>2, <3>1, <3>2, <3>3
  <2>. QED
    BY <2>5, <2>6
<1>6. ASSUME NEW c \in copies, onAck(c) PROVE OutlastsTheFeed' /\ OutlastsTheAck'
  <2>0. /\ \A t \in Nat : Marked(t) => Marked(t)'
        /\ clock' = clock /\ clock <= clock' /\ clock' \in Nat
    BY <1>0, <1>3, <1>6
  <2>1. CASE UNCHANGED hopVars
    <3>1. early' = early /\ earlyAt' = earlyAt /\ feed' = feed
      BY <2>1 DEF hopVars
    <3>. QED
      BY <1>2, <2>0, <3>1
  <2>2. ASSUME ~Seen(dedupKey(c)), NEW kept \in Correlations, confirmHop(c, kept)
        PROVE  OutlastsTheFeed' /\ OutlastsTheAck'
    <3>1. dedupKey(c) = TheAck /\ AppendAndCount(TheAck) /\ ~Seen(TheAck)
      BY <1>6, <2>2 DEF onAck, dedupKey, TheAck
    <3>2. Marked(clock)' /\ \A t \in Nat : Marked(t) => t + Span <= clock
      BY <1>0, <3>1, MarkedNow
    <3>3. ASSUME feed # <<>> PROVE feed[1].at + HopWindow < clock
      <4>1. PICK t \in 0..feed[1].at :
              Marked(t) /\ feed[1].at < t + CorrelationWindow + ScanEvery
        BY <1>0, <3>3 DEF OutlastsTheFeed
      <4>2. t \in Nat /\ feed[1].at \in Nat
        BY <1>1, <3>3
      <4>3. t + Span <= clock
        BY <3>2, <4>1, <4>2
      <4>. QED
        BY <1>0, <4>1, <4>2, <4>3
    <3>4. CASE kept.hop # NoHop /\ hopPeerMatches(kept.hop.peer, c.from)
      <4>1. observeHop(kept.hop) /\ Correlation(NoHop, Unbound, 0)
        BY <2>2, <3>4 DEF confirmHop
      <4>2. kept.hop \in Hop
        BY <1>0, <3>4, KeptIsTrue DEF TrueInv
      <4>3. PICK t \in 0..clock : t = clock
        BY <1>0
      <4>4. Marked(t)'
        BY <2>0, <3>2, <4>3 DEF Marked
      <4>5. clock < t + CorrelationWindow + ScanEvery
        BY <1>0, <4>3
      <4>. QED
        BY <1>4, <2>0, <3>3, <4>1, <4>2, <4>4, <4>5
    <3>5. CASE ~(kept.hop # NoHop /\ hopPeerMatches(kept.hop.peer, c.from))
      <4>1. early' = c.from /\ earlyAt' = clock /\ feed' = feed
        BY <2>2, <3>5 DEF confirmHop, Correlation
      <4>2. Marked(earlyAt)'
        BY <2>0, <3>2, <4>1 DEF Marked
      <4>3. OutlastsTheAck'
        BY <4>2 DEF OutlastsTheAck
      <4>4. ASSUME feed # <<>> PROVE OutlastsTheFeed'
        <5>1. PICK t \in 0..feed[1].at :
                Marked(t) /\ feed[1].at < t + CorrelationWindow + ScanEvery
          BY <1>0, <4>4 DEF OutlastsTheFeed
        <5>2. t \in Nat /\ Len(feed) = 1 /\ feed[1].at <= clock
          BY <1>0, <4>4 DEF OutlastsTheFeed
        <5>3. Marked(t)'
          BY <2>0, <5>1, <5>2
        <5>. QED
          BY <2>0, <3>3, <4>1, <4>4, <5>1, <5>2, <5>3 DEF OutlastsTheFeed
      <4>. QED
        BY <4>1, <4>3, <4>4 DEF OutlastsTheFeed
    <3>. QED
      BY <3>4, <3>5
  <2>. QED
    BY <1>6, <2>1, <2>2 DEF onAck
<1>7. ASSUME NEW c \in copies, onNack(c) PROVE OutlastsTheFeed' /\ OutlastsTheAck'
  <2>1. PICK kept \in Correlations : rejectHopAttempt(c, kept)
    BY <1>7 DEF onNack
  <2>2. feed' = feed /\ earlyAt' = earlyAt /\ early' = kept.ack
    BY <2>1 DEF rejectHopAttempt, Correlation
  <2>3. kept.ack \in {early, Unbound}
    BY <1>0, KeptParts
  <2>4. (\A t \in Nat : Marked(t) => Marked(t)') /\ clock <= clock' /\ clock' \in Nat
    BY <1>0, <1>3, <1>7
  <2>. QED
    BY <1>2, <2>2, <2>3, <2>4
<1>8. ASSUME Shed \/ HopFeedView PROVE OutlastsTheFeed' /\ OutlastsTheAck'
  <2>1. UNCHANGED dedupVars
    BY <1>8 DEF Shed, HopFeedView
  <2>2. (\A t \in Nat : Marked(t) => Marked(t)') /\ clock <= clock' /\ clock' \in Nat
    BY <1>0, <2>1, MarkStays DEF dedupVars
  <2>3. early' # Unbound => early # Unbound /\ earlyAt' = earlyAt
    BY <1>8 DEF Shed, HopFeedView
  <2>4. feed' = feed \/ feed' = <<>>
    <3>1. feed # <<>> => Len(feed) = 1
      BY <1>0 DEF OutlastsTheFeed
    <3>2. Len(feed) <= 1
      BY <3>1
    <3>3. CASE HopFeedView
      BY <3>2, <3>3, <1>0, TrimIsSuffix, SuffixOf DEF HopFeedView
    <3>4. CASE \E k \in DOMAIN feed : feed' = SubSeq(feed, k + 1, Len(feed))
      BY <3>1, <3>4, <1>0
    <3>. QED
      BY <1>8, <3>3, <3>4 DEF Shed
  <2>. QED
    BY <1>2, <2>2, <2>3, <2>4
<1>9. ASSUME \/ TimePasses \/ \E x \in Receiver : Offer(x) \/ PeerStatus(x)
             \/ \E n \in DOMAIN offers, how \in {"yes", "no", "unforwarded"} : Answer(n, how)
             \/ UNCHANGED crossingsVars
      PROVE  OutlastsTheFeed' /\ OutlastsTheAck'
  <2>1. feed' = feed /\ early' = early /\ earlyAt' = earlyAt
    BY <1>9 DEF TimePasses, Offer, PeerStatus, Answer, crossingsVars, hopVars
  <2>2. UNCHANGED dedupVars \/ Elapses
    BY <1>9 DEF TimePasses, Offer, PeerStatus, Answer, crossingsVars
  <2>3. clock <= clock' /\ clock' \in Nat
    BY <1>0, <2>2, DedupAssumption DEF dedupVars, Elapses
  <2>4. \A t \in Nat : Marked(t) => Marked(t)'
    BY <1>0, <2>2, MarkStays
  <2>. QED
    BY <1>2, <2>1, <2>3, <2>4
<1>10. ASSUME Restarts PROVE OutlastsTheFeed' /\ OutlastsTheAck'
  BY <1>10 DEF Restarts, OutlastsTheFeed, OutlastsTheAck
<1>. QED
  BY <1>5, <1>6, <1>7, <1>8, <1>9, <1>10 DEF CrossingsNext

-----------------------------------------------------------------------------
(* A hop in the feed was delivered where it says and refused where it says, *)
(* whatever the windows (observeHopAttempt, confirmHop, rejectHopAttempt).  *)
THEOREM FeedIsTrue == CrossingsSpec => []HopsAreTrue
<1>1. CrossingsInit => TrueInv /\ DedupInv
  BY TrueInitially, DedupInitially DEF CrossingsInit
<1>2. TrueInv /\ DedupInv /\ [CrossingsNext]_crossingsVars => TrueInv' /\ DedupInv'
  BY TrueStep, CrossingsStep, DedupStep DEF TrueInv, DedupInv, DedupTypeOK
<1>3. TrueInv => HopsAreTrue
  BY DEF TrueInv
<1>. QED
  BY <1>1, <1>2, <1>3, PTL DEF CrossingsSpec

(* And it is in the feed once, when the duplicate set outlasts what an      *)
(* early acknowledgement and the feed may outlive between them (the code's  *)
(* 24 hours, a minute and a minute, of 48 hours).                           *)
THEOREM FeedShowsItOnce ==
    ASSUME HopWindow + CorrelationWindow + ScanEvery <= Span
    PROVE  CrossingsSpec => []HopsAreDeliveries
<1>1. CrossingsInit => CrossingsInv
  BY TrueInitially, DedupInitially, OnceInitially DEF CrossingsInit, CrossingsInv
<1>2. CrossingsInv /\ [CrossingsNext]_crossingsVars => CrossingsInv'
  BY TrueStep, CrossingsStep, DedupStep, OnceStep DEF CrossingsInv, TrueInv, DedupInv, DedupTypeOK
<1>3. CrossingsInv => HopsAreDeliveries
  <2>1. CrossingsInv => Len(feed) <= 1
    <3>1. feed = <<>> => Len(feed) = 0
      OBVIOUS
    <3>2. CrossingsInv /\ feed # <<>> => Len(feed) = 1
      BY DEF CrossingsInv, OutlastsTheFeed
    <3>3. CrossingsInv => Len(feed) \in {0, 1}
      BY <3>1, <3>2
    <3>4. \A n \in {0, 1} : n <= 1
      OBVIOUS
    <3>. QED
      BY <3>3, <3>4
  <2>. QED
    BY <2>1 DEF CrossingsInv, TrueInv, HopsAreDeliveries
<1>. QED
  BY <1>1, <1>2, <1>3, PTL DEF CrossingsSpec

-----------------------------------------------------------------------------
(***************************************************************************)
(* The brain history, on a disk whose writes are whole: the file says of   *)
(* each bucket what was saved of it, a write under way says as much or     *)
(* more, and what the process counts in a bucket it saw the whole of is    *)
(* what it has marked there.                                               *)
(***************************************************************************)
BrainLine == [t : Bucket, held : Nat]

BrainTypes ==
    /\ nowBucket \in Bucket /\ startedIn \in Nat /\ startedIn <= nowBucket
    /\ crossed \subseteq Bucket \X Measured /\ marked \subseteq Bucket \X Measured
    /\ wantedIn \in [Measured -> 0..MaxBuckets] /\ dirtyBuckets \subseteq Bucket
    /\ heldIn \in [Bucket -> Nat] /\ savedIn \in [Bucket -> Nat]

(* The last line of a bucket says h; no line says nothing. *)
Tells(f, b, h) ==
    \/ h = 0 /\ \A k \in DOMAIN f : f[k].t # b
    \/ \E k \in DOMAIN f : f[k].t = b /\ f[k].held = h /\ \A j \in DOMAIN f : f[j].t = b => j <= k

FileIsSaved == brainLines \in Seq(BrainLine) /\ \A b \in Bucket : Tells(brainLines, b, savedIn[b])

(* One line of each bucket, that says what h says of it. *)
OneLineEach(ls) ==
    ls \in Seq(BrainLine) /\ \A j, k \in DOMAIN ls : ls[j].t = ls[k].t => j = k
WriteIsTrue ==
    /\ OneLineEach(toWrite)
    /\ \A k \in DOMAIN toWrite :
         savedIn[toWrite[k].t] <= toWrite[k].held /\ toWrite[k].held <= heldIn[toWrite[k].t]
    /\ saver \notin {"writing", "compacting"} => toWrite = <<>>
    /\ saver = "compacting" /\ toWrite # <<>> =>
         \A b \in Bucket : savedIn[b] > 0 => \E k \in DOMAIN toWrite : toWrite[k].t = b

NothingAhead ==
    /\ \A b \in Bucket : b > nowBucket => heldIn[b] = 0 /\ savedIn[b] = 0
    /\ \A b \in Bucket, g \in Measured : <<b, g>> \in crossed => b <= nowBucket

MarkedIn(b) == {g \in Measured : <<b, g>> \in marked}
MarkedIsSeen ==
    /\ marked \subseteq crossed
    /\ \A g \in Measured : wantedIn[g] > 0 => <<wantedIn[g], g>> \in crossed
    /\ \A b \in Bucket : b > startedIn => heldIn[b] = Cardinality(MarkedIn(b))

BrainKept ==
    /\ BrainTypes /\ ~orphan /\ FileIsSaved /\ WriteIsTrue /\ KillLosesLittle
    /\ NothingAhead /\ MarkedIsSeen
BrainInv == brainFaults = {} => BrainKept

(* The lines of some buckets: one of each, in some order. *)
LEMMA LinesTell ==
    ASSUME NEW S \in SUBSET Bucket, NEW h \in [Bucket -> Nat]
    PROVE  /\ OneLineEach(LinesOf(S, h))
           /\ \A k \in DOMAIN LinesOf(S, h) :
                LinesOf(S, h)[k].t \in S /\ LinesOf(S, h)[k].held = h[LinesOf(S, h)[k].t]
           /\ \A b \in S : \E k \in DOMAIN LinesOf(S, h) : LinesOf(S, h)[k].t = b
<1>. DEFINE n == Cardinality(S)
            f == SetToSeq(S)
            ls == LinesOf(S, h)
<1>1. IsFiniteSet(S)
  <2>1. IsFiniteSet(Bucket)
    BY BrainAssumption, FS_Interval DEF Bucket
  <2>. QED
    BY <2>1, FS_Subset
<1>2. n \in Nat /\ ExistsBijection(1..n, S)
  BY <1>1, FS_CardinalityType
<1>3. f \in [1..n -> S] /\ IsInjective(f)
  <2>1. \E g \in [1..n -> S] : IsInjective(g)
    BY <1>2 DEF ExistsBijection, Bijection, Injection
  <2>. QED
    BY <2>1 DEF SetToSeq
<1>4. \A b \in S : \E k \in 1..n : f[k] = b
  <2>1. IsFiniteSet(1..n) /\ Cardinality(1..n) = n
    BY <1>2, FS_Interval
  <2>2. ASSUME NEW b \in S, \A k \in 1..n : f[k] # b PROVE FALSE
    <3>1. IsFiniteSet(S \ {b}) /\ Cardinality(S \ {b}) = n - 1
      BY <1>1, FS_RemoveElement
    <3>2. f \in Injection(1..n, S \ {b})
      BY <1>3, <2>2 DEF Injection
    <3>3. Cardinality(1..n) <= Cardinality(S \ {b})
      BY <3>1, <3>2, FS_Injection
    <3>. QED
      BY <1>2, <2>1, <3>1, <3>3
  <2>. QED
    BY <2>2
<1>5. ls = [k \in 1..n |-> [t |-> f[k], held |-> h[f[k]]]]
  BY DEF LinesOf, bucketLine
<1>. HIDE DEF n, f, ls
<1>6. /\ DOMAIN ls = 1..n
      /\ \A k \in 1..n : ls[k] \in BrainLine /\ ls[k].t = f[k] /\ ls[k].held = h[f[k]]
  BY <1>3, <1>5 DEF BrainLine
<1>7. ls \in Seq(BrainLine)
  BY <1>2, <1>5, <1>6
<1>8. \A j, k \in DOMAIN ls : ls[j].t = ls[k].t => j = k
  BY <1>3, <1>6 DEF IsInjective
<1>. QED
  BY SMTT(30), <1>3, <1>4, <1>6, <1>7, <1>8 DEF OneLineEach, ls

(* What a file tells is what a replay of it finds. *)
LEMMA ReplayTells ==
    ASSUME NEW f \in Seq(BrainLine), NEW s \in [Bucket -> Nat], \A b \in Bucket : Tells(f, b, s[b])
    PROVE  UsableBrains(f) /\ ReplayBrains(f) = s
<1>1. DOMAIN f = 1..Len(f) /\ Len(f) \in Nat
  OBVIOUS
<1>2. Broken(f) = {}
  <2>1. \A k \in DOMAIN f : f[k].t \in Nat \ {0}
    <3>1. \A k \in DOMAIN f : f[k] \in BrainLine
      BY <1>1
    <3>. QED
      BY <3>1, BrainAssumption DEF BrainLine, Bucket
  <2>2. TornLine.t = 0 /\ BrokenLine.t = -1
    BY DEF TornLine, BrokenLine
  <2>. QED
    BY <2>1, <2>2 DEF Broken
<1>3. ASSUME NEW b \in Bucket
      PROVE  LET at == {k \in DOMAIN f \ Broken(f) : f[k].t = b}
             IN  (IF at = {} THEN 0 ELSE f[CHOOSE k \in at : \A j \in at : j <= k].held) = s[b]
  <2>. DEFINE at == {k \in DOMAIN f : f[k].t = b}
  <2>1. at = {k \in DOMAIN f \ Broken(f) : f[k].t = b}
    BY <1>2
  <2>2. CASE \A k \in DOMAIN f : f[k].t # b
    <3>1. at = {} /\ s[b] = 0
      BY <2>2 DEF Tells
    <3>. QED
      BY <2>1, <3>1
  <2>3. CASE ~\A k \in DOMAIN f : f[k].t # b
    <3>1. PICK k \in DOMAIN f : f[k].t = b /\ f[k].held = s[b] /\ \A j \in DOMAIN f : f[j].t = b => j <= k
      BY <2>3 DEF Tells
    <3>2. k \in at /\ \A j \in at : j <= k
      BY <3>1
    <3>3. ASSUME NEW m \in at, \A j \in at : j <= m PROVE m = k
      <4>1. m <= k /\ k <= m /\ m \in Nat /\ k \in Nat
        BY <1>1, <3>2, <3>3
      <4>. QED
        BY <4>1
    <3>. HIDE DEF at
    <3>4. (CHOOSE m \in at : \A j \in at : j <= m) = k
      BY <3>2, <3>3
    <3>5. (IF at = {} THEN 0 ELSE f[CHOOSE m \in at : \A j \in at : j <= m].held) = s[b]
      BY <3>1, <3>2, <3>4
    <3>. QED
      BY <2>1, <3>5
  <2>. QED
    BY <2>2, <2>3
<1>4. UsableBrains(f)
  BY <1>2 DEF UsableBrains
<1>5. ReplayBrains(f) = [b \in Bucket |-> s[b]]
  BY <1>3 DEF ReplayBrains
<1>. QED
  BY <1>4, <1>5

(* What lines that are written say of each bucket, and what they leave said. *)
LEMMA SavedTells ==
    ASSUME NEW ls, OneLineEach(ls), savedIn \in [Bucket -> Nat]
    PROVE  /\ SavedWith(ls) \in [Bucket -> Nat]
           /\ \A k \in DOMAIN ls : SavedWith(ls)[ls[k].t] = ls[k].held
           /\ \A b \in Bucket : (\A k \in DOMAIN ls : ls[k].t # b) => SavedWith(ls)[b] = savedIn[b]
<1>1. ls \in Seq(BrainLine) /\ \A j, k \in DOMAIN ls : ls[j].t = ls[k].t => j = k
  BY DEF OneLineEach
<1>2. \A k \in DOMAIN ls : ls[k].t \in Bucket /\ ls[k].held \in Nat
  <2>1. \A k \in DOMAIN ls : ls[k] \in BrainLine
    BY <1>1
  <2>. QED
    BY <2>1 DEF BrainLine
<1>3. ASSUME NEW k \in DOMAIN ls PROVE (CHOOSE j \in DOMAIN ls : ls[j].t = ls[k].t) = k
  BY <1>1
<1>4. ASSUME NEW k \in DOMAIN ls PROVE SavedWith(ls)[ls[k].t] = ls[k].held
  BY <1>2, <1>3 DEF SavedWith
<1>5. ASSUME NEW b \in Bucket, \A k \in DOMAIN ls : ls[k].t # b
      PROVE  SavedWith(ls)[b] = savedIn[b]
  BY <1>5 DEF SavedWith
<1>6. SavedWith(ls) \in [Bucket -> Nat]
  <2>1. \A b \in Bucket : SavedWith(ls)[b] \in Nat
    BY <1>2, <1>4, <1>5
  <2>2. SavedWith(ls) = [b \in Bucket |-> SavedWith(ls)[b]]
    BY DEF SavedWith
  <2>. QED
    BY <2>1, <2>2
<1>. QED
  BY <1>4, <1>5, <1>6

(* Whole lines behind whole lines: the file tells what the lines say, and of *)
(* the other buckets what it did.                                            *)
LEMMA AppendTells ==
    ASSUME NEW f \in Seq(BrainLine), NEW ls, OneLineEach(ls)
    PROVE  /\ AppendLines(f, ls) = f \o ls /\ f \o ls \in Seq(BrainLine)
           /\ \A k \in DOMAIN ls : Tells(f \o ls, ls[k].t, ls[k].held)
           /\ \A b, h : Tells(f, b, h) /\ (\A k \in DOMAIN ls : ls[k].t # b) => Tells(f \o ls, b, h)
<1>1. ls \in Seq(BrainLine) /\ \A j, k \in DOMAIN ls : ls[j].t = ls[k].t => j = k
  BY DEF OneLineEach
<1>. DEFINE g == f \o ls
            n == Len(f)
<1>2. /\ g \in Seq(BrainLine) /\ n \in Nat /\ Len(ls) \in Nat
      /\ DOMAIN g = 1..n + Len(ls) /\ DOMAIN f = 1..n /\ DOMAIN ls = 1..Len(ls)
      /\ \A k \in 1..n : g[k] = f[k]
      /\ \A k \in 1..Len(ls) : g[n + k] = ls[k]
  BY <1>1
<1>3. AppendLines(f, ls) = g
  <2>1. CASE f = <<>> \/ ls = <<>>
    BY <2>1 DEF AppendLines
  <2>2. CASE f # <<>>
    <3>1. Last(f) \in BrainLine
      BY <1>2, <2>2 DEF Last
    <3>2. Last(f) # TornLine
      BY <3>1, BrainAssumption DEF BrainLine, Bucket, TornLine
    <3>. QED
      BY <3>2 DEF AppendLines
  <2>. QED
    BY <2>1, <2>2
<1>. HIDE DEF g, n
<1>4. \A j \in DOMAIN g : j \in 1..n \/ \E k \in DOMAIN ls : j = n + k
  <2>1. ASSUME NEW j \in DOMAIN g, j \notin 1..n PROVE j = n + (j - n) /\ j - n \in DOMAIN ls
    BY <1>2, <2>1
  <2>. QED
    BY <2>1
<1>5. ASSUME NEW k \in DOMAIN ls PROVE Tells(g, ls[k].t, ls[k].held)
  <2>1. n + k \in DOMAIN g /\ g[n + k] = ls[k]
    BY <1>2
  <2>2. ASSUME NEW j \in DOMAIN g, g[j].t = ls[k].t PROVE j <= n + k
    <3>1. CASE j \in 1..n
      BY <1>2, <3>1
    <3>2. ASSUME NEW i \in DOMAIN ls, j = n + i PROVE j <= n + k
      <4>1. i = k
        BY <1>1, <1>2, <2>2, <3>2
      <4>. QED
        BY <1>2, <3>2, <4>1
    <3>. QED
      BY <1>4, <3>1, <3>2
  <2>. QED
    BY <2>1, <2>2 DEF Tells
<1>6. ASSUME NEW b, NEW h, Tells(f, b, h), \A k \in DOMAIN ls : ls[k].t # b
      PROVE  Tells(g, b, h)
  <2>1. \A j \in DOMAIN g : g[j].t = b => j \in 1..n
    BY <1>2, <1>4, <1>6
  <2>2. CASE h = 0 /\ \A k \in DOMAIN f : f[k].t # b
    BY <1>2, <2>1, <2>2 DEF Tells
  <2>3. ASSUME NEW k \in DOMAIN f, f[k].t = b, f[k].held = h, \A j \in DOMAIN f : f[j].t = b => j <= k
        PROVE  Tells(g, b, h)
    <3>1. k \in DOMAIN g /\ g[k] = f[k]
      BY <1>2
    <3>2. \A j \in DOMAIN g : g[j].t = b => j <= k
      BY <1>2, <2>1, <2>3
    <3>. QED
      BY <2>3, <3>1, <3>2 DEF Tells
  <2>. QED
    BY <1>6, <2>2, <2>3 DEF Tells
<1>. QED
  BY <1>2, <1>3, <1>5, <1>6 DEF g

(* What is counted in a bucket is marked once more, if it was not. *)
LEMMA OneMoreMarked ==
    ASSUME BrainTypes, NEW b \in Bucket, NEW g \in Measured, <<b, g>> \notin marked,
           marked' = marked \cup {<<b, g>>}
    PROVE  /\ \A c \in Bucket : Cardinality(MarkedIn(c)) \in Nat
           /\ \A c \in Bucket :
                Cardinality(MarkedIn(c)') = Cardinality(MarkedIn(c)) + (IF c = b THEN 1 ELSE 0)
<1>1. \A c : MarkedIn(c) \in SUBSET Measured
  BY DEF MarkedIn
<1>2. \A c : IsFiniteSet(MarkedIn(c))
  BY <1>1, BrainAssumption, FS_Subset
<1>3. \A c : Cardinality(MarkedIn(c)) \in Nat
  BY <1>2, FS_CardinalityType
<1>4. MarkedIn(b)' = MarkedIn(b) \cup {g} /\ g \notin MarkedIn(b)
  BY DEF MarkedIn
<1>5. \A c \in Bucket : c # b => MarkedIn(c)' = MarkedIn(c)
  BY DEF MarkedIn
<1>6. Cardinality(MarkedIn(b)') = Cardinality(MarkedIn(b)) + 1
  BY <1>2, <1>4, FS_AddElement
<1>7. ASSUME NEW c \in Bucket
      PROVE  Cardinality(MarkedIn(c)') = Cardinality(MarkedIn(c)) + (IF c = b THEN 1 ELSE 0)
  <2>1. CASE c = b
    BY <1>6, <2>1
  <2>2. CASE c # b
    BY <1>3, <1>5, <2>2
  <2>. QED
    BY <2>1, <2>2
<1>. QED
  BY <1>3, <1>7

(* A genome is measured into a bucket that has seen it. *)
LEMMA MeasuringKeeps ==
    ASSUME BrainKept, NEW b \in Bucket, NEW g \in Measured, observeBrainHeld(b, g),
           b <= nowBucket, crossed \subseteq crossed', <<b, g>> \in crossed',
           UNCHANGED <<nowBucket, startedIn, saver, savedIn, brainLines, toWrite, orphan>>,
           crossed' \subseteq Bucket \X Measured, wantedIn' \in [Measured -> 0..MaxBuckets],
           \A c \in Bucket, e \in Measured : <<c, e>> \in crossed' => c <= nowBucket,
           \A e \in Measured : wantedIn'[e] > 0 => <<wantedIn'[e], e>> \in crossed'
    PROVE  BrainKept'
<1>0. /\ BrainTypes /\ ~orphan /\ FileIsSaved /\ WriteIsTrue /\ KillLosesLittle
      /\ NothingAhead /\ MarkedIsSeen
      /\ Bucket \subseteq Nat /\ nowBucket \in Nat /\ startedIn \in Nat
  BY SMTT(30), BrainAssumption DEF BrainKept, BrainTypes, Bucket
<1>1. /\ heldIn \in [Bucket -> Nat] /\ marked' \subseteq crossed'
      /\ marked' \subseteq Bucket \X Measured /\ dirtyBuckets' \subseteq Bucket
  <2>1. /\ heldIn \in [Bucket -> Nat] /\ marked \subseteq crossed
        /\ marked \subseteq Bucket \X Measured /\ dirtyBuckets \subseteq Bucket
    BY <1>0 DEF BrainTypes, MarkedIsSeen
  <2>2. /\ (marked' = marked \/ marked' = marked \cup {<<b, g>>})
        /\ (dirtyBuckets' = dirtyBuckets \/ dirtyBuckets' = dirtyBuckets \cup {b})
    BY DEF observeBrainHeld, aggVars
  <2>. QED
    BY <2>1, <2>2
<1>2. /\ heldIn' \in [Bucket -> Nat] /\ \A c \in Bucket : heldIn[c] <= heldIn'[c]
      /\ \A c \in Bucket : c > nowBucket => heldIn'[c] = heldIn[c]
      /\ \A c \in Bucket : c > startedIn => heldIn'[c] = Cardinality(MarkedIn(c)')
  <2>1. CASE <<b, g>> \in marked
    <3>1. UNCHANGED aggVars
      BY <2>1 DEF observeBrainHeld
    <3>2. heldIn' = heldIn /\ marked' = marked
      BY <3>1 DEF aggVars
    <3>3. \A c \in Bucket : MarkedIn(c)' = MarkedIn(c)
      BY <3>2 DEF MarkedIn
    <3>. QED
      BY <1>0, <1>1, <3>2, <3>3 DEF MarkedIsSeen
  <2>2. CASE <<b, g>> \notin marked
    <3>1. /\ marked' = marked \cup {<<b, g>>}
          /\ heldIn' = [heldIn EXCEPT ![b] = @ + 1]
      BY <2>2 DEF observeBrainHeld
    <3>2. \A c \in Bucket : heldIn'[c] = heldIn[c] + (IF c = b THEN 1 ELSE 0)
      BY <1>1, <3>1
    <3>3. heldIn' \in [Bucket -> Nat] /\ \A c \in Bucket : heldIn[c] <= heldIn'[c]
      BY <1>1, <3>1
    <3>4. \A c \in Bucket : c > nowBucket => heldIn'[c] = heldIn[c]
      <4>1. ASSUME NEW c \in Bucket, c > nowBucket PROVE c # b /\ heldIn[c] \in Nat
        BY <1>0, <1>1, <4>1
      <4>. QED
        BY <3>2, <4>1
    <3>5. ASSUME NEW c \in Bucket, c > startedIn PROVE heldIn'[c] = Cardinality(MarkedIn(c)')
      <4>1. Cardinality(MarkedIn(c)') = Cardinality(MarkedIn(c)) + (IF c = b THEN 1 ELSE 0)
        BY <1>0, <2>2, <3>1, OneMoreMarked
      <4>2. heldIn[c] = Cardinality(MarkedIn(c))
        BY <1>0, <3>5 DEF MarkedIsSeen
      <4>. QED
        BY <3>2, <4>1, <4>2
    <3>. QED
      BY <3>3, <3>4, <3>5
  <2>. QED
    BY <2>1, <2>2
<1>3. BrainTypes'
  BY <1>0, <1>1, <1>2 DEF BrainTypes
<1>4. FileIsSaved' /\ ~orphan'
  BY <1>0 DEF FileIsSaved
<1>5. WriteIsTrue'
  <2>1. \A k \in DOMAIN toWrite : toWrite[k].t \in Bucket /\ toWrite[k].held \in Nat
    <3>1. \A k \in DOMAIN toWrite : toWrite[k] \in BrainLine
      BY <1>0 DEF WriteIsTrue, OneLineEach
    <3>. QED
      BY <3>1 DEF BrainLine
  <2>2. \A k \in DOMAIN toWrite :
          savedIn[toWrite[k].t] <= toWrite[k].held /\ toWrite[k].held <= heldIn'[toWrite[k].t]
    <3>1. ASSUME NEW k \in DOMAIN toWrite
          PROVE  savedIn[toWrite[k].t] <= toWrite[k].held /\ toWrite[k].held <= heldIn'[toWrite[k].t]
      <4>1. savedIn[toWrite[k].t] <= toWrite[k].held /\ toWrite[k].held <= heldIn[toWrite[k].t]
        BY <1>0 DEF WriteIsTrue
      <4>. QED
        BY <1>1, <1>2, <2>1, <4>1
    <3>. QED
      BY <3>1
  <2>. QED
    BY <1>0, <2>2 DEF WriteIsTrue
<1>6. KillLosesLittle'
  <2>1. ASSUME NEW c \in Bucket, saver # "down" PROVE heldIn'[c] >= savedIn[c]
    <3>1. heldIn[c] >= savedIn[c] /\ savedIn[c] \in Nat /\ heldIn[c] \in Nat /\ heldIn'[c] \in Nat
      BY <1>0, <1>1, <1>2, <2>1 DEF KillLosesLittle, BrainTypes
    <3>. QED
      BY <1>2, <3>1
  <2>. QED
    BY <2>1 DEF KillLosesLittle
<1>7. NothingAhead' /\ MarkedIsSeen'
  BY <1>0, <1>1, <1>2 DEF NothingAhead, MarkedIsSeen
<1>. QED
  BY <1>3, <1>4, <1>5, <1>6, <1>7 DEF BrainKept

(* A crossing, an answer. *)
LEMMA CrossingKeeps ==
    ASSUME BrainKept, NEW g \in Measured, CrossesAgain(g) \/ GenomeArrives(g)
    PROVE  BrainKept'
<1>0. /\ BrainTypes /\ ~orphan /\ FileIsSaved /\ WriteIsTrue /\ KillLosesLittle
      /\ NothingAhead /\ MarkedIsSeen
      /\ Bucket = 1..MaxBuckets /\ MaxBuckets \in Nat \ {0} /\ nowBucket \in Bucket
  BY BrainAssumption DEF BrainKept, BrainTypes, Bucket
<1>1. /\ UNCHANGED <<nowBucket, startedIn, saver, savedIn, brainLines, toWrite, orphan>>
  BY DEF CrossesAgain, GenomeArrives, saveVars
<1>2. /\ wantedIn \in [Measured -> 0..MaxBuckets] /\ crossed \subseteq Bucket \X Measured
  BY <1>0 DEF BrainTypes
<1>3. CASE CrossesAgain(g)
  <2>1. crossed' = crossed \cup {<<nowBucket, g>>}
    BY <1>3 DEF CrossesAgain
  <2>2. /\ crossed \subseteq crossed' /\ <<nowBucket, g>> \in crossed'
        /\ crossed' \subseteq Bucket \X Measured
        /\ \A c \in Bucket, e \in Measured : <<c, e>> \in crossed' => c <= nowBucket
    BY <1>0, <1>2, <2>1 DEF NothingAhead
  <2>3. /\ wantedIn' \in [Measured -> 0..MaxBuckets]
        /\ \A e \in Measured : wantedIn'[e] > 0 => <<wantedIn'[e], e>> \in crossed'
    <3>1. CASE g \in blobs
      <4>1. wantedIn' = wantedIn
        BY <1>3, <3>1 DEF CrossesAgain
      <4>. QED
        BY <1>0, <1>2, <2>2, <4>1 DEF MarkedIsSeen
    <3>2. CASE g \notin blobs
      <4>1. wantedIn' = [wantedIn EXCEPT ![g] = IF @ = 0 THEN nowBucket ELSE @]
        BY <1>3, <3>2 DEF CrossesAgain
      <4>2. \A e \in Measured : wantedIn'[e] = wantedIn[e] \/ (e = g /\ wantedIn'[e] = nowBucket)
        BY <1>2, <4>1
      <4>3. wantedIn' \in [Measured -> 0..MaxBuckets]
        BY <1>0, <1>2, <4>1
      <4>. QED
        BY <1>0, <2>2, <4>2, <4>3 DEF MarkedIsSeen
    <3>. QED
      BY <3>1, <3>2
  <2>4. CASE g \in blobs
    <3>1. observeBrainHeld(nowBucket, g)
      BY <1>3, <2>4 DEF CrossesAgain
    <3>2. nowBucket <= nowBucket
      BY <1>0
    <3>. QED
      BY <1>0, <1>1, <2>2, <2>3, <3>1, <3>2, MeasuringKeeps DEF BrainKept
  <2>5. CASE g \notin blobs
    <3>1. UNCHANGED aggVars
      BY <1>3, <2>5 DEF CrossesAgain
    <3>2. heldIn' = heldIn /\ marked' = marked /\ dirtyBuckets' = dirtyBuckets
      BY <3>1 DEF aggVars
    <3>3. BrainTypes' /\ ~orphan' /\ KillLosesLittle'
      BY <1>0, <1>1, <2>2, <2>3, <3>2 DEF BrainTypes, KillLosesLittle
    <3>4. FileIsSaved' /\ WriteIsTrue'
      BY <1>0, <1>1, <3>2 DEF FileIsSaved, WriteIsTrue
    <3>5. NothingAhead'
      BY <1>0, <1>1, <2>2, <3>2 DEF NothingAhead
    <3>6. MarkedIsSeen'
      <4>1. \A b \in Bucket : MarkedIn(b)' = MarkedIn(b)
        BY <3>2 DEF MarkedIn
      <4>. QED
        BY <1>0, <1>1, <2>2, <2>3, <3>2, <4>1 DEF MarkedIsSeen
    <3>. QED
      BY <3>3, <3>4, <3>5, <3>6 DEF BrainKept
  <2>. QED
    BY <2>4, <2>5
<1>4. CASE GenomeArrives(g)
  <2>. DEFINE b == wantedIn[g]
  <2>1. /\ wantedIn' = [wantedIn EXCEPT ![g] = 0] /\ crossed' = crossed
        /\ observeBrainHeld(b, g) /\ b > 0
    BY <1>4 DEF GenomeArrives
  <2>2. b \in Bucket /\ <<b, g>> \in crossed
    BY <1>0, <1>2, <2>1 DEF MarkedIsSeen
  <2>3. b <= nowBucket
    BY <1>0, <2>2 DEF NothingAhead
  <2>4. wantedIn' \in [Measured -> 0..MaxBuckets]
    BY <1>0, <1>2, <2>1
  <2>5. \A e \in Measured : wantedIn'[e] > 0 => <<wantedIn'[e], e>> \in crossed'
    <3>1. \A e \in Measured : wantedIn'[e] > 0 => wantedIn'[e] = wantedIn[e]
      BY <1>2, <2>1
    <3>. QED
      BY <1>0, <2>1, <3>1 DEF MarkedIsSeen
  <2>6. \A c \in Bucket, e \in Measured : <<c, e>> \in crossed' => c <= nowBucket
    BY <1>0, <2>1 DEF NothingAhead
  <2>. HIDE DEF b
  <2>. QED
    BY <1>0, <1>1, <1>2, <2>1, <2>2, <2>3, <2>4, <2>5, <2>6, MeasuringKeeps DEF BrainKept
<1>. QED
  BY <1>3, <1>4

(* The five minutes end. *)
LEMMA BucketEndKeeps ==
    ASSUME BrainKept, BucketEnds
    PROVE  BrainKept'
<1>0. /\ BrainTypes /\ ~orphan /\ FileIsSaved /\ WriteIsTrue /\ KillLosesLittle
      /\ NothingAhead /\ MarkedIsSeen
      /\ Bucket = 1..MaxBuckets /\ MaxBuckets \in Nat \ {0}
      /\ nowBucket \in Bucket /\ startedIn \in Nat /\ startedIn <= nowBucket
  BY BrainAssumption DEF BrainKept, BrainTypes, Bucket
<1>1. /\ nowBucket' = nowBucket + 1 /\ nowBucket' \in Bucket /\ startedIn' = startedIn
      /\ UNCHANGED <<crossed, wantedIn, heldIn, marked, dirtyBuckets, saver, savedIn>>
      /\ UNCHANGED <<brainLines, toWrite, orphan>>
  BY <1>0 DEF BucketEnds, aggVars, saveVars
<1>2. startedIn <= nowBucket' /\ \A b \in Bucket : (b > nowBucket' => b > nowBucket) /\ (b <= nowBucket => b <= nowBucket')
  BY <1>0, <1>1
<1>3. BrainTypes' /\ ~orphan' /\ KillLosesLittle'
  BY <1>0, <1>1, <1>2 DEF BrainTypes, KillLosesLittle
<1>4. FileIsSaved' /\ WriteIsTrue'
  BY <1>0, <1>1 DEF FileIsSaved, WriteIsTrue
<1>5. NothingAhead'
  BY <1>0, <1>1, <1>2 DEF NothingAhead
<1>6. MarkedIsSeen'
  <2>1. \A b \in Bucket : MarkedIn(b)' = MarkedIn(b)
    BY <1>1 DEF MarkedIn
  <2>. QED
    BY <1>0, <1>1, <2>1 DEF MarkedIsSeen
<1>. QED
  BY <1>3, <1>4, <1>5, <1>6 DEF BrainKept

(* The lines of a save, or of a compaction, are taken. *)
LEMMA TakingKeeps ==
    ASSUME BrainKept, SaveBrains \/ BeginRewrite
    PROVE  BrainKept'
<1>0. /\ BrainTypes /\ ~orphan /\ FileIsSaved /\ WriteIsTrue /\ KillLosesLittle
      /\ NothingAhead /\ MarkedIsSeen /\ heldIn \in [Bucket -> Nat] /\ savedIn \in [Bucket -> Nat]
      /\ dirtyBuckets \subseteq Bucket
  BY DEF BrainKept, BrainTypes
<1>1. /\ UNCHANGED <<nowBucket, startedIn, crossed, wantedIn, heldIn, marked>>
      /\ UNCHANGED <<brainLines, savedIn, orphan>> /\ dirtyBuckets' = {}
  BY DEF SaveBrains, BeginRewrite, factVars
<1>2. BrainTypes' /\ ~orphan' /\ FileIsSaved' /\ NothingAhead'
  <2>1. BrainTypes' /\ ~orphan' /\ FileIsSaved'
    BY <1>0, <1>1 DEF BrainTypes, FileIsSaved
  <2>2. NothingAhead'
    BY <1>0, <1>1 DEF NothingAhead
  <2>. QED
    BY <2>1, <2>2
<1>3. MarkedIsSeen'
  <2>1. \A b \in Bucket : MarkedIn(b)' = MarkedIn(b)
    BY <1>1 DEF MarkedIn
  <2>. QED
    BY <1>0, <1>1, <2>1 DEF MarkedIsSeen
<1>4. saver # "down" /\ saver' \in {"writing", "compacting"}
  BY DEF SaveBrains, BeginRewrite
<1>5. KillLosesLittle'
  BY <1>0, <1>1, <1>4 DEF KillLosesLittle
<1>6. PICK S \in SUBSET Bucket :
        /\ toWrite' = LinesOf(S, heldIn) /\ (saver' = "compacting" => S = LiveBuckets)
  <2>1. CASE SaveBrains
    BY <1>0, <2>1 DEF SaveBrains
  <2>2. CASE BeginRewrite
    <3>1. LiveBuckets \in SUBSET Bucket
      BY DEF LiveBuckets
    <3>. QED
      BY <2>2, <3>1 DEF BeginRewrite
  <2>. QED
    BY <2>1, <2>2
<1>. DEFINE ls == LinesOf(S, heldIn)
<1>7. /\ OneLineEach(ls)
      /\ \A k \in DOMAIN ls : ls[k].t \in S /\ ls[k].held = heldIn[ls[k].t]
      /\ \A b \in S : \E k \in DOMAIN ls : ls[k].t = b
  BY <1>0, LinesTell
<1>. HIDE DEF ls
<1>8. \A b \in Bucket : savedIn[b] \in Nat /\ heldIn[b] \in Nat /\ savedIn[b] <= heldIn[b]
  BY <1>0, <1>4 DEF KillLosesLittle
<1>9. toWrite' = ls
  BY <1>6 DEF ls
<1>10. \A k \in DOMAIN ls : savedIn[ls[k].t] <= ls[k].held /\ ls[k].held <= heldIn[ls[k].t]
  BY <1>7, <1>8
<1>11. ASSUME saver' = "compacting", NEW b \in Bucket, savedIn[b] > 0
       PROVE  \E k \in DOMAIN ls : ls[k].t = b
  <2>1. heldIn[b] > 0
    BY <1>8, <1>11
  <2>2. b \in S
    BY <1>6, <1>11, <2>1 DEF LiveBuckets
  <2>. QED
    BY <1>7, <2>2
<1>12. WriteIsTrue'
  BY <1>1, <1>4, <1>7, <1>9, <1>10, <1>11 DEF WriteIsTrue
<1>. QED
  BY <1>2, <1>3, <1>5, <1>12 DEF BrainKept

(* The lines land, behind the others or in their place. *)
LEMMA LandingKeeps ==
    ASSUME brainFaults = {}, BrainKept, WriteLands \/ RenameInPlace
    PROVE  BrainKept'
<1>0. /\ BrainTypes /\ ~orphan /\ FileIsSaved /\ WriteIsTrue /\ KillLosesLittle
      /\ NothingAhead /\ MarkedIsSeen /\ heldIn \in [Bucket -> Nat] /\ savedIn \in [Bucket -> Nat]
  BY DEF BrainKept, BrainTypes
<1>1. /\ UNCHANGED <<nowBucket, startedIn, crossed, wantedIn, heldIn, marked, dirtyBuckets>>
      /\ ~orphan' /\ toWrite' = <<>> /\ savedIn' = SavedWith(toWrite)
      /\ saver # "down" /\ toWrite # <<>>
  BY <1>0 DEF WriteLands, RenameInPlace, factVars, aggVars
<1>2. /\ OneLineEach(toWrite)
      /\ \A k \in DOMAIN toWrite :
           savedIn[toWrite[k].t] <= toWrite[k].held /\ toWrite[k].held <= heldIn[toWrite[k].t]
  BY <1>0 DEF WriteIsTrue
<1>3. /\ savedIn' \in [Bucket -> Nat]
      /\ \A k \in DOMAIN toWrite : savedIn'[toWrite[k].t] = toWrite[k].held
      /\ \A b \in Bucket : (\A k \in DOMAIN toWrite : toWrite[k].t # b) => savedIn'[b] = savedIn[b]
  BY <1>0, <1>1, <1>2, SavedTells
<1>4. \A b \in Bucket : savedIn'[b] <= heldIn[b] /\ savedIn'[b] \in Nat /\ heldIn[b] \in Nat
  <2>1. ASSUME NEW b \in Bucket PROVE savedIn'[b] <= heldIn[b]
    <3>1. CASE \A k \in DOMAIN toWrite : toWrite[k].t # b
      BY <1>0, <1>1, <1>3, <3>1 DEF KillLosesLittle
    <3>2. ASSUME NEW k \in DOMAIN toWrite, toWrite[k].t = b PROVE savedIn'[b] <= heldIn[b]
      BY <1>2, <1>3, <3>2
    <3>. QED
      BY <3>1, <3>2
  <2>. QED
    BY <1>0, <1>3, <2>1
<1>5. BrainTypes' /\ KillLosesLittle'
  BY <1>0, <1>1, <1>3, <1>4 DEF BrainTypes, KillLosesLittle
<1>6. NothingAhead'
  <2>1. \A b \in Bucket : b > nowBucket => heldIn[b] = 0 /\ savedIn'[b] = 0
    BY <1>0, <1>4 DEF NothingAhead
  <2>. QED
    BY <1>0, <1>1, <2>1 DEF NothingAhead
<1>7. MarkedIsSeen'
  <2>1. \A b \in Bucket : MarkedIn(b)' = MarkedIn(b)
    BY <1>1 DEF MarkedIn
  <2>. QED
    BY <1>0, <1>1, <2>1 DEF MarkedIsSeen
<1>8. WriteIsTrue'
  <2>1. OneLineEach(<<>>) /\ DOMAIN <<>> = {}
    BY DEF OneLineEach
  <2>. QED
    BY <1>1, <2>1 DEF WriteIsTrue
<1>9. FileIsSaved'
  <2>1. CASE WriteLands
    <3>1. brainLines \in Seq(BrainLine) /\ \A b \in Bucket : Tells(brainLines, b, savedIn[b])
      BY <1>0 DEF FileIsSaved
    <3>2. brainLines' = brainLines \o toWrite
      BY <1>0, <1>2, <2>1, <3>1, AppendTells DEF WriteLands, OnPath
    <3>3. /\ brainLines \o toWrite \in Seq(BrainLine)
          /\ \A k \in DOMAIN toWrite : Tells(brainLines \o toWrite, toWrite[k].t, toWrite[k].held)
          /\ \A b, h : Tells(brainLines, b, h) /\ (\A k \in DOMAIN toWrite : toWrite[k].t # b)
                         => Tells(brainLines \o toWrite, b, h)
      BY <1>2, <3>1, AppendTells
    <3>4. ASSUME NEW b \in Bucket PROVE Tells(brainLines \o toWrite, b, savedIn'[b])
      <4>1. CASE \A k \in DOMAIN toWrite : toWrite[k].t # b
        BY <1>3, <3>1, <3>3, <4>1
      <4>2. ASSUME NEW k \in DOMAIN toWrite, toWrite[k].t = b
            PROVE  Tells(brainLines \o toWrite, b, savedIn'[b])
        BY <1>3, <3>3, <4>2
      <4>. QED
        BY <4>1, <4>2
    <3>. QED
      BY <3>2, <3>3, <3>4 DEF FileIsSaved
  <2>2. CASE RenameInPlace
    <3>1. brainLines' = toWrite /\ saver = "compacting"
      BY <2>2 DEF RenameInPlace
    <3>2. /\ <<>> \in Seq(BrainLine) /\ toWrite \in Seq(BrainLine) /\ <<>> \o toWrite = toWrite
          /\ \A b : Tells(<<>>, b, 0)
      BY <1>2 DEF Tells, OneLineEach
    <3>3. /\ \A k \in DOMAIN toWrite : Tells(<<>> \o toWrite, toWrite[k].t, toWrite[k].held)
          /\ \A b, h : Tells(<<>>, b, h) /\ (\A k \in DOMAIN toWrite : toWrite[k].t # b)
                         => Tells(<<>> \o toWrite, b, h)
      BY <1>2, <3>2, AppendTells
    <3>4. ASSUME NEW b \in Bucket PROVE Tells(toWrite, b, savedIn'[b])
      <4>1. CASE \A k \in DOMAIN toWrite : toWrite[k].t # b
        <5>1. savedIn'[b] = savedIn[b] /\ ~(savedIn[b] > 0)
          BY <1>0, <1>1, <1>3, <3>1, <4>1 DEF WriteIsTrue
        <5>2. savedIn'[b] = 0
          BY <1>0, <5>1
        <5>. QED
          BY <3>2, <3>3, <4>1, <5>2
      <4>2. ASSUME NEW k \in DOMAIN toWrite, toWrite[k].t = b
            PROVE  Tells(toWrite, b, savedIn'[b])
        BY <1>3, <3>2, <3>3, <4>2
      <4>. QED
        BY <4>1, <4>2
    <3>. QED
      BY <3>1, <3>2, <3>4 DEF FileIsSaved
  <2>. QED
    BY <2>1, <2>2
<1>. QED
  BY <1>1, <1>5, <1>6, <1>7, <1>8, <1>9 DEF BrainKept

(* A kill loses what is in memory; a start reads what was saved. *)
LEMMA RestartKeeps ==
    ASSUME brainFaults = {}, BrainKept, KillBrain \/ openBrainSidecar
    PROVE  BrainKept'
<1>0. /\ BrainTypes /\ ~orphan /\ FileIsSaved /\ WriteIsTrue /\ KillLosesLittle
      /\ NothingAhead /\ MarkedIsSeen /\ savedIn \in [Bucket -> Nat]
      /\ Bucket = 1..MaxBuckets /\ MaxBuckets \in Nat \ {0} /\ nowBucket \in Bucket
      /\ startedIn \in Nat /\ startedIn <= nowBucket
  BY BrainAssumption DEF BrainKept, BrainTypes, Bucket
<1>1. OneLineEach(<<>>) /\ DOMAIN <<>> = {}
  BY DEF OneLineEach
<1>2. CASE KillBrain
  <2>1. /\ UNCHANGED <<nowBucket, startedIn, crossed, wantedIn, savedIn, brainLines>>
        /\ heldIn' = [b \in Bucket |-> 0] /\ marked' = {} /\ dirtyBuckets' = {}
        /\ saver' = "down" /\ toWrite' = <<>> /\ orphan' = FALSE
    BY <1>2 DEF KillBrain, factVars
  <2>2. BrainTypes' /\ FileIsSaved' /\ ~orphan' /\ KillLosesLittle'
    <3>1. heldIn' \in [Bucket -> Nat]
      BY <2>1
    <3>. QED
      BY <1>0, <2>1, <3>1 DEF BrainTypes, FileIsSaved, KillLosesLittle
  <2>3. WriteIsTrue'
    BY <1>1, <2>1 DEF WriteIsTrue
  <2>4. NothingAhead'
    BY <1>0, <2>1 DEF NothingAhead
  <2>5. MarkedIsSeen'
    <3>1. \A b : Cardinality(MarkedIn(b)') = 0
      BY <2>1, FS_EmptySet DEF MarkedIn
    <3>. QED
      BY <1>0, <2>1, <3>1 DEF MarkedIsSeen
  <2>. QED
    BY <2>2, <2>3, <2>4, <2>5 DEF BrainKept
<1>3. CASE openBrainSidecar
  <2>1. UsableBrains(brainLines) /\ ReplayBrains(brainLines) = savedIn
    BY <1>0, ReplayTells DEF FileIsSaved
  <2>2. /\ UNCHANGED <<nowBucket, crossed, wantedIn, savedIn, brainLines, marked>>
        /\ UNCHANGED <<dirtyBuckets, orphan, toWrite>>
        /\ heldIn' = savedIn /\ startedIn' = nowBucket /\ saver = "down" /\ saver' = "idle"
    BY <1>3, <2>1 DEF openBrainSidecar, factVars
  <2>3. BrainTypes' /\ FileIsSaved' /\ ~orphan' /\ KillLosesLittle'
    <3>1. startedIn' \in Nat /\ startedIn' <= nowBucket
      BY <1>0, <2>2
    <3>2. \A b \in Bucket : savedIn[b] >= savedIn[b]
      BY <1>0
    <3>. QED
      BY <1>0, <2>2, <3>1, <3>2 DEF BrainTypes, FileIsSaved, KillLosesLittle
  <2>4. WriteIsTrue'
    <3>1. toWrite = <<>>
      BY <1>0, <2>2 DEF WriteIsTrue
    <3>. QED
      BY <1>1, <2>2, <3>1 DEF WriteIsTrue
  <2>5. NothingAhead'
    BY <1>0, <2>2 DEF NothingAhead
  <2>6. MarkedIsSeen'
    <3>1. ASSUME NEW b \in Bucket, b > nowBucket PROVE heldIn'[b] = Cardinality(MarkedIn(b)')
      <4>1. \A g \in Measured : <<b, g>> \notin marked
        BY <1>0, <3>1 DEF NothingAhead, MarkedIsSeen
      <4>2. MarkedIn(b)' = {}
        BY <2>2, <4>1 DEF MarkedIn
      <4>3. heldIn'[b] = 0
        BY <1>0, <2>2, <3>1 DEF NothingAhead
      <4>. QED
        BY <4>2, <4>3, FS_EmptySet
    <3>. QED
      BY <1>0, <2>2, <3>1 DEF MarkedIsSeen
  <2>. QED
    BY <2>2, <2>3, <2>4, <2>5, <2>6 DEF BrainKept
<1>. QED
  BY <1>2, <1>3

LEMMA BrainStart ==
    BrainInit => BrainInv
<1>. SUFFICES ASSUME BrainInit PROVE BrainKept
  BY DEF BrainInv
<1>1. Bucket = 1..MaxBuckets /\ MaxBuckets \in Nat \ {0} /\ 1 \in Bucket /\ DOMAIN <<>> = {}
  BY BrainAssumption DEF Bucket
<1>2. BrainTypes /\ ~orphan /\ KillLosesLittle
  <2>1. 0 \in 0..MaxBuckets /\ 0 <= 1
    BY <1>1
  <2>. QED
    BY <1>1, <2>1 DEF BrainInit, BrainTypes, KillLosesLittle
<1>3. FileIsSaved /\ WriteIsTrue
  BY <1>1 DEF BrainInit, FileIsSaved, WriteIsTrue, OneLineEach, Tells
<1>4. NothingAhead
  BY <1>1 DEF BrainInit, NothingAhead
<1>5. MarkedIsSeen
  <2>1. \A b : Cardinality(MarkedIn(b)) = 0
    BY FS_EmptySet DEF MarkedIn, BrainInit
  <2>. QED
    BY <2>1 DEF BrainInit, MarkedIsSeen
<1>. QED
  BY <1>2, <1>3, <1>4, <1>5 DEF BrainKept

LEMMA BrainSteps ==
    ASSUME BrainInv, [BrainNext]_brainVars
    PROVE  BrainInv'
<1>1. brainFaults' = brainFaults
  BY DEF BrainNext, brainVars, factVars, BucketEnds, CrossesAgain, GenomeArrives, SaveBrains,
         WriteLands, WriteStops, BeginRewrite, RenameInPlace, RenameUnsyncedDir, KillBrain,
         openBrainSidecar
<1>. SUFFICES ASSUME brainFaults = {} PROVE BrainKept'
  BY <1>1 DEF BrainInv
<1>2. BrainKept
  BY DEF BrainInv
<1>3. CASE BucketEnds
  BY <1>2, <1>3, BucketEndKeeps
<1>4. ASSUME NEW g \in Measured, CrossesAgain(g) \/ GenomeArrives(g) PROVE BrainKept'
  BY <1>2, <1>4, CrossingKeeps
<1>5. CASE SaveBrains \/ BeginRewrite
  BY <1>2, <1>5, TakingKeeps
<1>6. CASE WriteLands \/ RenameInPlace
  BY <1>2, <1>6, LandingKeeps
<1>7. CASE KillBrain \/ openBrainSidecar
  BY <1>2, <1>7, RestartKeeps
<1>8. CASE WriteStops \/ RenameUnsyncedDir
  BY <1>8 DEF WriteStops, RenameUnsyncedDir
<1>9. CASE UNCHANGED brainVars
  <2>1. /\ UNCHANGED <<nowBucket, startedIn, crossed, wantedIn, heldIn, marked, dirtyBuckets>>
        /\ UNCHANGED <<saver, savedIn, brainLines, toWrite, orphan>>
    BY <1>9 DEF brainVars, factVars, aggVars, saveVars
  <2>2. BrainTypes' /\ ~orphan' /\ KillLosesLittle' /\ FileIsSaved'
    BY <1>2, <2>1 DEF BrainKept, BrainTypes, KillLosesLittle, FileIsSaved
  <2>3. WriteIsTrue' /\ NothingAhead'
    BY <1>2, <2>1 DEF BrainKept, WriteIsTrue, NothingAhead
  <2>4. MarkedIsSeen'
    <3>1. \A b : MarkedIn(b)' = MarkedIn(b)
      BY <2>1 DEF MarkedIn
    <3>. QED
      BY <1>2, <2>1, <3>1 DEF BrainKept, MarkedIsSeen
  <2>. QED
    BY <2>2, <2>3, <2>4 DEF BrainKept
<1>. QED
  BY <1>3, <1>4, <1>5, <1>6, <1>7, <1>8, <1>9 DEF BrainNext

(* A saved measurement is in the history after every start, and a bucket the  *)
(* process saw the whole of counts no genome that did not cross in it: on a   *)
(* disk whose writes are whole and whose directory syncs, for any buckets,    *)
(* genomes and kills (Save, compactLocked, replay, observeBrainHeld).         *)
THEOREM MeasurementsAreKept ==
    BrainSpec => []MeasurementsKept
<1>1. BrainInv => MeasurementsKept
  <2>. SUFFICES ASSUME BrainKept PROVE KillLosesLittle /\ HeldWithinSeen
    BY DEF BrainInv, MeasurementsKept
  <2>1. ASSUME NEW b \in Bucket, b > startedIn
        PROVE  heldIn[b] <= Cardinality({g \in Measured : <<b, g>> \in crossed})
    <3>. DEFINE seen == {g \in Measured : <<b, g>> \in crossed}
    <3>1. IsFiniteSet(seen) /\ MarkedIn(b) \in SUBSET seen
      <4>1. seen \in SUBSET Measured /\ marked \subseteq crossed
        BY DEF BrainKept, MarkedIsSeen
      <4>. QED
        BY <4>1, BrainAssumption, FS_Subset DEF MarkedIn
    <3>2. Cardinality(MarkedIn(b)) <= Cardinality(seen)
      BY <3>1, FS_Subset
    <3>3. heldIn[b] = Cardinality(MarkedIn(b))
      BY <2>1 DEF BrainKept, MarkedIsSeen
    <3>. QED
      BY <3>2, <3>3
  <2>. QED
    BY <2>1 DEF BrainKept, HeldWithinSeen
<1>2. BrainInv /\ [BrainNext]_brainVars => BrainInv'
  BY BrainSteps
<1>. QED
  BY <1>1, <1>2, BrainStart, PTL DEF BrainSpec
=============================================================================
