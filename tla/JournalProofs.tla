--------------------------- MODULE JournalProofs ---------------------------
(***************************************************************************)
(* The journal keeps its promises for every set of migrations, every log   *)
(* length and every disk of the kinds they are made about: what replays is *)
(* what callers were told.  Replay is recursive in the length of the log;  *)
(* an induction over it is an argument about the least line at which two   *)
(* replays part (LeastNat).                                                *)
(***************************************************************************)
EXTENDS Journal, SequenceTheorems, WellFoundedInduction, TLAPS

-----------------------------------------------------------------------------
(* What the log and the memory hold. *)

Creation == [op : {"create"}, id : Ids, dir : Directions]
Removal == [op : {"purge"}, id : Ids]
Update ==
    {r \in [op : {"status"}, id : Ids, dir : Directions \cup {Keep},
            status : Statuses \cup {Keep}, handoff : (Handoffs \ {"none"}) \cup {Keep},
            acked : {"yes", "no", Keep}] :
        r.dir = "out" => r.handoff # Keep}

Record == Creation \cup Update \cup Removal
Line == Record \cup {Torn, Bad}

(* An entry on its way out has a handoff. *)
Sound(e) == e.dir = "out" => e.handoff # "none"

States ==
    {st \in Seq(Entry) :
        /\ \A k \in 1..Len(st) : Sound(st[k])
        /\ \A j, k \in 1..Len(st) : st[j].id = st[k].id => j = k}

-----------------------------------------------------------------------------
(* A set of naturals has a least element. *)
LEMMA LeastNat ==
    ASSUME NEW T \in SUBSET Nat, T # {}
    PROVE  \E x \in T : \A y \in T : x <= y
<1> DEFINE R == {ss \in Nat \X Nat : ss[1] < ss[2]}
<1>1. OpToRel(<, Nat) = R
  BY DEF OpToRel
<1>2. PICK x \in T : \A y \in T : ~(<<y, x>> \in R)
  BY ZenonT(30), <1>1, NatLessThanWellFounded, WFMin
<1>3. ASSUME NEW y \in T PROVE x <= y
  <2>1. <<y, x>> \in Nat \X Nat /\ <<y, x>>[1] = y /\ <<y, x>>[2] = x
    OBVIOUS
  <2>2. ~(y < x)
    BY <1>2, <2>1
  <2> QED
    BY <2>2
<1> QED
  BY <1>3

(* What Replay computes, as an equation: the recursion has a solution. *)
IsReplay(s, f, m) ==
    s = [n \in 0..m |-> IF n = 0 THEN <<>> ELSE ApplyRec(s[n - 1], f[n])]

LEMMA ReplayExists ==
    ASSUME NEW f
    PROVE  \A m \in Nat : \E s : IsReplay(s, f, m)
<1> DEFINE T == {m \in Nat : ~ \E s : IsReplay(s, f, m)}
<1>1. SUFFICES ASSUME T # {} PROVE FALSE
  OBVIOUS
<1>2. PICK m \in T : \A y \in T : m <= y
  BY <1>1, LeastNat
<1>3. m # 0
  <2>1. IsReplay([n \in 0..0 |-> <<>>], f, 0)
    BY DEF IsReplay
  <2> QED
    BY <2>1
<1>4. m - 1 \in Nat /\ m - 1 \notin T
  BY <1>2, <1>3
<1>5. PICK s : IsReplay(s, f, m - 1)
  BY <1>4
<1> DEFINE h == [n \in 0..m |-> IF n = m THEN ApplyRec(s[m - 1], f[m]) ELSE s[n]]
<1>6. IsReplay(h, f, m)
  <2>1. \A n \in 0..m : n # m => n \in 0..(m - 1)
    BY <1>4
  <2>2. \A n \in 0..(m - 1) : h[n] = s[n]
    BY <1>4
  <2>3. ASSUME NEW n \in 0..m, n # m
        PROVE  h[n] = IF n = 0 THEN <<>> ELSE ApplyRec(h[n - 1], f[n])
    <3>1. s[n] = IF n = 0 THEN <<>> ELSE ApplyRec(s[n - 1], f[n])
      BY <1>5, <2>1, <2>3 DEF IsReplay
    <3>2. n = 0 \/ n - 1 \in 0..(m - 1)
      BY <1>4
    <3> QED
      BY <3>1, <3>2, <2>2, <2>1, <2>3
  <2>4. h[m] = ApplyRec(h[m - 1], f[m])
    BY <2>2, <1>4
  <2>5. \A n \in 0..m : h[n] = IF n = 0 THEN <<>> ELSE ApplyRec(h[n - 1], f[n])
    <3> HIDE DEF h
    <3> QED
      BY <2>3, <2>4, <1>3
  <2>6. h = [n \in 0..m |-> h[n]]
    OBVIOUS
  <2> HIDE DEF h
  <2> QED
    BY <2>5, <2>6 DEF IsReplay
<1> QED
  BY <1>6

LEMMA ReplayEquation ==
    ASSUME NEW f, Len(f) \in Nat
    PROVE  /\ ReplayStates(f)[0] = <<>>
           /\ \A n \in 1..Len(f) : ReplayStates(f)[n] = ApplyRec(ReplayStates(f)[n - 1], f[n])
<1>1. IsReplay(ReplayStates(f), f, Len(f))
  BY ReplayExists DEF ReplayStates, IsReplay
<1> QED
  BY <1>1 DEF IsReplay

-----------------------------------------------------------------------------
(* What a record does to a state. *)

(* Removing an entry removes that one and keeps the others in their order. *)
LEMMA RemovalProperties ==
    ASSUME NEW st \in States, NEW i \in Ids
    PROVE  LET w == Without(st, i) IN
           /\ w \in States /\ ~Known(w, i)
           /\ \A k \in 1..Len(w) : \E j \in 1..Len(st) : w[k] = st[j] /\ st[j].id # i
           /\ \A j \in 1..Len(st) : st[j].id # i => \E k \in 1..Len(w) : w[k] = st[j]
<1> DEFINE w == Without(st, i)
<1>a. st \in Seq(Entry) /\ Len(st) \in Nat /\ DOMAIN st = 1..Len(st)
  BY LenProperties DEF States
<1>b. \A k \in 1..Len(st) : st[k] \in Entry
  BY <1>a, ElementOfSeq
<1>1. CASE ~Known(st, i)
  BY <1>1, <1>a DEF Without, Known
<1>2. CASE Known(st, i)
  <2> DEFINE p == Place(st, i)
  <2>1. p \in 1..Len(st) /\ st[p].id = i
    BY <1>2, <1>a DEF Known, Place
  <2> HIDE DEF p
  <2>2. w = SubSeq(st, 1, p - 1) \o SubSeq(st, p + 1, Len(st))
    BY <1>2 DEF Without, RemoveAt, p
  <2> DEFINE a == SubSeq(st, 1, p - 1)  b == SubSeq(st, p + 1, Len(st))
  <2>3. /\ a \in Seq(Entry) /\ Len(a) = p - 1
        /\ \A k \in 1..(p - 1) : a[k] = st[k]
    BY <1>a, <1>b, <2>1, SubSeqProperties
  <2>4. /\ b \in Seq(Entry) /\ Len(b) = Len(st) - p
        /\ \A k \in 1..(Len(st) - p) : b[k] = st[p + k]
    BY SMTT(30), <1>a, <1>b, <2>1, SubSeqProperties
  <2> HIDE DEF a, b
  <2>5. /\ w \in Seq(Entry) /\ Len(w) = Len(st) - 1
        /\ \A k \in 1..Len(w) : w[k] = IF k < p THEN st[k] ELSE st[k + 1]
    <3>1. w = a \o b
      BY <2>2 DEF a, b
    <3> HIDE DEF w
    <3>2. /\ a \o b \in Seq(Entry) /\ Len(a \o b) = Len(a) + Len(b)
          /\ \A k \in 1..(Len(a) + Len(b)) :
                (a \o b)[k] = IF k <= Len(a) THEN a[k] ELSE b[k - Len(a)]
      BY <2>3, <2>4, ConcatProperties
    <3> QED
      BY SMTT(30), <3>1, <3>2, <2>3, <2>4, <2>1, <1>a
  <2> HIDE DEF w
  <2>6. DOMAIN w = 1..Len(w)
    BY <2>5, LenProperties
  <2>7. ASSUME NEW k \in 1..Len(w)
        PROVE  \E j \in 1..Len(st) : w[k] = st[j] /\ j # p /\ j = IF k < p THEN k ELSE k + 1
    BY <2>5, <2>1, <1>a
  <2>8. \A j \in 1..Len(st) : j # p => st[j].id # i
    BY <2>1 DEF States
  <2>9. \A k \in 1..Len(w) : \E j \in 1..Len(st) : w[k] = st[j] /\ st[j].id # i
    BY <2>7, <2>8
  <2>10. ASSUME NEW j \in 1..Len(st), st[j].id # i
         PROVE  \E k \in 1..Len(w) : w[k] = st[j]
    <3>1. CASE j < p
      BY <3>1, <2>5, <2>1, <1>a
    <3>2. CASE j > p
      <4>1. j - 1 \in 1..Len(w) /\ ~(j - 1 < p)
        BY <3>2, <2>5, <2>1, <1>a
      <4>2. w[j - 1] = st[j]
        BY <4>1, <2>5
      <4> QED
        BY <4>1, <4>2
    <3> QED
      BY <3>1, <3>2, <2>10, <2>1, <1>a
  <2>11. \A j, k \in 1..Len(w) : w[j].id = w[k].id => j = k
    <3>1. SUFFICES ASSUME NEW j \in 1..Len(w), NEW k \in 1..Len(w), w[j].id = w[k].id
                   PROVE  j = k
      OBVIOUS
    <3>2. PICK jj \in 1..Len(st) : w[j] = st[jj] /\ jj = IF j < p THEN j ELSE j + 1
      BY <2>7
    <3>3. PICK kk \in 1..Len(st) : w[k] = st[kk] /\ kk = IF k < p THEN k ELSE k + 1
      BY <2>7
    <3>4. jj = kk
      BY <3>1, <3>2, <3>3 DEF States
    <3> QED
      BY <3>2, <3>3, <3>4, <2>1, <2>5, <1>a
  <2>12. w \in States
    BY <2>5, <2>9, <2>11 DEF States
  <2> QED
    BY <2>6, <2>9, <2>10, <2>12 DEF Known, w
<1> QED
  BY <1>1, <1>2

(* An update leaves an entry an entry, of the same migration. *)
LEMMA MergeProperties ==
    ASSUME NEW e \in Entry, Sound(e), NEW r \in Update
    PROVE  /\ Merged(e, r) \in Entry /\ Sound(Merged(e, r)) /\ Merged(e, r).id = e.id
           /\ Merged(e, r).status = Set(r.status, e.status)
<1> DEFINE d == Set(r.dir, e.dir)
           h == IF r.handoff # Keep THEN r.handoff
                ELSE IF d = "out" /\ r.status = "in_flight" /\ e.handoff = "pending"
                     THEN "sent" ELSE e.handoff
           s == Set(r.status, e.status)
           a == Set(r.acked, e.acked)
<1>1. d \in Directions /\ s \in Statuses /\ a \in {"yes", "no"} /\ e.id \in Ids
  BY DEF Entry, Update, Set
<1>2. h \in Handoffs /\ (d = "out" => h # "none")
  BY DEF Entry, Sound, Update, Set, Handoffs, Keep
<1>3. Merged(e, r) = [e EXCEPT !.dir = d, !.status = s, !.handoff = h, !.acked = a]
  BY DEF Merged
<1> HIDE DEF d, h, s, a
<1>4. Merged(e, r) = [id |-> e.id, dir |-> d, status |-> s, handoff |-> h, acked |-> a]
  BY <1>3 DEF Entry
<1> QED
  BY <1>1, <1>2, <1>4 DEF Entry, Sound, s

(* A record keeps a state a state, and a creation makes its entry known, a *)
(* removal unknown; of every other migration the same is known as before.   *)
LEMMA RecordKeepsStates ==
    ASSUME NEW st \in States, NEW r \in Line \cup {NoRec}
    PROVE  LET a == ApplyRec(st, r) IN
           /\ a \in States
           /\ \A i \in Ids : Known(a, i) <=>
                CASE r.op = "create" -> i = r.id \/ Known(st, i)
                  [] r.op = "purge"  -> i # r.id /\ Known(st, i)
                  [] OTHER           -> Known(st, i)
<1>a. /\ st \in Seq(Entry) /\ Len(st) \in Nat /\ DOMAIN st = 1..Len(st)
      /\ \A k \in 1..Len(st) : st[k] \in Entry /\ Sound(st[k])
  BY LenProperties, ElementOfSeq DEF States
<1>b. \A j, k \in 1..Len(st) : st[j].id = st[k].id => j = k
  BY DEF States
<1>1. CASE r \in Creation
  <2> DEFINE w == Without(st, r.id)  c == Created(r)
  <2>1. ApplyRec(st, r) = Append(w, c) /\ r.op = "create" /\ r.id \in Ids
    BY <1>1 DEF ApplyRec, Creation
  <2>2. c \in Entry /\ Sound(c) /\ c.id = r.id
    BY <1>1 DEF Creation, Created, Entry, Sound, Statuses, Handoffs, Directions
  <2>3. /\ w \in States /\ ~Known(w, r.id)
        /\ \A k \in 1..Len(w) : \E j \in 1..Len(st) : w[k] = st[j] /\ st[j].id # r.id
        /\ \A j \in 1..Len(st) : st[j].id # r.id => \E k \in 1..Len(w) : w[k] = st[j]
    BY <2>1, RemovalProperties
  <2> DEFINE a == Append(w, c)
  <2> HIDE DEF w, c
  <2>4. w \in Seq(Entry) /\ Len(w) \in Nat /\ DOMAIN w = 1..Len(w)
    BY <2>3, LenProperties DEF States
  <2>5. /\ a \in Seq(Entry) /\ Len(a) = Len(w) + 1 /\ DOMAIN a = 1..Len(a)
        /\ \A k \in 1..Len(w) : a[k] = w[k]
        /\ a[Len(w) + 1] = c
    BY <2>2, <2>4, AppendProperties, LenProperties
  <2> HIDE DEF a
  <2>6. \A k \in 1..Len(w) : w[k].id # r.id
    BY <2>3, <2>4 DEF Known
  <2>7. a \in States
    <3>1. \A k \in 1..Len(a) : k = Len(w) + 1 \/ k \in 1..Len(w)
      BY <2>4, <2>5
    <3>2. /\ \A k \in 1..Len(w) : Sound(w[k])
          /\ \A j, k \in 1..Len(w) : w[j].id = w[k].id => j = k
      BY <2>3 DEF States
    <3>3. \A k \in 1..Len(a) : Sound(a[k])
      BY <2>2, <2>5, <3>1, <3>2
    <3>4. \A j, k \in 1..Len(a) : a[j].id = a[k].id => j = k
      BY <2>2, <2>5, <2>6, <3>1, <3>2
    <3> QED
      BY <3>3, <3>4, <2>5 DEF States
  <2>8. ASSUME NEW i \in Ids
        PROVE  Known(a, i) <=> i = r.id \/ Known(st, i)
    <3>1. Known(a, i) <=> i = r.id \/ Known(w, i)
      BY <2>2, <2>4, <2>5 DEF Known
    <3>2. ASSUME Known(w, i) PROVE Known(st, i)
      <4>1. PICK k \in 1..Len(w) : w[k].id = i
        BY <3>2, <2>4 DEF Known
      <4>2. PICK j \in 1..Len(st) : w[k] = st[j]
        BY <2>3
      <4> QED
        BY <4>1, <4>2, <1>a DEF Known
    <3>3. ASSUME Known(st, i), i # r.id PROVE Known(w, i)
      <4>1. PICK j \in 1..Len(st) : st[j].id = i
        BY <3>3, <1>a DEF Known
      <4>2. PICK k \in 1..Len(w) : w[k] = st[j]
        BY <4>1, <3>3, <2>3
      <4> QED
        BY <4>1, <4>2, <2>4 DEF Known
    <3> QED
      BY <3>1, <3>2, <3>3
  <2> QED
    BY <2>1, <2>7, <2>8 DEF a, w, c
<1>2. CASE r \in Removal
  <2>1. ApplyRec(st, r) = Without(st, r.id) /\ r.op = "purge" /\ r.id \in Ids
    BY <1>2 DEF ApplyRec, Removal
  <2> DEFINE w == Without(st, r.id)
  <2>3. /\ w \in States /\ ~Known(w, r.id)
        /\ \A k \in 1..Len(w) : \E j \in 1..Len(st) : w[k] = st[j] /\ st[j].id # r.id
        /\ \A j \in 1..Len(st) : st[j].id # r.id => \E k \in 1..Len(w) : w[k] = st[j]
    BY <2>1, RemovalProperties
  <2> HIDE DEF w
  <2>4. w \in Seq(Entry) /\ Len(w) \in Nat /\ DOMAIN w = 1..Len(w)
    BY <2>3, LenProperties DEF States
  <2>5. ASSUME NEW i \in Ids
        PROVE  Known(w, i) <=> i # r.id /\ Known(st, i)
    <3>1. ASSUME Known(w, i) PROVE Known(st, i) /\ i # r.id
      <4>1. PICK k \in 1..Len(w) : w[k].id = i
        BY <3>1, <2>4 DEF Known
      <4>2. PICK j \in 1..Len(st) : w[k] = st[j] /\ st[j].id # r.id
        BY <2>3
      <4>3. st[j].id = i /\ i # r.id
        BY <4>1, <4>2
      <4> QED
        BY <4>3, <1>a DEF Known
    <3>2. ASSUME Known(st, i), i # r.id PROVE Known(w, i)
      <4>1. PICK j \in 1..Len(st) : st[j].id = i
        BY <3>2, <1>a DEF Known
      <4>2. PICK k \in 1..Len(w) : w[k] = st[j]
        BY <4>1, <3>2, <2>3
      <4> QED
        BY <4>1, <4>2, <2>4 DEF Known
    <3> QED
      BY <3>1, <3>2
  <2> QED
    BY <2>1, <2>3, <2>5 DEF w
<1>3. CASE r \in Update
  <2> DEFINE a == [k \in DOMAIN st |-> IF st[k].id = r.id THEN Merged(st[k], r) ELSE st[k]]
  <2>1. ApplyRec(st, r) = a /\ r.op = "status"
    BY <1>3 DEF ApplyRec, Update
  <2>2. ASSUME NEW k \in 1..Len(st)
        PROVE  LET m == Merged(st[k], r) IN m \in Entry /\ Sound(m) /\ m.id = st[k].id
    <3>1. st[k] \in Entry /\ Sound(st[k])
      BY <1>a
    <3> QED
      BY <3>1, <1>3, MergeProperties
  <2>3. a \in Seq(Entry) /\ Len(a) = Len(st) /\ DOMAIN a = 1..Len(st)
    <3>1. \A k \in 1..Len(st) : a[k] \in Entry
      BY <1>a, <2>2
    <3>2. a = [k \in 1..Len(st) |-> a[k]]
      BY <1>a
    <3> HIDE DEF a
    <3> QED
      BY <3>1, <3>2, <1>a, IsASeq, LenProperties
  <2>4. \A k \in 1..Len(st) : a[k].id = st[k].id /\ Sound(a[k])
    BY <2>2, <1>a
  <2> HIDE DEF a
  <2>5. a \in States
    BY <2>3, <2>4, <1>b DEF States
  <2>6. \A i \in Ids : Known(a, i) <=> Known(st, i)
    BY <2>3, <2>4, <1>a DEF Known
  <2> QED
    BY <2>1, <2>5, <2>6
<1>4. CASE r \in {Torn, Bad, NoRec}
  BY <1>4 DEF ApplyRec, Torn, Bad, NoRec
<1> QED
  BY <1>1, <1>2, <1>3, <1>4 DEF Line, Record

-----------------------------------------------------------------------------
(* What a log replays to. *)

(* A log that only a crash has touched: records, and perhaps a torn tail. *)
Clean(f) ==
    f \in Seq(Line) /\ \A n \in 1..Len(f) : f[n] \in Record \/ (n = Len(f) /\ f[n] = Torn)

LEMMA LinesDiffer == \A r \in Record : Parses(r) /\ r # NoRec
  BY DEF Record, Creation, Update, Removal, Parses, Torn, Bad, NoRec

LEMMA ReplayType ==
    ASSUME NEW f \in Seq(Line)
    PROVE  \A n \in 0..Len(f) : ReplayStates(f)[n] \in States
<1>a. Len(f) \in Nat /\ \A n \in 1..Len(f) : f[n] \in Line
  BY LenProperties, ElementOfSeq
<1> DEFINE T == {n \in 0..Len(f) : ReplayStates(f)[n] \notin States}
<1>1. SUFFICES ASSUME T # {} PROVE FALSE
  OBVIOUS
<1>2. PICK n \in T : \A m \in T : n <= m
  <2>1. T \in SUBSET Nat
    BY <1>a
  <2> QED
    BY <1>1, <2>1, LeastNat
<1>3. <<>> \in States
  BY EmptySeq DEF States
<1>4. n # 0
  BY <1>3, <1>a, ReplayEquation
<1>5. n - 1 \in 0..Len(f) /\ n \in 1..Len(f) /\ n - 1 \notin T
  BY <1>2, <1>4, <1>a
<1>6. ReplayStates(f)[n - 1] \in States
  BY <1>5
<1>7. ReplayStates(f)[n] = ApplyRec(ReplayStates(f)[n - 1], f[n])
  BY <1>5, <1>a, ReplayEquation
<1> QED
  BY <1>5, <1>6, <1>7, <1>a, RecordKeepsStates

(* Two logs replay alike as far as they agree. *)
LEMMA SamePrefix ==
    ASSUME NEW f, Len(f) \in Nat, NEW g, Len(g) \in Nat, NEW m \in Nat, m <= Len(f), m <= Len(g),
           \A n \in 1..m : f[n] = g[n]
    PROVE  \A n \in 0..m : ReplayStates(f)[n] = ReplayStates(g)[n]
<1> DEFINE T == {n \in 0..m : ReplayStates(f)[n] # ReplayStates(g)[n]}
<1>1. SUFFICES ASSUME T # {} PROVE FALSE
  OBVIOUS
<1>2. PICK n \in T : \A k \in T : n <= k
  <2>1. T \in SUBSET Nat
    OBVIOUS
  <2> QED
    BY <1>1, <2>1, LeastNat
<1>3. n # 0
  BY ReplayEquation
<1>4. n \in 1..m /\ n - 1 \in 0..m /\ n - 1 \notin T
  BY <1>2, <1>3
<1>5. ReplayStates(f)[n - 1] = ReplayStates(g)[n - 1] /\ n \in 1..Len(f) /\ n \in 1..Len(g)
  BY <1>4
<1> QED
  BY <1>4, <1>5, ReplayEquation

(* The lines before the first that does not parse. *)
LEMMA GoodLinesProperties ==
    ASSUME NEW f \in Seq(Line)
    PROVE  /\ GoodLines(f) \in 0..Len(f)
           /\ \A n \in 1..GoodLines(f) : f[n] \in Record
           /\ GoodLines(f) < Len(f) => ~Parses(f[GoodLines(f) + 1])
<1>a. Len(f) \in Nat /\ DOMAIN f = 1..Len(f) /\ \A n \in 1..Len(f) : f[n] \in Line
  BY LenProperties, ElementOfSeq
<1>b. \A n \in 1..Len(f) : Parses(f[n]) => f[n] \in Record
  BY <1>a DEF Line, Parses
<1> DEFINE bad == {k \in DOMAIN f : ~Parses(f[k])}
<1>1. CASE bad = {}
  <2>1. GoodLines(f) = Len(f)
    BY <1>1 DEF GoodLines
  <2> QED
    BY <2>1, <1>1, <1>a, <1>b
<1>2. CASE bad # {}
  <2> DEFINE b == CHOOSE k \in bad : \A j \in bad : k <= j
  <2>1. \E k \in bad : \A j \in bad : k <= j
    <3>1. bad \in SUBSET Nat
      BY <1>a
    <3> HIDE DEF bad
    <3> QED
      BY <1>2, <3>1, LeastNat
  <2>2. b \in bad /\ \A j \in bad : b <= j
    BY <2>1
  <2>3. GoodLines(f) = b - 1
    BY <1>2 DEF GoodLines
  <2> HIDE DEF b
  <2>4. b \in 1..Len(f) /\ ~Parses(f[b])
    BY <2>2, <1>a
  <2>5. \A n \in 1..(b - 1) : n \in 1..Len(f) /\ Parses(f[n])
    BY <2>2, <2>4, <1>a
  <2> QED
    BY <2>3, <2>4, <2>5, <1>a, <1>b
<1> QED
  BY <1>1, <1>2

(* A clean log replays to its end: a torn tail adds nothing. *)
LEMMA CleanReplay ==
    ASSUME NEW f, Clean(f)
    PROVE  Replay(f) = ReplayStates(f)[Len(f)]
<1>a. f \in Seq(Line) /\ Len(f) \in Nat
  BY LenProperties DEF Clean
<1>1. CASE GoodLines(f) = Len(f)
  BY <1>1 DEF Replay
<1>2. CASE GoodLines(f) < Len(f)
  <2>1. GoodLines(f) \in 0..Len(f) /\ ~Parses(f[GoodLines(f) + 1])
    BY <1>a, <1>2, GoodLinesProperties
  <2>2. GoodLines(f) + 1 \in 1..Len(f) /\ f[GoodLines(f) + 1] \notin Record
    BY <1>2, <1>a, <2>1, LinesDiffer
  <2>3. GoodLines(f) + 1 = Len(f) /\ f[Len(f)] = Torn
    BY <2>2 DEF Clean
  <2>4. ReplayStates(f)[Len(f)] = ApplyRec(ReplayStates(f)[GoodLines(f)], Torn)
    <3>1. Len(f) \in 1..Len(f) /\ Len(f) - 1 = GoodLines(f)
      BY <2>1, <2>3, <1>a
    <3>2. ReplayStates(f)[Len(f)] = ApplyRec(ReplayStates(f)[Len(f) - 1], f[Len(f)])
      BY <3>1, <1>a, ReplayEquation
    <3> QED
      BY <3>1, <3>2, <2>3
  <2> QED
    BY <2>4 DEF ApplyRec, Torn, Replay
<1> QED
  BY <1>1, <1>2, <1>a, GoodLinesProperties

(* What a power cut leaves of a clean log is clean, and replays to one of the *)
(* states since the last sync.                                                *)
LEMMA CutImagesReplay ==
    ASSUME NEW f, Clean(f), NEW n \in 0..Len(f), NEW img \in CutImages(f, n)
    PROVE  Clean(img) /\ \E k \in n..Len(f) : Replay(img) = ReplayStates(f)[k]
<1>a. f \in Seq(Line) /\ Len(f) \in Nat /\ \A k \in 1..Len(f) : f[k] \in Line
  BY LenProperties, ElementOfSeq DEF Clean
<1>1. PICK k \in n..Len(f) : \/ img = SubSeq(f, 1, k)
                             \/ k < Len(f) /\ img = Append(SubSeq(f, 1, k), Torn)
  BY DEF CutImages
<1> DEFINE g == SubSeq(f, 1, k)
<1>2. k \in Nat /\ k <= Len(f)
  BY <1>a
<1>3. g \in Seq(Line) /\ Len(g) = k /\ \A j \in 1..k : g[j] = f[j]
  BY <1>a, <1>2, SubSeqProperties
<1> HIDE DEF g
<1>4. CASE img = g
  <2>1. Clean(img)
    BY <1>2, <1>3, <1>4, <1>a DEF Clean
  <2>2. \A j \in 0..k : ReplayStates(img)[j] = ReplayStates(f)[j]
    <3>1. Len(img) \in Nat /\ k <= Len(img) /\ \A j \in 1..k : img[j] = f[j]
      BY <1>2, <1>3, <1>4
    <3> QED
      BY <3>1, <1>2, <1>a, SamePrefix
  <2> QED
    BY <2>1, <2>2, <1>2, <1>3, <1>4, CleanReplay
<1>5. CASE k < Len(f) /\ img = Append(g, Torn)
  <2>1. /\ img \in Seq(Line) /\ Len(img) = k + 1 /\ img[k + 1] = Torn
        /\ \A j \in 1..k : img[j] = f[j]
    BY <1>3, <1>5, AppendProperties DEF Line
  <2>2. \A j \in 1..k : f[j] \in Record
    BY <1>2, <1>5, <1>a DEF Clean
  <2>3. Clean(img)
    BY <2>1, <2>2, <1>2 DEF Clean
  <2>4. \A j \in 0..k : ReplayStates(img)[j] = ReplayStates(f)[j]
    <3>1. Len(img) \in Nat /\ k <= Len(img)
      BY <1>2, <2>1
    <3> QED
      BY <3>1, <2>1, <1>2, <1>a, SamePrefix
  <2>5. ReplayStates(img)[k + 1] = ApplyRec(ReplayStates(img)[k], Torn)
    <3>1. Len(img) \in Nat /\ k + 1 \in 1..Len(img) /\ (k + 1) - 1 = k
      BY <2>1, <1>2
    <3>2. \A j \in 1..Len(img) : ReplayStates(img)[j] = ApplyRec(ReplayStates(img)[j - 1], img[j])
      BY <3>1, ReplayEquation
    <3>3. ReplayStates(img)[k + 1] = ApplyRec(ReplayStates(img)[(k + 1) - 1], img[k + 1])
      BY <3>1, <3>2
    <3> QED
      BY <3>1, <3>3, <2>1
  <2>6. Replay(img) = ReplayStates(f)[k]
    BY <2>1, <2>3, <2>4, <2>5, <1>2, CleanReplay DEF ApplyRec, Torn
  <2> QED
    BY <2>3, <2>6
<1> QED
  BY <1>1, <1>4, <1>5 DEF g

(* An append puts its record after what was replayed before. *)
LEMMA AppendReplay ==
    ASSUME NEW f \in Seq(Record), NEW r \in Record
    PROVE  LET g == Append(f, r) IN
           /\ Written(f, r) = g /\ g \in Seq(Record) /\ Len(g) = Len(f) + 1
           /\ \A k \in 0..Len(f) : ReplayStates(g)[k] = ReplayStates(f)[k]
           /\ ReplayStates(g)[Len(g)] = ApplyRec(ReplayStates(f)[Len(f)], r)
<1> DEFINE g == Append(f, r)
<1>1. /\ g \in Seq(Record) /\ Len(g) = Len(f) + 1 /\ Len(f) \in Nat
      /\ \A k \in 1..Len(f) : g[k] = f[k] /\ g[Len(f) + 1] = r
  BY AppendProperties, LenProperties
<1>2. Written(f, r) = g
  <2>1. f # <<>> => Last(f) \in Record
    <3>1. SUFFICES ASSUME f # <<>> PROVE Len(f) \in 1..Len(f)
      BY ElementOfSeq DEF Last
    <3> QED
      BY <3>1, EmptySeq, LenProperties
  <2> QED
    BY <2>1, LinesDiffer DEF Written, Parses
<1>3. g[Len(f) + 1] = r
  BY AppendProperties
<1> HIDE DEF g
<1>4. \A k \in 0..Len(f) : ReplayStates(g)[k] = ReplayStates(f)[k]
  BY SMTT(30), <1>1, SamePrefix
<1>5. ReplayStates(g)[Len(f) + 1] = ApplyRec(ReplayStates(g)[Len(f)], r)
  BY <1>1, <1>3, ReplayEquation
<1> QED
  BY <1>1, <1>2, <1>4, <1>5 DEF g

(* Open keeps the lines that replay, and so what they replay to. *)
LEMMA GoodPrefixReplay ==
    ASSUME NEW f \in Seq(Line)
    PROVE  LET g == GoodPrefix(f) IN
           /\ g \in Seq(Record) /\ Len(g) = GoodLines(f)
           /\ \A k \in 0..Len(g) : ReplayStates(g)[k] = ReplayStates(f)[k]
           /\ Replay(g) = Replay(f)
<1>a. Len(f) \in Nat
  BY LenProperties
<1> DEFINE n == GoodLines(f)  g == GoodPrefix(f)
<1>1. n \in 0..Len(f) /\ \A k \in 1..n : f[k] \in Record
  BY GoodLinesProperties
<1> HIDE DEF n
<1>2. /\ g \in Seq(Record) /\ Len(g) = n
      /\ \A k \in 1..n : g[k] = f[k]
  BY <1>1, <1>a, SubSeqProperties DEF GoodPrefix, n
<1> HIDE DEF g
<1>3. \A k \in 0..n : ReplayStates(g)[k] = ReplayStates(f)[k]
  <2>1. n \in Nat /\ n <= Len(f) /\ Len(g) \in Nat /\ n <= Len(g)
    BY <1>1, <1>2, <1>a
  <2>2. \A k \in 1..n : g[k] = f[k]
    BY <1>2
  <2> QED
    BY <2>1, <2>2, <1>a, SamePrefix
<1>4. Clean(g)
  <2>1. g \in Seq(Line) /\ \A k \in 1..Len(g) : g[k] \in Record
    BY <1>2, ElementOfSeq, SeqMonotonic DEF Line
  <2> QED
    BY <2>1 DEF Clean
<1>5. Replay(g) = Replay(f)
  BY <1>1, <1>2, <1>3, <1>4, CleanReplay DEF Replay, n
<1> QED
  BY <1>2, <1>3, <1>5 DEF g, n

(* The two records of a compacted entry replay to it. *)
LEMMA CompactedEntry ==
    ASSUME NEW e \in Entry, Sound(e)
    PROVE  LET c == CreateRec(e.id, e.dir)  u == FullStatus(e) IN
           /\ c \in Creation /\ u \in Update /\ u.id = e.id
           /\ Merged(Created(c), u) = e
<1> DEFINE c == CreateRec(e.id, e.dir)  u == FullStatus(e)  d == Created(c)
<1>1. /\ e = [id |-> e.id, dir |-> e.dir, status |-> e.status,
              handoff |-> e.handoff, acked |-> e.acked]
      /\ e.id \in Ids /\ e.dir \in Directions /\ e.status \in Statuses
      /\ e.handoff \in Handoffs /\ e.acked \in {"yes", "no"}
  BY DEF Entry
<1>2. c \in Creation /\ c.id = e.id /\ c.dir = e.dir
  BY <1>1 DEF CreateRec, Creation
<1>3. /\ u \in Update /\ u.id = e.id /\ u.dir = e.dir /\ u.status = e.status /\ u.acked = e.acked
      /\ u.handoff = IF e.handoff = "none" THEN Keep ELSE e.handoff
  BY <1>1 DEF FullStatus, StatusRec, Update, Sound, Keep, Handoffs
<1>4. d = [id |-> e.id, dir |-> e.dir, status |-> "open",
           handoff |-> IF e.dir = "out" THEN "pending" ELSE "none", acked |-> "no"]
  BY <1>2 DEF Created
<1> HIDE DEF u, c, d
<1>5. Set(u.dir, d.dir) = e.dir /\ Set(u.status, d.status) = e.status /\ Set(u.acked, d.acked) = e.acked
  BY <1>1, <1>3, <1>4 DEF Set, Keep, Directions, Statuses
<1> DEFINE h == IF u.handoff # Keep THEN u.handoff
                ELSE IF Set(u.dir, d.dir) = "out" /\ u.status = "in_flight" /\ d.handoff = "pending"
                     THEN "sent" ELSE d.handoff
<1>6. h = e.handoff
  BY <1>1, <1>3, <1>4, <1>5 DEF Sound, Keep, Handoffs, Directions
<1>7. Merged(d, u) = [d EXCEPT !.dir = e.dir, !.status = e.status, !.handoff = h, !.acked = e.acked]
  BY <1>5 DEF Merged
<1> HIDE DEF h
<1>8. Merged(d, u) = [id |-> e.id, dir |-> e.dir, status |-> e.status,
                      handoff |-> e.handoff, acked |-> e.acked]
  BY <1>4, <1>6, <1>7
<1> QED
  BY <1>1, <1>2, <1>3, <1>8 DEF u, c, d

(* "A compacted journal replays to the identical state" (Compact). *)
LEMMA CompactionReplays ==
    ASSUME NEW st \in States
    PROVE  /\ Compacted(st) \in Seq(Record)
           /\ Replay(Compacted(st)) = st
<1> DEFINE c == Compacted(st)
<1>a. /\ st \in Seq(Entry) /\ Len(st) \in Nat /\ DOMAIN st = 1..Len(st)
      /\ \A k \in 1..Len(st) : st[k] \in Entry /\ Sound(st[k])
      /\ \A j, k \in 1..Len(st) : st[j].id = st[k].id => j = k
  BY LenProperties, ElementOfSeq DEF States
<1>1. \A n \in 1..2 * Len(st) : c[n] \in Record
  <2>1. SUFFICES ASSUME NEW n \in 1..2 * Len(st)
                 PROVE  c[n] \in Record
    OBVIOUS
  <2>2. (n + 1) \div 2 \in 1..Len(st)
    BY <1>a
  <2> DEFINE e == st[(n + 1) \div 2]
  <2>3. e \in Entry /\ Sound(e)
    BY <2>2, <1>a
  <2>4. c[n] = IF n % 2 = 1 THEN CreateRec(e.id, e.dir) ELSE FullStatus(e)
    BY DEF Compacted
  <2> HIDE DEF e
  <2> QED
    BY <2>3, <2>4, CompactedEntry DEF Record
<1>2. c \in Seq(Record) /\ Len(c) = 2 * Len(st)
  <2>1. c = [n \in 1..2 * Len(st) |-> c[n]]
    BY DEF Compacted
  <2>2. 2 * Len(st) \in Nat
    BY <1>a
  <2> HIDE DEF c
  <2> QED
    BY <1>1, <2>1, <2>2, IsASeq, LenProperties
<1>3. \A k \in 1..Len(st) :
        /\ c[2 * k - 1] = CreateRec(st[k].id, st[k].dir)
        /\ c[2 * k] = FullStatus(st[k])
  <2>1. SUFFICES ASSUME NEW k \in 1..Len(st)
                 PROVE  /\ c[2 * k - 1] = CreateRec(st[k].id, st[k].dir)
                        /\ c[2 * k] = FullStatus(st[k])
    OBVIOUS
  <2>2. /\ 2 * k - 1 \in 1..2 * Len(st) /\ 2 * k \in 1..2 * Len(st)
        /\ ((2 * k - 1) + 1) \div 2 = k /\ (2 * k + 1) \div 2 = k
        /\ (2 * k - 1) % 2 = 1 /\ (2 * k) % 2 = 0
    BY <1>a
  <2> QED
    BY <2>2 DEF Compacted
<1> DEFINE At(k) == SubSeq(st, 1, k)
           T == {k \in 0..Len(st) : ReplayStates(c)[2 * k] # At(k)}
<1> HIDE DEF c
<1>4. \A k \in 0..Len(st) :
        /\ At(k) \in Seq(Entry) /\ Len(At(k)) = k
        /\ \A j \in 1..k : At(k)[j] = st[j]
  BY <1>a, SubSeqProperties
<1> HIDE DEF At
<1>5. \A j \in 1..Len(c) : ReplayStates(c)[j] = ApplyRec(ReplayStates(c)[j - 1], c[j])
  <2>1. Len(c) \in Nat
    BY <1>2, <1>a
  <2> QED
    BY <2>1, ReplayEquation
<1>6. T = {}
  <2>1. SUFFICES ASSUME T # {} PROVE FALSE
    OBVIOUS
  <2>2. PICK k \in T : \A j \in T : k <= j
    <3>1. T \in SUBSET Nat
      BY <1>a
    <3> QED
      BY <2>1, <3>1, LeastNat
  <2>3. k # 0
    <3>1. ReplayStates(c)[0] = <<>>
      BY <1>2, <1>a, ReplayEquation
    <3>2. At(0) = <<>>
      BY <1>4, <1>a, EmptySeq
    <3> QED
      BY <3>1, <3>2
  <2>4. k \in 1..Len(st) /\ k - 1 \in 0..Len(st) /\ k - 1 \notin T
    BY <2>2, <2>3, <1>a
  <2> DEFINE e == st[k]  p == At(k - 1)  cr == CreateRec(e.id, e.dir)  u == FullStatus(e)
             q == Append(p, Created(cr))
  <2>5. ReplayStates(c)[2 * k - 2] = p
    <3>1. ReplayStates(c)[2 * (k - 1)] = At(k - 1)
      BY <2>4
    <3>2. 2 * (k - 1) = 2 * k - 2
      BY <2>4
    <3> QED
      BY <3>1, <3>2
  <2>6. e \in Entry /\ Sound(e)
    BY <2>4, <1>a
  <2>7. /\ cr \in Creation /\ u \in Update /\ u.id = e.id
        /\ Merged(Created(cr), u) = e
    BY <2>6, CompactedEntry
  <2>8. Created(cr) \in Entry /\ Created(cr).id = e.id /\ cr.op = "create" /\ cr.id = e.id /\ u.op = "status"
    BY <2>6 DEF CreateRec, Created, Entry, Directions, Statuses, Handoffs, FullStatus, StatusRec
  <2>9. p \in Seq(Entry) /\ Len(p) = k - 1 /\ \A j \in 1..(k - 1) : p[j] = st[j]
    BY <1>4, <2>4
  <2>10. \A j \in 1..(k - 1) : p[j].id # e.id
    BY <2>9, <2>4, <1>a
  <2> HIDE DEF p
  <2>11. ReplayStates(c)[2 * k - 1] = q
    <3>1. 2 * k - 1 \in 1..Len(c) /\ (2 * k - 1) - 1 = 2 * k - 2
      BY <2>4, <1>2, <1>a
    <3>2. ReplayStates(c)[2 * k - 1] = ApplyRec(ReplayStates(c)[(2 * k - 1) - 1], c[2 * k - 1])
      BY <3>1, <1>5
    <3>3. ~Known(p, e.id)
      BY <2>9, <2>10, LenProperties DEF Known
    <3> QED
      BY <3>1, <3>2, <3>3, <2>5, <2>8, <1>3, <2>4 DEF ApplyRec, Without
  <2>12. ReplayStates(c)[2 * k] = ApplyRec(q, u)
    <3>1. 2 * k \in 1..Len(c)
      BY <2>4, <1>2, <1>a
    <3>2. ReplayStates(c)[2 * k] = ApplyRec(ReplayStates(c)[2 * k - 1], c[2 * k])
      BY <3>1, <1>5
    <3> QED
      BY <3>2, <2>11, <1>3, <2>4
  <2>13. /\ q \in Seq(Entry) /\ Len(q) = k /\ DOMAIN q = 1..k
         /\ \A j \in 1..(k - 1) : q[j] = st[j]
         /\ q[k] = Created(cr)
    <3> HIDE DEF cr
    <3>1. /\ q \in Seq(Entry) /\ Len(q) = (k - 1) + 1
          /\ \A j \in 1..(k - 1) : q[j] = p[j]
          /\ q[(k - 1) + 1] = Created(cr)
      BY <2>8, <2>9, AppendProperties
    <3> QED
      BY <3>1, <2>9, <2>4, LenProperties
  <2> HIDE DEF q, cr, u
  <2>14. ApplyRec(q, u) = [j \in 1..k |-> IF q[j].id = u.id THEN Merged(q[j], u) ELSE q[j]]
    BY <2>8, <2>13 DEF ApplyRec
  <2>15. \A j \in 1..k : ApplyRec(q, u)[j] = st[j]
    <3>1. \A j \in 1..(k - 1) : q[j].id # e.id
      BY <2>9, <2>10, <2>13
    <3>2. \A j \in 1..k : j = k \/ j \in 1..(k - 1)
      BY <2>4
    <3> QED
      BY SMTT(30), <3>1, <3>2, <2>7, <2>8, <2>13, <2>14
  <2>16. ApplyRec(q, u) = At(k)
    <3>1. At(k) \in Seq(Entry) /\ Len(At(k)) = k /\ \A j \in 1..k : At(k)[j] = st[j]
      BY <1>4, <2>4
    <3>2. At(k) = [j \in 1..k |-> st[j]]
      BY <3>1, LenProperties
    <3> QED
      BY <3>2, <2>14, <2>15
  <2> QED
    BY <2>12, <2>16, <2>2
<1>7. At(Len(st)) = st
  <2>1. At(Len(st)) \in Seq(Entry) /\ Len(At(Len(st))) = Len(st)
        /\ \A j \in 1..Len(st) : At(Len(st))[j] = st[j]
    BY SMTT(30), <1>4, <1>a
  <2> QED
    BY <2>1, <1>a, SeqEqual
<1>8. ReplayStates(c)[2 * Len(st)] = st
  BY <1>6, <1>7, <1>a
<1>9. Clean(c)
  BY <1>2, ElementOfSeq, SeqMonotonic DEF Clean, Line
<1> QED
  BY <1>2, <1>8, <1>9, CleanReplay DEF c

-----------------------------------------------------------------------------
(* The inductive invariant.  A kind of disk is a set of faults at most.      *)

Compacting == {"scratch", "detached", "renamed"}

JournalTypes ==
    /\ faults \in FaultSets
    /\ file \in Seq(Line) /\ synced \in 0..Len(file) /\ old \subseteq Seq(Line)
    /\ phase \in Phases /\ starting \in BOOLEAN /\ refusing \in BOOLEAN
    /\ mem \in States /\ reported \in States
    /\ rec \in Record \cup {NoRec} /\ (phase = "written" => rec \in Record)
    /\ reader \in {-1} \cup Nat
    /\ starting => phase \in Compacting
    /\ refusing => phase = "idle"

(* Between two appends nothing is promised that memory does not hold. *)
Steady ==
    /\ phase = "idle" \/ (phase \in Compacting /\ ~starting) => rec = NoRec /\ mem = reported
    /\ phase = "written" => mem = reported

(* No truncate fails and nobody else truncates: a running process has a log *)
(* of records only.                                                          *)
Intact ==
    /\ Clean(file) /\ \A img \in old : Clean(img)
    /\ phase # "down" => file \in Seq(Record)
    /\ starting \/ phase = "renamed" => Replay(file) = mem
    /\ phase = "renamed" => synced = Len(file)
    /\ reader = -1

(* No fsync fails: the log replays to memory and the record being appended. *)
Mirror ==
    /\ phase \in {"idle"} \cup Compacting => Replay(file) = mem
    /\ phase = "written" => Replay(file) = ApplyRec(mem, rec)

(* No directory sync fails: no append runs over a rename that may be undone. *)
OldGone ==
    \/ phase = "written" \/ (phase = "idle" /\ ~refusing)
    \/ phase \in {"scratch", "detached"} /\ ~starting
    => old = {}

(* The states a crash now can leave. *)
Recoverable ==
    {ReplayStates(file)[k] : k \in synced..Len(file)} \cup {Replay(img) : img \in old}

Exact == Recoverable \subseteq {reported, ApplyRec(reported, rec)}

(* Every unresolved entry of a is known in b. *)
OpenKnown(a, b) == \A k \in 1..Len(a) : a[k].status # "done" => Known(b, a[k].id)

Kept ==
    /\ \A b \in Recoverable : OpenKnown(reported, b)
    /\ phase = "written" => OpenKnown(ApplyRec(mem, rec), Replay(file))

JournalInv ==
    /\ JournalTypes
    /\ Steady
    /\ faults \subseteq {"short_write", "sync_error", "dirsync_error"} => Intact
    /\ faults \subseteq {"short_write", "dirsync_error"} => Mirror
    /\ faults \subseteq {"short_write", "sync_error"} => OldGone /\ Kept
    /\ faults \subseteq {"short_write"} => Exact

LEMMA NothingIsKnown == <<>> \in States /\ Clean(<<>>) /\ ReplayStates(<<>>)[0] = <<>>
<1>1. <<>> \in States /\ Clean(<<>>)
  BY EmptySeq DEF States, Clean
<1>2. Len(<<>>) = 0
  BY EmptySeq
<1> QED
  BY <1>1, <1>2, ReplayEquation

(* What a write and a cut make of a log is a log. *)
LEMMA WrittenType ==
    ASSUME NEW f \in Seq(Line), NEW line \in Line
    PROVE  Written(f, line) \in Seq(Line) /\ Len(Written(f, line)) >= Len(f)
<1>1. Len(f) \in Nat
  BY LenProperties
<1>2. CASE f # <<>> /\ Last(f) = Torn
  <2> DEFINE x == IF line = Torn THEN Torn ELSE Bad  g == SubSeq(f, 1, Len(f) - 1)
  <2>1. Written(f, line) = Append(g, x) /\ x \in Line
    BY <1>2 DEF Written, Front, Line
  <2>2. Len(f) > 0
    BY <1>1, <1>2, EmptySeq
  <2>3. g \in Seq(Line) /\ Len(g) = Len(f) - 1
    <3>1. \A k \in 1..(Len(f) - 1) : f[k] \in Line
      BY <1>1, ElementOfSeq
    <3>2. Len(f) - 1 \in Int /\ Len(f) - 1 >= 0
      BY <1>1, <2>2
    <3>3. g \in Seq(Line) /\ Len(g) = IF 1 <= Len(f) - 1 THEN (Len(f) - 1) - 1 + 1 ELSE 0
      BY <3>1, <3>2, SubSeqProperties
    <3> HIDE DEF g, x
    <3> QED
      BY <3>2, <3>3, <1>1
  <2> HIDE DEF g, x
  <2>4. Append(g, x) \in Seq(Line) /\ Len(Append(g, x)) = Len(g) + 1
    BY <2>1, <2>3, AppendProperties
  <2> QED
    BY <2>1, <2>3, <2>4, <1>1
<1>3. CASE ~(f # <<>> /\ Last(f) = Torn)
  BY <1>3, <1>1, AppendProperties DEF Written
<1> QED
  BY <1>2, <1>3

LEMMA CutImagesType ==
    ASSUME NEW f \in Seq(Line), NEW n \in 0..Len(f)
    PROVE  CutImages(f, n) \subseteq Seq(Line)
<1>1. SUFFICES ASSUME NEW img \in CutImages(f, n) PROVE img \in Seq(Line)
  OBVIOUS
<1>2. PICK k \in n..Len(f) : \/ img = SubSeq(f, 1, k)
                             \/ k < Len(f) /\ img = Append(SubSeq(f, 1, k), Torn)
  BY DEF CutImages
<1>3. SubSeq(f, 1, k) \in Seq(Line)
  <2>1. k \in Nat /\ k <= Len(f) /\ Len(f) \in Nat
    BY LenProperties
  <2>2. \A j \in 1..k : f[j] \in Line
    BY <2>1, ElementOfSeq
  <2> QED
    BY <2>1, <2>2, SubSeqProperties
<1> QED
  BY <1>2, <1>3, AppendProperties DEF Line

(* What the record of an append does to an unresolved entry: a purge is of a *)
(* resolved one, and no update opens a resolved one again.                    *)
Responsible(r) == \A k \in 1..Len(mem) : mem[k].id = r.id =>
    /\ r.op = "purge" => mem[k].status = "done"
    /\ r.op = "status" /\ mem[k].status = "done" => r.status = Keep

LEMMA RecordsWritten ==
    ASSUME mem \in States, NEW i \in Ids,
           (\E d \in Directions : Create(i, d)) \/ Apply(i) \/ Purge(i)
    PROVE  \E r \in Record : BeginAppend(r) /\ Responsible(r)
<1>a. /\ DOMAIN mem = 1..Len(mem) /\ Len(mem) \in Nat
      /\ \A k \in 1..Len(mem) : mem[k] \in Entry
      /\ \A j, k \in 1..Len(mem) : mem[j].id = mem[k].id => j = k
  BY LenProperties, ElementOfSeq DEF States
<1>b. ASSUME Known(mem, i)
      PROVE  /\ Place(mem, i) \in 1..Len(mem) /\ Get(mem, i) = mem[Place(mem, i)]
             /\ Get(mem, i).id = i /\ Get(mem, i) \in Entry
             /\ \A k \in 1..Len(mem) : mem[k].id = i => mem[k] = Get(mem, i)
  <2>1. Place(mem, i) \in 1..Len(mem) /\ mem[Place(mem, i)].id = i
    BY <1>a, <1>b DEF Known, Place
  <2> QED
    BY <2>1, <1>a DEF Get
<1>1. CASE \E d \in Directions : Create(i, d)
  <2>1. PICK d \in Directions : Create(i, d)
    BY <1>1
  <2>2. CreateRec(i, d) \in Record /\ CreateRec(i, d).op = "create"
    BY DEF CreateRec, Record, Creation
  <2> QED
    BY <2>1, <2>2 DEF Create, Responsible
<1>2. CASE Apply(i)
  <2> DEFINE e == Get(mem, i)
  <2>1. Known(mem, i)
    BY <1>2 DEF Apply
  <2>2. PICK u \in Updates(e) : BeginAppend(u)
    BY <1>2 DEF Apply
  <2>3. e \in Entry /\ e.id = i
    BY <2>1, <1>b
  <2> HIDE DEF e
  <2>4. u \in Update /\ u.id = e.id /\ u.op = "status" /\ (e.status = "done" => u.status = Keep)
    <3>1. e.id \in Ids /\ e.dir \in Directions /\ e.status \in Statuses
      BY <2>3 DEF Entry
    <3>2. CASE e.dir = "out" /\ e.status # "done"
      BY <2>2, <3>1, <3>2 DEF Updates, StatusRec, Update, Keep, Directions, Statuses, Handoffs
    <3>3. CASE e.dir = "in" /\ e.status # "done"
      BY <2>2, <3>1, <3>3 DEF Updates, StatusRec, Update, Keep, Directions, Statuses, Handoffs
    <3>4. CASE e.dir = "in" /\ e.status = "done"
      BY <2>2, <3>1, <3>4 DEF Updates, StatusRec, Update, Keep, Directions, Statuses, Handoffs
    <3>5. CASE e.dir = "out" /\ e.status = "done"
      BY <2>2, <3>5 DEF Updates
    <3> QED
      BY <3>1, <3>2, <3>3, <3>4, <3>5 DEF Directions
  <2>5. Responsible(u)
    BY <2>1, <2>3, <2>4, <1>b DEF Responsible, e
  <2> QED
    BY <2>2, <2>4, <2>5 DEF Record
<1>3. CASE Purge(i)
  <2>1. PurgeRec(i) \in Record /\ PurgeRec(i).op = "purge" /\ PurgeRec(i).id = i
    BY DEF PurgeRec, Record, Removal
  <2> QED
    BY <2>1, <1>3, <1>b DEF Purge, Responsible
<1> QED
  BY <1>1, <1>2, <1>3

-----------------------------------------------------------------------------
(* The invariant holds at the start and is kept by every step.               *)

LEMMA InitHolds == JournalInit => JournalInv
<1> SUFFICES ASSUME JournalInit PROVE JournalInv
  OBVIOUS
<1> USE DEF JournalInit
<1>1. file = <<>> /\ Len(file) = 0 /\ file \in Seq(Line)
  BY EmptySeq
<1>2. JournalTypes
  <2>1. synced \in 0..Len(file) /\ reader \in {-1}
    BY <1>1
  <2>2. rec \in Record \cup {NoRec} /\ mem \in States /\ reported \in States
    BY NothingIsKnown
  <2> QED
    BY <1>1, <2>1, <2>2 DEF JournalTypes, Phases
<1>3. Replay(file) = <<>>
  BY <1>1, NothingIsKnown, CleanReplay
<1>4. Intact
  BY <1>1, <1>3, NothingIsKnown DEF Intact
<1>5. Recoverable = {<<>>}
  <2>1. synced..Len(file) = {0}
    BY <1>1
  <2> QED
    BY <2>1, <1>1, NothingIsKnown DEF Recoverable
<1>6. Kept
  <2>1. Len(reported) = 0
    BY <1>1
  <2> QED
    BY <2>1 DEF Kept, OpenKnown
<1> QED
  BY <1>2, <1>4, <1>5, <1>6 DEF JournalInv, Steady, Mirror, OldGone, Exact, Compacting

LEMMA TypesStep == JournalTypes /\ [JournalNext]_journalVars => JournalTypes'
<1> SUFFICES ASSUME JournalTypes, [JournalNext]_journalVars PROVE JournalTypes'
  OBVIOUS
<1>a. /\ file \in Seq(Line) /\ Len(file) \in Nat /\ synced \in 0..Len(file)
      /\ mem \in States /\ <<>> \in States
  BY LenProperties, NothingIsKnown DEF JournalTypes
<1>b. \A n \in 0..Len(file) :
        SubSeq(file, 1, n) \in Seq(Line) /\ Len(SubSeq(file, 1, n)) = n
  <2>1. \A n \in 1..Len(file) : file[n] \in Line
    BY <1>a, ElementOfSeq
  <2> QED
    BY <2>1, <1>a, SubSeqProperties
<1>c. CutImages(file, synced) \subseteq Seq(Line)
  BY <1>a, CutImagesType
<1>1. ASSUME NEW r \in Record, BeginAppend(r) PROVE JournalTypes'
  <2>1. r \in Line
    BY DEF Line
  <2>2. Written(file, r) \in Seq(Line) /\ Len(Written(file, r)) >= Len(file)
    BY <2>1, <1>a, WrittenType
  <2>3. Len(Written(file, r)) \in Nat
    BY <2>2, LenProperties
  <2> QED
    BY <1>1, <1>a, <2>2, <2>3 DEF BeginAppend, Ready, JournalTypes, Phases, Compacting
<1>2. CASE ShortWrite
  <2>2. Written(file, Torn) \in Seq(Line) /\ Len(Written(file, Torn)) >= Len(file)
    BY <1>a, WrittenType DEF Line
  <2>3. Len(Written(file, Torn)) \in Nat
    BY <2>2, LenProperties
  <2> QED
    BY <1>2, <1>a, <2>2, <2>3 DEF ShortWrite, Ready, JournalTypes
<1>3. CASE FinishAppend
  <2>1. ApplyRec(mem, rec) \in States
    BY <1>3, RecordKeepsStates DEF JournalTypes, Line
  <2> QED
    BY <1>3, <1>a, <2>1 DEF FinishAppend, JournalTypes, Phases, Compacting
<1>4. CASE SyncFails
  BY <1>4 DEF SyncFails, JournalTypes, Phases, Compacting
<1>5. CASE BeginCompact
  BY <1>5 DEF BeginCompact, JournalTypes, Phases, Compacting
<1>6. ASSUME NEW refuse \in BOOLEAN, phase \in Compacting, GiveUp(refuse),
             UNCHANGED <<faults, file, synced, old, reported, rec, reader>>
      PROVE  JournalTypes'
  <2>1. /\ phase' \in {"down", "idle"} /\ starting' = FALSE /\ refusing' \in BOOLEAN
        /\ refusing' => phase' = "idle"
        /\ mem' \in States
    BY <1>6, <1>a DEF GiveUp, JournalTypes
  <2> QED
    BY <1>6, <2>1 DEF JournalTypes, Phases
<1>16. CASE ScratchFails \/ CloseHandle \/ RenameFails \/ ReopenFails \/ SyncDirFails
  <2>1. CASE phase' = "detached"
    BY <1>16, <2>1 DEF ScratchFails, CloseHandle, RenameFails, ReopenFails, SyncDirFails, GiveUp,
       JournalTypes, Phases, Compacting
  <2>2. CASE phase' # "detached"
    BY <1>16, <1>6, <2>2 DEF ScratchFails, CloseHandle, RenameFails, ReopenFails, SyncDirFails,
       Compacting
  <2> QED
    BY <2>1, <2>2
<1>7. CASE Rename
  <2>1. Compacted(mem) \in Seq(Line)
    BY <1>a, CompactionReplays, SeqMonotonic DEF Line
  <2>2. Len(Compacted(mem)) \in Nat
    BY <2>1, LenProperties
  <2> QED
    BY <1>7, <1>c, <2>1, <2>2 DEF Rename, JournalTypes, Phases, Compacting
<1>8. CASE SyncDir
  BY <1>8 DEF SyncDir, JournalTypes, Phases, Compacting
<1>9. CASE Open
  <2>1. GoodPrefix(file) \in Seq(Line) /\ Len(GoodPrefix(file)) \in 0..Len(file)
    BY <1>a, <1>b, GoodLinesProperties DEF GoodPrefix
  <2>2. Replay(file) \in States
    BY <1>a, ReplayType, GoodLinesProperties DEF Replay
  <2> QED
    BY <1>9, <1>a, <2>1, <2>2 DEF Open, JournalTypes, Phases, Compacting
<1>10. CASE Close
  <2>1. synced' \in 0..Len(file') /\ mem' \in States
    BY <1>10, <1>a DEF Close
  <2> QED
    BY <1>10, <2>1 DEF Close, JournalTypes, Phases, Compacting
<1>11. CASE Kill
  BY <1>11, <1>a DEF Kill, JournalTypes, Phases, Compacting
<1>12. CASE PowerCut
  <2>1. CrashImages \subseteq Seq(Line)
    BY <1>c DEF CrashImages, JournalTypes
  <2>2. file' \in Seq(Line) /\ Len(file') \in Nat
    BY <1>12, <2>1, LenProperties DEF PowerCut
  <2>3. synced' \in 0..Len(file') /\ mem' \in States /\ reader' \in {-1}
    BY <1>12, <1>a, <2>2 DEF PowerCut
  <2> QED
    BY <1>12, <2>2, <2>3 DEF PowerCut, JournalTypes, Phases, Compacting
<1>13. CASE ReaderReads
  BY <1>13, <1>a, GoodLinesProperties DEF ReaderReads, JournalTypes
<1>14. CASE ReaderStats
  <2>1. CASE Len(file) > reader
    <3>1. reader \in 0..Len(file)
      BY <1>14, <1>a, <2>1 DEF ReaderStats, JournalTypes
    <3>2. file' \in Seq(Line) /\ Len(file') = reader
      BY <1>14, <1>b, <2>1, <3>1 DEF ReaderStats
    <3> QED
      BY <1>14, <1>a, <3>1, <3>2 DEF ReaderStats, JournalTypes
  <2>2. CASE ~(Len(file) > reader)
    BY <1>14, <1>a, <2>2 DEF ReaderStats, JournalTypes
  <2> QED
    BY <2>1, <2>2
<1>15. CASE UNCHANGED journalVars
  BY <1>15 DEF journalVars, JournalTypes
<1> QED
  BY <1>1, <1>2, <1>3, <1>4, <1>5, <1>7, <1>8, <1>9, <1>10, <1>11, <1>12, <1>13, <1>14,
     <1>15, <1>16, <1>a, RecordsWritten DEF JournalNext

LEMMA SteadyStep ==
    JournalTypes /\ Steady /\ [JournalNext]_journalVars => Steady'
<1> SUFFICES ASSUME JournalTypes, Steady, [JournalNext]_journalVars PROVE Steady'
  OBVIOUS
<1> USE DEF JournalTypes, Steady, Compacting, Phases
<1>1. ASSUME NEW r \in Record, BeginAppend(r) PROVE Steady'
  BY <1>1 DEF BeginAppend, Ready
<1>2. CASE ShortWrite
  BY <1>2 DEF ShortWrite, Ready
<1>3. CASE FinishAppend \/ SyncFails
  BY <1>3 DEF FinishAppend, SyncFails
<1>4. CASE ScratchFails \/ CloseHandle \/ RenameFails \/ ReopenFails \/ SyncDirFails
  BY <1>4 DEF ScratchFails, CloseHandle, RenameFails, ReopenFails, SyncDirFails, GiveUp
<1>5. CASE BeginCompact \/ Rename \/ SyncDir
  BY <1>5 DEF BeginCompact, Rename, SyncDir
<1>6. CASE Open \/ Close \/ Kill \/ PowerCut
  BY <1>6 DEF Open, Close, Kill, PowerCut
<1>7. CASE ReaderReads \/ ReaderStats \/ UNCHANGED journalVars
  BY <1>7 DEF ReaderReads, ReaderStats, journalVars
<1> QED
  BY <1>1, <1>2, <1>3, <1>4, <1>5, <1>6, <1>7, RecordsWritten DEF JournalNext

LEMMA OldGoneStep ==
    ASSUME JournalTypes, OldGone, [JournalNext]_journalVars,
           faults \subseteq {"short_write", "sync_error"}
    PROVE  OldGone'
<1> USE DEF JournalTypes, OldGone, Compacting, Phases
<1>1. ASSUME NEW r \in Record, BeginAppend(r) PROVE OldGone'
  BY <1>1 DEF BeginAppend, Ready
<1>2. CASE ShortWrite
  BY <1>2 DEF ShortWrite, Ready
<1>3. CASE FinishAppend \/ SyncFails
  BY <1>3 DEF FinishAppend, SyncFails
<1>4. CASE ScratchFails \/ CloseHandle \/ RenameFails \/ ReopenFails \/ SyncDirFails
  BY <1>4 DEF ScratchFails, CloseHandle, RenameFails, ReopenFails, SyncDirFails, GiveUp
<1>5. CASE BeginCompact \/ Rename \/ SyncDir
  BY <1>5 DEF BeginCompact, Rename, SyncDir
<1>6. CASE Open \/ Close \/ Kill \/ PowerCut
  BY <1>6 DEF Open, Close, Kill, PowerCut
<1>7. CASE ReaderReads \/ ReaderStats \/ UNCHANGED journalVars
  BY <1>7 DEF ReaderReads, ReaderStats, journalVars
<1> QED
  BY <1>1, <1>2, <1>3, <1>4, <1>5, <1>6, <1>7, RecordsWritten DEF JournalNext

(* A log of records, as a running process has it, is clean. *)
LEMMA RecordsAreClean ==
    ASSUME NEW f \in Seq(Record)
    PROVE  /\ f \in Seq(Line) /\ Clean(f) /\ Len(f) \in Nat
           /\ Replay(f) = ReplayStates(f)[Len(f)]
           /\ \A k \in 1..Len(f) : f[k] \notin {Bad, Torn}
<1>1. f \in Seq(Line) /\ Len(f) \in Nat /\ \A k \in 1..Len(f) : f[k] \in Record
  BY SeqMonotonic, LenProperties, ElementOfSeq DEF Line
<1>2. Clean(f)
  BY <1>1 DEF Clean
<1> QED
  BY <1>1, <1>2, CleanReplay, LinesDiffer DEF Parses

(* What an append does to a log of records. *)
LEMMA BeginAppendReplay ==
    ASSUME file \in Seq(Record), NEW r \in Record, BeginAppend(r)
    PROVE  /\ file' \in Seq(Record) /\ Len(file') = Len(file) + 1
           /\ \A k \in 0..Len(file) : ReplayStates(file')[k] = ReplayStates(file)[k]
           /\ ReplayStates(file')[Len(file')] = ApplyRec(Replay(file), r)
           /\ Replay(file') = ApplyRec(Replay(file), r)
<1>1. file' = Append(file, r)
  BY AppendReplay DEF BeginAppend
<1>2. /\ file' \in Seq(Record) /\ Len(file') = Len(file) + 1
      /\ \A k \in 0..Len(file) : ReplayStates(file')[k] = ReplayStates(file)[k]
      /\ ReplayStates(file')[Len(file')] = ApplyRec(ReplayStates(file)[Len(file)], r)
  BY <1>1, AppendReplay
<1>3. /\ Replay(file) = ReplayStates(file)[Len(file)]
      /\ Replay(file') = ReplayStates(file')[Len(file')]
  BY <1>2, RecordsAreClean
<1> QED
  BY <1>2, <1>3

LEMMA IntactStep ==
    ASSUME JournalTypes, Intact, [JournalNext]_journalVars,
           faults \subseteq {"short_write", "sync_error", "dirsync_error"}
    PROVE  Intact'
<1>a. /\ file \in Seq(Line) /\ Len(file) \in Nat /\ synced \in 0..Len(file)
      /\ Clean(file) /\ mem \in States
  BY LenProperties DEF JournalTypes, Intact
<1>1. ASSUME NEW r \in Record, BeginAppend(r) PROVE Intact'
  <2>1. file \in Seq(Record)
    BY <1>1 DEF Intact, BeginAppend, Ready
  <2>2. file' \in Seq(Record) /\ Clean(file')
    BY <2>1, <1>1, BeginAppendReplay, RecordsAreClean
  <2> QED
    BY <1>1, <2>2 DEF BeginAppend, Ready, Intact, JournalTypes, Compacting
<1>2. CASE ShortWrite
  BY <1>2 DEF ShortWrite, Ready, Intact
<1>3. CASE FinishAppend \/ SyncFails
  BY <1>3 DEF FinishAppend, SyncFails, Intact, JournalTypes, Compacting
<1>4. CASE BeginCompact
  BY <1>4 DEF BeginCompact, Intact, JournalTypes, Compacting
<1>5. CASE ScratchFails \/ CloseHandle \/ RenameFails \/ ReopenFails \/ SyncDirFails
  BY <1>5 DEF ScratchFails, CloseHandle, RenameFails, ReopenFails, SyncDirFails, GiveUp, Intact,
     JournalTypes, Compacting
<1>6. CASE Rename
  <2>1. Compacted(mem) \in Seq(Record) /\ Replay(Compacted(mem)) = mem
    BY <1>a, CompactionReplays
  <2>2. \A img \in CutImages(file, synced) : Clean(img)
    BY <1>a, CutImagesReplay
  <2>3. Clean(Compacted(mem))
    BY <2>1, RecordsAreClean
  <2> QED
    BY <1>6, <2>1, <2>2, <2>3 DEF Rename, Intact
<1>7. CASE SyncDir
  BY <1>7 DEF SyncDir, Intact, JournalTypes, Compacting
<1>8. CASE Open
  <2>1. GoodPrefix(file) \in Seq(Record) /\ Replay(GoodPrefix(file)) = Replay(file)
    BY <1>a, GoodPrefixReplay
  <2>2. Clean(GoodPrefix(file))
    BY <2>1, RecordsAreClean
  <2> QED
    BY <1>8, <2>1, <2>2 DEF Open, Intact
<1>9. CASE Close \/ Kill
  BY <1>9 DEF Close, Kill, Intact, JournalTypes, Compacting
<1>10. CASE PowerCut
  <2>1. \A img \in CrashImages : Clean(img)
    BY <1>a, CutImagesReplay DEF CrashImages, Intact
  <2> QED
    BY <1>10, <2>1 DEF PowerCut, Intact
<1>11. CASE ReaderReads \/ ReaderStats
  BY <1>11 DEF ReaderReads, ReaderStats, Intact
<1>12. CASE UNCHANGED journalVars
  BY <1>12 DEF journalVars, Intact
<1> QED
  BY <1>1, <1>2, <1>3, <1>4, <1>5, <1>6, <1>7, <1>8, <1>9, <1>10, <1>11, <1>12, <1>a,
     RecordsWritten DEF JournalNext

LEMMA MirrorStep ==
    ASSUME JournalTypes, Intact, Mirror, [JournalNext]_journalVars,
           faults \subseteq {"short_write", "dirsync_error"}
    PROVE  Mirror'
<1>1. ASSUME NEW r \in Record, BeginAppend(r) PROVE Mirror'
  <2>1. file \in Seq(Record) /\ Replay(file) = mem
    BY <1>1 DEF Intact, Mirror, BeginAppend, Ready
  <2>2. Replay(file') = ApplyRec(mem, r)
    BY <2>1, <1>1, BeginAppendReplay
  <2> QED
    BY <1>1, <2>2 DEF BeginAppend, Mirror, Compacting
<1>2. CASE ShortWrite
  BY <1>2 DEF ShortWrite, Mirror
<1>3. CASE FinishAppend \/ SyncFails
  BY <1>3 DEF FinishAppend, SyncFails, Mirror
<1>4. CASE BeginCompact
  BY <1>4 DEF BeginCompact, Mirror
<1>5. CASE ScratchFails \/ CloseHandle \/ RenameFails \/ ReopenFails \/ SyncDirFails
  BY <1>5 DEF ScratchFails, CloseHandle, RenameFails, ReopenFails, SyncDirFails, GiveUp, Mirror,
     Compacting
<1>6. CASE Rename
  BY <1>6, CompactionReplays DEF Rename, Mirror, JournalTypes
<1>7. CASE SyncDir
  BY <1>7 DEF SyncDir, Mirror, Compacting
<1>8. CASE Open
  BY <1>8, GoodPrefixReplay DEF Open, Mirror, JournalTypes
<1>9. CASE Close \/ Kill \/ PowerCut
  BY <1>9 DEF Close, Kill, PowerCut, Mirror, Compacting
<1>10. CASE ReaderReads \/ ReaderStats
  BY <1>10 DEF ReaderReads, ReaderStats, Intact
<1>11. CASE UNCHANGED journalVars
  BY <1>11 DEF journalVars, Mirror
<1> QED
  BY <1>1, <1>2, <1>3, <1>4, <1>5, <1>6, <1>7, <1>8, <1>9, <1>10, <1>11,
     RecordsWritten DEF JournalNext, JournalTypes

(* What each step does to the states a crash can leave. *)

LEMMA NowIsRecoverable ==
    ASSUME JournalTypes, Intact
    PROVE  Replay(file) \in Recoverable
<1>1. Replay(file) = ReplayStates(file)[Len(file)]
  BY CleanReplay DEF Intact
<1>2. Len(file) \in synced..Len(file)
  BY LenProperties DEF JournalTypes
<1> QED
  BY <1>1, <1>2 DEF Recoverable

LEMMA ImagesAreRecoverable ==
    ASSUME JournalTypes, Intact
    PROVE  \A img \in CrashImages : Clean(img) /\ Replay(img) \in Recoverable
  BY CutImagesReplay DEF CrashImages, Recoverable, Intact, JournalTypes

LEMMA AppendRecoverable ==
    ASSUME JournalTypes, Intact, NEW r \in Record, BeginAppend(r)
    PROVE  Recoverable' \subseteq Recoverable \cup {ApplyRec(Replay(file), r)}
<1>1. file \in Seq(Record) /\ Len(file) \in Nat /\ synced \in 0..Len(file)
  BY LenProperties DEF Intact, BeginAppend, Ready, JournalTypes
<1>2. /\ Len(file') = Len(file) + 1
      /\ \A k \in 0..Len(file) : ReplayStates(file')[k] = ReplayStates(file)[k]
      /\ ReplayStates(file')[Len(file')] = ApplyRec(Replay(file), r)
  BY <1>1, BeginAppendReplay
<1>3. synced' = synced /\ old' = old
  BY DEF BeginAppend
<1>4. ASSUME NEW k \in synced'..Len(file')
      PROVE  ReplayStates(file')[k] \in Recoverable \cup {ApplyRec(Replay(file), r)}
  <2>1. k = Len(file') \/ k \in synced..Len(file)
    BY <1>1, <1>2, <1>3
  <2>2. \A j \in synced..Len(file) : ReplayStates(file')[j] = ReplayStates(file)[j]
    BY <1>1, <1>2
  <2> QED
    BY <2>1, <2>2, <1>2 DEF Recoverable
<1> QED
  BY <1>3, <1>4 DEF Recoverable

LEMMA SyncedRecoverable ==
    ASSUME JournalTypes, Intact, UNCHANGED file, synced' = Len(file), old' \subseteq old
    PROVE  Recoverable' \subseteq {Replay(file)} \cup {Replay(img) : img \in old'}
<1>1. Replay(file) = ReplayStates(file)[Len(file)]
  BY CleanReplay DEF Intact
<1>2. synced'..Len(file') = {Len(file)}
  BY LenProperties DEF JournalTypes
<1> QED
  BY <1>1, <1>2 DEF Recoverable

LEMMA RenameRecoverable ==
    ASSUME JournalTypes, Intact, Rename
    PROVE  Recoverable' \subseteq Recoverable \cup {mem}
<1>1. Compacted(mem) \in Seq(Record) /\ Replay(Compacted(mem)) = mem
  BY CompactionReplays DEF JournalTypes
<1>2. Len(file') \in Nat /\ ReplayStates(file')[Len(file')] = mem /\ synced' = Len(file')
  BY <1>1, RecordsAreClean DEF Rename
<1>3. synced'..Len(file') = {Len(file')}
  BY <1>2
<1>4. \A img \in old' : Replay(img) \in Recoverable
  BY ImagesAreRecoverable DEF Rename, CrashImages
<1> QED
  BY <1>2, <1>3, <1>4 DEF Recoverable

LEMMA OpenRecoverable ==
    ASSUME JournalTypes, Intact, Open
    PROVE  Recoverable' \subseteq Recoverable
<1>1. /\ file \in Seq(Line) /\ Len(file) \in Nat /\ synced \in 0..Len(file)
      /\ GoodLines(file) \in 0..Len(file)
  BY LenProperties, GoodLinesProperties DEF JournalTypes
<1>2. /\ Len(file') = GoodLines(file)
      /\ \A k \in 0..Len(file') : ReplayStates(file')[k] = ReplayStates(file)[k]
  BY <1>1, GoodPrefixReplay DEF Open
<1>3. ASSUME NEW k \in synced'..Len(file')
      PROVE  ReplayStates(file')[k] \in Recoverable
  <2>1. CASE synced < Len(file')
    <3>1. k \in synced..Len(file) /\ k \in 0..Len(file')
      BY <2>1, <1>1, <1>2, <1>3 DEF Open
    <3> QED
      BY <3>1, <1>2 DEF Recoverable
  <2>2. CASE ~(synced < Len(file'))
    <3>1. k = GoodLines(file) /\ k \in 0..Len(file')
      BY <2>2, <1>1, <1>2, <1>3 DEF Open
    <3>2. ReplayStates(file')[k] = Replay(file)
      BY <3>1, <1>2 DEF Replay
    <3> QED
      BY <3>2, NowIsRecoverable
  <2> QED
    BY <2>1, <2>2
<1> QED
  BY <1>3 DEF Recoverable, Open

LEMMA PowerCutRecoverable ==
    ASSUME JournalTypes, Intact, PowerCut
    PROVE  Recoverable' \subseteq Recoverable
<1>1. Clean(file') /\ Replay(file') \in Recoverable
  BY ImagesAreRecoverable DEF PowerCut
<1>2. Replay(file') = ReplayStates(file')[Len(file')] /\ Len(file') \in Nat
  BY <1>1, CleanReplay, LenProperties DEF Clean
<1>3. synced'..Len(file') = {Len(file')} /\ old' = {}
  BY <1>2 DEF PowerCut
<1> QED
  BY <1>1, <1>2, <1>3 DEF Recoverable

(* A step that writes nothing leaves the same states to a crash. *)
LEMMA QuietRecoverable ==
    ASSUME UNCHANGED <<file, synced, old>>
    PROVE  Recoverable' = Recoverable
  BY DEF Recoverable

(* Where an entry of the new state comes from. *)
LEMMA EntriesAfter ==
    ASSUME NEW a \in States, NEW r \in Record, NEW k \in 1..Len(ApplyRec(a, r))
    PROVE  LET e == ApplyRec(a, r)[k] IN
           \/ r.op = "create" /\ e.id = r.id
           \/ \E j \in 1..Len(a) :
                /\ a[j].id = e.id /\ (e.id = r.id => r.op = "status")
                /\ e.status = IF e.id = r.id THEN Set(r.status, a[j].status) ELSE a[j].status
<1>a. /\ a \in Seq(Entry) /\ Len(a) \in Nat /\ DOMAIN a = 1..Len(a)
      /\ \A j \in 1..Len(a) : a[j] \in Entry /\ Sound(a[j])
  BY LenProperties, ElementOfSeq DEF States
<1> DEFINE w == Without(a, r.id)
<1>b. ASSUME r.id \in Ids
      PROVE  /\ w \in Seq(Entry) /\ Len(w) \in Nat
             /\ \A n \in 1..Len(w) : \E j \in 1..Len(a) : w[n] = a[j] /\ a[j].id # r.id
  <2>1. w \in States
    BY <1>b, RemovalProperties
  <2> QED
    BY <1>b, <2>1, RemovalProperties, LenProperties DEF States
<1> HIDE DEF w
<1>1. CASE r \in Creation
  <2>1. ApplyRec(a, r) = Append(w, Created(r)) /\ r.op = "create" /\ r.id \in Ids
    BY <1>1 DEF ApplyRec, Creation, w
  <2>2. Created(r) \in Entry /\ Created(r).id = r.id
    BY <1>1 DEF Creation, Created, Entry, Statuses, Handoffs, Directions
  <2> HIDE DEF Created
  <2>3. /\ Len(Append(w, Created(r))) = Len(w) + 1
        /\ \A n \in 1..Len(w) : Append(w, Created(r))[n] = w[n]
        /\ Append(w, Created(r))[Len(w) + 1] = Created(r)
    BY <2>1, <2>2, <1>b, AppendProperties
  <2>4. CASE k = Len(w) + 1
    BY <2>1, <2>2, <2>3, <2>4
  <2>5. CASE k \in 1..Len(w)
    <3>1. ApplyRec(a, r)[k] = w[k]
      BY <2>1, <2>3, <2>5
    <3>2. PICK j \in 1..Len(a) : w[k] = a[j] /\ a[j].id # r.id
      BY <2>1, <2>5, <1>b
    <3> QED
      BY <3>1, <3>2
  <2> QED
    BY <2>1, <2>3, <2>4, <2>5, <1>b
<1>2. CASE r \in Removal
  <2>1. ApplyRec(a, r) = w /\ r.op = "purge" /\ r.id \in Ids
    BY <1>2 DEF ApplyRec, Removal, w
  <2>2. PICK j \in 1..Len(a) : w[k] = a[j] /\ a[j].id # r.id
    BY <2>1, <1>b
  <2> QED
    BY <2>1, <2>2
<1>3. CASE r \in Update
  <2> DEFINE b == [n \in 1..Len(a) |-> IF a[n].id = r.id THEN Merged(a[n], r) ELSE a[n]]
  <2>1. ApplyRec(a, r) = b /\ r.op = "status"
    BY <1>3, <1>a DEF ApplyRec, Update
  <2>2. Len(b) = Len(a)
    BY <1>a, LenProperties
  <2>3. k \in 1..Len(a) /\ a[k] \in Entry /\ Sound(a[k])
    BY <2>1, <2>2, <1>a
  <2>4. Merged(a[k], r).id = a[k].id /\ Merged(a[k], r).status = Set(r.status, a[k].status)
    BY <2>3, <1>3, MergeProperties
  <2>5. b[k] = IF a[k].id = r.id THEN Merged(a[k], r) ELSE a[k]
    BY <2>3
  <2> HIDE DEF b
  <2> QED
    BY <2>1, <2>3, <2>4, <2>5
<1> QED
  BY <1>1, <1>2, <1>3 DEF Record

(* An append cannot make an unresolved entry unknown to the log. *)
LEMMA AppendKeepsOpen ==
    ASSUME mem \in States, NEW b \in States, OpenKnown(mem, b), NEW r \in Record, Responsible(r)
    PROVE  /\ OpenKnown(mem, ApplyRec(b, r))
           /\ OpenKnown(ApplyRec(mem, r), ApplyRec(b, r))
<1>a. \A j \in 1..Len(mem) : mem[j] \in Entry /\ mem[j].id \in Ids
  <2>1. \A j \in 1..Len(mem) : mem[j] \in Entry
    BY ElementOfSeq DEF States
  <2> QED
    BY <2>1 DEF Entry
<1>b. r.id \in Ids /\ r.op \in {"create", "purge", "status"}
  BY DEF Record, Creation, Update, Removal
<1>c. \A i \in Ids : Known(ApplyRec(b, r), i) <=>
         CASE r.op = "create" -> i = r.id \/ Known(b, i)
           [] r.op = "purge"  -> i # r.id /\ Known(b, i)
           [] OTHER           -> Known(b, i)
  BY RecordKeepsStates DEF Line
<1>1. OpenKnown(mem, ApplyRec(b, r))
  <2>1. SUFFICES ASSUME NEW j \in 1..Len(mem), mem[j].status # "done"
                 PROVE  Known(ApplyRec(b, r), mem[j].id)
    BY DEF OpenKnown
  <2>2. Known(b, mem[j].id) /\ mem[j].id \in Ids
    BY <2>1, <1>a DEF OpenKnown
  <2>3. r.op = "purge" => mem[j].id # r.id
    BY <2>1 DEF Responsible
  <2> QED
    BY <2>2, <2>3, <1>b, <1>c
<1>2. OpenKnown(ApplyRec(mem, r), ApplyRec(b, r))
  <2>1. SUFFICES ASSUME NEW k \in 1..Len(ApplyRec(mem, r)), ApplyRec(mem, r)[k].status # "done"
                 PROVE  Known(ApplyRec(b, r), ApplyRec(mem, r)[k].id)
    BY DEF OpenKnown
  <2> DEFINE e == ApplyRec(mem, r)[k]
  <2>2. CASE r.op = "create" /\ e.id = r.id
    BY <2>2, <1>b, <1>c
  <2>3. CASE \E j \in 1..Len(mem) :
               /\ mem[j].id = e.id /\ (e.id = r.id => r.op = "status")
               /\ e.status = IF e.id = r.id THEN Set(r.status, mem[j].status) ELSE mem[j].status
    <3>1. PICK j \in 1..Len(mem) :
               /\ mem[j].id = e.id /\ (e.id = r.id => r.op = "status")
               /\ e.status = IF e.id = r.id THEN Set(r.status, mem[j].status) ELSE mem[j].status
      BY <2>3
    <3> HIDE DEF e
    <3>2. mem[j].status # "done"
      BY <2>1, <3>1 DEF Responsible, Set, e
    <3>3. Known(b, e.id) /\ e.id \in Ids
      BY <3>1, <3>2, <1>a DEF OpenKnown
    <3> QED
      BY <3>1, <3>3, <1>b, <1>c DEF e
  <2> QED
    BY <2>2, <2>3, EntriesAfter
<1> QED
  BY <1>1, <1>2

(* What each step leaves to a crash. *)
LEMMA RecoverableStep ==
    ASSUME JournalTypes, Steady, Intact, [JournalNext]_journalVars,
           faults \subseteq {"short_write", "sync_error", "dirsync_error"}
    PROVE  \/ \E r \in Record : BeginAppend(r) /\ Responsible(r)
           \/ FinishAppend
           \/ SyncFails /\ Recoverable' = Recoverable
           \/ SyncDir /\ Recoverable' \subseteq {mem}
           \/ Rename /\ Recoverable' \subseteq Recoverable \cup {mem}
           \/ /\ Recoverable' \subseteq Recoverable
              /\ UNCHANGED <<reported, rec>> /\ phase' # "written"
           \/ UNCHANGED journalVars
<1>1. CASE ShortWrite \/ BeginCompact \/ ScratchFails \/ CloseHandle \/ RenameFails \/ ReopenFails
           \/ SyncDirFails \/ Kill
  BY <1>1, QuietRecoverable DEF ShortWrite, Ready, BeginCompact, ScratchFails, CloseHandle,
     RenameFails, ReopenFails, SyncDirFails, Kill, GiveUp, Intact
<1>2. CASE SyncFails
  BY <1>2, QuietRecoverable DEF SyncFails
<1>3. CASE SyncDir
  <2>1. Replay(file) = mem /\ synced = Len(file) /\ UNCHANGED <<file, synced>> /\ old' = {}
    BY <1>3 DEF SyncDir, Intact
  <2>2. Recoverable' \subseteq {mem}
    BY <2>1, SyncedRecoverable
  <2> QED
    BY <1>3, <2>2
<1>4. CASE Rename
  BY <1>4, RenameRecoverable
<1>5. CASE Open
  BY <1>5, OpenRecoverable DEF Open
<1>6. CASE Close
  <2>1. Recoverable' \subseteq {Replay(file)} \cup {Replay(img) : img \in old}
    BY <1>6, SyncedRecoverable DEF Close
  <2>2. Recoverable' \subseteq Recoverable
    BY <2>1, NowIsRecoverable DEF Recoverable
  <2> QED
    BY <1>6, <2>2 DEF Close
<1>7. CASE PowerCut
  BY <1>7, PowerCutRecoverable DEF PowerCut
<1>8. CASE ReaderReads \/ ReaderStats
  BY <1>8 DEF ReaderReads, ReaderStats, Intact
<1> QED
  BY <1>1, <1>2, <1>3, <1>4, <1>5, <1>6, <1>7, <1>8, RecordsWritten DEF JournalNext, JournalTypes

LEMMA ExactStep ==
    ASSUME JournalTypes, Steady, Intact, Mirror, OldGone, Exact, [JournalNext]_journalVars,
           faults \subseteq {"short_write"}
    PROVE  Exact'
<1>a. ApplyRec(mem, NoRec) = mem /\ ApplyRec(reported, NoRec) = reported
  BY DEF ApplyRec, NoRec
<1>1. ASSUME NEW r \in Record, BeginAppend(r) PROVE Exact'
  <2>1. phase = "idle" /\ rec = NoRec /\ mem = reported /\ Replay(file) = mem
    BY <1>1 DEF BeginAppend, Ready, Steady, Mirror
  <2>2. Recoverable' \subseteq {reported, ApplyRec(reported, r)}
    BY <1>1, <2>1, <1>a, AppendRecoverable DEF Exact
  <2> QED
    BY <1>1, <2>2 DEF Exact, BeginAppend
<1>2. CASE FinishAppend
  <2>1. Replay(file) = ApplyRec(mem, rec) /\ old = {}
    BY <1>2 DEF FinishAppend, Mirror, OldGone
  <2>2. Recoverable' \subseteq {Replay(file)}
    BY <1>2, <2>1, SyncedRecoverable DEF FinishAppend
  <2> QED
    BY <1>2, <2>1, <2>2 DEF FinishAppend, Exact
<1>3. CASE SyncFails
  BY <1>3 DEF SyncFails
<1>4. CASE SyncDir /\ Recoverable' \subseteq {mem}
  BY <1>4 DEF SyncDir, Exact
<1>5. CASE Rename /\ Recoverable' \subseteq Recoverable \cup {mem}
  <2>1. mem \in Recoverable
    BY <1>5, NowIsRecoverable DEF Rename, Mirror, Compacting
  <2> QED
    BY <1>5, <2>1 DEF Rename, Exact
<1>6. CASE Recoverable' \subseteq Recoverable /\ UNCHANGED <<reported, rec>>
  BY <1>6 DEF Exact
<1>7. CASE UNCHANGED journalVars
  BY <1>7 DEF journalVars, Exact, Recoverable
<1> QED
  BY <1>1, <1>2, <1>3, <1>4, <1>5, <1>6, <1>7, RecoverableStep

LEMMA KeptStep ==
    ASSUME JournalTypes, Steady, Intact, OldGone, Kept, [JournalNext]_journalVars,
           faults \subseteq {"short_write", "sync_error"}
    PROVE  Kept'
<1>1. ASSUME NEW r \in Record, BeginAppend(r), Responsible(r) PROVE Kept'
  <2>1. phase = "idle" /\ mem = reported /\ file \in Seq(Record)
    BY <1>1 DEF BeginAppend, Ready, Steady, Intact
  <2> DEFINE b == Replay(file)
  <2>2. b \in Recoverable /\ b \in States
    BY NowIsRecoverable, ReplayType, GoodLinesProperties DEF Replay, JournalTypes
  <2>3. OpenKnown(mem, b)
    BY <2>1, <2>2 DEF Kept
  <2> HIDE DEF b
  <2>4. OpenKnown(mem, ApplyRec(b, r)) /\ OpenKnown(ApplyRec(mem, r), ApplyRec(b, r))
    BY <1>1, <2>2, <2>3, AppendKeepsOpen DEF JournalTypes
  <2>5. Recoverable' \subseteq Recoverable \cup {ApplyRec(b, r)}
    BY <1>1, AppendRecoverable DEF b
  <2>6. Replay(file') = ApplyRec(b, r)
    BY <1>1, <2>1, BeginAppendReplay DEF b
  <2>7. UNCHANGED <<mem, reported>> /\ rec' = r
    BY <1>1 DEF BeginAppend
  <2>8. \A x \in Recoverable' : OpenKnown(reported', x)
    BY <2>1, <2>4, <2>5, <2>7 DEF Kept
  <2>9. OpenKnown(ApplyRec(mem', rec'), Replay(file'))
    BY <2>4, <2>6, <2>7
  <2> QED
    BY <2>8, <2>9 DEF Kept
<1>2. CASE FinishAppend
  <2>1. OpenKnown(ApplyRec(mem, rec), Replay(file)) /\ old = {}
    BY <1>2 DEF FinishAppend, Kept, OldGone
  <2>2. Recoverable' \subseteq {Replay(file)}
    BY <1>2, <2>1, SyncedRecoverable DEF FinishAppend
  <2> QED
    BY <1>2, <2>1, <2>2 DEF FinishAppend, Kept
<1>3. CASE SyncFails /\ Recoverable' = Recoverable
  BY <1>3 DEF SyncFails, Kept
<1>a. OpenKnown(mem, mem)
  <2>1. DOMAIN mem = 1..Len(mem)
    BY LenProperties DEF JournalTypes, States
  <2> QED
    BY <2>1 DEF OpenKnown, Known
<1>4. CASE SyncDir /\ Recoverable' \subseteq {mem}
  BY <1>4, <1>a DEF SyncDir, Kept
<1>5. CASE Rename /\ Recoverable' \subseteq Recoverable \cup {mem}
  <2>1. OpenKnown(reported, mem)
    <3>1. CASE starting
      BY <1>5, <3>1, NowIsRecoverable DEF Intact, Kept
    <3>2. CASE ~starting
      BY <1>5, <3>2, <1>a DEF Rename, Steady, Compacting, JournalTypes
    <3> QED
      BY <3>1, <3>2
  <2> QED
    BY <1>5, <2>1 DEF Rename, Kept
<1>6. CASE Recoverable' \subseteq Recoverable /\ UNCHANGED <<reported, rec>> /\ phase' # "written"
  BY <1>6 DEF Kept
<1>7. CASE UNCHANGED journalVars
  BY <1>7 DEF journalVars, Kept, Recoverable
<1> QED
  BY <1>1, <1>2, <1>3, <1>4, <1>5, <1>6, <1>7, RecoverableStep

LEMMA FaultsAreConstant == JournalTypes /\ [JournalNext]_journalVars => faults' = faults
<1> SUFFICES ASSUME JournalTypes, [JournalNext]_journalVars PROVE faults' = faults
  OBVIOUS
<1>1. ASSUME NEW r \in Record, BeginAppend(r) PROVE faults' = faults
  BY <1>1 DEF BeginAppend
<1> QED
  BY <1>1, RecordsWritten DEF JournalNext, JournalTypes, ShortWrite, FinishAppend, SyncFails,
     BeginCompact, ScratchFails, CloseHandle, Rename, RenameFails, ReopenFails, SyncDir,
     SyncDirFails, Open, Close, Kill, PowerCut, ReaderReads, ReaderStats, journalVars

(* The invariant is inductive. *)
THEOREM JournalInvariant == JournalSpec => []JournalInv
<1>1. JournalInv /\ [JournalNext]_journalVars => JournalInv'
  <2> SUFFICES ASSUME JournalInv, [JournalNext]_journalVars PROVE JournalInv'
    OBVIOUS
  <2>1. JournalTypes' /\ Steady' /\ faults' = faults
    BY TypesStep, SteadyStep, FaultsAreConstant DEF JournalInv
  <2>2. faults \subseteq {"short_write", "sync_error", "dirsync_error"} => Intact'
    BY IntactStep DEF JournalInv
  <2>3. ASSUME faults \subseteq {"short_write", "dirsync_error"} PROVE Mirror'
    BY <2>3, MirrorStep DEF JournalInv
  <2>4. ASSUME faults \subseteq {"short_write", "sync_error"} PROVE OldGone' /\ Kept'
    BY <2>4, OldGoneStep, KeptStep DEF JournalInv
  <2>5. ASSUME faults \subseteq {"short_write"} PROVE Exact'
    BY <2>5, ExactStep DEF JournalInv
  <2> QED
    BY <2>1, <2>2, <2>3, <2>4, <2>5 DEF JournalInv
<1> QED
  BY InitHolds, <1>1, PTL DEF JournalSpec

(* "No crash can lose an entry" (journal.go, Compact): on a disk that fails  *)
(* only by filling up, whatever a power cut leaves replays to what callers    *)
(* were told, or to that and the one record whose append had not returned;   *)
(* and where an fsync can fail too, no unresolved entry is ever unknown.      *)
THEOREM CrashesAreSafe == JournalSpec => []CrashSafe
<1>1. JournalInv => CrashSafe
  <2> SUFFICES ASSUME JournalInv PROVE CrashSafe
    OBVIOUS
  <2>1. ASSUME faults \subseteq {"short_write"} PROVE NoCrashLosesAnEntry
    BY <2>1, ImagesAreRecoverable DEF JournalInv, Exact, NoCrashLosesAnEntry
  <2>2. ASSUME faults \subseteq {"short_write", "sync_error"} PROVE OpenCustodySurvives
    <3>1. DOMAIN reported = 1..Len(reported)
      BY LenProperties DEF JournalInv, JournalTypes, States
    <3> QED
      BY <2>2, <3>1, ImagesAreRecoverable DEF JournalInv, Kept, OpenKnown, OpenCustodySurvives
  <2> QED
    BY <2>1, <2>2 DEF CrashSafe
<1> QED
  BY <1>1, JournalInvariant, PTL

(* "A failed append must leave no bytes behind" (journal.go, append): between *)
(* calls the log replays to the state in memory, with no damaged line.        *)
THEOREM LogMirrors == JournalSpec => []LogMirrorsMemory
<1>1. JournalInv => LogMirrorsMemory
  <2> SUFFICES ASSUME JournalInv, faults \subseteq {"short_write", "dirsync_error"}, phase = "idle"
               PROVE  Replay(file) = mem /\ \A k \in DOMAIN file : file[k] \notin {Bad, Torn}
    BY DEF LogMirrorsMemory, FailedAppendsLeaveNothing
  <2>1. file \in Seq(Record) /\ Replay(file) = mem
    BY DEF JournalInv, Intact, Mirror
  <2> QED
    BY <2>1, RecordsAreClean, LenProperties
<1> QED
  BY <1>1, JournalInvariant, PTL

(* The journal's state is well typed on every disk, damaged logs included. *)
THEOREM JournalTypesHold == JournalSpec => []JournalTypeOK
<1>1. JournalInv => JournalTypeOK
  <2> SUFFICES ASSUME JournalInv PROVE JournalTypeOK
    OBVIOUS
  <2>1. /\ \A k \in DOMAIN file : file[k] \in Line
        /\ \A k \in DOMAIN mem : mem[k] \in Entry
        /\ \A k \in DOMAIN reported : reported[k] \in Entry
    BY LenProperties, ElementOfSeq DEF JournalInv, JournalTypes, States
  <2>2. \A line \in Line : line.op \in {"create", "status", "purge", "torn", "bad"}
    BY DEF Line, Record, Creation, Update, Removal, Torn, Bad
  <2> QED
    BY <2>1, <2>2 DEF JournalInv, JournalTypes, JournalTypeOK
<1> QED
  BY <1>1, JournalInvariant, PTL

=============================================================================
