-------------------------------- MODULE Grid --------------------------------
(***************************************************************************)
(* The relay's map: a rectangle of positions, the reservations in it, and  *)
(* the counter that numbers them.  Placement, splicing, release, handover  *)
(* and the walk along an axis, as operators on a map.                      *)
(*                                                                         *)
(* Source: src/go/internal/relay/grid.go.                                  *)
(***************************************************************************)
EXTENDS Integers, FiniteSets

CONSTANT Peer   \* peerIds

Reservation == [slot : Nat, col : Nat, row : Nat, peer : Peer]
Map == [width : Nat, height : Nat, slots : SUBSET Reservation, max : Nat]
EmptyMap == [width |-> 0, height |-> 0, slots |-> {}, max |-> 0]

At(g, col, row) == {r \in g.slots : r.col = col /\ r.row = row}
ResOfPeer(g, p) == {r \in g.slots : r.peer = p}
ResOfSlot(g, s) == {r \in g.slots : r.slot = s}
Holds(g, p) == ResOfPeer(g, p) # {}
SlotOf(g, p) == (CHOOSE r \in g.slots : r.peer = p).slot

Inside(g, col, row) == col < g.width /\ row < g.height
Holes(g) == {h \in (0..g.width - 1) \X (0..g.height - 1) : At(g, h[1], h[2]) = {}}

(* Asked before any axis grows: the arithmetic, not the search. *)
HasHole(g) == g.width * g.height > Cardinality(g.slots)

(* Structural order: row ascending, then col ascending. *)
Before(a, b) == a[2] < b[2] \/ (a[2] = b[2] /\ a[1] < b[1])
firstHole(g) == CHOOSE h \in Holes(g) : \A o \in Holes(g) \ {h} : Before(h, o)

Larger(a, b) == IF a > b THEN a ELSE b

(* One step beyond the rectangle, on either axis. *)
Beyond(g) == {<<g.width, row>> : row \in 0..Larger(g.height, 1) - 1}
        \cup {<<col, g.height>> : col \in 0..Larger(g.width, 1) - 1}

(* Mutant: the number of a slot that was released is issued again. *)
reserveReusing(g, p, col, row) ==
    [width  |-> Larger(g.width, col + 1), height |-> Larger(g.height, row + 1),
     slots  |-> g.slots \cup {[slot |-> Cardinality(g.slots) + 1, col |-> col, row |-> row, peer |-> p]},
     max    |-> g.max + 1]

(* The next number, bound to a peer and a position; the rectangle grows to fit. *)
reserve(g, p, col, row) ==
    [width  |-> Larger(g.width, col + 1), height |-> Larger(g.height, row + 1),
     slots  |-> g.slots \cup {[slot |-> g.max + 1, col |-> col, row |-> row, peer |-> p]},
     max    |-> g.max + 1]

(* Rule 5: a whole row or column is inserted behind the anchor, and what  *)
(* was behind it moves by one.                                            *)
behindRow(r, row) == IF r.row > row THEN [r EXCEPT !.row = @ + 1] ELSE r
behindCol(r, col) == IF r.col > col THEN [r EXCEPT !.col = @ + 1] ELSE r
rowInserted(g, row) ==
    [width |-> g.width, height |-> g.height + 1,
     slots |-> {behindRow(r, row) : r \in g.slots}, max |-> g.max]
colInserted(g, col) ==
    [width |-> g.width + 1, height |-> g.height,
     slots |-> {behindCol(r, col) : r \in g.slots}, max |-> g.max]
splice(g, p, anchor, axis) ==
    IF axis = "N" THEN reserve(rowInserted(g, anchor.row), p, anchor.col, anchor.row + 1)
    ELSE reserve(colInserted(g, anchor.col), p, anchor.col + 1, anchor.row)

(* Rule 4: a preferred position is a hole, or one step beyond a full map. *)
Usable(g, col, row) ==
    /\ col >= 0 /\ row >= 0
    /\ \/ g.width = 0 /\ g.height = 0 /\ col = 0 /\ row = 0
       \/ Inside(g, col, row) /\ At(g, col, row) = {}
       \/ /\ ~(g.width = 0 /\ g.height = 0) /\ ~HasHole(g)
          /\ \/ col = g.width /\ row < Larger(g.height, 1)
             \/ row = g.height /\ col < Larger(g.width, 1)

(* Rule 6: the first hole, or the shorter axis grows. *)
autoPlace(g, p) ==
    IF HasHole(g) /\ Holes(g) # {} THEN reserve(g, p, firstHole(g)[1], firstHole(g)[2])
    ELSE IF g.width = 0 \/ g.height = 0 THEN reserve([g EXCEPT !.width = 1, !.height = 1], p, 0, 0)
    ELSE IF g.width <= g.height THEN reserve(g, p, g.width, 0)
    ELSE reserve(g, p, 0, g.height)

(* A preference: none, <<"at", col, row>> or <<"after", slot, axis>>. *)
NoPref == <<"none">>
Place(g, p, pref) ==
    IF pref[1] = "at" /\ Usable(g, pref[2], pref[3]) THEN reserve(g, p, pref[2], pref[3])
    ELSE IF pref[1] = "after" /\ ResOfSlot(g, pref[2]) # {}
    THEN splice(g, p, CHOOSE r \in g.slots : r.slot = pref[2], pref[3])
    ELSE autoPlace(g, p)

(* A released position is a hole; its number is never issued again. *)
Release(g, s) == [g EXCEPT !.slots = {r \in g.slots : r.slot # s}]

Handover(g, s, p) ==
    [g EXCEPT !.slots = {IF r.slot = s THEN [r EXCEPT !.peer = p] ELSE r : r \in g.slots}]

(* What is read back covers what it names. *)
AtLeast(S, n) == IF \A k \in S : k <= n THEN n ELSE CHOOSE m \in S : \A k \in S : k <= m
LoadGrid(d) == [d EXCEPT
    !.max    = AtLeast({r.slot : r \in d.slots}, @),
    !.width  = AtLeast({r.col + 1 : r \in d.slots}, @),
    !.height = AtLeast({r.row + 1 : r \in d.slots}, @)]

-----------------------------------------------------------------------------
(* The walk along an axis from one reservation. *)

Edge == {"E", "N", "W", "S"}
AxisLength(g, e) == IF e \in {"N", "S"} THEN g.height ELSE g.width

(* Mutant: a reverse walk takes the remainder's sign with it. *)
wrapIndexSigned(i, n) == IF i < 0 THEN -((-i) % n) ELSE i % n

wrapIndex(i, n) == IF n <= 0 THEN 0 ELSE ((i % n) + n) % n   \* never negative

Stop(g, from, e, step) ==
    LET delta == IF e \in {"W", "S"} THEN -step ELSE step IN
    IF e \in {"N", "S"} THEN <<from.col, wrapIndex(from.row + delta, g.height)>>
    ELSE <<wrapIndex(from.col + delta, g.width), from.row>>

(* The steps whose position is reserved and deliverable; the walk ends at *)
(* the first, and everything before it is in the skip list.               *)
Found(g, from, e, ok) ==
    {k \in 1..AxisLength(g, e) - 1 :
        \E r \in At(g, Stop(g, from, e, k)[1], Stop(g, from, e, k)[2]) : r.slot \in ok}
FirstStep(g, from, e, ok) == CHOOSE k \in Found(g, from, e, ok) : \A j \in Found(g, from, e, ok) : k <= j

(* The slot the edge leads to, or 0. *)
Effective(g, from, e, ok) ==
    IF Found(g, from, e, ok) = {} THEN 0
    ELSE LET q == Stop(g, from, e, FirstStep(g, from, e, ok))
         IN  (CHOOSE r \in At(g, q[1], q[2]) : TRUE).slot
=============================================================================
