------------------------------ MODULE MapWalk ------------------------------
(***************************************************************************)
(* Who a migrant is offered to: the walk along the exit axis to the first  *)
(* deliverable world, and, when worlds refuse it one after another, the    *)
(* chain that walks on behind the last one and then over the whole map.    *)
(*                                                                         *)
(* Sources: src/go/internal/mapwalk/mapwalk.go, and the chain that calls   *)
(* it in src/go/internal/sidecar/sidecar.go and contractb_client.go.  The  *)
(* relay's own walk over its reservations is module Grid's Effective.      *)
(***************************************************************************)
EXTENDS Integers, FiniteSets

CONSTANTS
    Kinds,                \* a position of PEER_STATUS: "hole", or what Deliverable says of its
                          \* slot: "here", or why not
    MaxWidth, MaxHeight   \* bounds: the rectangle

ASSUME WalkAssumption ==
    MaxWidth \in Nat /\ MaxHeight \in Nat /\ {"hole", "here"} \subseteq Kinds

G == INSTANCE Grid WITH Peer <- {"peer"}

Edges == G!Edge
Backward(e) == e \in {"W", "S"}
Vertical(e) == e \in {"N", "S"}

VARIABLES
    frame,   \* the last PEER_STATUS: width, height, and the kind of each position
    me,      \* the position of the sender
    edge,    \* the edge the migrant left by
    dest,    \* the position it is offered to, or NoPos
    tried,   \* refusedSlots: the positions of the worlds that refused it
    chain    \* walking, waiting, exhausted or home

walkVars == <<frame, me, edge, dest, tried, chain>>

NoPos == <<0, 0, "none">>
Positions(f) == (0..f.width - 1) \X (0..f.height - 1)
Deliverable(f, pos) == f.kind[pos] = "here"
wrap(i, n) == IF n <= 0 THEN 0 ELSE ((i % n) + n) % n

Length(f, e) == IF Vertical(e) THEN f.height ELSE f.width
(* The position a number of steps from another, and rows or columns aside. *)
Step(f, from, e, k, aside) ==
    LET d == IF Backward(e) THEN -k ELSE k IN
    IF Vertical(e) THEN <<wrap(from[1] + aside, f.width), wrap(from[2] + d, f.height)>>
    ELSE <<wrap(from[1] + d, f.width), wrap(from[2] + aside, f.height)>>

Candidate(f, from, pos, not) == pos # from /\ pos \notin not /\ Deliverable(f, pos)

Earliest(S) == CHOOSE k \in S : \A j \in S : k <= j

(* Walk: the first deliverable position along the exit axis. *)
Walk(f, from, e) ==
    LET hits == {k \in 1..Length(f, e) - 1 : Deliverable(f, Step(f, from, e, k, 0))} IN
    IF hits = {} THEN NoPos ELSE Step(f, from, e, Earliest(hits), 0)

(* WalkAfter: on along the axis from the world that refused, over the sender. *)
WalkAfter(f, from, e, after, not) ==
    LET hits == {k \in 1..Length(f, e) - 1 : Candidate(f, from, Step(f, after, e, k, 0), not)} IN
    IF \/ f.kind[after] = "hole" \/ hits = {}
       \/ IF Vertical(e) THEN after[1] # from[1] ELSE after[2] # from[2]
    THEN NoPos ELSE Step(f, after, e, Earliest(hits), 0)

(* Mutant: the rows beside the exit axis are walked, the axis itself is not. *)
WalkAnywhereBeside(f, from, e, not) ==
    LET along == Length(f, e)
        across == IF Vertical(e) THEN f.width ELSE f.height
        At(i) == Step(f, from, e, i % along, i \div along)
        hits == {i \in along..along * across - 1 : Candidate(f, from, At(i), not)}
    IN  IF hits = {} THEN NoPos ELSE At(Earliest(hits))

(* WalkAnywhere: row by row of the torus from the sender's own. *)
WalkAnywhere(f, from, e, not) ==
    LET along == Length(f, e)
        across == IF Vertical(e) THEN f.width ELSE f.height
        At(i) == Step(f, from, e, i % along, i \div along)
        hits == {i \in 0..along * across - 1 : Candidate(f, from, At(i), not)}
    IN  IF hits = {} THEN NoPos ELSE At(Earliest(hits))

(* Where a chain goes next (rerouteLocked). *)
NextOf(f, from, e, at, not) ==
    LET axis == WalkAfter(f, from, e, at, not \cup {at}) IN
    IF axis # NoPos THEN axis ELSE WalkAnywhere(f, from, e, not \cup {at})

-----------------------------------------------------------------------------
FramesOf(w, h) == [width : {w}, height : {h}, kind : [(0..w - 1) \X (0..h - 1) -> Kinds]]
Frames == UNION {FramesOf(s[1], s[2]) : s \in (1..MaxWidth) \X (1..MaxHeight)}

WalkInit ==
    /\ frame \in Frames /\ edge \in Edges
    /\ me \in {p \in Positions(frame) : frame.kind[p] = "here"}
    /\ dest = Walk(frame, me, edge)
    /\ tried = {} /\ chain = IF dest = NoPos THEN "home" ELSE "walking"

(* A refusal: of the world itself, which may accept later, or of the relay's *)
(* queue to it, which bounds the chain.                                      *)
Refused(why) ==
    /\ chain = "walking" /\ tried' = tried \cup {dest}
    /\ LET next == NextOf(frame, me, edge, dest, tried') IN
         IF next # NoPos THEN dest' = next /\ chain' = "walking"
         ELSE UNCHANGED dest /\ chain' = IF why = "not_forwarded" THEN "exhausted" ELSE "waiting"
    /\ UNCHANGED <<frame, me, edge>>

(* A waiting chain looks again at every tick, and goes home in the end. *)
LookAgain ==
    /\ chain = "waiting"
    /\ LET next == NextOf(frame, me, edge, dest, tried) IN
         IF next # NoPos THEN dest' = next /\ chain' = "walking"
         ELSE UNCHANGED dest /\ chain' = "exhausted"
    /\ UNCHANGED <<frame, me, edge, tried>>

(* A newer PEER_STATUS: a world appears, goes, or is released. *)
onPeerStatus ==
    /\ chain = "waiting" \/ (chain = "walking" /\ tried # {})
    /\ \E p \in Positions(frame) \ {me}, k \in {"hole", "here"} :
         k # frame.kind[p] /\ frame' = [frame EXCEPT !.kind[p] = k]
    /\ UNCHANGED <<me, edge, dest, tried, chain>>

WalkNext == Refused("peer_local") \/ Refused("not_forwarded") \/ LookAgain \/ onPeerStatus
WalkSpec == WalkInit /\ [][WalkNext]_walkVars

-----------------------------------------------------------------------------
(* A chain that gives up has been refused by every deliverable world of the *)
(* frame, whichever axis it left by and whichever worlds came, went or were *)
(* released on the way (WalkAnywhere, "full-map exhaustion").               *)
ExhaustedMeansAll == chain = "exhausted" =>
    \A p \in Positions(frame) \ {me} : Deliverable(frame, p) => p \in tried \cup {dest}

(* The sender's walk over PEER_STATUS is the relay's over its reservations, *)
(* and lanes run both ways: the walk back along the reverse edge leads to   *)
(* the world it came from (Walk, Grid.Effective).                           *)
Number(p) == 1 + p[1] + p[2] * MaxWidth
AsGrid(f) == [width |-> f.width, height |-> f.height, max |-> MaxWidth * MaxHeight,
              slots |-> {[slot |-> Number(p), col |-> p[1], row |-> p[2], peer |-> "peer"]
                           : p \in {q \in Positions(f) : f.kind[q] # "hole"}}]
Back(e) == CHOOSE b \in Edges : b # e /\ Vertical(b) = Vertical(e)
OneWalk ==
    LET to == Walk(frame, me, edge)
        relay == G!Effective(AsGrid(frame), [col |-> me[1], row |-> me[2]], edge,
                             {Number(p) : p \in {q \in Positions(frame) : Deliverable(frame, q)}})
    IN  /\ relay = IF to = NoPos THEN 0 ELSE Number(to)
        /\ to # NoPos => Walk(frame, to, Back(edge)) = me /\ to # me
=============================================================================
