------------------------------ MODULE SendPace ------------------------------
(***************************************************************************)
(* One connection's rate, at both ends of it.  The sidecar paces what its  *)
(* journal can offer again by two token buckets, frames and bytes, whose   *)
(* numbers are shares of the ceilings the relay publishes; the wire keeps  *)
(* order and may bunch frames together; the relay counts what arrives in   *)
(* windows of one second, and closes the connection at the first frame     *)
(* over a ceiling.  Time is counted in quarters of a second.               *)
(*                                                                         *)
(* Sources: src/go/internal/sidecar/sendpace.go, contractb_client.go;      *)
(* src/go/internal/relay/capacity.go.                                      *)
(***************************************************************************)
EXTENDS Integers, Sequences

CONSTANTS
    FrameCeiling,   \* maxFramesPerSecond, a multiple of 8
    ByteCeiling,    \* maxBytesPerSecond, in units of a small frame, a multiple of 8
    LargeSizes,     \* what the large frame of the journal weighs, in the same units
    Backlog,        \* the small frames the journal has to send
    MaxControl,     \* bound: the control frames of the session
    MaxDelay        \* how far the wire bunches: quarters a frame may be late

ASSUME PaceAssumption ==
    /\ \A ceiling \in {FrameCeiling, ByteCeiling} : ceiling \in Nat \ {0} /\ ceiling % 8 = 0
    /\ LargeSizes \subseteq Nat \ {0}
    /\ Backlog \in Nat /\ MaxControl \in Nat /\ MaxDelay \in Nat

VARIABLES
    size,     \* the weight of the large frame
    left,     \* [small, large]: the deferred frames still in the journal
    pace,     \* on (the limits are known) and the tokens of both buckets
    control,  \* control frames sent, and the quarters since the last one
    wire,     \* frames on the wire, in order: weight and quarters spent there
    meter,    \* the relay's window: quarters since it began, frames, bytes
    shed      \* the relay closed the connection with CAPACITY

paceVars == <<size, left, pace, control, wire, meter, shed>>

Second == 4   \* quarters
Rate(ceiling) == ceiling \div 2
Capacity(ceiling) == ceiling \div 4
Reserve(ceiling) == Capacity(ceiling) \div 2
Least(a, b) == IF a < b THEN a ELSE b

(* Mutant: the bucket refills at the published rate. *)
refillWhole(ceiling, tokens) == Least(Capacity(ceiling), tokens + ceiling \div Second)

refill(ceiling, tokens) == Least(Capacity(ceiling), tokens + Rate(ceiling) \div Second)

(* Mutant: a frame larger than the allowance never fits. *)
allowDeferredStrict(ceiling, tokens, cost) == tokens - Reserve(ceiling) >= cost

(* A frame larger than the whole allowance goes on a full bucket. *)
allowDeferred(ceiling, tokens, cost) ==
    tokens - Reserve(ceiling) >= Least(cost, Capacity(ceiling) - Reserve(ceiling))

SendPaceInit ==
    /\ size \in LargeSizes /\ left = [small |-> Backlog, large |-> 1]
    /\ pace = [acked |-> FALSE, frames |-> 0, bytes |-> 0]
    /\ control = [sent |-> 0, since |-> Second]
    /\ wire = <<[weight |-> 1, late |-> 0]>>     \* the HANDSHAKE
    /\ meter = [age |-> Second, frames |-> 0, bytes |-> 0] /\ shed = FALSE

(* The published table: full buckets, once per session. *)
configure ==
    /\ ~pace.acked /\ wire = <<>> /\ ~shed
    /\ pace' = [acked |-> TRUE, frames |-> Capacity(FrameCeiling), bytes |-> Capacity(ByteCeiling)]
    /\ UNCHANGED <<size, left, control, wire, meter, shed>>

OnWire(weight) == wire' = Append(wire, [weight |-> weight, late |-> 0])
take(weight) == pace' = [pace EXCEPT !.frames = @ - 1, !.bytes = @ - weight]

(* A MIGRATION_PAYLOAD or a journalled MIGRATION_ACK (paceDeferred). *)
admitDeferred(kind, weight) ==
    /\ pace.acked /\ ~shed /\ left[kind] > 0
    /\ allowDeferred(FrameCeiling, pace.frames, 1)
    /\ allowDeferred(ByteCeiling, pace.bytes, weight)
    /\ left' = [left EXCEPT ![kind] = @ - 1]
    /\ OnWire(weight) /\ take(weight)
    /\ UNCHANGED <<size, control, meter, shed>>

(* A PONG, a PING, an answer: never refused, always charged. *)
admitControl ==
    /\ pace.acked /\ ~shed /\ control.sent < MaxControl /\ control.since >= Second
    /\ control' = [sent |-> control.sent + 1, since |-> 0]
    /\ OnWire(1) /\ take(1)
    /\ UNCHANGED <<size, left, meter, shed>>

(* A frame reaches the relay's meter before anything is done with it. *)
observe ==
    /\ wire # <<>> /\ ~shed /\ wire' = Tail(wire)
    /\ LET fresh == meter.age >= Second
           frames == (IF fresh THEN 0 ELSE meter.frames) + 1
           bytes == (IF fresh THEN 0 ELSE meter.bytes) + Head(wire).weight
       IN  /\ meter' = [age |-> IF fresh THEN 0 ELSE meter.age, frames |-> frames, bytes |-> bytes]
           /\ shed' = (frames > FrameCeiling \/ bytes > ByteCeiling)
    /\ UNCHANGED <<size, left, pace, control>>

Quarter ==
    /\ ~shed /\ \A k \in DOMAIN wire : wire[k].late < MaxDelay
    /\ wire' = [k \in DOMAIN wire |-> [wire[k] EXCEPT !.late = @ + 1]]
    /\ meter' = [meter EXCEPT !.age = Least(Second, @ + 1)]
    /\ control' = [control EXCEPT !.since = Least(Second, @ + 1)]
    /\ pace' = IF ~pace.acked THEN pace
               ELSE [pace EXCEPT !.frames = refill(FrameCeiling, @),
                                 !.bytes = refill(ByteCeiling, @)]
    /\ UNCHANGED <<size, left, shed>>

SendPaceNext ==
    \/ configure \/ admitDeferred("small", 1) \/ admitDeferred("large", size)
    \/ admitControl \/ observe \/ Quarter

(* The custody tick offers what is left, and time passes. *)
SendPaceSpec ==
    /\ SendPaceInit /\ [][SendPaceNext]_paceVars
    /\ WF_paceVars(configure) /\ WF_paceVars(observe) /\ WF_paceVars(Quarter)
    /\ WF_paceVars(admitDeferred("small", 1)) /\ WF_paceVars(admitDeferred("large", size))

-----------------------------------------------------------------------------
(* A peer that paces by the published table is never closed for capacity,   *)
(* wherever the relay's window begins and however the wire bunches ("a peer *)
(* can be built to respect a ceiling instead of discovering it as a 4007"). *)
NeverShed == ~shed

(* Frames are delayed, never dropped: the backlog drains, the large frame   *)
(* too, although control frames are charged to the same buckets.            *)
BacklogDrains == <>(left = [small |-> 0, large |-> 0])
=============================================================================
