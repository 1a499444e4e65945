----------------------------- MODULE MCCustody -----------------------------
(* Small maps for TLC: one journey over three worlds, and two crossing ones. *)
EXTENDS Custody, TLC

CONSTANTS a, b, c, m1, m2

OneWay   == m1 :> a
Crossing == m1 :> a @@ m2 :> b

PeerSymmetry == Permutations(Peer \ {a})

(* Bound: the relay restarts before the first reroute, and the journey is followed to it. *)
RestartsSoon == session > 1 => \A m \in Mig : jr[Home[m]][m].count = 0

(* Two neighbours that are linked and have heard of each other from the start. *)
Linked ==
    /\ jr = [p \in Peer |-> [m \in Mig |-> NoEntry]]
    /\ world = [m \in Mig |-> {Home[m]}]
    /\ bounceAt = [m \in Mig |-> "off"]
    /\ conn = Peer /\ view = [p \in Peer |-> Peer]
    /\ nb = [p \in Peer |-> CHOOSE q \in Peer : q # p]
    /\ session = 1 /\ forwarded = {} /\ draining = FALSE
    /\ net = {}

LinkedSpec == Linked /\ [][Next]_vars /\ Fairness

=============================================================================
