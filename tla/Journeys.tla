------------------------------ MODULE Journeys ------------------------------
(***************************************************************************)
(* What custody promises the worlds: a journey leaves its home world once, *)
(* and ends once, in one world or in none.  Between the two it is moving,  *)
(* and nothing says where.  Only a moving organism appears or is lost.     *)
(***************************************************************************)
CONSTANTS
    Peer,  \* worlds
    Mig,   \* journeys, one organism each
    Home   \* the world each one leaves

VARIABLES
    world, \* world[m]: the worlds a live copy of the organism is in
    stage  \* stage[m]: how far its journey is

jvars == <<world, stage>>

Init ==
    /\ world = [m \in Mig |-> {Home[m]}]
    /\ stage = [m \in Mig |-> "home"]

Leave(m) ==
    /\ stage[m] = "home"
    /\ world' = [world EXCEPT ![m] = {}]
    /\ stage' = [stage EXCEPT ![m] = "moving"]

(* In any world, its own included: a journey may bounce. *)
Land(m) ==
    /\ stage[m] = "moving"
    /\ \E p \in Peer : world' = [world EXCEPT ![m] = {p}]
    /\ stage' = [stage EXCEPT ![m] = "landed"]

(* One broken link can lose several organisms. *)
Vanish ==
    /\ \E lost \in SUBSET {m \in Mig : stage[m] = "moving"} :
         stage' = [m \in Mig |-> IF m \in lost THEN "gone" ELSE stage[m]]
    /\ UNCHANGED world

Next == (\E m \in Mig : Leave(m) \/ Land(m)) \/ Vanish

Spec == Init /\ [][Next]_jvars

=============================================================================
