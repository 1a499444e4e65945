------------------------------ MODULE MCParts ------------------------------
(***************************************************************************)
(* Components that share no state: the relay's map, the walk over it, the  *)
(* population gate, the launcher and enrolment, each in all its behaviours *)
(* while the others stand still; a behaviour is one part's, chosen at the  *)
(* start.  Two worlds, for TLC: one claim asks for a row above slot 1.     *)
(***************************************************************************)
EXTENDS RelayMap, MapWalk, Admission, Launcher, Enrollment, TLC

CONSTANTS a, b

Asked == {NoPref, <<"at", 0, 1>>, <<"after", 1, "N">>}

PeerSymmetry == Permutations(Peer)

VARIABLE part

Parts == {"registry", "walk", "admission", "launcher", "enrollment"}

(* A part that stands still does so in one of its initial states. *)
OneWorld == [width |-> 1, height |-> 1, kind |-> [p \in {<<0, 0>>} |-> "here"]]
PartsInit ==
    /\ part \in Parts
    /\ frame \in IF part = "walk" THEN Frames ELSE {OneWorld}
    /\ edge \in IF part = "walk" THEN Edges ELSE {"E"}
    /\ Init /\ WalkInit /\ AdmissionInit /\ LauncherInit /\ EnrollmentInit
    /\ part # "admission" => mode = "fixed" /\ alive = 0

PartsNext ==
    /\ UNCHANGED part
    /\ \/ /\ part = "registry" /\ Next
          /\ UNCHANGED <<walkVars, admissionVars, launcherVars, enrollmentVars>>
       \/ /\ part = "walk" /\ WalkNext
          /\ UNCHANGED <<vars, admissionVars, launcherVars, enrollmentVars>>
       \/ /\ part = "admission" /\ AdmissionNext
          /\ UNCHANGED <<vars, walkVars, launcherVars, enrollmentVars>>
       \/ /\ part = "launcher" /\ LauncherNext
          /\ UNCHANGED <<vars, walkVars, admissionVars, enrollmentVars>>
       \/ /\ part = "enrollment" /\ EnrollmentNext
          /\ UNCHANGED <<vars, walkVars, admissionVars, launcherVars>>

PartsSpec ==
    PartsInit /\ [][PartsNext]_<<part, vars, walkVars, admissionVars, launcherVars, enrollmentVars>>
=============================================================================
