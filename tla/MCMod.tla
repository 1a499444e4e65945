-------------------------------- MODULE MCMod --------------------------------
(***************************************************************************)
(* The mod's side of a world shares no state between its parts: its link   *)
(* to the sidecar's custody, its own world saves and its dial task, each   *)
(* in all its fair behaviours, while the others stand still in a first     *)
(* state.                                                                  *)
(***************************************************************************)
EXTENDS WorldLink, WorldSave, Transport

VARIABLE part

ModInit ==
    /\ part \in {"link", "saves", "transport"}
    /\ Init /\ WorldSaveInit /\ TransportInit
    /\ part # "saves" => "shared" \notin host

ModNext ==
    /\ UNCHANGED part
    /\ \/ part = "link" /\ Next /\ UNCHANGED <<worldSaveVars, transportVars>>
       \/ part = "saves" /\ WorldSaveNext /\ UNCHANGED <<vars, transportVars>>
       \/ part = "transport" /\ TransportNext /\ UNCHANGED <<vars, worldSaveVars>>

(* The fairness of FairSpec, WorldSaveSpec and TransportSpec, each for its *)
(* behaviours.                                                             *)
InLink(A) == part = "link" /\ A
InSaves(A) == part = "saves" /\ A
InTransport(A) == part = "transport" /\ A

ModParts ==
    /\ ModInit /\ [][ModNext]_<<part, vars, worldSaveVars, transportVars>>
    /\ WF_vars(InLink(OnConnected)) /\ WF_vars(InLink(handleModFrame))
    /\ WF_vars(InLink(Handler)) /\ WF_vars(InLink(ApplyMutations))
    /\ \A w \in World : WF_worldSaveVars(InSaves(MainThread(w)))
    /\ WF_transportVars(InTransport(TakeEvent)) /\ WF_transportVars(InTransport(ApplyAndAnswer))
    /\ WF_transportVars(InTransport(SendHeartbeat))
    /\ WF_transportVars(InTransport(DialTask)) /\ WF_transportVars(InTransport(SendLoop))

(* SettlesOnNewest, of the behaviours in which the mod dials: once the      *)
(* sidecar stays, a loaded world ends with the newest connection shaken     *)
(* hands on.                                                                *)
ModSettles == part = "transport" => SettlesOnNewest
=============================================================================
