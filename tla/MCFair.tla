------------------------------- MODULE MCFair -------------------------------
(***************************************************************************)
(* Components that share no state and that must get on with it: custody of *)
(* one journey between two worlds, the pace of a link, the relay's         *)
(* publisher and the writer of a connection, each in all its fair          *)
(* behaviours while the others stand still; a behaviour is one part's,     *)
(* chosen at the start.                                                    *)
(***************************************************************************)
EXTENDS MCCustody, SendPace, Publish, Writer

VARIABLE part

Parts == {"custody", "pace", "publish", "writer"}

(* A part that stands still does so in one of its initial states. *)
FairInit ==
    /\ part \in Parts
    /\ Init /\ SendPaceInit /\ PublishInit /\ WriterInit
    /\ part # "pace" => size = 1
    /\ part # "publish" => way = "claims"

FairNext ==
    /\ UNCHANGED part
    /\ \/ /\ part = "custody" /\ Next
          /\ UNCHANGED <<paceVars, publishVars, writerVars>>
       \/ /\ part = "pace" /\ SendPaceNext
          /\ UNCHANGED <<vars, publishVars, writerVars>>
       \/ /\ part = "publish" /\ PublishNext
          /\ UNCHANGED <<vars, paceVars, writerVars>>
       \/ /\ part = "writer" /\ WriterNext
          /\ UNCHANGED <<vars, paceVars, publishVars>>

(* The fairness of FairSpec, SendPaceSpec, PublishSpec and WriterSpec, each *)
(* for the behaviours of its part.                                          *)
InCustody(A) == part = "custody" /\ A
InPace(A) == part = "pace" /\ A
InPublish(A) == part = "publish" /\ A
InWriter(A) == part = "writer" /\ A

FairParts ==
    /\ FairInit
    /\ [][FairNext]_<<part, vars, paceVars, publishVars, writerVars>>
    /\ \A m \in Mig : /\ WF_vars(InCustody(tickOutbound(m)))
                      /\ WF_vars(InCustody(BounceClockPasses(m)))
                      /\ WF_vars(InCustody(RefusalDeadlinePasses(m)))
    /\ \A p \in Peer : /\ WF_vars(InCustody(PeerStatus(p))) /\ WF_vars(InCustody(Grant(p)))
                       /\ \A m \in Mig : WF_vars(InCustody(tickInbound(p, m) /\ jr'[p][m].acked))
    /\ WF_paceVars(InPace(configure)) /\ WF_paceVars(InPace(observe))
    /\ WF_paceVars(InPace(Quarter))
    /\ WF_paceVars(InPace(admitDeferred("small", 1)))
    /\ WF_paceVars(InPace(admitDeferred("large", size)))
    /\ \A x \in Publisher : WF_publishVars(InPublish(Runs(x)))
    /\ WF_publishVars(InPublish(coalesce)) /\ WF_publishVars(InPublish(statsTimer))
    /\ WF_publishVars(InPublish(noteAnswer))
    /\ WF_writerVars(InWriter(writeLoop)) /\ WF_writerVars(InWriter(SlotComes))

(* BacklogDrains, of the behaviours in which the link runs: frames that may *)
(* not be refused are delayed, and the backlog drains, its large frame too. *)
LinkDrains == part = "pace" => BacklogDrains
=============================================================================
