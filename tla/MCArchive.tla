----------------------------- MODULE MCArchive -----------------------------
(***************************************************************************)
(* The archive's three stores, each in all its behaviours while the others *)
(* stand still: the ledger and what is counted of it, the gap queue, and   *)
(* the genomes with their cold tier.                                       *)
(***************************************************************************)
EXTENDS Ledger, MCGaps, GenomeTier

VARIABLE part

ArchiveInit ==
    /\ part \in {"ledger", "gaps", "genomes"}
    /\ LedgerInit /\ GapsInit /\ TierInit
    /\ part # "ledger" => trouble = {}
    /\ part # "gaps" => left = Kills

ArchiveNext ==
    /\ UNCHANGED part
    /\ \/ part = "ledger" /\ LedgerNext /\ UNCHANGED <<gapsVars, tierVars>>
       \/ part = "gaps" /\ GapsNext /\ UNCHANGED <<ledgerVars, tierVars>>
       \/ part = "genomes" /\ TierNext /\ UNCHANGED <<ledgerVars, gapsVars>>

archiveVars == <<part, ledgerVars, gapsVars, tierVars>>

(* The fairness of GapsLiveSpec, for the behaviours that are the queue's. *)
InGaps(A) == part = "gaps" /\ A

ArchiveSpec ==
    /\ ArchiveInit /\ [][ArchiveNext]_archiveVars
    /\ WF_gapsVars(InGaps(Pump)) /\ WF_gapsVars(InGaps(NotServed \/ StorePut \/ CloseGap))
    /\ WF_gapsVars(InGaps(Ended \/ Subscribe))
    /\ \A h \in Genome : WF_gapsVars(InGaps(reapExpired(h))) /\ WF_gapsVars(InGaps(Elapse(h)))
    /\ \A x \in Peer : WF_gapsVars(InGaps(WorldComes(x)))
    /\ \A h \in Genome : SF_gapsVars(InGaps(\E x \in Holder[h] : onGenomeResponse(h, x, "found")))
=============================================================================
