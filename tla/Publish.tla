------------------------------ MODULE Publish ------------------------------
(***************************************************************************)
(* How one peer learns of the map.  A registry change marks the map as     *)
(* pending; the publisher's goroutine coalesces what is pending and        *)
(* publishes, a timer publishes a map that was quiet too long, an admin    *)
(* act publishes at once from its own goroutine, and the peer's handler    *)
(* answers its claims.  A publish reads the registry under s.mu, numbers   *)
(* or compares what it read under p.mu, and sends it after both.           *)
(*                                                                         *)
(* Source: src/go/internal/relay/relay.go.                                 *)
(***************************************************************************)
EXTENDS Integers, Sequences, SequencesExt

CONSTANTS
    Modes,       \* who publishes: coalesce (one publisher and no timer), admin, claims
    MaxChanges   \* bound: registry changes

VARIABLES
    way,
    truth,     \* the registry, numbered by its changes
    pending,   \* s.pending > 0
    last,      \* p.lastGrant: the change and the reason it was written with
    got,       \* the grant the peer received last
    seen,      \* the PEER_STATUS the peer applied last
    order,     \* the publishers whose numbered status is not sent, by epoch
    about         \* at[x]: what the publisher is about, and what it read

publishVars == <<way, truth, pending, last, got, seen, order, about>>

Publisher == {"publishLoop", "publishNow", "handler"}
Resting == [step |-> "idle", read |-> 0, stale |-> FALSE, reason |-> "updated"]
StepTo(x, step) == [about EXCEPT ![x].step = step]
Reads(x, step) == [about EXCEPT ![x] = [Resting EXCEPT !.step = step, !.read = truth]]

PublishInit ==
    /\ way \in Modes /\ truth = 0 /\ pending = FALSE
    /\ last = <<0, "updated">> /\ got = 0 /\ seen = 0
    /\ order = <<>> /\ about = [x \in Publisher |-> Resting]

(* Somebody else's arrival, splice or departure (markChurnLocked). *)
markChurn ==
    /\ truth < MaxChanges /\ truth' = truth + 1 /\ pending' = TRUE
    /\ UNCHANGED <<way, last, got, seen, order, about>>

(* The window ends: what is pending is cleared, then published. *)
coalesce ==
    /\ about["publishLoop"].step = "idle" /\ pending
    /\ pending' = FALSE /\ about' = StepTo("publishLoop", "publish")
    /\ UNCHANGED <<way, truth, last, got, seen, order>>

(* Mutant: the timer only looks at what is pending. *)
statsTimerPending ==
    /\ way # "coalesce" /\ about["publishLoop"].step = "idle" /\ pending
    /\ about' = StepTo("publishLoop", "publish")
    /\ UNCHANGED <<way, truth, pending, last, got, seen, order>>

statsTimer ==
    /\ way # "coalesce" /\ about["publishLoop"].step = "idle"
    /\ about' = StepTo("publishLoop", "publish")
    /\ UNCHANGED <<way, truth, pending, last, got, seen, order>>

(* An admin act changes the registry and flushes it itself. *)
publishNow ==
    /\ way = "admin" /\ about["publishNow"].step = "idle" /\ truth < MaxChanges
    /\ truth' = truth + 1 /\ about' = StepTo("publishNow", "publish")
    /\ UNCHANGED <<way, pending, last, got, seen, order>>

(* A claim: quiet, or a change of the claimant's own shape; its answer is  *)
(* a grant and not a broadcast.                                            *)
claimHandler ==
    /\ way = "claims" /\ about["handler"].step = "idle" /\ truth < MaxChanges
    /\ \E why \in {"updated", "assigned"} :
         about' = [about EXCEPT !["handler"] =
                  [Resting EXCEPT !.step = "answer", !.read = truth + 1, !.reason = why]]
    /\ truth' = truth + 1 /\ pending' = TRUE
    /\ UNCHANGED <<way, last, got, seen, order>>

-----------------------------------------------------------------------------
(* PEER_STATUS: read, numbered, sent. *)
readStatus(x) ==
    /\ about[x].step = "publish" /\ about' = Reads(x, "number")
    /\ UNCHANGED <<way, truth, pending, last, got, seen, order>>

numberStatus(x) ==
    /\ about[x].step = "number" /\ about' = StepTo(x, "status") /\ order' = Append(order, x)
    /\ UNCHANGED <<way, truth, pending, last, got, seen>>

(* The peer ignores a number below the last one it applied. *)
sendStatus(x) ==
    /\ about[x].step = "status"
    /\ order' = SelectSeq(order, LAMBDA y : y # x)
    /\ about' = [y \in Publisher |->
                IF y = x THEN [Resting EXCEPT !.step = "grants"]
                ELSE IF Contains(order, y) /\ \E i, j \in DOMAIN order :
                          i < j /\ order[i] = y /\ order[j] = x
                     THEN [about[y] EXCEPT !.stale = TRUE] ELSE about[y]]
    /\ seen' = IF about[x].stale THEN seen ELSE about[x].read
    /\ UNCHANGED <<way, truth, pending, last, got>>

(* sendGrants: computed, compared with the last one and noted, sent. *)
computeGrant(x) ==
    /\ about[x].step = "grants" /\ about' = Reads(x, "note")
    /\ UNCHANGED <<way, truth, pending, last, got, seen, order>>

noteGrant(x) ==
    /\ about[x].step = "note"
    /\ IF last = <<about[x].read, "updated">> THEN about' = StepTo(x, "noted") /\ UNCHANGED last
       ELSE last' = <<about[x].read, "updated">> /\ about' = StepTo(x, "grant")
    /\ UNCHANGED <<way, truth, pending, got, seen, order>>

noteAnswer ==
    /\ about["handler"].step = "answer"
    /\ last' = <<about["handler"].read, about["handler"].reason>>
    /\ about' = StepTo("handler", "grant")
    /\ UNCHANGED <<way, truth, pending, got, seen, order>>

sendGrant(x) ==
    /\ about[x].step = "grant" /\ got' = about[x].read /\ about' = StepTo(x, "noted")
    /\ UNCHANGED <<way, truth, pending, last, seen, order>>

done(x) ==
    /\ about[x].step = "noted" /\ about' = [about EXCEPT ![x] = Resting]
    /\ UNCHANGED <<way, truth, pending, last, got, seen, order>>

Runs(x) ==
    \/ readStatus(x) \/ numberStatus(x) \/ sendStatus(x)
    \/ computeGrant(x) \/ noteGrant(x) \/ sendGrant(x) \/ done(x)

PublishNext ==
    \/ markChurn \/ coalesce \/ statsTimer \/ publishNow \/ claimHandler \/ noteAnswer
    \/ \E x \in Publisher : Runs(x)

(* Goroutines run, and both timers fire. *)
PublishSpec ==
    /\ PublishInit /\ [][PublishNext]_publishVars
    /\ \A x \in Publisher : WF_publishVars(Runs(x))
    /\ WF_publishVars(coalesce) /\ WF_publishVars(statsTimer) /\ WF_publishVars(noteAnswer)

-----------------------------------------------------------------------------
(* The peer ends with the map of the last change in every way of calling:  *)
(* an admin act that publishes beside the publisher can number its older    *)
(* map later, and the timer repairs it (statsBroadcastIntervalMs).  With    *)
(* the publisher alone, and no timer, coalescing drops no last state: the   *)
(* peer ends with the grant too ("the pending counter guarantees it").      *)
LastStateArrives ==
    /\ <>[](seen = truth)
    /\ way = "coalesce" => <>[](got = truth)

(* "MUST NOT drop the last one": the peer ends with the grant of the map.  *)
LastGrantIsTruth == <>[](got = truth)
=============================================================================
