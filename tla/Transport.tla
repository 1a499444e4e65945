------------------------------ MODULE Transport ------------------------------
(***************************************************************************)
(* The mod's side of the Contract A socket: the game thread, which touches *)
(* two queues and never waits, and the task that dials, pumps one          *)
(* connection, and dials again.  The game thread learns of a connection or *)
(* of its end only when it takes the event from its queue, which may be    *)
(* long after a newer connection is up.                                    *)
(*                                                                         *)
(* Sources: src/bibites-mod/src/WebSocketTransport.cs, and the client that *)
(* drives it, MultiverseClient.cs.  The sidecar is what it looks like from *)
(* here: it closes a connection whose first frame is not CONFIG_UPDATE.    *)
(* Connections are not numbered: a frame, an event or a handshake is of    *)
(* the newest connection or of one before it.                              *)
(***************************************************************************)
EXTENDS Integers, Sequences

CONSTANTS
    MaxQueuedFrames,  \* MaxQueuedFrames
    MaxDeliveries,    \* bound: MIGRATE_INs of the sidecar
    MaxCloses,        \* bound: dials refused, sockets lost, fatal closes, bad frames,
                      \*        heartbeats that meet a newer socket than they were meant for
    MaxLoads          \* bound: worlds loaded

ASSUME QueueAssumption == MaxQueuedFrames \in Nat \ {0}

VARIABLES
    armed,      \* a world is loaded and the client runs
    handshake,  \* handshakeSent and its generation: no, newest or earlier
    mutations,  \* pendingMutations: deliveries to apply and answer
    beat,       \* PumpHeartbeat is past its guard: no, due, or late when the connection
                \* that is newest was counted since
    inbound,    \* the events the game thread has not taken
    outbound,   \* the frames to send: kind, and whether queued since the socket opened
    permits,    \* outboundSignal's count
    waiters,    \* the send loops parked on it, of the newest connection or of one before it
    sending,    \* the send loop of the newest connection is past the signal
    phase,      \* where the dial task is
    started,    \* cancellation: the client has started it and not stopped it
    cancelled,  \* the running task's token
    chained,    \* a run that waits for this one to unwind
    halted, connected,
    session,    \* the newest socket: none, up, lost, refused or fatal
    first,      \* its first frame, as the sidecar read it
    deliveries, closes, loads

gameVars == <<armed, handshake, mutations, beat>>
runVars == <<phase, started, cancelled, chained>>
socketVars == <<session, first>>
signalVars == <<permits, waiters, sending>>
boundVars == <<deliveries, closes, loads>>
transportVars == <<gameVars, inbound, outbound, signalVars, runVars, halted, connected,
                   socketVars, boundVars>>

NoFrame == [kind |-> "none", fresh |-> TRUE]
Heartbeats == {"heartbeat", "late heartbeat"}
OutFrame == [kind : {"config", "answer"} \cup Heartbeats, fresh : BOOLEAN]
Event == [type : {"connected"}, newest : BOOLEAN]
    \cup [type : {"disconnected"}, fatal : BOOLEAN]
    \cup [type : {"migrate in", "bad"}]

TransportTypeOK ==
    /\ armed \in BOOLEAN /\ handshake \in {"no", "newest", "earlier"} /\ mutations \in Nat
    /\ beat \in {"no", "due", "late"}
    /\ inbound \in Seq(Event) /\ outbound \in Seq(OutFrame)
    /\ permits \in Nat /\ waiters \in Seq({"newest", "earlier"}) /\ sending \in BOOLEAN
    /\ phase \in {"idle", "top", "dial", "drain", "signal", "up", "count", "announce", "pump", "end", "gone", "event"}
    /\ started \in BOOLEAN /\ cancelled \in BOOLEAN /\ chained \in BOOLEAN
    /\ halted \in BOOLEAN /\ connected \in BOOLEAN
    /\ session \in {"none", "up", "lost", "refused", "fatal"}
    /\ first \in OutFrame \cup {NoFrame}

-----------------------------------------------------------------------------
(* Send, Start and Stop: the game thread never waits. *)

Fresh(kind) == [kind |-> kind, fresh |-> TRUE]
Room == MaxQueuedFrames - Len(outbound)
(* Frames for which there is no room are dropped. *)
SendFrames(n, kind) ==
    LET sent == IF n < Room THEN n ELSE Room IN
    /\ outbound' = outbound \o [i \in 1..sent |-> Fresh(kind)]
    /\ permits' = permits + sent

(* A run that has not unwound is waited for. *)
Begun == /\ started' = TRUE /\ halted' = FALSE
         /\ IF phase = "idle" THEN phase' = "top" /\ cancelled' = FALSE /\ UNCHANGED chained
            ELSE chained' = TRUE /\ UNCHANGED <<phase, cancelled>>
StartDialling == IF started THEN UNCHANGED <<runVars, halted>> ELSE Begun

Stopped ==
    /\ started' = FALSE /\ connected' = FALSE
    /\ cancelled' = (cancelled \/ ~chained) /\ chained' = FALSE
    /\ UNCHANGED phase
StopDialling == IF started THEN Stopped ELSE UNCHANGED <<runVars, connected>>

(* A bad frame ends the session, and another is dialled. *)
StopAndStart ==
    /\ started' = TRUE /\ connected' = FALSE /\ halted' = FALSE
    /\ IF phase = "idle" THEN phase' = "top" /\ cancelled' = FALSE /\ UNCHANGED chained
       ELSE /\ cancelled' = (cancelled \/ ~chained) /\ chained' = TRUE
            /\ UNCHANGED phase

-----------------------------------------------------------------------------
(* The client, on the game thread, which does one thing at a time. *)

Free == beat = "no"

Arm ==
    /\ Free /\ ~armed /\ loads < MaxLoads /\ loads' = loads + 1
    /\ armed' = TRUE /\ handshake' = "no" /\ mutations' = 0 /\ StartDialling
    /\ UNCHANGED <<beat, inbound, outbound, signalVars, connected, socketVars, deliveries, closes>>

(* What waits to be applied is refused first. *)
Disarm ==
    /\ Free /\ armed /\ armed' = FALSE /\ handshake' = "no" /\ mutations' = 0
    /\ SendFrames(mutations, "answer") /\ StopDialling
    /\ UNCHANGED <<beat, inbound, waiters, sending, halted, socketVars, boundVars>>

(* DrainTransport, an event at a time: which of them an Update gets to depends *)
(* on the frames in front of it.                                               *)
TakeConnected ==
    /\ Free /\ inbound # <<>> /\ Head(inbound).type = "connected" /\ inbound' = Tail(inbound)
    /\ IF armed
       THEN /\ handshake' = IF Head(inbound).newest THEN "newest" ELSE "earlier"
            /\ SendFrames(1, "config") /\ UNCHANGED <<runVars, connected>>
       ELSE StopDialling /\ UNCHANGED <<handshake, outbound, permits>>
    /\ UNCHANGED <<armed, mutations, beat, waiters, sending, halted, socketVars, boundVars>>

TakeDisconnected ==
    /\ Free /\ inbound # <<>> /\ Head(inbound).type = "disconnected" /\ inbound' = Tail(inbound)
    /\ handshake' = "no" /\ halted' = (halted \/ Head(inbound).fatal)
    /\ UNCHANGED <<armed, mutations, beat, outbound, signalVars, runVars, connected, socketVars,
                   boundVars>>

TakeFrame ==
    /\ Free /\ inbound # <<>> /\ Head(inbound).type = "migrate in" /\ inbound' = Tail(inbound)
    /\ mutations' = mutations + 1
    /\ UNCHANGED <<armed, handshake, beat, outbound, signalVars, runVars, halted, connected,
                   socketVars, boundVars>>

(* Without a Disconnected event: the handshake stays as it was. *)
TakeBadFrame ==
    /\ Free /\ inbound # <<>> /\ Head(inbound).type = "bad" /\ inbound' = Tail(inbound)
    /\ IF armed /\ started THEN StopAndStart
       ELSE IF armed THEN StartDialling /\ UNCHANGED connected
       ELSE StopDialling /\ UNCHANGED halted
    /\ UNCHANGED <<gameVars, outbound, signalVars, socketVars, boundVars>>

(* FixedUpdate answers what it applies, whatever the socket is. *)
ApplyAndAnswer ==
    /\ Free /\ armed /\ mutations > 0 /\ mutations' = mutations - 1 /\ SendFrames(1, "answer")
    /\ UNCHANGED <<armed, handshake, beat, inbound, waiters, sending, runVars, halted, connected,
                   socketVars, boundVars>>

(* The guard of PumpHeartbeat, long after the last: no other one waits.  It *)
(* may pass between the two statements of Up and Count.                     *)
BeatDue ==
    /\ Free /\ armed /\ connected /\ ~sending
    /\ \A i \in DOMAIN outbound : outbound[i].kind \notin Heartbeats
    /\ beat' = "due"
    /\ closes' = IF phase = "count" THEN closes + 1 ELSE closes
    /\ closes' <= MaxCloses
    /\ UNCHANGED <<armed, handshake, mutations, inbound, outbound, signalVars, runVars, halted,
                   connected, socketVars, deliveries, loads>>

(* Mutant: a heartbeat needs a handshake and a socket, not the same one. *)
PumpHeartbeatOnAny == handshake # "no" /\ BeatDue

(* A heartbeat goes to the connection it shook hands on. *)
PumpHeartbeat == handshake = "newest" /\ BeatDue

(* Its Send, some lines later. *)
SendHeartbeat ==
    /\ ~Free /\ beat' = "no"
    /\ SendFrames(1, IF beat = "due" THEN "heartbeat" ELSE "late heartbeat")
    /\ UNCHANGED <<armed, handshake, mutations, inbound, waiters, sending, runVars, halted,
                   connected, socketVars, boundVars>>

-----------------------------------------------------------------------------
(* RunAsync: the dial task. *)

LoopTop ==
    /\ phase = "top"
    /\ IF ~cancelled /\ ~halted THEN phase' = "dial" /\ UNCHANGED <<cancelled, chained>>
       ELSE IF chained THEN phase' = "top" /\ cancelled' = FALSE /\ chained' = FALSE
       ELSE phase' = "idle" /\ UNCHANGED <<cancelled, chained>>
    /\ UNCHANGED <<gameVars, inbound, outbound, signalVars, started, halted, connected,
                   socketVars, boundVars>>

Stale(frames) == [i \in DOMAIN frames |-> [frames[i] EXCEPT !.fresh = FALSE]]

(* The backoff, and ConnectAsync, which a Stop cancels. *)
Dial ==
    /\ phase = "dial"
    /\ \/ cancelled /\ phase' = "top" /\ UNCHANGED <<outbound, socketVars, closes>>
       \/ closes < MaxCloses /\ closes' = closes + 1 /\ phase' = "top"
          /\ UNCHANGED <<outbound, socketVars>>
       \/ /\ session' = "up" /\ first' = NoFrame /\ outbound' = Stale(outbound)
          /\ phase' = "drain"
          /\ closes' = (IF Free THEN closes ELSE closes + 1) /\ closes' <= MaxCloses
    /\ UNCHANGED <<gameVars, inbound, signalVars, started, cancelled, chained, halted, connected,
                   deliveries, loads>>

(* DrainOutbound, after the connect: the queue, then the signal. *)
DrainQueue ==
    /\ phase = "drain" /\ phase' = "signal" /\ outbound' = <<>>
    /\ UNCHANGED <<gameVars, inbound, signalVars, started, cancelled, chained, halted, connected,
                   socketVars, boundVars>>

DrainSignal ==
    /\ phase = "signal" /\ phase' = "up" /\ permits' = 0
    /\ UNCHANGED <<gameVars, inbound, outbound, waiters, sending, started, cancelled, chained,
                   halted, connected, socketVars, boundVars>>

Earlier(e) == IF e.type = "connected" THEN [e EXCEPT !.newest = FALSE] ELSE e

(* The flag, and a statement later the generation. *)
Up ==
    /\ phase = "up" /\ phase' = "count" /\ connected' = TRUE
    /\ UNCHANGED <<gameVars, inbound, outbound, signalVars, started, cancelled, chained, halted,
                   socketVars, boundVars>>

Missed(f) == IF f.kind = "heartbeat" THEN [f EXCEPT !.kind = "late heartbeat"] ELSE f

Count ==
    /\ phase = "count" /\ phase' = "announce"
    /\ handshake' = IF handshake = "newest" THEN "earlier" ELSE handshake
    /\ inbound' = [i \in DOMAIN inbound |-> Earlier(inbound[i])]
    /\ beat' = IF Free THEN beat ELSE "late"
    /\ outbound' = [i \in DOMAIN outbound |-> Missed(outbound[i])]
    /\ UNCHANGED <<armed, mutations, signalVars, started, cancelled, chained, halted, connected,
                   socketVars, boundVars>>

(* The event, and PumpAsync's two loops. *)
Announce ==
    /\ phase = "announce" /\ phase' = "pump"
    /\ inbound' = Append(inbound, [type |-> "connected", newest |-> TRUE])
    /\ waiters' = Append(waiters, "newest")
    /\ UNCHANGED <<gameVars, outbound, permits, sending, started, cancelled, chained, halted,
                   connected, socketVars, boundVars>>

(* WaitAsync, first in first out.  A loop of a connection that is gone takes a *)
(* frame and fails to send it.                                                 *)
Wake ==
    /\ waiters # <<>> /\ permits > 0
    /\ permits' = permits - 1 /\ waiters' = Tail(waiters)
    /\ IF Head(waiters) = "newest" THEN sending' = TRUE /\ UNCHANGED outbound
       ELSE outbound' = (IF outbound = <<>> THEN <<>> ELSE Tail(outbound)) /\ UNCHANGED sending
    /\ UNCHANGED <<gameVars, inbound, runVars, halted, connected, socketVars, boundVars>>

(* The queue to its end; the sidecar refuses a first frame that is not the   *)
(* handshake.  What is sent to a socket that is gone is lost.                *)
SendOne ==
    /\ phase = "pump" /\ sending /\ outbound # <<>> /\ outbound' = Tail(outbound)
    /\ IF session = "up" /\ first = NoFrame
       THEN /\ first' = Head(outbound)
            /\ session' = IF Head(outbound).kind = "config" THEN "up" ELSE "refused"
       ELSE UNCHANGED socketVars
    /\ UNCHANGED <<gameVars, inbound, signalVars, runVars, halted, connected, boundVars>>

SendLoopParks ==
    /\ phase = "pump" /\ sending /\ outbound = <<>>
    /\ sending' = FALSE /\ waiters' = Append(waiters, "newest")
    /\ UNCHANGED <<gameVars, inbound, outbound, permits, runVars, halted, connected,
                   socketVars, boundVars>>

(* Mutant: the loop that is still parked is left behind. *)
PumpEndsAlone ==
    /\ phase = "pump" /\ (session # "up" \/ cancelled)
    /\ phase' = "end" /\ sending' = FALSE
    /\ waiters' = [i \in DOMAIN waiters |-> "earlier"]
    /\ UNCHANGED <<gameVars, inbound, outbound, permits, started, cancelled, chained, halted,
                   connected, socketVars, boundVars>>

(* Whichever loop ends first, the session is cancelled and both are waited for. *)
PumpEnds ==
    /\ phase = "pump" /\ (session # "up" \/ cancelled)
    /\ phase' = "end" /\ sending' = FALSE /\ waiters' = <<>>
    /\ UNCHANGED <<gameVars, inbound, outbound, permits, started, cancelled, chained, halted,
                   connected, socketVars, boundVars>>

(* The finally block: the flag, the close, and an event if the flag was set. *)
Unflag ==
    /\ phase = "end" /\ phase' = (IF connected THEN "event" ELSE "gone") /\ connected' = FALSE
    /\ UNCHANGED <<gameVars, inbound, outbound, signalVars, started, cancelled, chained, halted,
                   socketVars, boundVars>>
CloseSocket ==
    /\ phase \in {"event", "gone"} /\ phase' = "top"
    /\ inbound' = IF phase = "gone" THEN inbound
                  ELSE Append(inbound, [type |-> "disconnected", fatal |-> session = "fatal"])
    /\ session' = "none" /\ UNCHANGED first
    /\ UNCHANGED <<gameVars, outbound, signalVars, started, cancelled, chained, halted, connected,
                   boundVars>>

-----------------------------------------------------------------------------
(* The sidecar, external. *)

SidecarDelivers ==
    /\ phase = "pump" /\ session = "up" /\ first # NoFrame
    /\ \/ /\ deliveries < MaxDeliveries /\ deliveries' = deliveries + 1
          /\ inbound' = Append(inbound, [type |-> "migrate in"]) /\ UNCHANGED closes
       \/ /\ closes < MaxCloses /\ closes' = closes + 1
          /\ inbound' = Append(inbound, [type |-> "bad"]) /\ UNCHANGED deliveries
    /\ UNCHANGED <<gameVars, outbound, signalVars, runVars, halted, connected, socketVars, loads>>

SidecarCloses ==
    /\ session = "up" /\ closes < MaxCloses /\ closes' = closes + 1
    /\ session' \in {"lost", "fatal"} /\ UNCHANGED first
    /\ UNCHANGED <<gameVars, inbound, outbound, signalVars, runVars, halted, connected,
                   deliveries, loads>>

-----------------------------------------------------------------------------
TransportInit ==
    /\ armed = FALSE /\ handshake = "no" /\ mutations = 0 /\ beat = "no"
    /\ inbound = <<>> /\ outbound = <<>>
    /\ permits = 0 /\ waiters = <<>> /\ sending = FALSE
    /\ phase = "idle" /\ started = FALSE /\ cancelled = FALSE /\ chained = FALSE
    /\ halted = FALSE /\ connected = FALSE
    /\ session = "none" /\ first = NoFrame
    /\ deliveries = 0 /\ closes = 0 /\ loads = 0

TakeEvent == TakeConnected \/ TakeDisconnected \/ TakeFrame \/ TakeBadFrame
DialTask ==
    \/ LoopTop \/ Dial \/ DrainQueue \/ DrainSignal \/ Up \/ Count \/ Announce \/ PumpEnds
    \/ Unflag \/ CloseSocket
SendLoop == Wake \/ SendOne \/ SendLoopParks

TransportNext ==
    \/ Arm \/ Disarm \/ TakeEvent \/ ApplyAndAnswer \/ PumpHeartbeat \/ SendHeartbeat
    \/ DialTask \/ SendLoop \/ SidecarDelivers \/ SidecarCloses

(* The game thread comes round, and the pool runs the tasks. *)
TransportSpec ==
    /\ TransportInit /\ [][TransportNext]_transportVars
    /\ WF_transportVars(TakeEvent) /\ WF_transportVars(ApplyAndAnswer)
    /\ WF_transportVars(SendHeartbeat)
    /\ WF_transportVars(DialTask) /\ WF_transportVars(SendLoop)

-----------------------------------------------------------------------------
(* Nothing that was queued before a socket opened is the first frame on it, *)
(* and neither is a heartbeat that was decided on since the connection was  *)
(* counted (DrainOutbound "after the connect, not before it"; the           *)
(* generation).                                                             *)
FirstIsItsOwn == first.fresh /\ first.kind # "heartbeat"

(* No heartbeat at all is the first frame, which is what the generation is  *)
(* said to be for (WebSocketTransport.cs:143).                              *)
FirstIsNoHeartbeat == first.kind \notin Heartbeats

(* Once the sidecar stays, a loaded world ends up with a connection that is *)
(* shaken hands on, however the two threads and the ends of earlier         *)
(* connections interleave, unless a close code told it to stay away.        *)
ShakenHands ==
    armed /\ ~halted => connected /\ handshake = "newest" /\ session = "up" /\ first.kind = "config"
SettlesOnNewest == <>[]ShakenHands

(* The handshake is the first frame on every connection (contract-a.md:628, *)
(* "As the first frame on every connection").                               *)
FirstIsConfig == first.kind \in {"none", "config"}

(* After a fatal close nothing is dialled until the mod is started again.   *)
HaltHolds == halted => phase # "drain"

=============================================================================
