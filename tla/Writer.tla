------------------------------- MODULE Writer -------------------------------
(***************************************************************************)
(* A WebSocket's one writer: the ordinary queue, the paced queue behind a  *)
(* schedule that other connections share, and the four ways the connection *)
(* closes, called from any goroutine while the writer is between two looks *)
(* at the queues.                                                          *)
(*                                                                         *)
(* Sources: src/go/internal/wsutil/conn.go; the schedule is                *)
(* migrationForwardPace in src/go/internal/relay/capacity.go.              *)
(*                                                                         *)
(* Frames are counted, not told apart: both queues are first in, first out. *)
(* A step of the writer is one lock, one select or one write.              *)
(***************************************************************************)
EXTENDS Naturals

CONSTANTS
    Queue,         \* capacity of the ordinary queue
    MaxFrames,     \* of the paced one
    ControlBurst,  \* ordinary frames that may pass a paced one that is due
    MaxElsewhere   \* bound: slots the identity's other connection takes

(* The relay's burst is MigrationControlBurst, and never zero. *)
ASSUME BurstAssumption == ControlBurst \in Nat \ {0}

VARIABLES
    out, paced,  \* len(c.out), len(c.paced)
    inFlight,    \* c.pacedInFlight
    stopping, drainPaced, forced, wake,
    socket,      \* "open", or "broken": every write fails
    deadline,    \* a ClosePaced waits for the writer
    at,          \* where the writer is
    call,        \* which of the loop's two calls of writePacedWhenReserved
    acted,        \* the stop state the writer last acted on
    burst,       \* controlBurst
    due,         \* the schedule's next slot has come
    elsewhere,
    passed       \* ordinary frames written while a paced one waited and was due

queues == <<out, paced, inFlight>>
closing == <<stopping, drainPaced, forced, deadline>>
shared == <<queues, closing, wake, socket>>
writer == <<at, call, acted, burst>>
pacer == <<due, elsewhere>>
writerVars == <<shared, writer, pacer, passed>>

Dropping == stopping /\ ~drainPaced
Goes(where) == at' = where /\ UNCHANGED <<call, acted, burst>>

(* dropPacedLocked, and what hardClose, CloseNow and forceClose share. *)
ForceClose == stopping' = TRUE /\ drainPaced' = FALSE /\ forced' = TRUE
         /\ paced' = 0 /\ socket' = "broken"

-----------------------------------------------------------------------------
(* The callers. *)
Send ==
    /\ ~stopping
    /\ \/ out < Queue /\ out' = out + 1 /\ UNCHANGED stopping
       \/ out = Queue /\ stopping' = TRUE /\ UNCHANGED out
    /\ UNCHANGED <<paced, inFlight, drainPaced, forced, deadline, wake, socket, writer, pacer, passed>>

TrySendPaced ==
    /\ ~stopping /\ paced + inFlight < MaxFrames
    /\ paced' = paced + 1 /\ wake' = TRUE
    /\ UNCHANGED <<out, inFlight, closing, socket, writer, pacer, passed>>

Close ==
    /\ ~stopping /\ stopping' = TRUE
    /\ UNCHANGED <<queues, drainPaced, forced, deadline, wake, socket, writer, pacer, passed>>

(* The first close wins; a later ClosePaced still waits, under its deadline. *)
ClosePaced ==
    /\ ~deadline /\ deadline' = TRUE
    /\ stopping' = TRUE
    /\ drainPaced' = (drainPaced \/ ~stopping)
    /\ UNCHANGED <<queues, forced, wake, socket, writer, pacer, passed>>

Deadline ==
    /\ deadline /\ at # "done" /\ deadline' = FALSE
    /\ ForceClose
    /\ UNCHANGED <<out, inFlight, wake, writer, pacer, passed>>

CloseNow ==
    /\ ~forced /\ ForceClose
    /\ UNCHANGED <<out, inFlight, deadline, wake, writer, pacer, passed>>

PeerStopsReading ==
    /\ socket = "open" /\ socket' = "broken"
    /\ UNCHANGED <<queues, closing, wake, writer, pacer, passed>>

(* The schedule: its slot comes, and another connection may take it. *)
SlotComes == ~due /\ due' = TRUE /\ UNCHANGED <<shared, writer, elsewhere, passed>>
TakenElsewhere ==
    /\ due /\ due' = FALSE
    /\ elsewhere < MaxElsewhere /\ elsewhere' = elsewhere + 1
    /\ passed' = 0
    /\ UNCHANGED <<shared, writer>>

-----------------------------------------------------------------------------
(* The writer's loop. *)

(* Mutant: a stop ends the loop whichever queue still holds a frame. *)
TopAtOnce ==
    /\ at = "top"
    /\ \/ stopping /\ ~drainPaced /\ paced' = 0 /\ Goes("drain")
       \/ drainPaced /\ out + paced = 0 /\ Goes("finish") /\ UNCHANGED paced
       \/ drainPaced /\ out + paced > 0
          /\ at' = "finish" /\ UNCHANGED <<call, acted, burst, paced>>
       \/ ~stopping /\ at' = "look" /\ acted' = stopping /\ UNCHANGED <<call, burst, paced>>
    /\ UNCHANGED <<out, inFlight, closing, wake, socket, pacer, passed>>
Top ==
    /\ at = "top"
    /\ \/ Dropping /\ paced' = 0 /\ Goes("drain")
       \/ ~Dropping /\ stopping /\ out + paced + inFlight = 0 /\ Goes("finish") /\ UNCHANGED paced
       \/ ~Dropping /\ ~(stopping /\ out + paced + inFlight = 0)
          /\ at' = "look" /\ acted' = stopping /\ UNCHANGED <<call, burst, paced>>
    /\ UNCHANGED <<out, inFlight, closing, wake, socket, pacer, passed>>

(* Mutant: ordinary frames first, however many went before. *)
LookOrdinaryFirst ==
    /\ at = "look" /\ at' = "try" /\ call' = IF paced > 0 THEN "second" ELSE "none"
    /\ UNCHANGED <<shared, acted, burst, pacer, passed>>

(* pacedPending is read once; a full burst gives the paced queue its turn. *)
Look ==
    /\ at = "look"
    /\ IF paced > 0 /\ burst >= ControlBurst
       THEN at' = "pace" /\ call' = "first"
       ELSE at' = "try" /\ call' = IF paced > 0 THEN "second" ELSE "none"
    /\ UNCHANGED <<shared, acted, burst, pacer, passed>>

Try ==
    /\ at = "try"
    /\ \/ out > 0 /\ out' = out - 1 /\ Goes("write")
       \/ out = 0 /\ UNCHANGED out
          /\ Goes(IF call = "second" THEN "pace" ELSE "wait")
    /\ UNCHANGED <<paced, inFlight, closing, wake, socket, pacer, passed>>

(* An ordinary frame goes out; it passes a paced one that is due. *)
Passes == passed' = IF paced > 0 /\ due THEN passed + 1 ELSE 0

(* hardClose, and the loop returns. *)
Dies == ForceClose /\ Goes("done") /\ UNCHANGED <<out, inFlight, deadline, wake>>

WriteOrdinary ==
    /\ at = "write"
    /\ IF socket = "open"
       THEN /\ at' = "top" /\ burst' = IF paced > 0 THEN burst + 1 ELSE 0
            /\ Passes /\ UNCHANGED <<shared, call, acted>>
       ELSE Dies /\ UNCHANGED passed
    /\ UNCHANGED pacer

(* writePacedWhenReserved gives up: to the top, out, or on with the loop. *)
GivesUp ==
    IF stopping THEN Goes("top") /\ UNCHANGED shared
    ELSE Goes(IF call = "first" THEN "try" ELSE "wait") /\ UNCHANGED shared

Pace ==
    /\ at = "pace"
    /\ IF paced = 0 \/ Dropping THEN GivesUp /\ UNCHANGED due
       ELSE IF due THEN Goes("take") /\ due' = FALSE /\ UNCHANGED shared
       ELSE /\ at' = "sleep" /\ acted' = stopping
            /\ UNCHANGED <<shared, call, burst, due>>
    /\ UNCHANGED <<elsewhere, passed>>

(* takePaced: the queue may have been dropped since the slot was reserved. *)
Take ==
    /\ at = "take"
    /\ IF paced = 0 \/ Dropping THEN GivesUp
       ELSE /\ paced' = paced - 1 /\ inFlight' = 1 /\ Goes("writePaced")
            /\ UNCHANGED <<out, closing, wake, socket>>
    /\ UNCHANGED <<pacer, passed>>

WritePaced ==
    /\ at = "writePaced" /\ inFlight' = 0
    /\ at' = "top" /\ burst' = 0 /\ UNCHANGED <<call, acted>>
    /\ IF socket = "open" THEN UNCHANGED <<paced, stopping, drainPaced, forced, socket>> ELSE ForceClose
    /\ passed' = 0
    /\ UNCHANGED <<out, deadline, wake, pacer>>

(* The select while the slot has not come. *)
SleepOrdinary ==
    /\ at = "sleep" /\ out > 0 /\ out' = out - 1 /\ Goes("boundary")
    /\ UNCHANGED <<paced, inFlight, closing, wake, socket, pacer, passed>>
SleepEnds ==
    /\ at = "sleep"
    /\ \/ due /\ Goes("pace") /\ UNCHANGED wake
       \/ wake /\ wake' = FALSE /\ Goes("pace")
       \/ stopping /\ ~acted /\ Goes("pace") /\ UNCHANGED wake
       \/ forced /\ Goes("pace") /\ UNCHANGED wake
    /\ UNCHANGED <<queues, closing, socket, pacer, passed>>

(* writeOrdinaryAtPaceBoundary: the slot may have come with the frame. *)
Boundary ==
    /\ at = "boundary"
    /\ IF due THEN due' = FALSE /\ Goes("takeFirst") ELSE Goes("held") /\ UNCHANGED due
    /\ UNCHANGED <<shared, elsewhere, passed>>

TakeFirst ==
    /\ at = "takeFirst"
    /\ IF paced = 0 \/ Dropping THEN Goes("held") /\ UNCHANGED <<paced, inFlight>>
       ELSE paced' = paced - 1 /\ inFlight' = 1 /\ Goes("both")
    /\ UNCHANGED <<out, closing, wake, socket, pacer, passed>>

WriteHeld ==
    /\ at = "held" /\ Goes("pace")
    /\ IF socket = "open" THEN Passes /\ UNCHANGED <<paced, stopping, drainPaced, forced, socket>>
                          ELSE ForceClose /\ UNCHANGED passed
    /\ UNCHANGED <<out, inFlight, deadline, wake, pacer>>

WriteBoth ==
    /\ at = "both" /\ inFlight' = 0
    /\ at' = "top" /\ burst' = IF socket = "open" /\ paced > 0 THEN 1 ELSE 0
    /\ IF socket = "open" THEN UNCHANGED <<paced, stopping, drainPaced, forced, socket>> ELSE ForceClose
    /\ passed' = IF paced > 0 /\ due THEN 1 ELSE 0
    /\ UNCHANGED <<call, acted, out, deadline, wake, pacer>>

(* Mutant: the idle writer waits for frames only. *)
WaitDeaf ==
    /\ at = "wait"
    /\ \/ out > 0 /\ out' = out - 1 /\ Goes("write") /\ UNCHANGED wake
       \/ wake /\ wake' = FALSE /\ Goes("top") /\ UNCHANGED out
    /\ UNCHANGED <<paced, inFlight, closing, socket, pacer, passed>>

(* waitForWork. *)
Wait ==
    /\ at = "wait"
    /\ \/ out > 0 /\ out' = out - 1 /\ Goes("write") /\ UNCHANGED wake
       \/ wake /\ wake' = FALSE /\ Goes("top") /\ UNCHANGED out
       \/ stopping /\ ~acted /\ Goes("top") /\ UNCHANGED <<out, wake>>
    /\ UNCHANGED <<paced, inFlight, closing, socket, pacer, passed>>
WaitForced ==
    /\ at = "wait" /\ forced /\ Dies
    /\ UNCHANGED <<pacer, passed>>

DrainQueues ==
    /\ at = "drain"
    /\ \/ out > 0 /\ out' = out - 1 /\ Goes(IF socket = "open" THEN "drain" ELSE "finish")
       \/ out = 0 /\ UNCHANGED out /\ Goes("finish")
    /\ UNCHANGED <<paced, inFlight, closing, wake, socket, pacer, passed>>

Finish ==
    /\ at = "finish" /\ Goes("done")
    /\ UNCHANGED <<shared, pacer, passed>>

writeLoop ==
    \/ Top \/ Look \/ Try \/ WriteOrdinary \/ Pace \/ Take \/ WritePaced
    \/ SleepOrdinary \/ SleepEnds \/ Boundary \/ TakeFirst \/ WriteHeld \/ WriteBoth
    \/ Wait \/ WaitForced \/ DrainQueues \/ Finish

-----------------------------------------------------------------------------
WriterInit ==
    /\ out = 0 /\ paced = 0 /\ inFlight = 0
    /\ stopping = FALSE /\ drainPaced = FALSE /\ forced = FALSE /\ deadline = FALSE
    /\ wake = FALSE /\ socket = "open"
    /\ at = "top" /\ call = "none" /\ acted = FALSE /\ burst = 0
    /\ due = TRUE /\ elsewhere = 0 /\ passed = 0

WriterNext ==
    \/ Send \/ TrySendPaced \/ Close \/ ClosePaced \/ Deadline \/ CloseNow
    \/ PeerStopsReading \/ SlotComes \/ TakenElsewhere
    \/ writeLoop

(* The writer runs, a write ends by its timeout, and slots come. *)
WriterSpec == WriterInit /\ [][WriterNext]_writerVars /\ WF_writerVars(writeLoop) /\ WF_writerVars(SlotComes)

-----------------------------------------------------------------------------
(* Once a paced frame is due, no more ordinary frames pass it than the     *)
(* burst allows, whatever arrives and whoever else takes a slot.           *)
BurstBounded == passed <= ControlBurst

(* A close that was neither forced nor cut off by the peer loses nothing   *)
(* that was accepted and that its mode keeps: ordinary frames always,      *)
(* paced ones under ClosePaced.                                            *)
CleanCloseKeeps ==
    at = "done" /\ socket = "open" =>
        out = 0 /\ (drainPaced => paced + inFlight = 0)

(* What the writer accepts goes out, neither queue behind the other for long *)
(* (writeLoop, Close, ClosePaced).                                           *)
WriterKeepsFaith == BurstBounded /\ CleanCloseKeeps

(* However the connection closes, from wherever the writer was, the writer *)
(* ends, and nobody waits on Done forever; and a paced frame is not starved *)
(* by ordinary traffic: it goes out, or the connection closes.             *)
WriterGetsOn ==
    /\ stopping ~> at = "done"
    /\ paced > 0 ~> (inFlight = 1 \/ stopping)
=============================================================================
