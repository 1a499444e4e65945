------------------------------ MODULE RelayMap ------------------------------
(***************************************************************************)
(* The relay's registry: connections that come, replace each other and     *)
(* drop, the claims their handlers dispatch, and the operator's acts, each *)
(* a report, a confirmation and an application with the lock released in   *)
(* between.  Its map is the one module Slots promises.                     *)
(*                                                                         *)
(* Sources: src/go/internal/relay/relay.go, admin.go, grid.go.             *)
(*                                                                         *)
(* A connection's handler reads a claim and then waits for s.mu; by the    *)
(* time it has the lock its connection may be replaced, closed or dropped. *)
(***************************************************************************)
EXTENDS Slots, Sequences

CONSTANTS
    Preferences,  \* the preferences claims carry
    MaxConns      \* bound: connections ever accepted

ASSUME RelayMapAssumption ==
    /\ MaxConns \in Nat
    /\ Preferences \subseteq
         {NoPref} \cup ({"at"} \X Int \X Int) \cup ({"after"} \X Int \X {"E", "N"})

VARIABLES
    conn,    \* conn[c]: whose, how far, has it claimed, has a claim been read
    live,    \* s.peers: the peer's connection, or 0
    token,   \* s.adminTokens: the act reported and not confirmed, or NoAct
    job      \* the act a confirmation is applying, or NoAct

connVars == <<conn, live>>
adminVars == <<token, job>>
vars == <<slotsVars, connVars, adminVars>>

Conn == 1..MaxConns
Peers(c) == conn[c].peer
Unused == [peer |-> "none", status |-> "unused", claimed |-> FALSE, read |-> FALSE]
Gone == [Unused EXCEPT !.status = "gone"]
Running(p) == {c \in Conn : conn[c].status \in {"door", "open", "shut"} /\ Peers(c) = p}

NoAct == [kind |-> "none"]
Act == [kind : {"release"}, slot : 1..MaxSlots]
  \cup [kind : {"handover"}, slot : 1..MaxSlots, peer : Peer]
Holder(s) == (CHOOSE r \in ring.slots : r.slot = s).peer

-----------------------------------------------------------------------------
(* Connections. *)

(* The credential and the number of connections are checked at the door; *)
(* the registry is reached later, in handshake.                          *)
serveWS(c, p) ==
    /\ conn[c] = Unused /\ \A b \in 1..c - 1 : conn[b] # Unused
    /\ Cardinality(Running(p)) < 2
    /\ conn' = [conn EXCEPT ![c] = [Unused EXCEPT !.peer = p, !.status = "door"]]
    /\ UNCHANGED <<slotsVars, live, adminVars>>

Shut(C) == [c \in Conn |-> IF c \in C THEN [conn[c] EXCEPT !.status = "shut"] ELSE conn[c]]

(* A newer connection takes over, and the one before it is closed. *)
handshake(c) ==
    /\ conn[c].status = "door"
    /\ \/ /\ conn' = [Shut({live[Peers(c)]}) EXCEPT ![c].status = "open"]
          /\ live' = [live EXCEPT ![Peers(c)] = c]
       \/ conn' = [conn EXCEPT ![c] = Gone] /\ UNCHANGED live   \* refused, or nothing came
    /\ UNCHANGED <<slotsVars, adminVars>>

ReadClaim(c) ==
    /\ conn[c].status = "open" /\ ~conn[c].read
    /\ conn' = [conn EXCEPT ![c].read = TRUE]
    /\ UNCHANGED <<slotsVars, live, adminVars>>

HangUp(c) ==
    /\ conn[c].status = "open" /\ conn' = Shut({c})
    /\ UNCHANGED <<slotsVars, live, adminVars>>

(* Only the registered connection takes its peer off the map. *)
drop(c) ==
    /\ conn[c].status = "shut" /\ live[Peers(c)] = c
    /\ live' = [live EXCEPT ![Peers(c)] = 0]
    /\ UNCHANGED <<slotsVars, conn, adminVars>>

Ends(c) ==
    /\ conn[c].status = "shut" /\ ~conn[c].read /\ live[Peers(c)] # c
    /\ conn' = [conn EXCEPT ![c] = Gone]
    /\ UNCHANGED <<slotsVars, live, adminVars>>

-----------------------------------------------------------------------------
(* Claims. *)

(* Mutant: the grant goes out although the map is not on disk. *)
assignUnsaved(p, pref) ==
    /\ ~Holds(ring, p) /\ ring.max < MaxSlots
    /\ ring' = Place(ring, p, pref) /\ disk' \in {disk, ring'}
    /\ told' = told \cup {<<ring'.max, p>>}

(* Rules 3 to 6: the map is on disk before the grant goes out. *)
assign(p, pref) ==
    /\ ~Holds(ring, p) /\ ring.max < MaxSlots
    /\ LET placed == Place(ring, p, pref) IN
         \/ ring' = placed /\ Saved(placed) /\ told' = told \cup {<<placed.max, p>>}
         \/ ring' = Release(placed, placed.max) /\ SaveFails(placed) /\ UNCHANGED told

onSectorClaim(c) ==
    /\ conn[c].read
    /\ \/ UNCHANGED slotsVars /\ conn' = [conn EXCEPT ![c].read = FALSE]   \* rate_limited
       \/ /\ Holds(ring, Peers(c))
          /\ told' = told \cup {<<SlotOf(ring, Peers(c)), Peers(c)>>}
          /\ conn' = [conn EXCEPT ![c].read = FALSE, ![c].claimed = TRUE]
          /\ UNCHANGED <<ring, disk, retired>>
       \/ /\ \E pref \in Preferences : assign(Peers(c), pref)
          /\ conn' = [conn EXCEPT ![c].read = FALSE, ![c].claimed = told' # told]
          /\ UNCHANGED retired
    /\ UNCHANGED <<live, adminVars>>

(* A startup command: nothing is connected yet. *)
ReserveSlot(p) ==
    /\ \A c \in Conn : conn[c].status \in {"unused", "gone"}
    /\ \E pref \in {x \in Preferences : x[1] # "after"} : assign(p, pref)
    /\ UNCHANGED <<retired, connVars, adminVars>>

-----------------------------------------------------------------------------
(* The operator. *)

(* Mutant: what the report said of the peer is not looked at again. *)
ReleaseSlotBlind(s) ==
    /\ ring' = Release(ring, s) /\ told' = NotTold(s)
    /\ \/ Saved(ring') /\ retired' = retired \cup {s}
       \/ SaveFails(ring') /\ UNCHANGED retired

ReleaseSlot(s) ==
    IF ResOfSlot(ring, s) = {} \/ live[Holder(s)] # 0 THEN UNCHANGED slotsVars
    ELSE /\ ring' = Release(ring, s) /\ told' = NotTold(s)
         /\ \/ Saved(ring') /\ retired' = retired \cup {s}
            \/ SaveFails(ring') /\ UNCHANGED retired

(* Mutant: that the receiving peer claimed a slot meanwhile is not seen. *)
HandoverSlotBlind(s, q) ==
    IF ResOfSlot(ring, s) = {} \/ live[Holder(s)] # 0 THEN UNCHANGED slotsVars
    ELSE /\ UNCHANGED retired
         /\ LET given == Handover(ring, s, q) IN
              \/ ring' = given /\ Saved(given) /\ told' = NotTold(s)
              \/ SaveFails(given) /\ UNCHANGED <<ring, told>>

HandoverSlot(s, q) ==
    IF ResOfSlot(ring, s) = {} \/ live[Holder(s)] # 0 \/ Holds(ring, q) THEN UNCHANGED slotsVars
    ELSE /\ UNCHANGED retired
         /\ LET given == Handover(ring, s, q) IN
              \/ ring' = given /\ Saved(given) /\ told' = NotTold(s)
              \/ SaveFails(given) /\ UNCHANGED <<ring, told>>

(* The consequence of an act is reported under a token. *)
Reportable(a) ==
    /\ ResOfSlot(ring, a.slot) # {} /\ live[Holder(a.slot)] = 0
    /\ a.kind = "handover" => ~Holds(ring, a.peer)
adminReport(a) ==
    /\ token = NoAct /\ job = NoAct /\ Reportable(a)   \* bound: one act at a time
    /\ token' = [act |-> a, map |-> ring]
    /\ UNCHANGED <<slotsVars, connVars, job>>

(* Single use, expiring, and refused when the map moved underneath it. *)
adminConfirm ==
    /\ token # NoAct /\ token' = NoAct
    /\ \/ token.map = ring /\ job' = token.act
       \/ UNCHANGED job
    /\ UNCHANGED <<slotsVars, connVars>>

applyAdmin ==
    /\ job # NoAct /\ job' = NoAct
    /\ \/ job.kind = "release" /\ ReleaseSlot(job.slot)
       \/ job.kind = "handover" /\ HandoverSlot(job.slot, job.peer)
    /\ UNCHANGED <<connVars, token>>

-----------------------------------------------------------------------------
Init ==
    /\ SlotsInit
    /\ conn = [c \in Conn |-> Unused]
    /\ live = [p \in Peer |-> 0] /\ token = NoAct /\ job = NoAct

(* Only ring.json survives. *)
Restart ==
    /\ Reload
    /\ conn' = [c \in Conn |-> IF conn[c] = Unused THEN Unused ELSE Gone]
    /\ live' = [p \in Peer |-> 0] /\ token' = NoAct /\ job' = NoAct

Next ==
    \/ \E c \in Conn : \/ \E p \in Peer : serveWS(c, p)
                       \/ handshake(c) \/ ReadClaim(c) \/ onSectorClaim(c)
                       \/ HangUp(c) \/ drop(c) \/ Ends(c)
    \/ \E p \in Peer : ReserveSlot(p)
    \/ \E a \in Act : adminReport(a)
    \/ adminConfirm \/ applyAdmin \/ Restart

Spec == Init /\ [][Next]_vars

-----------------------------------------------------------------------------
TypeOK ==
    /\ SlotsTypeOK
    /\ conn \in [Conn -> [peer : Peer \cup {"none"}, claimed : BOOLEAN, read : BOOLEAN,
                          status : {"unused", "door", "open", "shut", "gone"}]]
    /\ live \in [Peer -> {0} \cup Conn]
    /\ token = NoAct \/ token \in [act : Act, map : Map]
    /\ job \in Act \cup {NoAct}

(* The registry's map is the promised one: every claim, failed save, admin  *)
(* act and restart is a step of Slots.                                      *)
MapKept == SlotsSpec

(* The newest connection is the registered one: a replaced connection that  *)
(* ends late takes nobody off the map, and a peer is on it through no other *)
(* connection than its last (drop's cur # p, handshake).                    *)
Registered ==
    /\ \A c \in Conn : conn[c].status = "open" => live[Peers(c)] = c
    /\ \A p \in Peer : live[p] # 0 => Peers(live[p]) = p /\ conn[live[p]].status # "gone"

(* An operator's act, confirmed or not, never takes the slot from under a   *)
(* connected peer (ReleaseSlot and HandoverSlot look again after the token).*)
LiveKeepsItsSlot ==
    [][\A p \in Peer : (live[p] # 0 /\ live'[p] # 0 /\ Holds(ring, p))
          => Holds(ring', p) /\ SlotOf(ring', p) = SlotOf(ring, p)]_vars
=============================================================================
