------------------------------ MODULE Eviction ------------------------------
(***************************************************************************)
(* An operator keeps one peer off the relay for a period, or until lifted: *)
(* each act is reported under a token, confirmed, and applied.             *)
(*                                                                         *)
(* Sources: src/go/internal/relay/admin.go, relay.go (serveWS, handshake). *)
(***************************************************************************)
EXTENDS Naturals

VARIABLES
    evicted,  \* s.evictions[peer]: none, timed (until a moment), open (until lifted)
    conn,     \* the peer's connection: away, door (admitted, no handshake yet), on
    token     \* the act reported last: what it was said to do, and what is pending

evictionVars == <<evicted, conn, token>>

NoToken == [lifts |-> FALSE, until |-> "none", forSpec |-> FALSE, live |-> FALSE]

EvictionInit == evicted = "none" /\ conn = "away" /\ token = NoToken

(* The pending act takes its period from the report's evictedUntilMs: what an *)
(* eviction will be, and for a lift, the period that is in force.             *)
Report(lifts, period) == [lifts |-> lifts, live |-> TRUE,
    until   |-> IF lifts THEN evicted ELSE period,
    forSpec |-> ~lifts]

adminReport ==
    /\ ~token.live
    /\ \/ \E period \in {"timed", "open"} : token' = Report(FALSE, period)
       \/ evicted # "none" /\ token' = Report(TRUE, "none")
    /\ UNCHANGED <<evicted, conn>>

(* An act with no moment and no period to it is the lift. *)
adminConfirm ==
    /\ token.live /\ token' = NoToken
    /\ IF token.until # "timed" /\ ~token.forSpec
       THEN evicted' = "none" /\ UNCHANGED conn
       ELSE /\ evicted' = token.until
            /\ conn' = IF conn = "on" THEN "away" ELSE conn

sweepAdminTokens == token.live /\ token' = NoToken /\ UNCHANGED <<evicted, conn>>

(* Expiry is silent. *)
Expire == evicted = "timed" /\ evicted' = "none" /\ UNCHANGED <<conn, token>>

(* The eviction is checked at the door. *)
serveWS == conn = "away" /\ evicted = "none" /\ conn' = "door" /\ UNCHANGED <<evicted, token>>
handshake == conn = "door" /\ conn' = "on" /\ UNCHANGED <<evicted, token>>
HangUp == conn # "away" /\ conn' = "away" /\ UNCHANGED <<evicted, token>>

Restart == evicted' = "none" /\ conn' = "away" /\ token' = NoToken

EvictionNext ==
    \/ adminReport \/ adminConfirm \/ sweepAdminTokens \/ Expire
    \/ serveWS \/ handshake \/ HangUp \/ Restart

EvictionSpec == EvictionInit /\ [][EvictionNext]_evictionVars

-----------------------------------------------------------------------------
(* The peer "is admitted again from the moment this is confirmed": a lift   *)
(* that is confirmed leaves no eviction behind (consequence, applyEviction).*)
LiftAdmits == [][adminConfirm /\ token.lifts => evicted' = "none"]_evictionVars
=============================================================================
