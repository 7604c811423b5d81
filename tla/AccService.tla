------------------------------ MODULE AccService ------------------------------
(***************************************************************************)
(* What the acceleration service promises a terminal, with no threads in it:  *)
(* one request at a time, an open session that only a stop command ends, a    *)
(* session clock that starts once per session and runs out only after the     *)
(* user was told.  The one way out of the promise is a stop command that      *)
(* overtakes a request still being served in the background.                  *)
(***************************************************************************)
VARIABLES
    phase,  \* what the service reports, or "overtaken": no promise any more
    clock,  \* the session clock: "off", "on" or "expired"
    told    \* the users were told that the session is about to end

vars == <<phase, clock, told>>

Pending == phase \in {"QUERYING", "OPENING"}

Query == phase = "CLOSED" /\ phase' = "QUERYING" /\ UNCHANGED <<clock, told>>

Start == phase = "CLOSED" /\ phase' = "OPENING" /\ UNCHANGED <<clock, told>>

\* The request failed, timed out, or a query was answered.
Settle ==
    /\ Pending /\ clock = "off"
    /\ phase' = "CLOSED"
    /\ UNCHANGED <<clock, told>>

Open == phase = "OPENING" /\ phase' = "OPENED" /\ UNCHANGED <<clock, told>>

Run ==
    /\ phase \in {"OPENING", "OPENED"} /\ clock = "off"
    /\ clock' = "on"
    /\ UNCHANGED <<phase, told>>

Tell ==
    /\ phase = "OPENED" /\ clock = "on" /\ ~told
    /\ told' = TRUE
    /\ UNCHANGED <<phase, clock>>

Expire ==
    /\ phase = "OPENED" /\ clock = "on" /\ told
    /\ clock' = "expired"
    /\ UNCHANGED <<phase, told>>

Stop ==
    /\ phase # "overtaken"
    /\ phase' = "CLOSED" /\ clock' = "off" /\ told' = FALSE

Overtake ==
    /\ Pending
    /\ phase' = "overtaken" /\ clock' = "off" /\ told' = FALSE

Init == phase = "CLOSED" /\ clock = "off" /\ told = FALSE

Next ==
    \/ Query \/ Start \/ Settle \/ Open \/ Run \/ Tell \/ Expire
    \/ Stop \/ Overtake

Spec == Init /\ [][Next]_vars
=============================================================================
