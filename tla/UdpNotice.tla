------------------------------- MODULE UdpNotice -------------------------------
(***************************************************************************)
(* What a notice to the terminals promises: one message at a time, sent      *)
(* Sends times, whole, and then never again.  The one way out of the promise *)
(* is a second notice while the first is still being sent.                    *)
(***************************************************************************)
EXTENDS Integers

CONSTANTS
    Msgs,   \* the messages
    Sends,  \* copies of each
    None    \* no message

VARIABLES
    msg,      \* the message being sent
    left,     \* copies still to send; -1: no promise any more
    datagram  \* the last datagram: its two halves

vars == <<msg, left, datagram>>

Nothing == [head |-> None, tail |-> None]

Say(m) == left = 0 /\ msg' = m /\ left' = Sends /\ UNCHANGED datagram

Send ==
    /\ left > 0
    /\ datagram' \in {[head |-> msg, tail |-> msg], datagram}
    /\ left' = left - 1
    /\ msg' = IF left = 1 THEN None ELSE msg

Lose == left >= 0 /\ left' = -1 /\ msg' = None /\ datagram' = Nothing

Init == msg = None /\ left = 0 /\ datagram = Nothing

Next == (\E m \in Msgs : Say(m)) \/ Send \/ Lose

Spec == Init /\ [][Next]_vars
=============================================================================
