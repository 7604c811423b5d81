--------------------------- MODULE TerminalService ---------------------------
(***************************************************************************)
(* What the device promises the terminals on its local socket: they are       *)
(* served one after the other in the order they connected; a terminal that    *)
(* was understood is owed one reply and gets no second one; one that cannot   *)
(* be understood gets none; and every connection is closed before the next is *)
(* taken.  The program may end while it waits for a terminal.                 *)
(***************************************************************************)
EXTENDS Integers, Sequences, SequencesExt

CONSTANTS Clients, NoClient

VARIABLES
    line,     \* the terminals that wait, in order
    serving,  \* the one being served
    owes,     \* "nothing", "ear" (not heard yet), "reply" or "silence"
    replies   \* sent on this connection

vars == <<line, serving, owes, replies>>

Join(c) ==
    /\ c # serving /\ ~Contains(line, c)
    /\ line' = Append(line, c)
    /\ UNCHANGED <<serving, owes, replies>>

Take ==
    /\ serving = NoClient /\ line # <<>>
    /\ serving' = Head(line) /\ line' = Tail(line)
    /\ owes' = "ear" /\ replies' = 0

Hear ==
    /\ owes = "ear"
    /\ owes' \in {"reply", "silence"}
    /\ UNCHANGED <<line, serving, replies>>

\* The terminal may have gone meanwhile.
Reply ==
    /\ owes = "reply" /\ replies = 0
    /\ owes' = "nothing" /\ replies' \in {0, 1}
    /\ UNCHANGED <<line, serving>>

\* Closed once nothing is owed any more, or if nothing was ever heard.
Close ==
    /\ serving # NoClient /\ owes # "reply"
    /\ serving' = NoClient /\ owes' = "nothing" /\ replies' = 0
    /\ UNCHANGED line

End ==
    /\ serving = NoClient
    /\ line' = <<>>
    /\ UNCHANGED <<serving, owes, replies>>

Init == line = <<>> /\ serving = NoClient /\ owes = "nothing" /\ replies = 0

Next ==
    \/ \E c \in Clients : Join(c)
    \/ Take \/ Hear \/ Reply \/ Close \/ End

Spec == Init /\ [][Next]_vars
=============================================================================
