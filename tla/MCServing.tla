------------------------------ MODULE MCServing ------------------------------
(***************************************************************************)
(* TerminalLoop and AccSession for TLC, for what must eventually happen.  They *)
(* share no variable: a run begins with one of them and the other stays where  *)
(* it begins, where it is not owed a step.                                    *)
(***************************************************************************)
EXTENDS TerminalLoop, AccSession

VARIABLE which

ServingInit == which \in {"loop", "session"} /\ LoopInit /\ Init

ServingNext ==
    /\ UNCHANGED which
    /\ \/ which = "loop"    /\ LoopNext /\ UNCHANGED vars
       \/ which = "session" /\ Next     /\ UNCHANGED loopVars

Serving ==
    /\ ServingInit /\ [][ServingNext]_<<which, loopVars, vars>>
    /\ WF_loopVars(LoopMain)
    /\ Fairness
=============================================================================
