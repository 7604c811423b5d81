----------------------------- MODULE AlarmService -----------------------------
(***************************************************************************)
(* What the alarm engine promises its clients, with no list, no timer and no    *)
(* signal in it: a handle that nobody has had before, one alarm removed by it    *)
(* and no other, and calls of registered alarms only, the one due first, never   *)
(* before its time.  The engine promises no more once a thread or a handler      *)
(* comes in where another is inside the list.                                   *)
(***************************************************************************)
EXTENDS Integers

CONSTANTS
    Threads,  \* the threads that callbacks may run on
    Periods   \* the periods alarms are registered with

VARIABLES
    alarms,   \* the registered alarms
    given,    \* how many handles have been given out
    calls,    \* per thread: the alarm being called, and when the call began
    now,      \* the time
    overlap   \* no promise any more

vars == <<now, overlap, given, calls, alarms>>

NoCall == [id |-> 0, at |-> 0]

Handles == {a.id : a \in alarms}

Register ==
    /\ given' = given + 1
    /\ UNCHANGED <<calls, now, overlap>>
    /\ \E p \in Periods, r \in BOOLEAN :
          alarms' = alarms \cup {[id |-> given + 1, period |-> p, repeat |-> r,
                                  due |-> now + p]}

Unregister ==
    /\ UNCHANGED <<given, calls, now, overlap>>
    /\ \E a \in alarms : alarms' = alarms \ {a}

Call(t) ==
    /\ calls[t] = NoCall
    /\ UNCHANGED <<given, now, overlap>>
    /\ \E a \in alarms :
          /\ a.due < now
          /\ \A b \in alarms : a.due <= b.due
          /\ calls' = [calls EXCEPT ![t] = [id |-> a.id, at |-> now]]
    /\ UNCHANGED alarms

\* An alarm that was unregistered while it was called is left alone.
Return(t) ==
    /\ calls[t] # NoCall
    /\ calls' = [calls EXCEPT ![t] = NoCall]
    /\ UNCHANGED <<given, now, overlap>>
    /\ \/ calls[t].id \notin Handles /\ UNCHANGED alarms
       \/ \E a \in alarms :
             /\ a.id = calls[t].id
             /\ alarms' = (alarms \ {a}) \cup
                   {b \in {[a EXCEPT !.due = calls[t].at + a.period]} : a.repeat}

Pass == now' = now + 1 /\ UNCHANGED <<given, calls, overlap, alarms>>

Overlap == overlap'

Init ==
    /\ alarms = {} /\ given = 0 /\ calls = [t \in Threads |-> NoCall]
    /\ now = 1 /\ overlap = FALSE

Next ==
    \/ Overlap \/ Register \/ Unregister \/ Pass
    \/ \E t \in Threads : Call(t) \/ Return(t)

Spec == Init /\ [][Next]_vars
=============================================================================
