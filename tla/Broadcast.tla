------------------------------- MODULE Broadcast -------------------------------
(***************************************************************************)
(* Notices to the terminals (im_brocast_to_terminal and the udpbrocast timer *)
(* of timer.c).  A notice is copied into one static buffer and sent by a     *)
(* repeating alarm, every 500 ms from inside SIGALRM; a static counter ends   *)
(* it after Sends datagrams by unregistering the alarm that one static        *)
(* handle names.  Any thread, and the heartbeat callback, may announce.       *)
(*                                                                         *)
(* Time is abstract: a listed alarm may be due whenever a handler looks.      *)
(***************************************************************************)
EXTENDS Integers, FiniteSets

CONSTANTS
    Threads,  \* the threads that announce and that host SIGALRM
    Msgs,     \* the messages
    Sends,    \* datagrams per notice (4 in the code)
    None,     \* an empty buffer
    MaxReg    \* bound: notices in a behaviour

ASSUME MsgsAssumption   == None \notin Msgs
ASSUME BoundsAssumption == Sends \in Nat \ {0} /\ MaxReg \in Nat

VARIABLES
    func_arg,  \* udpbrocast_timer.func_arg, in two parts: strcpy takes time
    handle,    \* handle_t[0]
    alarms,    \* the broadcast alarms in the list, by number
    regnum,    \* the number of the next one
    udp_time,  \* datagrams counted
    armed,     \* the interval timer will raise SIGALRM
    pc,        \* where each context is
    noty,      \* the notice each context announces: its text, its alarm
    overlap,   \* history: two notices, or two callbacks, at the same time
    datagram   \* history: the last datagram

shared == <<func_arg, handle, alarms, regnum, udp_time>>
ghosts == <<overlap, datagram>>
vars   == <<shared, armed, pc, noty, ghosts>>

\* A thread's own code and the handler it hosts.
Ctx    == Threads \X {"app", "sig"}
Sig(t) == <<t, "sig">>

\* "half": the text is half copied; "registered": the handle is not stored yet;
\* "run": in run_alarms; "send", "reset": in the timer's callback.
Announcing == {"half", "registered"}
InCallback == {"send", "reset"}
Labels     == Announcing \cup InCallback \cup {"idle", "run"}

NoNotice == [text |-> None, alarm |-> 0]
Empty    == [head |-> None, tail |-> None]

\* A handler preempts the thread that hosts it.
CanStep(c) == c[2] = "app" => pc[Sig(c[1])] = "idle"

Goto(c, l) == pc' = [pc EXCEPT ![c] = l]

-----------------------------------------------------------------------------
(* im_brocast_to_terminal, im_udpbrocast_timer_start                        *)

\* From a thread's own code, or from the heartbeat's callback: strcpy into the
\* static buffer begins.
Announce(c) ==
    /\ CanStep(c) /\ pc[c] = (IF c[2] = "app" THEN "idle" ELSE "run")
    /\ regnum <= MaxReg
    /\ \E m \in Msgs :
          /\ noty' = [noty EXCEPT ![c] = [text |-> m, alarm |-> 0]]
          /\ func_arg' = [func_arg EXCEPT !.head = m]
    /\ Goto(c, "half")
    /\ overlap' = (overlap \/ alarms # {}
                     \/ \E d \in Ctx : pc[d] \in Announcing \cup InCallback)
    /\ UNCHANGED <<handle, alarms, regnum, udp_time, armed, datagram>>

\* The copy is complete; snmp_alarm_register lists the alarm and arms the
\* timer, or finds no memory.
Register(c) ==
    /\ CanStep(c) /\ pc[c] = "half"
    /\ func_arg' = [func_arg EXCEPT !.tail = noty[c].text]
    /\ \/ /\ alarms' = alarms \cup {regnum}
          /\ noty' = [noty EXCEPT ![c] = [text |-> @.text, alarm |-> regnum]]
          /\ armed' = TRUE
       \/ UNCHANGED <<alarms, noty, armed>>
    /\ regnum' = regnum + 1
    /\ Goto(c, "registered")
    /\ UNCHANGED <<handle, udp_time, ghosts>>

\* Mutant: the handle of the first notice is kept.
KeepHandle(c) == IF handle = 0 THEN noty[c].alarm ELSE handle

NewHandle(c) == noty[c].alarm

\* The number is stored.  The push to the iOS server that follows changes
\* nothing here, and nobody uses its result.
StoreHandle(c) ==
    /\ CanStep(c) /\ pc[c] = "registered"
    /\ handle' = NewHandle(c)
    /\ noty' = [noty EXCEPT ![c] = NoNotice]
    /\ Goto(c, IF c[2] = "app" THEN "idle" ELSE "run")
    /\ UNCHANGED <<func_arg, alarms, regnum, udp_time, armed, ghosts>>

-----------------------------------------------------------------------------
(* alarm_handler, run_alarms                                               *)

Deliver(t) ==
    /\ armed /\ pc[Sig(t)] = "idle"
    /\ armed' = FALSE
    /\ Goto(Sig(t), "run")
    /\ UNCHANGED <<shared, noty, ghosts>>

\* A listed broadcast alarm may be due.  Its handle has been stored by the time
\* of its fifth call, 2.5 s after the registration.
Due ==
    \E a \in alarms :
        udp_time >= Sends =>
            \A c \in Ctx : pc[c] = "registered" => noty[c].alarm # a

\* Mutant: one datagram too many.
MoreToSendLate == udp_time <= Sends

MoreToSend == udp_time < Sends

\* run_alarms calls im_udpbrocast_timer_proc: send, or unregister what the
\* handle names.
Call(t) ==
    /\ pc[Sig(t)] = "run" /\ Due
    /\ \/ /\ MoreToSend
          /\ Goto(Sig(t), "send")
          /\ UNCHANGED alarms
       \/ /\ ~MoreToSend
          /\ alarms' = alarms \ {handle}
          /\ Goto(Sig(t), "reset")
    /\ overlap' = (overlap \/ \E d \in Ctx : pc[d] \in InCallback)
    /\ UNCHANGED <<func_arg, handle, regnum, udp_time, armed, noty, datagram>>

\* im_udp_sendmsg, whose result is not used, and udp_time++.
Send(t) ==
    /\ pc[Sig(t)] = "send"
    /\ datagram' \in {func_arg, datagram}   \* no socket: nothing is sent
    /\ udp_time' = udp_time + 1
    /\ Goto(Sig(t), "run")
    /\ UNCHANGED <<func_arg, handle, alarms, regnum, armed, noty, overlap>>

\* Mutant: the counter is left at its limit.
CountKept == udp_time

CountReset == 0

Reset(t) ==
    /\ pc[Sig(t)] = "reset"
    /\ udp_time' = CountReset
    /\ Goto(Sig(t), "run")
    /\ UNCHANGED <<func_arg, handle, alarms, regnum, armed, noty, ghosts>>

\* Nothing due any more: set_an_alarm re-arms the timer.
HandlerEnd(t) ==
    /\ pc[Sig(t)] = "run"
    /\ armed' = TRUE
    /\ Goto(Sig(t), "idle")
    /\ UNCHANGED <<shared, noty, ghosts>>

-----------------------------------------------------------------------------

Init ==
    /\ func_arg = Empty
    /\ handle = 0 /\ alarms = {} /\ regnum = 1 /\ udp_time = 0
    /\ armed = TRUE
    /\ pc = [c \in Ctx |-> "idle"]
    /\ noty = [c \in Ctx |-> NoNotice]
    /\ overlap = FALSE /\ datagram = Empty

NoticeStep(c) == Register(c) \/ StoreHandle(c)

HandlerStep(t) == Call(t) \/ Send(t) \/ Reset(t) \/ HandlerEnd(t)

Next ==
    \/ \E c \in Ctx : Announce(c) \/ NoticeStep(c)
    \/ \E t \in Threads : Deliver(t) \/ HandlerStep(t)

Spec == Init /\ [][Next]_vars

\* Threads get to run however often handlers preempt them, an armed timer
\* expires, the callback and its caller go on (sendto does not block, an HTTP
\* exchange ends), and an alarm whose time has come is called.
Fairness ==
    /\ \A c \in Ctx : SF_vars(NoticeStep(c))
    /\ WF_vars(\E t \in Threads : Deliver(t))
    /\ \A t \in Threads : WF_vars(Send(t) \/ Reset(t) \/ HandlerEnd(t))
    /\ SF_vars(\E t \in Threads : Call(t))

FairSpec == Spec /\ Fairness

-----------------------------------------------------------------------------
(* Properties                                                              *)

Texts   == Msgs \cup {None}
Buffers == [head : Texts, tail : Texts]

TypeOK ==
    /\ func_arg \in Buffers
    /\ regnum \in Nat \ {0}
    /\ handle \in 0 .. regnum - 1
    /\ alarms \subseteq 1 .. regnum - 1
    /\ udp_time \in Nat
    /\ armed \in BOOLEAN
    /\ pc \in [Ctx -> Labels]
    /\ noty \in [Ctx -> [text : Texts, alarm : 0 .. regnum - 1]]
    /\ overlap \in BOOLEAN
    /\ datagram \in Buffers

\* The state of UdpNotice that this state implements: a notice is under way
\* while its alarm is listed and the count is not complete.
Left   == IF overlap THEN -1 ELSE IF alarms = {} THEN 0 ELSE Sends - udp_time
Text   == IF Left > 0 THEN func_arg.head ELSE None
Packet == IF overlap THEN Empty ELSE datagram

Notice == INSTANCE UdpNotice WITH msg <- Text, left <- Left, datagram <- Packet

\* Whoever announces and whichever thread's handler sends: a notice goes out
\* whole and exactly Sends times, until two of them overlap.
NoticeSpec == Notice!Spec

\* Unless notices overlap, the buffer, the counter and the handle are ready for
\* the next one when the last one's alarm has gone.
ReadyForNext ==
    ~overlap =>
        /\ udp_time <= Sends
        /\ alarms = {} /\ (\A c \in Ctx : pc[c] # "reset") => udp_time = 0
        /\ alarms # {} /\ (\A c \in Ctx : pc[c] # "registered") => alarms = {handle}

\* A notice comes to an end, unless another one overlaps it.
NoticeEnds == alarms # {} ~> (alarms = {} \/ overlap)

\* "Construct and send the broadcast to inform all terminals": a notice is not
\* overwritten before it was sent.
AnnouncedIsSent ==
    [][\A c \in Ctx : pc[c] # "half" /\ pc'[c] = "half"
           => func_arg = datagram \/ alarms = {}]_vars
=============================================================================
