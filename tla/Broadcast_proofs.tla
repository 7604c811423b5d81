----------------------------- MODULE Broadcast_proofs -----------------------------
(***************************************************************************)
(* For any number of threads and any number of datagrams per notice: typing,  *)
(* the static buffer, counter and handle between notices, and that Broadcast  *)
(* implements UdpNotice.                                                     *)
(***************************************************************************)
EXTENDS Broadcast, TLAPS

\* Until notices overlap: whoever announces is alone, ...
OneAnnounces ==
    \A c \in Ctx : pc[c] \in Announcing =>
        /\ \A d \in Ctx : pc[d] \in Announcing => d = c
        /\ func_arg.head = noty[c].text /\ noty[c].text \in Msgs

\* ... nothing is sent while the text is half copied, ...
HalfIsQuiet ==
    \A c \in Ctx : pc[c] = "half" =>
        alarms = {} /\ udp_time = 0 /\ \A d \in Ctx : pc[d] \notin InCallback

\* ... the one listed alarm is the one that is about to be named, or is named, ...
AlarmIsNamed ==
    /\ \A c \in Ctx : pc[c] = "registered" =>
          alarms = {} \/ (noty[c].alarm # 0 /\ alarms = {noty[c].alarm})
    /\ alarms # {} /\ (\A c \in Ctx : pc[c] # "registered") => alarms = {handle}

\* ... the buffer is whole while an alarm is listed, ...
BufferIsWhole ==
    alarms # {} => func_arg.head = func_arg.tail /\ func_arg.head \in Msgs

\* ... and one callback at a time counts, removes the alarm and resets.
OneCallback ==
    \A c \in Ctx :
        /\ pc[c] \in InCallback => \A d \in Ctx : pc[d] \in InCallback => d = c
        /\ pc[c] = "send" => alarms # {} /\ udp_time < Sends
        /\ pc[c] = "reset" => alarms = {} /\ \A d \in Ctx : pc[d] \notin Announcing

CountIsRight ==
    /\ udp_time <= Sends
    /\ alarms = {} /\ (\A c \in Ctx : pc[c] # "reset") => udp_time = 0

\* Only handlers run callbacks.
CallbackInHandler == \A c \in Ctx : pc[c] \in InCallback => c[2] = "sig"

Alone ==
    OneAnnounces /\ HalfIsQuiet /\ AlarmIsNamed /\ BufferIsWhole /\ OneCallback
      /\ CountIsRight

IInv == TypeOK /\ CallbackInHandler /\ (~overlap => Alone)
-----------------------------------------------------------------------------
(* Typing                                                                  *)

LEMMA SigIsCtx == \A t \in Threads : Sig(t) \in Ctx
  BY DEF Sig, Ctx

\* Every action keeps the variables typed.
LEMMA TypeStep == TypeOK /\ [Next]_vars => TypeOK'
<1> SUFFICES ASSUME TypeOK, [Next]_vars PROVE TypeOK'
  OBVIOUS
<1> USE SigIsCtx, MsgsAssumption, BoundsAssumption
<1>1. ASSUME NEW c \in Ctx, Announce(c) PROVE TypeOK'
  BY <1>1 DEF Announce, Goto, TypeOK, Texts, Buffers, Labels, Announcing, InCallback
<1>2. ASSUME NEW c \in Ctx, Register(c) PROVE TypeOK'
  <2>1. /\ regnum' = regnum + 1 /\ regnum' \in Nat \ {0}
        /\ handle' \in 0 .. regnum' - 1 /\ alarms' \subseteq 1 .. regnum' - 1
    BY <1>2 DEF Register, TypeOK
  <2>2. \A n \in 0 .. regnum - 1 : n \in 0 .. regnum' - 1
    BY <2>1 DEF TypeOK
  <2>3. /\ noty[c].text \in Texts /\ regnum \in 0 .. regnum' - 1
        /\ noty \in [Ctx -> [text : Texts, alarm : 0 .. regnum' - 1]]
    BY <2>1, <2>2 DEF TypeOK
  <2>4. noty' \in [Ctx -> [text : Texts, alarm : 0 .. regnum' - 1]]
    BY <1>2, <2>3 DEF Register
  <2>5. func_arg' \in Buffers
    BY <1>2, <2>3 DEF Register, TypeOK, Buffers
  <2>6. pc' \in [Ctx -> Labels]
    BY <1>2 DEF Register, Goto, TypeOK, Labels, Announcing
  <2> QED
    BY <1>2, <2>1, <2>4, <2>5, <2>6 DEF Register, ghosts, TypeOK
<1>3. ASSUME NEW c \in Ctx, StoreHandle(c) PROVE TypeOK'
  <2>1. handle' \in 0 .. regnum - 1 /\ UNCHANGED regnum
    BY <1>3 DEF StoreHandle, NewHandle, TypeOK
  <2>2. NoNotice \in [text : Texts, alarm : 0 .. regnum - 1]
    BY DEF NoNotice, Texts, TypeOK
  <2>3. noty' \in [Ctx -> [text : Texts, alarm : 0 .. regnum - 1]]
    BY <1>3, <2>2 DEF StoreHandle, TypeOK
  <2>4. pc' \in [Ctx -> Labels]
    BY <1>3 DEF StoreHandle, Goto, TypeOK, Labels
  <2> QED
    BY <1>3, <2>1, <2>3, <2>4 DEF StoreHandle, ghosts, TypeOK
<1>4. ASSUME NEW t \in Threads, Deliver(t) \/ HandlerEnd(t) PROVE TypeOK'
  BY <1>4 DEF Deliver, HandlerEnd, Goto, shared, ghosts, TypeOK, Texts, Buffers,
              Labels, Announcing, InCallback
<1>5. ASSUME NEW t \in Threads, Call(t) PROVE TypeOK'
  <2>1. pc' \in [Ctx -> Labels] /\ alarms' \subseteq 1 .. regnum - 1
    BY <1>5 DEF Call, Goto, TypeOK, Labels, InCallback
  <2>2. overlap' \in BOOLEAN
    BY <1>5 DEF Call
  <2> QED
    BY <1>5, <2>1, <2>2 DEF Call, TypeOK
<1>6. ASSUME NEW t \in Threads, Send(t) \/ Reset(t) PROVE TypeOK'
  <2>1. pc' \in [Ctx -> Labels]
    BY <1>6 DEF Send, Reset, Goto, TypeOK, Labels
  <2>2. CASE Send(t)
    BY <2>1, <2>2 DEF Send, TypeOK
  <2>3. CASE Reset(t)
    BY <2>1, <2>3 DEF Reset, CountReset, ghosts, TypeOK
  <2> QED
    BY <1>6, <2>2, <2>3
<1>7. CASE UNCHANGED vars
  BY <1>7 DEF vars, shared, ghosts, TypeOK
<1> QED
  BY <1>1, <1>2, <1>3, <1>4, <1>5, <1>6, <1>7 DEF Next, NoticeStep, HandlerStep

\* A callback starts in a handler and is one.
LEMMA CallbackStep ==
  TypeOK /\ CallbackInHandler /\ [Next]_vars => CallbackInHandler'
<1> SUFFICES ASSUME TypeOK, CallbackInHandler, [Next]_vars PROVE CallbackInHandler'
  OBVIOUS
<1> USE SigIsCtx DEF CallbackInHandler, InCallback, TypeOK
<1>1. ASSUME NEW c \in Ctx, Announce(c) \/ NoticeStep(c) PROVE CallbackInHandler'
  BY <1>1 DEF Announce, NoticeStep, Register, StoreHandle, Goto
<1>2. ASSUME NEW t \in Threads, Deliver(t) \/ HandlerStep(t) PROVE CallbackInHandler'
  <2>1. Sig(t)[2] = "sig"
    BY DEF Sig
  <2>2. \E l \in Labels : pc' = [pc EXCEPT ![Sig(t)] = l]
    BY <1>2 DEF Deliver, HandlerStep, Call, Send, Reset, HandlerEnd, Goto, Labels,
                Announcing
  <2> QED
    BY <2>1, <2>2
<1>3. CASE UNCHANGED vars
  BY <1>3 DEF vars
<1> QED
  BY <1>1, <1>2, <1>3 DEF Next

-----------------------------------------------------------------------------
(* One notice at a time                                                    *)

\* Nothing ends an overlap.
LEMMA OverlapStable == TypeOK /\ [Next]_vars /\ overlap => overlap'
  BY DEF TypeOK, Next, NoticeStep, HandlerStep, Announce, Register, StoreHandle,
         Deliver, Call, Send, Reset, HandlerEnd, ghosts, vars

\* As long as there is no overlap, every step keeps announcers and callbacks alone.
LEMMA AloneStep ==
  TypeOK /\ TypeOK' /\ Alone /\ [Next]_vars /\ ~overlap' => Alone'
<1> SUFFICES ASSUME TypeOK, TypeOK', Alone, [Next]_vars, ~overlap' PROVE Alone'
  OBVIOUS
<1> USE SigIsCtx, MsgsAssumption, BoundsAssumption
    DEF Alone, OneAnnounces, HalfIsQuiet, AlarmIsNamed, BufferIsWhole, OneCallback,
        CountIsRight, Announcing, InCallback
<1>1. ASSUME NEW c \in Ctx, Announce(c) PROVE Alone'
  <2>1. alarms = {} /\ \A d \in Ctx : pc[d] \notin {"half", "registered", "send", "reset"}
    BY <1>1 DEF Announce, TypeOK
  <2>2. /\ pc' = [pc EXCEPT ![c] = "half"]
        /\ \A d \in Ctx : pc'[d] = IF d = c THEN "half" ELSE pc[d]
    BY <1>1 DEF Announce, Goto, TypeOK
  <2>3. noty'[c].text \in Msgs /\ func_arg'.head = noty'[c].text
    BY <1>1 DEF Announce, TypeOK, Buffers
  <2>4. UNCHANGED <<alarms, handle, udp_time>> /\ udp_time = 0
    BY <1>1, <2>1 DEF Announce, TypeOK
  <2> QED
    BY <2>1, <2>2, <2>3, <2>4
<1>2. ASSUME NEW c \in Ctx, Register(c) PROVE Alone'
  <2>1. /\ pc[c] = "half" /\ alarms = {} /\ udp_time = 0
        /\ \A d \in Ctx \ {c} : pc[d] \notin {"half", "registered", "send", "reset"}
    BY <1>2 DEF Register, TypeOK
  <2>2. \A d \in Ctx : pc'[d] = IF d = c THEN "registered" ELSE pc[d]
    BY <1>2 DEF Register, Goto, TypeOK
  <2>3. /\ func_arg'.head = noty[c].text /\ func_arg'.tail = noty[c].text
        /\ noty'[c].text = noty[c].text /\ noty[c].text \in Msgs
    BY <1>2, <2>1 DEF Register, TypeOK, Buffers
  <2>4. \/ alarms' = {}
        \/ alarms' = {noty'[c].alarm} /\ noty'[c].alarm # 0
    BY <1>2, <2>1 DEF Register, TypeOK
  <2>5. udp_time' = 0 /\ UNCHANGED handle
    BY <1>2, <2>1 DEF Register
  <2> QED
    BY <2>1, <2>2, <2>3, <2>4, <2>5
<1>3. ASSUME NEW c \in Ctx, StoreHandle(c) PROVE Alone'
  <2>1. /\ pc[c] = "registered"
        /\ \A d \in Ctx \ {c} : pc[d] \notin {"half", "registered"}
        /\ alarms = {} \/ alarms = {noty[c].alarm}
    BY <1>3 DEF StoreHandle
  <2>2. \A d \in Ctx : pc'[d] = IF d = c THEN pc'[c] ELSE pc[d]
    BY <1>3 DEF StoreHandle, Goto, TypeOK
  <2>3. pc'[c] \in {"idle", "run"}
    BY <1>3 DEF StoreHandle, Goto, TypeOK
  <2>4. handle' = noty[c].alarm /\ UNCHANGED <<func_arg, alarms, udp_time>>
    BY <1>3 DEF StoreHandle, NewHandle
  <2> QED
    BY <2>1, <2>2, <2>3, <2>4
<1>4. ASSUME NEW t \in Threads, Deliver(t) \/ HandlerEnd(t) PROVE Alone'
  <2>1. \A d \in Ctx : pc'[d] = IF d = Sig(t) THEN pc'[Sig(t)] ELSE pc[d]
    BY <1>4 DEF Deliver, HandlerEnd, Goto, TypeOK
  <2>2. /\ pc[Sig(t)] \in {"idle", "run"} /\ pc'[Sig(t)] \in {"idle", "run"}
        /\ UNCHANGED <<shared, noty>>
    BY <1>4 DEF Deliver, HandlerEnd, Goto, TypeOK
  <2> QED
    BY <2>1, <2>2 DEF shared
<1>5. ASSUME NEW t \in Threads, Call(t) PROVE Alone'
  <2>1. /\ alarms # {} /\ \A d \in Ctx : pc[d] \notin {"half", "send", "reset"}
        /\ UNCHANGED <<func_arg, handle, udp_time, noty>>
    BY <1>5 DEF Call, Due, TypeOK
  <2>2. \A d \in Ctx : pc'[d] = IF d = Sig(t) THEN pc'[Sig(t)] ELSE pc[d]
    BY <1>5 DEF Call, Goto, TypeOK
  <2>3. CASE MoreToSend /\ Goto(Sig(t), "send") /\ UNCHANGED alarms
    <3>1. pc'[Sig(t)] = "send" /\ udp_time < Sends /\ pc[Sig(t)] = "run"
      BY <1>5, <2>3 DEF Call, Goto, TypeOK, MoreToSend
    <3> QED
      BY <2>1, <2>2, <2>3, <3>1
  <2>4. CASE ~MoreToSend /\ alarms' = alarms \ {handle} /\ Goto(Sig(t), "reset")
    <3>1. pc'[Sig(t)] = "reset" /\ udp_time >= Sends /\ pc[Sig(t)] = "run"
      BY <1>5, <2>4 DEF Call, Goto, TypeOK, MoreToSend
    <3>2. \A c \in Ctx : pc[c] # "registered"
      BY <1>5, <3>1 DEF Call, Due
    <3>3. alarms' = {}
      BY <2>1, <2>4, <3>2
    <3> QED
      BY <2>1, <2>2, <3>1, <3>2, <3>3
  <2> QED
    BY <1>5, <2>3, <2>4 DEF Call
<1>6. ASSUME NEW t \in Threads, Send(t) PROVE Alone'
  <2>1. \A d \in Ctx : pc'[d] = IF d = Sig(t) THEN "run" ELSE pc[d]
    BY <1>6 DEF Send, Goto, TypeOK
  <2>2. /\ pc[Sig(t)] = "send" /\ udp_time' = udp_time + 1 /\ udp_time' <= Sends
        /\ alarms # {} /\ UNCHANGED <<func_arg, handle, alarms, noty>>
    BY <1>6 DEF Send, TypeOK
  <2> QED
    BY <2>1, <2>2
<1>7. ASSUME NEW t \in Threads, Reset(t) PROVE Alone'
  <2>1. \A d \in Ctx : pc'[d] = IF d = Sig(t) THEN "run" ELSE pc[d]
    BY <1>7 DEF Reset, Goto, TypeOK
  <2>2. /\ pc[Sig(t)] = "reset" /\ udp_time' = 0
        /\ UNCHANGED <<func_arg, handle, alarms, noty>>
    BY <1>7 DEF Reset, CountReset
  <2> QED
    BY <2>1, <2>2
<1>8. CASE UNCHANGED vars
  BY <1>8 DEF vars, shared
<1> QED
  BY <1>1, <1>2, <1>3, <1>4, <1>5, <1>6, <1>7, <1>8 DEF Next, NoticeStep, HandlerStep

\* The inductive invariant holds in every reachable state.
THEOREM Inductive == Spec => []IInv
<1>1. Init => IInv
  <2> SUFFICES ASSUME Init PROVE IInv
    OBVIOUS
  <2>1. TypeOK
    <3>1. /\ func_arg \in Buffers /\ datagram \in Buffers
          /\ pc \in [Ctx -> Labels] /\ armed \in BOOLEAN /\ overlap \in BOOLEAN
      BY DEF Init, Labels, Empty, Texts, Buffers
    <3>2. /\ regnum \in Nat \ {0} /\ handle \in 0 .. regnum - 1 /\ udp_time \in Nat
          /\ alarms \subseteq 1 .. regnum - 1
      BY DEF Init
    <3>3. NoNotice \in [text : Texts, alarm : 0 .. regnum - 1]
      BY <3>2 DEF NoNotice, Texts
    <3>4. noty \in [Ctx -> [text : Texts, alarm : 0 .. regnum - 1]]
      BY <3>3 DEF Init
    <3> QED
      BY <3>1, <3>2, <3>4 DEF TypeOK
  <2>2. CallbackInHandler
    BY DEF Init, CallbackInHandler, InCallback
  <2>3. Alone
    BY BoundsAssumption
       DEF Init, Alone, OneAnnounces, HalfIsQuiet, AlarmIsNamed, BufferIsWhole,
           OneCallback, CountIsRight, Announcing, InCallback
  <2> QED
    BY <2>1, <2>2, <2>3 DEF IInv
<1>2. IInv /\ [Next]_vars => IInv'
  BY TypeStep, CallbackStep, OverlapStable, AloneStep DEF IInv, TypeOK
<1> QED
  BY <1>1, <1>2, PTL DEF Spec

\* Every reachable state is typed: the handle never names an alarm that was not
\* registered yet.
THEOREM TypeCorrect == Spec => []TypeOK
  BY Inductive, PTL DEF IInv

\* Until notices overlap, the counter is back at zero when the alarm has gone and
\* the handle names the alarm that is listed.
THEOREM BetweenNotices == Spec => []ReadyForNext
<1>1. IInv => ReadyForNext
  <2> SUFFICES ASSUME IInv, ~overlap PROVE ReadyForNext
    BY DEF ReadyForNext
  <2>1. (\A t \in Threads : pc[Sig(t)] # "reset") => \A c \in Ctx : pc[c] # "reset"
    BY DEF IInv, CallbackInHandler, InCallback, Sig, Ctx
  <2> QED
    BY <2>1 DEF IInv, Alone, CountIsRight, AlarmIsNamed, ReadyForNext
<1> QED
  BY <1>1, Inductive, PTL

-----------------------------------------------------------------------------
(* Broadcast implements UdpNotice                                          *)

LEMMA NoticeInit == Init => Notice!Init
  BY DEF Init, Notice!Init, Left, Text, Packet, Empty, Notice!Nothing

\* Every step is a step of UdpNotice or leaves its variables alone.
LEMMA NoticeNext == IInv /\ IInv' /\ [Next]_vars => [Notice!Next]_(Notice!vars)
<1> SUFFICES ASSUME IInv, IInv', [Next]_vars PROVE [Notice!Next]_(Notice!vars)
  OBVIOUS
<1> USE SigIsCtx, MsgsAssumption, BoundsAssumption
<1>1. CASE overlap
  BY <1>1, OverlapStable DEF IInv, Left, Text, Packet, Notice!vars
<1>2. CASE ~overlap /\ overlap'
  <2>1. Left >= 0
    BY <1>2 DEF Left, IInv, Alone, CountIsRight, TypeOK
  <2>2. Left' = -1 /\ Text' = None /\ Packet' = Empty
    BY <1>2 DEF Left, Text, Packet
  <2> QED
    BY <2>1, <2>2 DEF Notice!Next, Notice!Lose, Notice!Nothing, Empty
<1>3. CASE ~overlap /\ ~overlap'
  <2> USE <1>3
  <2>1. ASSUME NEW c \in Ctx, Announce(c) PROVE UNCHANGED Notice!vars
    <3>1. alarms = {} /\ UNCHANGED <<alarms, datagram>>
      BY <2>1 DEF Announce, IInv, TypeOK
    <3> QED
      BY <3>1 DEF Left, Text, Packet, Notice!vars
  <2>2. ASSUME NEW c \in Ctx, Register(c)
        PROVE Notice!Next \/ UNCHANGED Notice!vars
    <3>1. /\ pc[c] = "half" /\ alarms = {} /\ udp_time = 0 /\ noty[c].text \in Msgs
          /\ func_arg'.head = noty[c].text
          /\ UNCHANGED <<udp_time, datagram>>
      BY <2>2 DEF Register, ghosts, IInv, Alone, HalfIsQuiet, OneAnnounces,
                  Announcing, TypeOK, Buffers
    <3>2. Left = 0 /\ Packet' = Packet
      BY <3>1 DEF Left, Packet
    <3>3. CASE alarms' = {}
      BY <3>1, <3>2, <3>3 DEF Left, Text, Packet, Notice!vars
    <3>4. CASE alarms' # {}
      <4>1. Left' = Sends /\ Text' = noty[c].text
        BY <3>1, <3>4 DEF Left, Text
      <4> QED
        BY <3>1, <3>2, <4>1 DEF Notice!Next, Notice!Say
    <3> QED
      BY <3>3, <3>4
  <2>3. ASSUME NEW c \in Ctx, StoreHandle(c) PROVE UNCHANGED Notice!vars
    BY <2>3 DEF StoreHandle, ghosts, Left, Text, Packet, Notice!vars
  <2>4. ASSUME NEW t \in Threads, Deliver(t) \/ HandlerEnd(t)
        PROVE UNCHANGED Notice!vars
    BY <2>4 DEF Deliver, HandlerEnd, shared, ghosts, Left, Text, Packet, Notice!vars
  <2>5. ASSUME NEW t \in Threads, Call(t) PROVE UNCHANGED Notice!vars
    <3>1. UNCHANGED <<func_arg, udp_time, datagram>>
      BY <2>5 DEF Call
    <3>2. CASE UNCHANGED alarms
      BY <3>1, <3>2 DEF Left, Text, Packet, Notice!vars
    <3>3. CASE ~MoreToSend /\ pc'[Sig(t)] = "reset"
      <4>1. udp_time = Sends /\ alarms' = {}
        BY <3>1, <3>3 DEF MoreToSend, IInv, Alone, CountIsRight, OneCallback, TypeOK
      <4> QED
        BY <3>1, <4>1 DEF Left, Text, Packet, Notice!vars
    <3> QED
      BY <2>5, <3>2, <3>3 DEF Call, Goto, IInv, TypeOK
  <2>6. ASSUME NEW t \in Threads, Send(t) PROVE Notice!Next
    <3>1. /\ alarms # {} /\ udp_time < Sends /\ func_arg.head = func_arg.tail
          /\ udp_time' = udp_time + 1 /\ datagram' \in {func_arg, datagram}
          /\ UNCHANGED <<alarms, func_arg>>
      BY <2>6 DEF Send, IInv, Alone, OneCallback, BufferIsWhole
    <3>2. func_arg = [head |-> func_arg.head, tail |-> func_arg.head]
      BY <3>1 DEF IInv, TypeOK, Buffers
    <3>3. Left > 0 /\ Left' = Left - 1
      <4>1. Left = Sends - udp_time /\ Left' = Sends - udp_time'
        BY <3>1 DEF Left
      <4> QED
        BY <3>1, <4>1 DEF IInv, TypeOK
    <3>4. Text = func_arg.head /\ Text' = IF Left = 1 THEN None ELSE Text
      BY <3>1, <3>3 DEF Text, Left, IInv, TypeOK
    <3> QED
      BY <3>1, <3>2, <3>3, <3>4 DEF Packet, Notice!Next, Notice!Send
  <2>7. ASSUME NEW t \in Threads, Reset(t) PROVE UNCHANGED Notice!vars
    <3>1. alarms = {} /\ UNCHANGED <<alarms, datagram>>
      BY <2>7 DEF Reset, ghosts, IInv, Alone, OneCallback
    <3> QED
      BY <3>1 DEF Left, Text, Packet, Notice!vars
  <2>8. CASE UNCHANGED vars
    BY <2>8 DEF vars, shared, ghosts, Left, Text, Packet, Notice!vars
  <2> QED
    BY <2>1, <2>2, <2>3, <2>4, <2>5, <2>6, <2>7, <2>8 DEF Next, NoticeStep, HandlerStep
<1> QED
  BY <1>1, <1>2, <1>3 DEF IInv, TypeOK

\* Whichever threads announce and whichever handlers send, a notice goes out
\* whole and exactly Sends times, until two of them overlap.
THEOREM ImplementsNotice == Spec => NoticeSpec
<1>1. IInv /\ IInv' /\ [Next]_vars => [Notice!Next]_(Notice!vars)
  BY NoticeNext
<1> QED
  BY <1>1, NoticeInit, Inductive, PTL DEF Spec, NoticeSpec, Notice!Spec
=============================================================================
