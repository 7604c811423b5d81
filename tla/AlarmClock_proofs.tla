-------------------------- MODULE AlarmClock_proofs --------------------------
(***************************************************************************)
(* TLAPS proofs about AlarmClock, for every set of threads, heap, set of     *)
(* intervals and bound: type correctness, that the alarm engine is never left *)
(* without a timer except by a zero delay or an entry that nobody numbers      *)
(* (EngineAlive), that the list is sound (ListSound), and that no alarm        *)
(* oversleeps but one the last setitimer did not know of, and that one not for  *)
(* long (NoOversleep).                                                         *)
(*                                                                         *)
(* EngineAlive is not inductive: a context that is merely walking the list   *)
(* is busy but may still give up (no memory).  EngineInv counts only the       *)
(* contexts that are bound to reach set_an_alarm; if the entry set_an_alarm      *)
(* finds has no number yet, it arms nothing, but whoever is filling it will.     *)
(* OwnerInv says that, until contexts overlap, an entry without a number is   *)
(* being filled by one of them.                                               *)
(*                                                                         *)
(* ListSound needs the shape of the list, which TLA+ can say without recursion:  *)
(* Listed is the least set that holds the head and is closed under next.  What  *)
(* is linked or unlinked changes that set by one block (ListInv).  NoOversleep   *)
(* needs what each context that is about to arm the timer knows, and does not     *)
(* know, of the list (DelayInv, WakeInv); its bound, which holds after an overlap   *)
(* too, needs how far ahead a due time can be (TimesInv, LimitInv).             *)
(*                                                                         *)
(* The last section shows that the engine implements AlarmService: which entries *)
(* are registered (RegisteredAre), how each change of the list changes them, what *)
(* an entry that is being filled holds (FreshInv) and what a handler remembers of *)
(* the alarm it calls (CallInv) make every step one of AlarmService or none.    *)
(***************************************************************************)
EXTENDS AlarmClock, TLAPS

\* Contexts that reach set_an_alarm before they are idle again.
WillSchedule(c) ==
    \/ pc[c] \notin {"idle", "walked"}
    \/ pc[c] = "walked" /\ frame[c].ret = "callback"

EngineInv ==
    ~crashed /\ start_alarms /\ thealarms # NULL /\ itimer = 0 /\ ~pending /\ ~disarmed
        => \E c \in Ctx : WillSchedule(c)

\* An entry without a number is being filled by a registration.
OwnerInv ==
    ~overlap => \A n \in Nodes : mem[n].clientreg = 0 =>
        \E c \in Ctx : pc[c] \in {"linked", "numbered"} /\ frame[c].node = n

\* Registration numbers start at 1.
NumberInv ==
    /\ regnum >= 1
    /\ \A c \in Ctx : pc[c] = "numbered" => frame[c].reg >= 1

\* What a context took from the clock is not ahead of it; time starts at 1.
ClockInv ==
    /\ now >= 1
    /\ \A c \in Ctx : frame[c].at <= now

\* The list comes to an end: no blocks on it lead only to one another.
Ends == \A S \in SUBSET Listed : S # {} => \E m \in S : mem[m].next \notin S

\* ListSound, and what keeps it.
Sound ==
    /\ ~crashed /\ Listed = allocated /\ Ends
    /\ \A n \in Listed : mem[n].clientreg < regnum
    /\ \A m, n \in Listed : mem[m].clientreg = mem[n].clientreg => m = n

\* What a context took from the list still holds of it: the last entry, its
\* own entry at the end and where it is read from, the number.
Place(c) ==
    /\ pc[c] = "walked" =>
          IF frame[c].tail = NULL THEN thealarms = NULL ELSE IsLast(frame[c].tail)
    /\ pc[c] \in {"linked", "numbered"} =>
          /\ frame[c].node \in Listed /\ mem[frame[c].node].next = NULL
          /\ Target(c) = frame[c].node /\ frame[c].tail # frame[c].node
    /\ pc[c] = "numbered" => frame[c].reg = regnum

\* Only an entry that is being filled has no callback.
Bare(n)  == mem[n].thecallback = "null"
Fills(c, n) == pc[c] = "linked" /\ frame[c].node = n

ListInv ==
    ~overlap =>
        /\ Sound
        /\ \A n \in Listed : Bare(n) => \E c \in Ctx : Fills(c, n)
        /\ \A c \in Ctx : Place(c)
        /\ \A c, d \in Ctx : Inside(c) /\ Inside(d) => c = d

\* A delay that waits for its setitimer suits every entry but those its context
\* does not know of; an entry that is being filled is one of these.
Suits(c) ==
    /\ \A n \in Listed \ missed[c] :
          frame[c].at + frame[c].delta <= Later(mem[n].t_next, frame[c].at + 1)
    /\ \A d \in Ctx : pc[d] \in {"linked", "numbered"} => frame[d].node \in missed[c]

DelayInv == ~overlap => \A c \in Ctx : pc[c] = "setitimer" => Suits(c)

\* NoOversleep, while the engine is not at rest.
Covered ==
    \A n \in Listed \ armed.missed :
        itimer <= Later(mem[n].t_next, armed.at + 1) + armed.slip
WakeInv ==
    ~overlap /\ start_alarms /\ itimer # 0 => Covered \/ \E c \in Ctx : WillSchedule(c)

\* No due time is further ahead than one of the periods, whatever has raced.
Ahead(x) == x <= now \/ \E p \in Intervals : x <= now + p
Timed(a) == a.t \in Intervals \cup {0} /\ a.t_last <= now /\ Ahead(a.t_next)

TimesInv ==
    /\ \A n \in Nodes : Timed(mem[n])
    /\ \A t \in Threads : running[t].at <= now

\* Nor is any delay longer than one of them, nor what the timer was last given.
LimitInv ==
    /\ \A c \in Ctx : pc[c] = "setitimer" => \E p \in Intervals : frame[c].delta <= p
    /\ itimer # 0 => \E p \in Intervals : itimer <= armed.at + armed.slip + p

IInv ==
    /\ TypeOK /\ ClockInv /\ NumberInv /\ OwnerInv /\ EngineInv /\ ListInv
    /\ DelayInv /\ WakeInv /\ TimesInv /\ LimitInv

-----------------------------------------------------------------------------
(* Lemmas about the operators                                              *)

\* sa_update_entry returns an alarm and changes its two times only.
LEMMA UpdateEntry ==
    ASSUME NEW a \in Alarm, now \in Nat
    PROVE  /\ sa_update_entry(a) \in Alarm
           /\ sa_update_entry(a).clientreg = a.clientreg
           /\ sa_update_entry(a).next = a.next
           /\ sa_update_entry(a).thecallback = a.thecallback
           /\ sa_update_entry(a).t = a.t
           /\ sa_update_entry(a).flags = a.flags
  <1>1. CASE a.t_last = 0
    <2>1. sa_update_entry(a) = [a EXCEPT !.t_last = now, !.t_next = now + a.t]
      BY <1>1 DEF sa_update_entry
    <2>2. now + a.t \in Nat
      BY DEF Alarm
    <2>3. \A x \in Nat : [a EXCEPT !.t_last = now, !.t_next = x] \in Alarm
      BY DEF Alarm
    <2> QED BY <2>1, <2>2, <2>3 DEF Alarm
  <1>2. CASE a.t_last # 0 /\ a.t_next = 0
    <2>1. sa_update_entry(a) = [a EXCEPT !.t_next = a.t_last + a.t]
      BY <1>2 DEF sa_update_entry
    <2> QED BY <2>1 DEF Alarm
  <1>3. CASE a.t_last # 0 /\ a.t_next # 0
    BY <1>3 DEF sa_update_entry
  <1> QED BY <1>1, <1>2, <1>3

\* The delay computed for an entry is a natural number.
LEMMA DelayType ==
    ASSUME NEW n \in Nodes, mem \in [Nodes -> Alarm], now \in Nat
    PROVE  Delay(n) \in Nat
  BY DEF Delay, Alarm

\* Unlinking keeps the types, numbers nobody and never fills an empty list.
LEMMA UnlinkEffect ==
    ASSUME NEW n \in Nodes, TypeOK, NodesAssumption, Unlink(n)
    PROVE  /\ thealarms' \in Refs
           /\ mem' \in [Nodes -> Alarm]
           /\ allocated' \subseteq Nodes
           /\ \A m \in Nodes : mem'[m].clientreg = mem[m].clientreg
           /\ thealarms' # NULL => thealarms # NULL
  BY DEF Unlink, TypeOK, Refs, Alarm, NodesAssumption

\* After a callback the entry keeps its number, gets a due time or is unlinked.
LEMMA RescheduleEffect ==
    ASSUME NEW t \in Threads, NodesAssumption, TypeOK, Reschedule(t)
    PROVE  /\ thealarms' \in Refs
           /\ mem' \in [Nodes -> Alarm]
           /\ allocated' \subseteq Nodes
           /\ \A m \in Nodes : mem'[m].clientreg = mem[m].clientreg
           /\ thealarms' # NULL => thealarms # NULL
  <1> DEFINE called(n) == [mem[n] EXCEPT !.t_last = running[t].at, !.t_next = 0]
  <1>1. CASE UNCHANGED list
    BY <1>1 DEF list, TypeOK
  <1>2. ASSUME NEW n \in Nodes, mem[n].flags = SA_REPEAT,
               mem' = [mem EXCEPT ![n] = sa_update_entry(called(n))],
               UNCHANGED <<thealarms, allocated>>
        PROVE  /\ mem' \in [Nodes -> Alarm]
               /\ \A m \in Nodes : mem'[m].clientreg = mem[m].clientreg
    <2>0. mem[n] \in Alarm /\ running[t].at \in Nat
      BY DEF TypeOK
    <2>1. called(n) \in Alarm /\ called(n).clientreg = mem[n].clientreg
      BY <2>0 DEF Alarm
    <2>2. /\ sa_update_entry(called(n)) \in Alarm
          /\ sa_update_entry(called(n)).clientreg = mem[n].clientreg
      BY <2>1, UpdateEntry DEF TypeOK
    <2> HIDE DEF called
    <2> QED BY <1>2, <2>2 DEF TypeOK
  <1>3. ASSUME NEW n \in Nodes, Unlink(n)
        PROVE  /\ thealarms' \in Refs
               /\ mem' \in [Nodes -> Alarm]
               /\ allocated' \subseteq Nodes
               /\ \A m \in Nodes : mem'[m].clientreg = mem[m].clientreg
               /\ thealarms' # NULL => thealarms # NULL
    BY <1>3, UnlinkEffect
  <1> QED BY <1>1, <1>2, <1>3 DEF Reschedule, TypeOK

\* Storing a reference at the tail pointer keeps the types and the numbers.
LEMMA StoreEffect ==
    ASSUME NEW c \in Ctx, NEW r \in Refs, NEW m \in [Nodes -> Alarm],
           TypeOK, StoreAtTail(c, r, m)
    PROVE  /\ thealarms' \in Refs
           /\ mem' \in [Nodes -> Alarm]
           /\ \A n \in Nodes : mem'[n].clientreg = m[n].clientreg
           /\ thealarms' \in {thealarms, r}
  <1>1. CASE frame[c].tail = NULL
    BY <1>1 DEF StoreAtTail, TypeOK
  <1>2. CASE frame[c].tail # NULL
    <2>1. frame[c].tail \in Nodes
      BY <1>2 DEF TypeOK, Frame, Refs
    <2>2. thealarms' = thealarms /\ mem' = [m EXCEPT ![frame[c].tail].next = r]
      BY <1>2 DEF StoreAtTail
    <2>3. mem' \in [Nodes -> Alarm]
      BY <2>1, <2>2 DEF Alarm
    <2> QED BY <2>1, <2>2, <2>3 DEF TypeOK, Alarm
  <1> QED BY <1>1, <1>2

\* What a context does not know of are blocks.
LEMMA MissesType ==
    ASSUME NEW c \in Ctx, NEW n \in Nodes, missed \in [Ctx -> SUBSET Nodes], Misses(c, n)
    PROVE  missed' \in [Ctx -> SUBSET Nodes]
  BY DEF Misses

\* The records the engine starts from are typed.
LEMMA Constants == Zeroed \in Alarm /\ Unused \in Alarm /\ NoFrame \in Frame
  BY DEF Zeroed, Unused, NoFrame, Alarm, Frame, Refs, SA_REPEAT

-----------------------------------------------------------------------------
(* Type correctness                                                        *)

LEMMA TypeStep ==
    ASSUME NodesAssumption, IntervalAssumption, TypeOK, ClockInv, [Next]_vars
    PROVE  TypeOK'
  <1> USE DEF list, clock, ghosts, Goto, Touch, CanStep
  <1>1. CASE InitAlarmPostConfig
    BY <1>1 DEF InitAlarmPostConfig, TypeOK, Labels
  <1>2. ASSUME NEW c \in Ctx, CtxStep(c) PROVE TypeOK'
    <2>1. CASE RegisterWalk(c)
      <3>1. PICK last \in Refs : frame' = [frame EXCEPT ![c] =
                 [NoFrame EXCEPT !.tail = last, !.ret = pc[c]]]
        BY <2>1 DEF RegisterWalk
      <3>2. pc[c] \in {"idle", "callback"}
        BY <2>1 DEF RegisterWalk, MayCall
      <3>3. frame' \in [Ctx -> Frame]
        BY <3>1, <3>2 DEF TypeOK, Frame, NoFrame, Refs
      <3> QED BY <2>1, <3>3 DEF RegisterWalk, TypeOK, Labels
    <2>2. CASE RegisterLink(c)
      <3>1. PICK n \in Nodes : /\ StoreAtTail(c, n, [mem EXCEPT ![n] = Zeroed])
                               /\ allocated' = allocated \cup {n}
                               /\ frame' = [frame EXCEPT ![c].node = n]
                               /\ Misses(c, n)
        BY <2>2 DEF RegisterLink
      <3>2. [mem EXCEPT ![n] = Zeroed] \in [Nodes -> Alarm]
        BY Constants DEF TypeOK
      <3>3. thealarms' \in Refs /\ mem' \in [Nodes -> Alarm]
        BY <3>1, <3>2, StoreEffect DEF Refs
      <3>4. frame' \in [Ctx -> Frame]
        <4>1. frame' = [frame EXCEPT ![c].node = n] /\ frame \in [Ctx -> Frame] /\ n \in Refs
          BY <3>1 DEF TypeOK, Refs
        <4> QED BY <4>1 DEF Frame
      <3>5. Misses(c, n)
        BY <3>1
      <3>6. missed' \in [Ctx -> SUBSET Nodes]
        BY <3>5, MissesType DEF TypeOK
      <3> QED BY <2>2, <3>1, <3>3, <3>4, <3>6 DEF RegisterLink, TypeOK, Labels
    <2>3. CASE RegisterNoMemory(c)
      <3>1. thealarms' \in Refs /\ mem' \in [Nodes -> Alarm]
        BY <2>3, StoreEffect DEF RegisterNoMemory, Refs, TypeOK
      <3>2. frame[c].ret \in Labels
        BY DEF TypeOK, Frame, Labels
      <3> QED BY <2>3, <3>1, <3>2, Constants DEF RegisterNoMemory, TypeOK
    <2>4. CASE RegisterOnItself(c) \/ RegisterNowhere(c)
      BY <2>4 DEF RegisterOnItself, RegisterNowhere, TypeOK
    <2>5. CASE RegisterNumber(c)
      <3>1. PICK t \in Intervals, flags \in {0, SA_REPEAT} :
              mem' = [mem EXCEPT ![Target(c)] =
                        [@ EXCEPT !.t = t, !.flags = flags,
                                  !.thecallback = "client"]]
        BY <2>5 DEF RegisterNumber
      <3>2. ASSUME NEW a \in Alarm
            PROVE  [a EXCEPT !.t = t, !.flags = flags,
                             !.thecallback = "client"] \in Alarm
        BY DEF Alarm, IntervalAssumption
      <3>3a. mem' \in [Nodes -> Alarm]
        BY <3>1, <3>2 DEF TypeOK
      <3>3. frame' \in [Ctx -> Frame]
        BY <2>5 DEF RegisterNumber, TypeOK, Frame
      <3> QED BY <2>5, <3>3, <3>3a DEF RegisterNumber, TypeOK, Labels
    <2>6. CASE RegisterFill(c)
      <3>1. mem' \in [Nodes -> Alarm]
        <4>1. ASSUME NEW n \in Nodes
              PROVE  sa_update_entry([mem[n] EXCEPT !.clientreg = frame[c].reg,
                                                    !.next = NULL]) \in Alarm
          <5>1. mem[n] \in Alarm /\ frame[c].reg \in Nat /\ NULL \in Refs
            BY DEF TypeOK, Frame, Refs
          <5>2. [mem[n] EXCEPT !.clientreg = frame[c].reg, !.next = NULL] \in Alarm
            BY <5>1 DEF Alarm
          <5> QED BY <5>2, UpdateEntry DEF TypeOK
        <4> QED BY <2>6, <4>1 DEF RegisterFill, ArmIfStarted, TypeOK
      <3>2. frame' \in [Ctx -> Frame]
        <4>1. [NoFrame EXCEPT !.ret = frame[c].ret] \in Frame
          BY Constants DEF TypeOK, Frame, NoFrame
        <4>2. \/ frame' = [frame EXCEPT ![c] = [NoFrame EXCEPT !.ret = frame[c].ret]]
              \/ frame' = [frame EXCEPT ![c] = NoFrame]
          BY <2>6 DEF RegisterFill, ArmIfStarted
        <4>3. frame \in [Ctx -> Frame]
          BY DEF TypeOK
        <4> QED BY <4>1, <4>2, <4>3, Constants
      <3>3. pc' \in [Ctx -> Labels] /\ regnum' \in Nat
        BY <2>6 DEF RegisterFill, ArmIfStarted, TypeOK, Frame, Labels
      <3> QED BY <2>6, <3>1, <3>2, <3>3 DEF RegisterFill, ArmIfStarted, TypeOK
    <2>7. CASE Unregister(c)
      <3>1. PICK n \in Nodes : Unlink(n)
        BY <2>7 DEF Unregister
      <3> QED BY <2>7, <3>1, UnlinkEffect DEF Unregister, TypeOK
    <2>8. CASE ScheduleNothing(c)
      <3>1. frame[c].ret \in Labels
        BY DEF TypeOK, Frame, Labels
      <3>2. disarmed' \in BOOLEAN
        BY <2>8 DEF ScheduleNothing, BeingFilled, TypeOK
      <3> QED BY <2>8, <3>1, <3>2, Constants DEF ScheduleNothing, TypeOK
    <2>9. CASE ScheduleNext(c)
      <3>1. PICK n \in Nodes :
              frame' = [frame EXCEPT ![c] = [@ EXCEPT !.delta = Delay(n), !.at = now]]
        BY <2>9 DEF ScheduleNext
      <3>2. Delay(n) \in Nat /\ now \in Nat /\ frame[c] \in Frame
        BY DelayType DEF TypeOK
      <3>3a. [frame[c] EXCEPT !.delta = Delay(n), !.at = now] \in Frame
        BY <3>2 DEF Frame
      <3>3. frame' \in [Ctx -> Frame]
        BY <3>1, <3>3a DEF TypeOK
      <3>4. missed' \in [Ctx -> SUBSET Nodes]
        BY <2>9 DEF ScheduleNext, TypeOK
      <3> QED BY <2>9, <3>3, <3>4 DEF ScheduleNext, TypeOK, Labels
    <2>10. CASE SetItimer(c)
      <3>1. frame[c].ret \in Labels
        BY DEF TypeOK, Frame, Labels
      <3>2. frame[c].delta \in Nat /\ frame[c].at \in Nat /\ now \in Nat
            /\ frame[c].at <= now
        BY DEF TypeOK, Frame, ClockInv
      <3>3. itimer' \in Nat
        BY <2>10, <3>2 DEF SetItimer
      <3>4. armed' \in [at : Nat, slip : Nat, missed : SUBSET Nodes]
        <4>1. missed[c] \in SUBSET Nodes
          BY DEF TypeOK
        <4>2. now - frame[c].at \in Nat
          BY <3>2
        <4> QED BY <2>10, <3>2, <4>1, <4>2 DEF SetItimer
      <3>6. missed' \in [Ctx -> SUBSET Nodes]
        BY <2>10 DEF SetItimer, TypeOK
      <3>5. disarmed' \in BOOLEAN
        BY <2>10 DEF SetItimer
      <3> QED BY <2>10, <3>1, <3>3, <3>4, <3>5, <3>6, Constants
               DEF SetItimer, TypeOK
    <2> QED BY <1>2, <2>1, <2>2, <2>3, <2>4, <2>5, <2>6, <2>7, <2>8, <2>9, <2>10
            DEF CtxStep
  <1>3. ASSUME NEW t \in Threads, HandlerStep(t) PROVE TypeOK'
    <2>1. CASE Deliver(t)
      BY <2>1 DEF Deliver, TypeOK, Labels
    <2>2. CASE RunDue(t)
      <3>1. PICK n \in Nodes :
              IF mem[n].thecallback # "null"
              THEN /\ running' = [running EXCEPT ![t] =
                                    [id |-> mem[n].clientreg, at |-> now]]
                   /\ pc' = [pc EXCEPT ![Sig(t)] = "callback"]
                   /\ UNCHANGED crashed
              ELSE crashed' = TRUE /\ UNCHANGED <<running, pc>>
        BY <2>2 DEF RunDue
      <3>2. running' \in [Threads -> [id : Nat, at : Nat]]
        BY <3>1 DEF TypeOK, Alarm
      <3>3. pc' \in [Ctx -> Labels]
        BY <3>1 DEF TypeOK, Labels
      <3>4. crashed' \in BOOLEAN
        BY <3>1 DEF TypeOK
      <3> QED BY <2>2, <3>2, <3>3, <3>4 DEF RunDue, TypeOK
    <2>3. CASE RunDone(t)
      BY <2>3 DEF RunDone, TypeOK, Labels
    <2>4. CASE CallbackReturn(t)
      BY <2>4 DEF CallbackReturn, TypeOK, Labels
    <2>5. CASE Reschedule(t)
      <3>1. /\ thealarms' \in Refs
            /\ mem' \in [Nodes -> Alarm]
            /\ allocated' \subseteq Nodes
        BY <2>5, RescheduleEffect
      <3>2. missed' \in [Ctx -> SUBSET Nodes]
        <4>1. Sig(t) \in Ctx
          BY DEF Sig, Ctx
        <4> QED BY <2>5, <4>1, MissesType DEF Reschedule, TypeOK
      <3> QED BY <2>5, <3>1, <3>2 DEF Reschedule, TypeOK, Labels
    <2> QED BY <1>3, <2>1, <2>2, <2>3, <2>4, <2>5 DEF HandlerStep
  <1>4. CASE Tick
    <2>1. now' \in Nat /\ itimer' \in Nat
      BY <1>4 DEF Tick, TypeOK
    <2>2. pending' \in BOOLEAN
      BY <1>4 DEF Tick, TypeOK
    <2> QED BY <1>4, <2>1, <2>2 DEF Tick, TypeOK
  <1>5. CASE UNCHANGED vars
    BY <1>5 DEF vars, TypeOK
  <1> QED BY <1>1, <1>2, <1>3, <1>4, <1>5 DEF Next

-----------------------------------------------------------------------------
(* The auxiliary invariants                                                *)

\* No context holds a time later than now.
LEMMA ClockStep ==
    ASSUME TypeOK, ClockInv, [Next]_vars
    PROVE  ClockInv'
  <1> USE DEF list, clock, ghosts
  <1>0. /\ now \in Nat /\ now >= 1
        /\ \A c \in Ctx : frame[c].at \in Nat /\ frame[c].at <= now
        /\ frame \in [Ctx -> Frame]
        /\ NoFrame.at = 0
    BY DEF TypeOK, ClockInv, Frame, NoFrame
  <1>1. ASSUME UNCHANGED frame, now' \in {now, now + 1}
        PROVE  ClockInv'
    BY <1>0, <1>1 DEF ClockInv
  <1>2. ASSUME UNCHANGED now, NEW c \in Ctx,
               \E f : frame' = [frame EXCEPT ![c] = f] /\ f.at \in {0, frame[c].at, now}
        PROVE  ClockInv'
    <2>1. PICK f : frame' = [frame EXCEPT ![c] = f] /\ f.at \in {0, frame[c].at, now}
      BY <1>2
    <2>2. ASSUME NEW d \in Ctx PROVE frame'[d].at <= now
      <3>1. CASE d = c
        BY <1>0, <2>1, <3>1
      <3>2. CASE d # c
        BY <1>0, <2>1, <3>2
      <3> QED BY <3>1, <3>2
    <2> QED BY <1>0, <1>2, <2>2 DEF ClockInv
  <1>3. ASSUME NEW c \in Ctx, CtxStep(c) PROVE ClockInv'
    <2>1. CASE RegisterWalk(c)
      <3>1. PICK last \in Refs : frame' = [frame EXCEPT ![c] =
                 [NoFrame EXCEPT !.tail = last, !.ret = pc[c]]]
        BY <2>1 DEF RegisterWalk
      <3>2. [NoFrame EXCEPT !.tail = last, !.ret = pc[c]].at = 0
        BY DEF NoFrame
      <3> QED BY <1>2, <2>1, <3>1, <3>2 DEF RegisterWalk
    <2>2. CASE RegisterLink(c)
      <3>1. PICK n \in Nodes : frame' = [frame EXCEPT ![c] = [@ EXCEPT !.node = n]]
        BY <2>2 DEF RegisterLink
      <3>2. [frame[c] EXCEPT !.node = n].at = frame[c].at
        BY <1>0 DEF Frame
      <3> QED BY <1>2, <2>2, <3>1, <3>2 DEF RegisterLink
    <2>3. CASE RegisterNoMemory(c)
      BY <1>0, <1>2, <2>3 DEF RegisterNoMemory
    <2>4. CASE RegisterOnItself(c) \/ RegisterNowhere(c)
      BY <1>1, <2>4 DEF RegisterOnItself, RegisterNowhere
    <2>5. CASE RegisterNumber(c)
      <3>1. frame' = [frame EXCEPT ![c] = [@ EXCEPT !.reg = regnum]]
        BY <2>5 DEF RegisterNumber
      <3>2. [frame[c] EXCEPT !.reg = regnum].at = frame[c].at
        BY <1>0 DEF Frame
      <3> QED BY <1>2, <2>5, <3>1, <3>2 DEF RegisterNumber
    <2>6. CASE RegisterFill(c)
      <3>1. [NoFrame EXCEPT !.ret = frame[c].ret].at = 0
        BY DEF NoFrame
      <3> QED BY <1>0, <1>2, <2>6, <3>1 DEF RegisterFill, ArmIfStarted
    <2>7. CASE Unregister(c)
      BY <1>1, <2>7 DEF Unregister
    <2>8. CASE ScheduleNothing(c)
      BY <1>0, <1>2, <2>8 DEF ScheduleNothing
    <2>9. CASE ScheduleNext(c)
      <3>1. PICK n \in Nodes :
              frame' = [frame EXCEPT ![c] = [@ EXCEPT !.delta = Delay(n), !.at = now]]
        BY <2>9 DEF ScheduleNext
      <3>2. [frame[c] EXCEPT !.delta = Delay(n), !.at = now].at = now
        BY <1>0 DEF Frame
      <3> QED BY <1>2, <2>9, <3>1, <3>2 DEF ScheduleNext
    <2>10. CASE SetItimer(c)
      BY <1>0, <1>2, <2>10 DEF SetItimer
    <2> QED BY <1>3, <2>1, <2>2, <2>3, <2>4, <2>5, <2>6, <2>7, <2>8, <2>9, <2>10
            DEF CtxStep
  <1>4. CASE InitAlarmPostConfig \/ Tick \/ \E t \in Threads : HandlerStep(t)
    BY <1>1, <1>4 DEF InitAlarmPostConfig, Tick, HandlerStep, Deliver, RunDue,
                      RunDone, CallbackReturn, Reschedule
  <1>5. CASE UNCHANGED vars
    BY <1>1, <1>5 DEF vars
  <1> QED BY <1>3, <1>4, <1>5 DEF Next

\* Registration numbers stay positive.
LEMMA NumberStep ==
    ASSUME TypeOK, NumberInv, [Next]_vars
    PROVE  NumberInv'
  <1> USE DEF list, clock, ghosts, Goto
  <1>0. /\ regnum \in Nat /\ frame \in [Ctx -> Frame] /\ pc \in [Ctx -> Labels]
        /\ \A c \in Ctx : frame[c].reg \in Nat /\ frame[c].ret # "numbered"
    BY DEF TypeOK, Frame
  <1>1. ASSUME UNCHANGED <<regnum, frame>>,
               \A c \in Ctx : pc'[c] = "numbered" => pc[c] = "numbered"
        PROVE  NumberInv'
    BY <1>1 DEF NumberInv
  <1>2. ASSUME UNCHANGED regnum, NEW c \in Ctx, NEW l, l # "numbered",
               pc' = [pc EXCEPT ![c] = l],
               \A d \in Ctx \ {c} : frame'[d] = frame[d]
        PROVE  NumberInv'
    BY <1>0, <1>2 DEF NumberInv
  <1>3. ASSUME NEW c \in Ctx, CtxStep(c) PROVE NumberInv'
    <2>1. CASE RegisterWalk(c)
      BY <1>0, <1>2, <2>1 DEF RegisterWalk
    <2>2. CASE RegisterLink(c)
      BY <1>0, <1>2, <2>2 DEF RegisterLink
    <2>3. CASE RegisterNoMemory(c)
      BY <1>0, <1>2, <2>3 DEF RegisterNoMemory
    <2>4. CASE RegisterOnItself(c) \/ RegisterNowhere(c)
      BY <1>1, <2>4 DEF RegisterOnItself, RegisterNowhere
    <2>5. CASE RegisterNumber(c)
      <3>1. /\ frame' = [frame EXCEPT ![c].reg = regnum]
            /\ pc' = [pc EXCEPT ![c] = "numbered"]
            /\ regnum' = regnum
        BY <2>5 DEF RegisterNumber
      <3>2. frame'[c].reg = regnum /\ \A d \in Ctx \ {c} : frame'[d] = frame[d]
        BY <1>0, <3>1 DEF Frame
      <3> QED BY <1>0, <3>1, <3>2 DEF NumberInv
    <2>6. CASE RegisterFill(c)
      <3>1. regnum' = frame[c].reg + 1
        BY <2>6 DEF RegisterFill, ArmIfStarted
      <3>2. \E l : l # "numbered" /\ pc' = [pc EXCEPT ![c] = l]
        BY <1>0, <2>6 DEF RegisterFill, ArmIfStarted
      <3>3. \A d \in Ctx \ {c} : frame'[d] = frame[d]
        BY <1>0, <2>6 DEF RegisterFill, ArmIfStarted
      <3> QED BY <1>0, <3>1, <3>2, <3>3 DEF NumberInv
    <2>7. CASE Unregister(c)
      BY <1>1, <2>7 DEF Unregister
    <2>8. CASE ScheduleNothing(c)
      BY <1>0, <1>2, <2>8 DEF ScheduleNothing
    <2>9. CASE ScheduleNext(c)
      BY <1>0, <1>2, <2>9 DEF ScheduleNext
    <2>10. CASE SetItimer(c)
      BY <1>0, <1>2, <2>10 DEF SetItimer
    <2> QED BY <1>3, <2>1, <2>2, <2>3, <2>4, <2>5, <2>6, <2>7, <2>8, <2>9, <2>10
            DEF CtxStep
  <1>4. CASE InitAlarmPostConfig
    BY <1>0, <1>1, <1>4 DEF InitAlarmPostConfig
  <1>5. ASSUME NEW t \in Threads, HandlerStep(t) PROVE NumberInv'
    BY <1>0, <1>1, <1>5 DEF HandlerStep, Deliver, RunDue, RunDone,
                            CallbackReturn, Reschedule
  <1>6. CASE Tick \/ UNCHANGED vars
    BY <1>1, <1>6 DEF Tick, vars
  <1> QED BY <1>3, <1>4, <1>5, <1>6 DEF Next

\* Once contexts have overlapped, they have.
LEMMA OverlapStays == ASSUME [Next]_vars, overlap PROVE overlap'
  BY DEF Next, CtxStep, HandlerStep, vars, ghosts, Touch, InitAlarmPostConfig,
         RegisterWalk, RegisterLink, RegisterNoMemory, RegisterOnItself,
         RegisterNowhere, RegisterNumber, RegisterFill, Unregister, ScheduleNothing,
         ScheduleNext, SetItimer, Deliver, RunDue, RunDone, CallbackReturn,
         Reschedule, Tick

\* Until contexts overlap, an entry without a number has a registration that is
\* filling it.
LEMMA OwnerStep ==
    ASSUME NodesAssumption, TypeOK, NumberInv, OwnerInv, ListInv, [Next]_vars
    PROVE  OwnerInv'
  <1> USE DEF list, clock, ghosts, Goto
  <1> SUFFICES ASSUME ~overlap, ~overlap' PROVE OwnerInv'
    BY OverlapStays DEF OwnerInv
  <1> DEFINE Owns(c, n) == pc[c] \in {"linked", "numbered"} /\ frame[c].node = n
  <1>0. /\ frame \in [Ctx -> Frame] /\ pc \in [Ctx -> Labels]
        /\ mem \in [Nodes -> Alarm]
        /\ \A n \in Nodes : mem[n].clientreg = 0 => \E c \in Ctx : Owns(c, n)
    BY DEF TypeOK, OwnerInv
  \* A step that numbers nobody and takes no owner away.
  <1>1. ASSUME \A n \in Nodes : mem'[n].clientreg = mem[n].clientreg,
               \A d \in Ctx, n \in Nodes : Owns(d, n) => Owns(d, n)'
        PROVE  OwnerInv'
    BY <1>0, <1>1 DEF OwnerInv
  \* A step of a context that owns nothing.
  <1>2. ASSUME NEW c \in Ctx, pc[c] \notin {"linked", "numbered"},
               \A d \in Ctx \ {c} : pc'[d] = pc[d] /\ frame'[d] = frame[d],
               \A n \in Nodes : mem'[n].clientreg = mem[n].clientreg
        PROVE  OwnerInv'
    BY <1>0, <1>2 DEF OwnerInv
  <1>3. ASSUME NEW c \in Ctx, CtxStep(c) PROVE OwnerInv'
    <2>0. ASSUME NEW l, NEW f, pc' = [pc EXCEPT ![c] = l],
                 frame' = [frame EXCEPT ![c] = f]
          PROVE  \A d \in Ctx \ {c} : pc'[d] = pc[d] /\ frame'[d] = frame[d]
      BY <1>0, <2>0
    <2>1. CASE RegisterWalk(c)
      <3>1. pc[c] \notin {"linked", "numbered"}
        BY <2>1 DEF RegisterWalk, MayCall
      <3> QED BY <1>0, <1>2, <2>1, <3>1 DEF RegisterWalk
    <2>2. CASE RegisterLink(c)
      <3>1. PICK n \in Nodes : /\ StoreAtTail(c, n, [mem EXCEPT ![n] = Zeroed])
                               /\ frame' = [frame EXCEPT ![c].node = n]
        BY <2>2 DEF RegisterLink
      <3>2. [mem EXCEPT ![n] = Zeroed] \in [Nodes -> Alarm]
        BY <1>0, Constants
      <3>2a. \A m \in Nodes :
               mem'[m].clientreg = [mem EXCEPT ![n] = Zeroed][m].clientreg
        BY <3>1, <3>2, StoreEffect DEF Refs
      <3>3. \A m \in Nodes \ {n} : mem'[m].clientreg = mem[m].clientreg
        BY <1>0, <3>2a
      <3>4. pc[c] = "walked" /\ pc' = [pc EXCEPT ![c] = "linked"]
        BY <2>2 DEF RegisterLink
      <3>5. Owns(c, n)'
        BY <1>0, <3>1, <3>4 DEF Frame
      <3>6. \A d \in Ctx \ {c} : pc'[d] = pc[d] /\ frame'[d] = frame[d]
        BY <1>0, <3>1, <3>4
      <3> QED BY <1>0, <3>3, <3>4, <3>5, <3>6 DEF OwnerInv
    <2>3. CASE RegisterNoMemory(c)
      <3>1. \A n \in Nodes : mem'[n].clientreg = mem[n].clientreg
        BY <1>0, <2>3, StoreEffect DEF RegisterNoMemory, Refs
      <3> QED BY <1>0, <1>2, <2>3, <3>1 DEF RegisterNoMemory
    <2>4. CASE RegisterOnItself(c) \/ RegisterNowhere(c)
      BY <1>1, <2>4 DEF RegisterOnItself, RegisterNowhere
    <2>5. CASE RegisterNumber(c)
      <3>1. PICK t \in Intervals, flags \in {0, SA_REPEAT} :
              mem' = [mem EXCEPT ![Target(c)] =
                        [@ EXCEPT !.t = t, !.flags = flags,
                                  !.thecallback = "client"]]
        BY <2>5 DEF RegisterNumber
      <3>2. \A n \in Nodes : mem'[n].clientreg = mem[n].clientreg
        BY <1>0, <3>1 DEF Alarm
      <3>3. /\ pc[c] = "linked" /\ pc' = [pc EXCEPT ![c] = "numbered"]
            /\ frame' = [frame EXCEPT ![c].reg = regnum]
        BY <2>5 DEF RegisterNumber
      <3>4. frame'[c].node = frame[c].node /\ \A d \in Ctx \ {c} : frame'[d] = frame[d]
        BY <1>0, <3>3 DEF Frame
      <3>5. \A d \in Ctx, n \in Nodes : Owns(d, n) => Owns(d, n)'
        BY <1>0, <3>3, <3>4
      <3> HIDE DEF Owns
      <3> QED BY <1>1, <3>2, <3>5
    <2>6. CASE RegisterFill(c)
      <3> DEFINE filled(n) == [mem[n] EXCEPT !.clientreg = frame[c].reg, !.next = NULL]
      <3>0. Target(c) = frame[c].node
        BY <2>6 DEF RegisterFill, ListInv, Place
      <3>1. mem' = [mem EXCEPT ![frame[c].node] = sa_update_entry(filled(frame[c].node))]
        BY <1>0, <2>6, <3>0 DEF RegisterFill, ArmIfStarted
      <3>2. frame[c].reg >= 1 /\ frame[c].reg \in Nat
        BY <1>0, <2>6 DEF RegisterFill, ArmIfStarted, NumberInv, Frame
      <3>3. ASSUME NEW n \in Nodes
            PROVE  filled(n) \in Alarm /\ filled(n).clientreg = frame[c].reg
        <4>1. mem[n] \in Alarm /\ NULL \in Refs
          BY <1>0 DEF Refs
        <4> QED BY <3>2, <4>1 DEF Alarm
      <3>4. \A n \in Nodes : sa_update_entry(filled(n)).clientreg = frame[c].reg
        <4> HIDE DEF filled
        <4> QED BY <3>3, UpdateEntry DEF TypeOK
      <3> HIDE DEF filled
      <3>5. \A n \in Nodes : mem'[n].clientreg = 0 =>
               n # frame[c].node /\ mem[n].clientreg = 0
        BY <1>0, <3>1, <3>2, <3>4
      <3>6. \A d \in Ctx \ {c} : pc'[d] = pc[d] /\ frame'[d] = frame[d]
        BY <1>0, <2>6 DEF RegisterFill, ArmIfStarted
      <3> QED BY <1>0, <3>5, <3>6 DEF OwnerInv
    <2>7. CASE Unregister(c)
      <3>1. \A n \in Nodes : mem'[n].clientreg = mem[n].clientreg
        BY <2>7, UnlinkEffect DEF Unregister
      <3> QED BY <1>1, <2>7, <3>1 DEF Unregister
    <2>8. CASE ScheduleNothing(c)
      BY <1>0, <1>2, <2>8 DEF ScheduleNothing
    <2>9. CASE ScheduleNext(c)
      BY <1>0, <1>2, <2>9 DEF ScheduleNext
    <2>10. CASE SetItimer(c)
      BY <1>0, <1>2, <2>10 DEF SetItimer
    <2> QED BY <1>3, <2>1, <2>2, <2>3, <2>4, <2>5, <2>6, <2>7, <2>8, <2>9, <2>10
            DEF CtxStep
  <1>4. CASE InitAlarmPostConfig
    <3>1. pc[App(Main)] = "idle"
      BY <1>4 DEF InitAlarmPostConfig, MayCall, App
    <3> QED BY <1>0, <1>1, <1>4, <3>1 DEF InitAlarmPostConfig
  <1>5. ASSUME NEW t \in Threads, HandlerStep(t) PROVE OwnerInv'
    <2>1. pc[Sig(t)] \notin {"linked", "numbered"} /\ UNCHANGED frame
      BY <1>5 DEF HandlerStep, Deliver, RunDue, RunDone, CallbackReturn, Reschedule
    <2>2. \A d \in Ctx \ {Sig(t)} : pc'[d] = pc[d]
      BY <1>0, <1>5 DEF HandlerStep, Deliver, RunDue, RunDone, CallbackReturn, Reschedule
    <2>3. \A n \in Nodes : mem'[n].clientreg = mem[n].clientreg
      BY <1>5, RescheduleEffect
         DEF HandlerStep, Deliver, RunDue, RunDone, CallbackReturn
    <2> QED BY <1>1, <2>1, <2>2, <2>3
  <1>6. CASE Tick \/ UNCHANGED vars
    BY <1>1, <1>6 DEF Tick, vars
  <1> QED BY <1>3, <1>4, <1>5, <1>6 DEF Next

-----------------------------------------------------------------------------
(* The engine                                                              *)

\* No step leaves a started engine with numbered alarms, no timer and nobody
\* bound to set one, unless the step is a setitimer with the delay 0 or finds an entry nobody numbers.
LEMMA EngineStep ==
    ASSUME NodesAssumption, ThreadsAssumption, TypeOK, EngineInv, [Next]_vars
    PROVE  EngineInv'
  <1> USE DEF list, clock, ghosts, Goto
  <1>0. /\ frame \in [Ctx -> Frame] /\ pc \in [Ctx -> Labels]
        /\ \A c \in Ctx : frame[c].ret \in {"idle", "callback"}
    BY DEF TypeOK, Frame
  \* Somebody will schedule after the step.
  <1>1. ASSUME NEW c \in Ctx, WillSchedule(c)'
        PROVE  EngineInv'
    BY <1>1 DEF EngineInv
  \* Nothing that matters changes.
  <1>2. ASSUME UNCHANGED <<itimer, pending, disarmed, start_alarms, frame, pc, crashed>>,
               thealarms' # NULL => thealarms # NULL,
               \A n \in Nodes : mem'[n].clientreg = mem[n].clientreg
        PROVE  EngineInv'
    BY <1>2 DEF EngineInv, WillSchedule
  \* c moves, and it was not bound to schedule.
  <1>3. ASSUME UNCHANGED <<itimer, pending, disarmed, start_alarms, crashed>>,
               thealarms' # NULL => thealarms # NULL,
               \A n \in Nodes : mem'[n].clientreg = mem[n].clientreg,
               NEW c \in Ctx, ~WillSchedule(c),
               \A d \in Ctx \ {c} : pc'[d] = pc[d] /\ frame'[d] = frame[d]
        PROVE  EngineInv'
    BY <1>3 DEF EngineInv, WillSchedule
  <1>4. ASSUME NEW c \in Ctx, CtxStep(c) PROVE EngineInv'
    <2>1. CASE RegisterWalk(c)
      <3>1. pc[c] \in {"idle", "callback"} /\ pc' = [pc EXCEPT ![c] = "walked"]
        BY <2>1 DEF RegisterWalk, MayCall
      <3>2. CASE pc[c] = "idle"
        BY <1>0, <1>3, <2>1, <3>1, <3>2 DEF RegisterWalk, WillSchedule
      <3>3. CASE pc[c] = "callback"
        <4>1. frame'[c].ret = "callback"
          BY <1>0, <2>1, <3>3 DEF RegisterWalk, NoFrame
        <4> QED BY <1>0, <1>1, <3>1, <4>1 DEF WillSchedule
      <3> QED BY <3>1, <3>2, <3>3
    <2>2. CASE RegisterLink(c)
      BY <1>0, <1>1, <2>2 DEF RegisterLink, WillSchedule
    <2>3. CASE RegisterNoMemory(c)
      <3>1. /\ thealarms' # NULL => thealarms # NULL
            /\ \A n \in Nodes : mem'[n].clientreg = mem[n].clientreg
        BY <2>3, StoreEffect DEF RegisterNoMemory, Refs, TypeOK
      <3>2. CASE frame[c].ret = "idle"
        BY <1>0, <1>3, <2>3, <3>1, <3>2 DEF RegisterNoMemory, WillSchedule
      <3>3. CASE frame[c].ret = "callback"
        BY <1>0, <1>1, <2>3, <3>3 DEF RegisterNoMemory, WillSchedule
      <3> QED BY <1>0, <3>2, <3>3
    <2>4. CASE RegisterOnItself(c) \/ RegisterNowhere(c)
      BY <2>4 DEF RegisterOnItself, RegisterNowhere, EngineInv
    <2>5. CASE RegisterNumber(c)
      BY <1>0, <1>1, <2>5 DEF RegisterNumber, WillSchedule
    <2>6. CASE RegisterFill(c)
      <3>1. CASE start_alarms
        BY <1>0, <1>1, <2>6, <3>1 DEF RegisterFill, ArmIfStarted, WillSchedule
      <3>2. CASE ~start_alarms
        BY <2>6, <3>2 DEF RegisterFill, ArmIfStarted, EngineInv
      <3> QED BY <3>1, <3>2
    <2>7. CASE Unregister(c)
      <3>1. /\ thealarms' # NULL => thealarms # NULL
            /\ \A n \in Nodes : mem'[n].clientreg = mem[n].clientreg
        BY <2>7, UnlinkEffect DEF Unregister
      <3> QED BY <1>2, <2>7, <3>1 DEF Unregister
    <2>8. CASE ScheduleNothing(c)
      <3>1. CASE thealarms = NULL
        BY <2>8, <3>1 DEF ScheduleNothing, EngineInv
      <3>2. ASSUME NEW n \in Nodes, disarmed' = ~BeingFilled(n) PROVE EngineInv'
        <4>1. CASE ~BeingFilled(n)
          BY <3>2, <4>1 DEF EngineInv
        <4>2. CASE BeingFilled(n)
          <5>1. PICK d \in Ctx : pc[d] \in {"linked", "numbered"}
            BY <4>2 DEF BeingFilled
          <5>2. d # c /\ pc'[d] = pc[d]
            BY <1>0, <2>8, <5>1 DEF ScheduleNothing
          <5> QED BY <1>1, <5>1, <5>2 DEF WillSchedule
        <4> QED BY <4>1, <4>2
      <3> QED BY <2>8, <3>1, <3>2 DEF ScheduleNothing
    <2>9. CASE ScheduleNext(c)
      BY <1>0, <1>1, <2>9 DEF ScheduleNext, WillSchedule
    <2>10. CASE SetItimer(c)
      <3>1. now \in Nat /\ frame[c].delta \in Nat
        BY <1>0 DEF TypeOK, Frame
      <3>2. CASE frame[c].delta = 0
        <4>1. disarmed'
          BY <2>10, <3>2 DEF SetItimer
        <4> QED BY <4>1 DEF EngineInv
      <3>3. CASE frame[c].delta # 0
        BY <2>10, <3>1, <3>3 DEF SetItimer, EngineInv
      <3> QED BY <3>2, <3>3
    <2> QED BY <1>4, <2>1, <2>2, <2>3, <2>4, <2>5, <2>6, <2>7, <2>8, <2>9, <2>10
            DEF CtxStep
  <1>5. CASE InitAlarmPostConfig
    <2>1. App(Main) \in Ctx
      BY ThreadsAssumption DEF App, Ctx
    <2>2. pc'[App(Main)] = "schedule"
      BY <1>0, <1>5, <2>1 DEF InitAlarmPostConfig
    <2> QED BY <1>1, <2>1, <2>2 DEF WillSchedule
  <1>6. ASSUME NEW t \in Threads, HandlerStep(t) PROVE EngineInv'
    <2>0. Sig(t) \in Ctx
      BY DEF Sig, Ctx
    <2>1. CASE RunDue(t)
      <3>1. CASE crashed'
        BY <3>1 DEF EngineInv
      <3>2. CASE ~crashed'
        <4>1. pc'[Sig(t)] = "callback"
          BY <1>0, <2>0, <2>1, <3>2 DEF RunDue
        <4> QED BY <1>1, <2>0, <4>1 DEF WillSchedule
      <3> QED BY <3>1, <3>2
    <2>2. CASE ~RunDue(t)
      <3>1. pc'[Sig(t)] \in {"run", "schedule", "reschedule"}
        BY <1>0, <1>6, <2>0, <2>2
           DEF HandlerStep, Deliver, RunDone, CallbackReturn, Reschedule
      <3> QED BY <1>1, <2>0, <3>1 DEF WillSchedule
    <2> QED BY <2>1, <2>2
  <1>7. CASE Tick
    BY <1>7 DEF Tick, EngineInv, WillSchedule
  <1>8. CASE UNCHANGED vars
    BY <1>2, <1>8 DEF vars
  <1> QED BY <1>4, <1>5, <1>6, <1>7, <1>8 DEF Next

-----------------------------------------------------------------------------
(* The list                                                                *)

\* No closed set of blocks is smaller than the list.
Least ==
    /\ Listed \subseteq Nodes
    /\ WalkStays(Listed)
    /\ \A S \in SUBSET Nodes : WalkStays(S) => Listed \subseteq S

\* The listed blocks are the least set that a walk from the head never leaves.
LEMMA ListedIsLeast == TypeOK => Least
  <1> SUFFICES ASSUME TypeOK PROVE Least
    OBVIOUS
  <1>0. NULL \notin Nodes
    BY NodesAssumption DEF NodesAssumption
  <1>1. thealarms \in Refs /\ \A n \in Nodes : mem[n].next \in Refs
    BY DEF TypeOK, Alarm
  <1>2. \A n : n \in Listed <=>
            n \in Nodes /\ \A S \in SUBSET Nodes : WalkStays(S) => n \in S
    BY DEF Listed
  <1>3. ASSUME thealarms # NULL PROVE thealarms \in Listed
    BY <1>0, <1>1, <1>2, <1>3 DEF WalkStays, Refs
  <1>4. ASSUME NEW n \in Listed, mem[n].next # NULL PROVE mem[n].next \in Listed
    BY <1>0, <1>1, <1>2, <1>4 DEF WalkStays, Refs
  <1> QED BY <1>2, <1>3, <1>4 DEF WalkStays, Least

LEMMA ListedIsLeastNext == TypeOK' => Least'
  <1>1. (TypeOK => Least)'
    BY ListedIsLeast, PTL
  <1> QED BY <1>1

\* A block keeps what its client registered, and when it is due.
SameClient(m) ==
    /\ mem'[m].clientreg = mem[m].clientreg /\ mem'[m].t = mem[m].t
    /\ mem'[m].flags = mem[m].flags /\ mem'[m].t_next = mem[m].t_next

\* What leaves the head and the links alone leaves the list alone.
LEMMA ListKept ==
    ASSUME TypeOK, TypeOK', thealarms' = thealarms,
           \A n \in Nodes : mem'[n].next = mem[n].next
    PROVE  Listed' = Listed /\ (Ends => Ends')
  <1>1. \A S \in SUBSET Nodes : WalkStays(S)' <=> WalkStays(S)
    BY DEF WalkStays
  <1>2. Listed' = Listed
    BY <1>1 DEF Listed
  <1>3. Listed \subseteq Nodes
    BY DEF Listed
  <1> QED BY <1>2, <1>3 DEF Ends

\* A new block behind the last one is the only change.
LEMMA LinkAppends ==
    ASSUME NEW c \in Ctx, NEW n \in Nodes \ Listed, TypeOK, TypeOK', Ends,
           StoreAtTail(c, n, [mem EXCEPT ![n] = Zeroed]),
           IF frame[c].tail = NULL THEN thealarms = NULL ELSE IsLast(frame[c].tail)
    PROVE  /\ Listed' = Listed \cup {n} /\ Ends'
           /\ mem'[n] = Zeroed
           /\ \A m \in Nodes \ {n} :
                mem'[m].clientreg = mem[m].clientreg /\ mem'[m].thecallback = mem[m].thecallback
           /\ \A m \in Nodes \ {n} : SameClient(m)
  <1>0. NULL \notin Nodes /\ mem \in [Nodes -> Alarm] /\ n # NULL
    BY NodesAssumption DEF NodesAssumption, TypeOK
  <1>1. Least /\ Least'
    BY ListedIsLeast, ListedIsLeastNext
  <1>2. CASE frame[c].tail = NULL
    <2>1. thealarms' = n /\ mem' = [mem EXCEPT ![n] = Zeroed] /\ thealarms = NULL
      BY <1>2 DEF StoreAtTail
    <2>2. mem'[n] = Zeroed /\ mem'[n].next = NULL
      BY <1>0, <2>1 DEF Zeroed
    <2>3. Listed = {}
      <3>1. {} \in SUBSET Nodes /\ WalkStays({})
        BY <2>1 DEF WalkStays
      <3> QED BY <1>1, <3>1 DEF Least
    <2>4. {n} \in SUBSET Nodes /\ WalkStays({n})'
      BY <2>1, <2>2 DEF WalkStays
    <2>5. Listed' = {n}
      <3>1. Listed' \subseteq {n}
        BY <1>1, <2>4 DEF Least
      <3>2. n \in Listed'
        BY <1>0, <1>1, <2>1 DEF Least, WalkStays
      <3> QED BY <3>1, <3>2
    <2>6. Ends'
      BY <1>0, <2>2, <2>5 DEF Ends
    <2> QED BY <1>0, <2>1, <2>2, <2>3, <2>5, <2>6 DEF SameClient
  <1>3. CASE frame[c].tail # NULL
    <2> DEFINE tail == frame[c].tail
    <2>1. tail \in Listed /\ tail \in Nodes /\ mem[tail].next = NULL /\ tail # n
      BY <1>3, <1>1 DEF IsLast, Least
    <2>2. thealarms' = thealarms /\ mem' = [[mem EXCEPT ![n] = Zeroed] EXCEPT ![tail].next = n]
      BY <1>3 DEF StoreAtTail
    <2> HIDE DEF tail
    <2>3. /\ mem'[n] = Zeroed /\ mem'[n].next = NULL
          /\ mem'[tail] = [mem[tail] EXCEPT !.next = n]
          /\ \A m \in Nodes \ {n, tail} : mem'[m] = mem[m]
      BY <1>0, <2>1, <2>2 DEF Zeroed
    <2>4. mem'[tail].next = n /\ mem'[tail].clientreg = mem[tail].clientreg
          /\ mem'[tail].thecallback = mem[tail].thecallback /\ SameClient(tail)
      BY <1>0, <2>1, <2>3 DEF Alarm, SameClient
    <2>5. Listed' \subseteq Listed \cup {n}
      <3>1. PICK L \in SUBSET Nodes : L = Listed \cup {n}
        BY <1>1 DEF Least
      <3>2. thealarms' \in L \cup {NULL}
        BY <1>1, <2>2, <3>1 DEF Least, WalkStays
      <3>3. ASSUME NEW m \in L PROVE mem'[m].next \in L \cup {NULL}
        <4>1. CASE m \in {n, tail}
          BY <2>3, <2>4, <3>1, <4>1
        <4>2. CASE m \notin {n, tail}
          <5>1. m \in Listed /\ mem[m].next \in Listed \cup {NULL}
            BY <1>1, <3>1, <4>2 DEF Least, WalkStays
          <5>2. mem'[m] = mem[m]
            BY <2>3, <4>2
          <5> QED BY <3>1, <5>1, <5>2
        <4> QED BY <4>1, <4>2
      <3>4. WalkStays(L)'
        BY <3>2, <3>3 DEF WalkStays
      <3> QED BY <1>1, <3>1, <3>4 DEF Least
    <2>6. WalkStays(Listed' \ {n})
      <3>1. thealarms \in (Listed' \ {n}) \cup {NULL}
        BY <1>1, <2>2 DEF Least, WalkStays
      <3>2. ASSUME NEW m \in Listed' \ {n} PROVE mem[m].next \in (Listed' \ {n}) \cup {NULL}
        <4>1. m \in Listed
          BY <2>5
        <4>2. CASE m = tail
          BY <2>1, <4>2
        <4>3. CASE m # tail
          <5>1. mem'[m] = mem[m] /\ mem[m].next \in Listed \cup {NULL}
            BY <1>1, <2>3, <4>1, <4>3 DEF Least, WalkStays
          <5>2. mem'[m].next \in Listed' \cup {NULL}
            BY <1>1 DEF Least, WalkStays
          <5> QED BY <1>0, <5>1, <5>2
        <4> QED BY <4>2, <4>3
      <3> QED BY <3>1, <3>2 DEF WalkStays
    <2>7. Listed \subseteq Listed' \ {n}
      BY <1>1, <2>6 DEF Least
    <2>8. n \in Listed'
      BY <1>0, <1>1, <2>1, <2>4, <2>7 DEF Least, WalkStays
    <2>9. Listed' = Listed \cup {n}
      BY <2>5, <2>7, <2>8
    <2>10. ASSUME NEW S \in SUBSET Listed', S # {} PROVE \E m \in S : mem'[m].next \notin S
      <3>0. NULL \notin S /\ S \subseteq Nodes
        BY <1>0, <1>1 DEF Least
      <3>1. CASE n \in S
        BY <2>3, <3>0, <3>1
      <3>2. CASE n \notin S
        <4>1. S \in SUBSET Listed
          BY <2>9, <3>2
        <4>2. PICK m \in S : mem[m].next \notin S
          BY <2>10, <4>1 DEF Ends
        <4> QED BY <2>3, <2>4, <3>0, <3>2, <4>2
      <3> QED BY <3>1, <3>2
    <2> QED BY <2>3, <2>4, <2>9, <2>10 DEF Ends, SameClient
  <1> QED BY <1>2, <1>3

\* Unlinking takes one block off the list and changes nothing but links.
LEMMA UnlinkRemoves ==
    ASSUME NEW n \in Listed, TypeOK, TypeOK', Ends, Unlink(n)
    PROVE  /\ Listed' = Listed \ {n} /\ Ends'
           /\ \A m \in Nodes : /\ mem'[m].clientreg = mem[m].clientreg
                              /\ mem'[m].thecallback = mem[m].thecallback
                              /\ mem'[m].t_next = mem[m].t_next
                              /\ SameClient(m)
  <1>0. NULL \notin Nodes /\ mem \in [Nodes -> Alarm] /\ n \in Nodes
    BY NodesAssumption DEF NodesAssumption, TypeOK, Listed
  <1>1. Least /\ Least'
    BY ListedIsLeast, ListedIsLeastNext
  <1>2. mem[n].next # n /\ n # NULL
    <2>1. {n} \in SUBSET Listed /\ {n} # {}
      OBVIOUS
    <2> QED BY <1>0, <2>1 DEF Ends
  <1>3. /\ thealarms' = IF thealarms = n THEN mem[n].next ELSE thealarms
        /\ \A m \in Nodes : mem'[m] = IF m \in Listed /\ mem[m].next = n
                                      THEN [mem[m] EXCEPT !.next = mem[n].next]
                                      ELSE mem[m]
    BY DEF Unlink
  <1>4. \A m \in Listed : mem'[m].next = IF mem[m].next = n THEN mem[n].next ELSE mem[m].next
    BY <1>0, <1>1, <1>3 DEF Alarm, Least
  <1>5. \A m \in Nodes : /\ mem'[m].clientreg = mem[m].clientreg
                        /\ mem'[m].thecallback = mem[m].thecallback
                        /\ mem'[m].t_next = mem[m].t_next
                        /\ SameClient(m)
    BY <1>0, <1>3 DEF Alarm, SameClient
  <1>7. Listed' \subseteq Listed \ {n}
    <2>1. PICK L \in SUBSET Nodes : L = Listed \ {n}
      BY <1>1 DEF Least
    <2>2. WalkStays(L)'
      BY <1>1, <1>2, <1>3, <1>4, <2>1 DEF Least, WalkStays
    <2> QED BY <1>1, <2>1, <2>2 DEF Least
  <1>8. Listed \ {n} \subseteq Listed'
    <2>1. CASE \E p \in Listed' : mem[p].next = n
      <3>1. PICK p \in Listed' : mem[p].next = n
        BY <2>1
      <3>2. mem[n].next \in Listed' \cup {NULL}
        BY <1>1, <1>4, <1>7, <3>1 DEF Least, WalkStays
      <3>3. WalkStays(Listed' \cup {n})
        BY <1>1, <1>3, <1>4, <1>7, <3>2 DEF Least, WalkStays
      <3> QED BY <1>0, <1>1, <3>3 DEF Least
    <2>2. CASE thealarms = n
      <3>1. mem[n].next \in Listed' \cup {NULL}
        BY <1>1, <1>3, <2>2 DEF Least, WalkStays
      <3>2. WalkStays(Listed' \cup {n})
        BY <1>1, <1>3, <1>4, <1>7, <2>2, <3>1 DEF Least, WalkStays
      <3> QED BY <1>0, <1>1, <3>2 DEF Least
    <2>3. CASE thealarms # n /\ ~ \E p \in Listed' : mem[p].next = n
      <3>1. WalkStays(Listed')
        BY <1>1, <1>3, <1>4, <1>7, <2>3 DEF Least, WalkStays
      <3> QED BY <1>1, <1>7, <3>1 DEF Least
    <2> QED BY <2>1, <2>2, <2>3
  <1>9. ASSUME NEW S \in SUBSET Listed', S # {} PROVE \E m \in S : mem'[m].next \notin S
    <2>0. S \subseteq Listed /\ n \notin S
      BY <1>7
    <2>1. SUFFICES ASSUME \A m \in S : mem'[m].next \in S PROVE FALSE
      OBVIOUS
    <2>2. CASE \E p \in S : mem[p].next = n
      <3>1. PICK p \in S : mem[p].next = n
        BY <2>2
      <3>2. mem[n].next \in S
        BY <1>4, <2>0, <2>1, <3>1
      <3>3. \A m \in S \cup {n} : mem[m].next \in S \cup {n}
        BY <1>4, <2>0, <2>1, <3>2
      <3>4. S \cup {n} \in SUBSET Listed /\ S \cup {n} # {}
        BY <2>0
      <3> QED BY <3>3, <3>4 DEF Ends
    <2>3. CASE \A p \in S : mem[p].next # n
      <3>1. \A m \in S : mem[m].next \in S
        BY <1>4, <2>0, <2>1, <2>3
      <3> QED BY <1>9, <2>0, <3>1 DEF Ends
    <2> QED BY <2>2, <2>3
  <1> QED BY <1>5, <1>7, <1>8, <1>9 DEF Ends

\* A step that leaves the list alone leaves the same blocks on it.
LEMMA SameList == UNCHANGED list => Listed' = Listed /\ (Ends => Ends')
  <1> SUFFICES ASSUME UNCHANGED list PROVE Listed' = Listed /\ (Ends => Ends')
    OBVIOUS
  <1>1. thealarms' = thealarms /\ mem' = mem
    BY DEF list
  <1>2. \A S \in SUBSET Nodes : WalkStays(S)' <=> WalkStays(S)
    BY <1>1 DEF WalkStays
  <1>3. Listed' = Listed
    BY <1>2 DEF Listed
  <1> QED BY <1>1, <1>3 DEF Ends

\* A context whose step is not an overlap is the only one inside.
LEMMA OnlyOne ==
    ASSUME NEW c \in Ctx, Touch(c), ~overlap'
    PROVE  ~overlap /\ \A d \in Ctx \ {c} : ~Inside(d)
  BY DEF Touch

\* With nobody else inside, the invariant is about one context.
LEMMA OneSuffices ==
    ASSUME NEW c \in Ctx,
           \A d \in Ctx \ {c} : ~Inside(d) /\ pc'[d] = pc[d],
           Sound', Place(c)',
           \A n \in Listed' : Bare(n)' => Fills(c, n)'
    PROVE  ListInv'
  <1>1. \A d \in Ctx \ {c} : Place(d)' /\ ~Inside(d)'
    BY DEF Inside, Place
  <1> QED BY <1>1 DEF ListInv

\* The list is left alone by a context that fills no entry.
LEMMA ListLeftAlone ==
    ASSUME NEW c \in Ctx, ListInv, ~overlap, pc[c] # "linked",
           UNCHANGED <<list, regnum, crashed>>,
           \A d \in Ctx \ {c} : ~Inside(d) /\ pc'[d] = pc[d],
           Place(c)'
    PROVE  ListInv'
  <1>1. Listed' = Listed /\ mem' = mem /\ allocated' = allocated /\ (Ends => Ends')
    BY SameList DEF list
  <1>2. Sound'
    BY <1>1 DEF ListInv, Sound
  <1>3. \A n \in Listed : ~Bare(n)
    BY DEF ListInv, Fills, Inside
  <1> QED BY <1>1, <1>2, <1>3, OneSuffices DEF Bare

\* So does a step on which nobody enters or leaves.
LEMMA NobodyMoves ==
    ASSUME ListInv, UNCHANGED <<list, regnum, crashed, overlap>>,
           \A d \in Ctx : \/ pc'[d] = pc[d] /\ frame'[d] = frame[d]
                          \/ ~Inside(d) /\ ~Inside(d)'
    PROVE  ListInv'
  <1>1. Listed' = Listed /\ mem' = mem /\ allocated' = allocated /\ (Ends => Ends')
        /\ thealarms' = thealarms
    BY SameList DEF list
  <1>2. ASSUME ~overlap PROVE Sound'
    BY <1>1, <1>2 DEF ListInv, Sound
  <1>3. ASSUME ~overlap, NEW d \in Ctx PROVE Place(d)'
    <2>1. CASE ~Inside(d)'
      BY <2>1 DEF Inside, Place
    <2>2. CASE pc'[d] = pc[d] /\ frame'[d] = frame[d]
      BY <1>1, <1>3, <2>2 DEF ListInv, Place, IsLast, Target
    <2> QED BY <2>1, <2>2
  <1>4. \A d \in Ctx : Inside(d)' => Inside(d)
    BY DEF Inside
  <1>5. \A d \in Ctx, n \in Listed : Fills(d, n) => Fills(d, n)'
    BY DEF Fills, Inside
  <1> QED BY <1>1, <1>2, <1>3, <1>4, <1>5 DEF ListInv, Bare

\* A registration that finds no memory stores the null pointer where it was.
LEMMA NoMemoryKeepsList ==
    ASSUME TypeOK, NEW c \in Ctx, pc[c] = "walked", Place(c), StoreAtTail(c, NULL, mem)
    PROVE  thealarms' = thealarms /\ mem' = mem
  <1>1. CASE frame[c].tail = NULL
    BY <1>1 DEF Place, StoreAtTail
  <1>2. CASE frame[c].tail # NULL
    <2>1. frame[c].tail \in Nodes /\ mem[frame[c].tail].next = NULL
          /\ mem \in [Nodes -> Alarm]
      BY <1>2 DEF Place, IsLast, Listed, TypeOK
    <2>2. mem[frame[c].tail] = [mem[frame[c].tail] EXCEPT !.next = NULL]
      BY <2>1 DEF Alarm
    <2> QED BY <1>2, <2>1, <2>2 DEF StoreAtTail
  <1> QED BY <1>1, <1>2

\* Until contexts overlap, every step keeps the list sound.
LEMMA ListStep ==
    ASSUME ThreadsAssumption, TypeOK, TypeOK', NumberInv, OwnerInv, ListInv, [Next]_vars
    PROVE  ListInv'
  <1> USE DEF list, clock, ghosts, Goto
  <1> SUFFICES ASSUME ~overlap' PROVE ListInv'
    BY DEF ListInv
  <1>0. /\ pc \in [Ctx -> Labels] /\ frame \in [Ctx -> Frame]
        /\ mem \in [Nodes -> Alarm] /\ regnum \in Nat /\ regnum >= 1
        /\ NULL \notin Nodes /\ Listed \subseteq Nodes
    BY NodesAssumption DEF TypeOK, NumberInv, NodesAssumption, Listed
  \* The steps of a context that is alone, and what was true before them.
  <1>1. ASSUME NEW c \in Ctx, Touch(c)
        PROVE  /\ ~overlap /\ \A d \in Ctx \ {c} : ~Inside(d)
               /\ Sound /\ Place(c)
               /\ pc[c] # "linked" => \A n \in Listed : ~Bare(n)
               /\ pc[c] \notin {"linked", "numbered"} =>
                     \A n \in Nodes : mem[n].clientreg # 0
    <2>1. ~overlap /\ \A d \in Ctx \ {c} : ~Inside(d)
      BY <1>1, OnlyOne
    <2> QED BY <2>1 DEF ListInv, Fills, Inside, OwnerInv
  <1>2. ASSUME NEW c \in Ctx, Touch(c), pc[c] # "linked",
               UNCHANGED <<list, regnum, crashed>>,
               \A d \in Ctx \ {c} : pc'[d] = pc[d], Place(c)'
        PROVE  ListInv'
    BY <1>1, <1>2, ListLeftAlone
  \* A context that leaves, or that was not inside and does not enter.
  <1>3. ASSUME NEW c \in Ctx, pc'[c] \in {"idle", "callback", "schedule", "run"}
        PROVE  Place(c)'
    BY <1>3 DEF Place
  <1>4. ASSUME NEW c \in Ctx, NEW n \in Listed, Touch(c), Unlink(n),
               UNCHANGED <<regnum, crashed>>, pc[c] # "linked",
               \A d \in Ctx \ {c} : pc'[d] = pc[d], Place(c)'
        PROVE  ListInv'
    <2>1. Sound /\ \A m \in Listed : ~Bare(m)
      BY <1>1, <1>4
    <2>2. /\ Listed' = Listed \ {n} /\ Ends'
          /\ \A m \in Nodes : /\ mem'[m].clientreg = mem[m].clientreg
                              /\ mem'[m].thecallback = mem[m].thecallback
      BY <1>4, <2>1, UnlinkRemoves DEF Sound
    <2>3. allocated' = allocated \ {n}
      BY <1>4 DEF Unlink
    <2>4. Sound'
      BY <1>0, <1>4, <2>1, <2>2, <2>3 DEF Sound
    <2>5. \A m \in Listed' : ~Bare(m)'
      BY <1>0, <2>1, <2>2 DEF Bare
    <2> QED BY <1>1, <1>4, <2>4, <2>5, OneSuffices
  <1>5. ASSUME NEW c \in Ctx, CtxStep(c) PROVE ListInv'
    <2>1. CASE RegisterWalk(c)
      <3>1. PICK last \in Refs :
               /\ IF thealarms = NULL THEN last = NULL ELSE IsLast(last)
               /\ frame' = [frame EXCEPT ![c] = [NoFrame EXCEPT !.tail = last,
                                                                !.ret = pc[c]]]
        BY <2>1 DEF RegisterWalk
      <3>2. frame'[c].tail = last /\ pc'[c] = "walked"
        BY <1>0, <2>1, <3>1 DEF RegisterWalk, NoFrame
      <3>3. Listed' = Listed /\ mem' = mem /\ thealarms' = thealarms
        BY <2>1, SameList DEF RegisterWalk
      <3>4. last = NULL => thealarms = NULL
        BY <1>0, <3>1 DEF IsLast
      <3>5. Place(c)'
        BY <3>1, <3>2, <3>3, <3>4 DEF Place, IsLast
      <3> QED BY <1>0, <1>2, <2>1, <3>5 DEF RegisterWalk, MayCall
    <2>2. CASE RegisterLink(c)
      <3>1. PICK n \in Nodes \ (allocated \cup {frame[c].tail}) :
               /\ StoreAtTail(c, n, [mem EXCEPT ![n] = Zeroed])
               /\ allocated' = allocated \cup {n}
               /\ frame' = [frame EXCEPT ![c].node = n]
        BY <2>2 DEF RegisterLink
      <3>2. Touch(c) /\ pc[c] = "walked" /\ pc' = [pc EXCEPT ![c] = "linked"]
            /\ UNCHANGED <<regnum, crashed>>
        BY <2>2 DEF RegisterLink
      <3>3. Sound /\ Place(c)
        BY <1>1, <3>2
      <3>4. n \in Nodes \ Listed /\ Ends
        BY <3>1, <3>3 DEF Sound
      <3>5. /\ Listed' = Listed \cup {n} /\ Ends' /\ mem'[n] = Zeroed
            /\ \A m \in Nodes \ {n} : /\ mem'[m].clientreg = mem[m].clientreg
                                      /\ mem'[m].thecallback = mem[m].thecallback
        BY <3>1, <3>2, <3>3, <3>4, LinkAppends DEF Place
      <3>6. mem'[n].clientreg = 0 /\ mem'[n].next = NULL
        BY <3>5 DEF Zeroed
      <3>7. Sound'
        BY <1>0, <1>1, <3>1, <3>2, <3>3, <3>4, <3>5, <3>6 DEF Sound
      <3>8. frame'[c].node = n /\ pc'[c] = "linked"
        BY <1>0, <3>1, <3>2 DEF Frame
      <3>8a. Target(c)' = n /\ frame'[c].tail # n
        <4>1. frame'[c].tail = frame[c].tail
          BY <1>0, <3>1 DEF Frame
        <4>2. CASE frame[c].tail = NULL
          BY <1>0, <3>1, <4>1, <4>2 DEF StoreAtTail, Target
        <4>3. CASE frame[c].tail # NULL
          <5>1. frame[c].tail \in Nodes \ {n}
            BY <1>0, <3>1, <4>3 DEF Frame, Refs
          <5>2. mem'[frame[c].tail].next = n
            <6>1. [mem EXCEPT ![n] = Zeroed] \in [Nodes -> Alarm]
              BY <1>0, Constants
            <6> QED BY <3>1, <4>3, <5>1, <6>1 DEF StoreAtTail, Alarm
          <5> QED BY <4>1, <4>3, <5>1, <5>2 DEF Target
        <4> QED BY <4>2, <4>3
      <3>9. Place(c)'
        BY <3>5, <3>6, <3>8, <3>8a DEF Place
      <3>10. \A m \in Listed' : Bare(m)' => Fills(c, m)'
        BY <1>0, <1>1, <3>2, <3>5, <3>8 DEF Bare, Fills
      <3> QED BY <1>0, <1>1, <3>2, <3>7, <3>9, <3>10, OneSuffices
    <2>3. CASE RegisterNoMemory(c)
      <3>1. Touch(c) /\ pc[c] = "walked" /\ StoreAtTail(c, NULL, mem)
        BY <2>3 DEF RegisterNoMemory
      <3>2. Place(c)
        BY <1>1, <3>1
      <3>3. thealarms' = thealarms /\ mem' = mem
        BY <3>1, <3>2, NoMemoryKeepsList
      <3>4. pc'[c] \in {"idle", "callback"}
        BY <1>0, <2>3 DEF RegisterNoMemory, Frame
      <3>5. Place(c)'
        BY <1>3, <3>4
      <3> QED BY <1>0, <1>2, <2>3, <3>3, <3>5 DEF RegisterNoMemory
    <2>4. CASE RegisterOnItself(c)
      <3>1. Sound /\ Place(c) /\ pc[c] = "walked" /\ frame[c].tail \in Nodes \ allocated
        BY <1>1, <2>4 DEF RegisterOnItself
      <3> QED BY <1>0, <3>1 DEF Sound, Place, IsLast
    <2>4a. CASE RegisterNowhere(c)
      <3>1. Place(c) /\ pc[c] \in {"linked", "numbered"} /\ Target(c) \in {NULL, frame[c].tail}
        BY <1>1, <2>4a DEF RegisterNowhere
      <3> QED BY <1>0, <3>1 DEF Place
    <2>5. CASE RegisterNumber(c)
      <3> DEFINE node == frame[c].node
      <3>0. Target(c) = node
        BY <1>1, <2>5 DEF RegisterNumber, Place
      <3>1. PICK t \in Intervals, flags \in {0, SA_REPEAT} :
               mem' = [mem EXCEPT ![node] =
                         [@ EXCEPT !.t = t, !.flags = flags, !.thecallback = "client"]]
        BY <2>5, <3>0 DEF RegisterNumber
      <3>2. /\ Touch(c) /\ pc[c] = "linked" /\ pc' = [pc EXCEPT ![c] = "numbered"]
            /\ UNCHANGED <<regnum, crashed, thealarms, allocated>>
            /\ frame' = [frame EXCEPT ![c].reg = regnum]
        BY <2>5 DEF RegisterNumber
      <3>3. /\ ~overlap /\ Sound /\ Place(c) /\ node \in Listed /\ mem[node].next = NULL
            /\ frame[c].tail # node
        BY <1>1, <3>2 DEF Place
      <3> HIDE DEF node
      <3>4. /\ \A m \in Nodes : /\ mem'[m].next = mem[m].next
                                /\ mem'[m].clientreg = mem[m].clientreg
            /\ \A m \in Nodes \ {node} : mem'[m].thecallback = mem[m].thecallback
            /\ mem'[node].thecallback = "client"
        BY <1>0, <3>1, <3>3 DEF Alarm
      <3>5. Listed' = Listed /\ (Ends => Ends')
        BY <3>2, <3>4, ListKept
      <3>6. Sound'
        BY <1>0, <3>2, <3>3, <3>4, <3>5 DEF Sound
      <3>7. /\ frame'[c].node = node /\ frame'[c].reg = regnum /\ pc'[c] = "numbered"
            /\ frame'[c].tail = frame[c].tail /\ frame[c].tail \in Refs
        BY <1>0, <3>2 DEF Frame, node
      <3>7a. Target(c)' = node
        BY <1>0, <3>0, <3>2, <3>4, <3>7 DEF Target, Refs
      <3>8. Place(c)'
        BY <1>0, <3>2, <3>3, <3>4, <3>5, <3>7, <3>7a DEF Place
      <3>9. \A m \in Listed : Bare(m) => m = node
        BY <1>1, <3>2, <3>3 DEF ListInv, Fills, Inside, node
      <3>10. \A m \in Listed' : ~Bare(m)'
        BY <1>0, <3>4, <3>5, <3>9 DEF Bare
      <3> QED BY <1>0, <1>1, <3>2, <3>6, <3>8, <3>10, OneSuffices
    <2>6. CASE RegisterFill(c)
      <3> DEFINE node == frame[c].node
                 filled == [mem[node] EXCEPT !.clientreg = frame[c].reg, !.next = NULL]
      <3>0. Target(c) = node
        BY <1>1, <2>6 DEF RegisterFill, Place
      <3>1. /\ Touch(c) /\ pc[c] = "numbered"
            /\ UNCHANGED <<crashed, thealarms, allocated>>
            /\ regnum' = frame[c].reg + 1
            /\ mem' = [mem EXCEPT ![node] = sa_update_entry(filled)]
        BY <1>0, <2>6, <3>0 DEF RegisterFill, ArmIfStarted
      <3>2. /\ Sound /\ frame[c].reg = regnum
            /\ node \in Listed /\ mem[node].next = NULL
            /\ \A m \in Listed : ~Bare(m)
        BY <1>1, <3>1 DEF Place
      <3>3. filled \in Alarm /\ filled.clientreg = regnum /\ filled.next = NULL
            /\ filled.thecallback = mem[node].thecallback
        <4>1. mem[node] \in Alarm /\ NULL \in Refs /\ regnum \in Nat
          BY <1>0, <3>2 DEF Refs
        <4> QED BY <3>2, <4>1 DEF Alarm
      <3> HIDE DEF filled
      <3>4. /\ sa_update_entry(filled).clientreg = regnum
            /\ sa_update_entry(filled).next = NULL
            /\ sa_update_entry(filled).thecallback = mem[node].thecallback
        BY <3>3, UpdateEntry DEF TypeOK
      <3> HIDE DEF node
      <3>5. /\ mem'[node].clientreg = regnum
            /\ \A m \in Nodes : /\ mem'[m].next = mem[m].next
                                /\ mem'[m].thecallback = mem[m].thecallback
            /\ \A m \in Nodes \ {node} : mem'[m].clientreg = mem[m].clientreg
        BY <1>0, <3>1, <3>2, <3>4
      <3>6. Listed' = Listed /\ (Ends => Ends')
        BY <3>1, <3>5, ListKept
      <3>7. \A m \in Listed : mem[m].clientreg \in Nat /\ mem[m].clientreg < regnum
        BY <1>0, <3>2 DEF Sound, Alarm
      <3>8. Sound'
        BY <1>0, <3>1, <3>2, <3>5, <3>6, <3>7 DEF Sound
      <3>9. \A m \in Listed' : ~Bare(m)'
        BY <1>0, <3>2, <3>5, <3>6 DEF Bare
      <3>10. pc'[c] \in {"idle", "callback", "schedule"}
             /\ \A d \in Ctx \ {c} : pc'[d] = pc[d]
        BY <1>0, <2>6 DEF RegisterFill, ArmIfStarted, Frame
      <3>11. Place(c)'
        BY <1>3, <3>10
      <3> QED BY <1>1, <3>1, <3>8, <3>9, <3>10, <3>11, OneSuffices
    <2>7. CASE Unregister(c)
      <3>1. PICK n \in Listed : Unlink(n)
        BY <2>7 DEF Unregister, sa_find_specific
      <3>2. pc[c] \in {"idle", "callback"} /\ pc' = pc
        BY <2>7 DEF Unregister, MayCall
      <3>3. Place(c)'
        BY <1>3, <3>2
      <3> QED BY <1>4, <2>7, <3>1, <3>2, <3>3 DEF Unregister
    <2>8. CASE ScheduleNothing(c)
      <3>1. pc'[c] \in {"idle", "callback"}
        BY <1>0, <2>8 DEF ScheduleNothing, Frame
      <3>2. Place(c)'
        BY <1>3, <3>1
      <3> QED BY <1>0, <1>2, <2>8, <3>2 DEF ScheduleNothing
    <2>9. CASE ScheduleNext(c)
      <3>1. pc'[c] = "setitimer"
        BY <1>0, <2>9 DEF ScheduleNext
      <3>2. Place(c)'
        BY <3>1 DEF Place
      <3>3. Touch(c) /\ pc[c] = "schedule" /\ \A d \in Ctx \ {c} : pc'[d] = pc[d]
        BY <1>0, <2>9 DEF ScheduleNext
      <3> QED BY <1>2, <2>9, <3>2, <3>3 DEF ScheduleNext
    <2>10. CASE SetItimer(c)
      <3>1. pc[c] = "setitimer" /\ pc'[c] \in {"idle", "callback"}
        BY <1>0, <2>10 DEF SetItimer, Frame
      <3>2. \A d \in Ctx \ {c} : pc'[d] = pc[d] /\ frame'[d] = frame[d]
        BY <1>0, <2>10 DEF SetItimer
      <3>3. ~Inside(c) /\ ~Inside(c)'
        BY <3>1 DEF Inside
      <3> QED BY <2>10, <3>2, <3>3, NobodyMoves DEF SetItimer
    <2> QED BY <1>5, <2>1, <2>2, <2>3, <2>4, <2>4a, <2>5, <2>6, <2>7, <2>8, <2>9, <2>10
            DEF CtxStep
  <1>6. CASE InitAlarmPostConfig
    <2>1. App(Main) \in Ctx
      BY ThreadsAssumption DEF App, Ctx
    <2>2. pc[App(Main)] = "idle" /\ pc' = [pc EXCEPT ![App(Main)] = "schedule"]
      BY <1>6 DEF InitAlarmPostConfig, MayCall, App
    <2>3. Place(App(Main))'
      BY <1>0, <1>3, <2>1, <2>2
    <2> QED BY <1>0, <1>2, <1>6, <2>1, <2>2, <2>3 DEF InitAlarmPostConfig
  <1>7. ASSUME NEW t \in Threads, HandlerStep(t) PROVE ListInv'
    <2>0. Sig(t) \in Ctx
      BY DEF Sig, Ctx
    <2>1. CASE Deliver(t) \/ CallbackReturn(t)
      <3>0. /\ pc[Sig(t)] \in {"idle", "callback"}
            /\ \E l \in {"run", "reschedule"} : pc' = [pc EXCEPT ![Sig(t)] = l]
        BY <2>1 DEF Deliver, CallbackReturn
      <3>1. \A d \in Ctx : \/ pc'[d] = pc[d] /\ frame'[d] = frame[d]
                           \/ ~Inside(d) /\ ~Inside(d)'
        <4>1. PICK l \in {"run", "reschedule"} : pc' = [pc EXCEPT ![Sig(t)] = l]
          BY <3>0
        <4>2. ~Inside(Sig(t)) /\ ~Inside(Sig(t))'
          BY <1>0, <2>0, <3>0, <4>1 DEF Inside
        <4>3. \A d \in Ctx \ {Sig(t)} : pc'[d] = pc[d]
          BY <1>0, <2>0, <4>1
        <4>4. frame' = frame
          BY <2>1 DEF Deliver, CallbackReturn
        <4> QED BY <4>2, <4>3, <4>4
      <3> QED BY <2>1, <3>1, NobodyMoves DEF Deliver, CallbackReturn
    <2>2. CASE RunDue(t)
      <3>1. Touch(Sig(t)) /\ pc[Sig(t)] = "run"
        BY <2>2 DEF RunDue
      <3>2. PICK n \in Nodes :
               /\ sa_find_next(n)
               /\ IF mem[n].thecallback # "null"
                  THEN pc' = [pc EXCEPT ![Sig(t)] = "callback"] /\ UNCHANGED crashed
                  ELSE TRUE
        BY <2>2 DEF RunDue
      <3>3. mem[n].thecallback # "null"
        BY <1>1, <2>0, <3>1, <3>2 DEF sa_find_next, Bare
      <3>4. pc' = [pc EXCEPT ![Sig(t)] = "callback"] /\ UNCHANGED crashed
        BY <3>2, <3>3
      <3>5. Place(Sig(t))'
        BY <1>0, <1>3, <2>0, <3>4
      <3> QED BY <1>0, <1>2, <2>0, <2>2, <3>1, <3>4, <3>5 DEF RunDue
    <2>3. CASE RunDone(t)
      <3>1. pc[Sig(t)] = "run" /\ pc' = [pc EXCEPT ![Sig(t)] = "schedule"]
        BY <2>3 DEF RunDone
      <3>2. Place(Sig(t))'
        BY <1>0, <1>3, <2>0, <3>1
      <3> QED BY <1>0, <1>2, <2>0, <2>3, <3>1, <3>2 DEF RunDone
    <2>4. CASE Reschedule(t)
      <3>1. /\ Touch(Sig(t)) /\ pc[Sig(t)] = "reschedule"
            /\ pc' = [pc EXCEPT ![Sig(t)] = "run"] /\ UNCHANGED <<regnum, crashed, frame>>
        BY <2>4 DEF Reschedule
      <3>2. Place(Sig(t))'
        BY <1>0, <1>3, <2>0, <3>1
      <3>3. CASE UNCHANGED list
        BY <1>0, <1>2, <2>0, <3>1, <3>2, <3>3
      <3>4. ASSUME NEW n \in Nodes, sa_find_specific(n, running[t].id),
                   mem' = [mem EXCEPT ![n] = sa_update_entry(
                              [@ EXCEPT !.t_last = running[t].at, !.t_next = 0])],
                   UNCHANGED <<thealarms, allocated>>
            PROVE  ListInv'
        <4> DEFINE called == [mem[n] EXCEPT !.t_last = running[t].at, !.t_next = 0]
        <4>1. mem[n] \in Alarm /\ running[t].at \in Nat
          BY DEF TypeOK
        <4>2. /\ called \in Alarm /\ called.clientreg = mem[n].clientreg
              /\ called.next = mem[n].next /\ called.thecallback = mem[n].thecallback
          BY <4>1 DEF Alarm
        <4>3. mem' = [mem EXCEPT ![n] = sa_update_entry(called)]
          BY <3>4
        <4> HIDE DEF called
        <4>4. /\ sa_update_entry(called).clientreg = mem[n].clientreg
              /\ sa_update_entry(called).next = mem[n].next
              /\ sa_update_entry(called).thecallback = mem[n].thecallback
          BY <4>2, UpdateEntry DEF TypeOK
        <4>5. \A m \in Nodes : /\ mem'[m].clientreg = mem[m].clientreg
                               /\ mem'[m].next = mem[m].next
                               /\ mem'[m].thecallback = mem[m].thecallback
          BY <1>0, <4>3, <4>4
        <4>6. Listed' = Listed /\ (Ends => Ends')
          BY <3>4, <4>5, ListKept
        <4>7. Sound'
          BY <1>0, <1>1, <2>0, <3>1, <3>4, <4>5, <4>6 DEF Sound
        <4>8. \A m \in Listed' : ~Bare(m)'
          BY <1>0, <1>1, <2>0, <3>1, <4>5, <4>6 DEF Bare
        <4> QED BY <1>0, <1>1, <2>0, <3>1, <3>2, <4>7, <4>8, OneSuffices
      <3>5. ASSUME NEW n \in Nodes, sa_find_specific(n, running[t].id), Unlink(n)
            PROVE  ListInv'
        BY <1>0, <1>4, <2>0, <3>1, <3>2, <3>5 DEF sa_find_specific
      <3> QED BY <2>4, <3>3, <3>4, <3>5 DEF Reschedule
    <2> QED BY <1>7, <2>1, <2>2, <2>3, <2>4 DEF HandlerStep
  <1>8. CASE Tick \/ UNCHANGED vars
    <2>1. UNCHANGED <<list, regnum, crashed, overlap, frame, pc>>
      BY <1>8 DEF Tick, vars
    <2>2. \A d \in Ctx : pc'[d] = pc[d] /\ frame'[d] = frame[d]
      BY <2>1
    <2> QED BY <2>1, <2>2, NobodyMoves
  <1> QED BY <1>5, <1>6, <1>7, <1>8 DEF Next

-----------------------------------------------------------------------------
(* No alarm oversleeps                                                     *)

\* The delay that is computed suits every entry.
LEMMA DelaySuits ==
    ASSUME TypeOK, NEW n \in Nodes, sa_find_next(n), NEW m \in Listed
    PROVE  now + Delay(n) <= Later(mem[m].t_next, now + 1)
  <1>1. now \in Nat /\ mem[n].t_next \in Nat /\ mem[m].t_next \in Nat
    BY DEF TypeOK, Alarm, Listed
  <1>2. mem[n].t_next <= mem[m].t_next
    BY <1>1 DEF sa_find_next
  <1> QED BY <1>1, <1>2 DEF Delay, Later

\* What a context tells those that hold a delay is all they learn.
LEMMA MissesEffect ==
    ASSUME TypeOK, NEW c \in Ctx, NEW n \in Nodes, Misses(c, n),
           NEW d \in Ctx, d # c, pc[d] = "setitimer"
    PROVE  missed'[d] = missed[d] \cup {n}
  BY DEF Misses, TypeOK

\* A delay that suits every alarm but those its context does not know of keeps
\* doing so, whatever the others do until contexts overlap.
LEMMA DelayStep ==
    ASSUME ThreadsAssumption, TypeOK, TypeOK', OwnerInv, ListInv, DelayInv, [Next]_vars
    PROVE  DelayInv'
  <1> USE DEF list, clock, ghosts, Goto
  <1> SUFFICES ASSUME ~overlap, ~overlap' PROVE DelayInv'
    BY OverlapStays DEF DelayInv
  <1>0. /\ pc \in [Ctx -> Labels] /\ frame \in [Ctx -> Frame]
        /\ mem \in [Nodes -> Alarm] /\ missed \in [Ctx -> SUBSET Nodes]
        /\ NULL \notin Nodes /\ Listed \subseteq Nodes /\ Sound
        /\ \A d \in Ctx : frame[d].ret \in {"idle", "callback"} /\ Place(d)
    BY NodesAssumption DEF TypeOK, NodesAssumption, Listed, Frame, ListInv
  <1>1. SUFFICES ASSUME NEW d \in Ctx, pc'[d] = "setitimer" PROVE Suits(d)'
    BY DEF DelayInv
  \* The context that holds the delay held it before, and nobody changed an alarm
  \* or its place without telling it.
  <1>2. ASSUME pc[d] = "setitimer", frame'[d] = frame[d],
               missed[d] \subseteq missed'[d],
               \A n \in Listed' \ missed'[d] :
                   n \in Listed /\ mem'[n].t_next = mem[n].t_next,
               \A e \in Ctx : pc'[e] \in {"linked", "numbered"} =>
                   \/ frame'[e].node \in missed'[d]
                   \/ pc[e] \in {"linked", "numbered"} /\ frame'[e].node = frame[e].node
        PROVE  Suits(d)'
    <2>1. Suits(d)
      BY <1>2 DEF DelayInv
    <2>2. ASSUME NEW n \in Listed' \ missed'[d]
          PROVE  frame'[d].at + frame'[d].delta <= Later(mem'[n].t_next, frame'[d].at + 1)
      <3>1. n \in Listed \ missed[d] /\ mem'[n].t_next = mem[n].t_next
        BY <1>2, <2>2
      <3> QED BY <1>2, <2>1, <3>1 DEF Suits, Later
    <2>3. \A e \in Ctx : pc'[e] \in {"linked", "numbered"} => frame'[e].node \in missed'[d]
      BY <1>2, <2>1 DEF Suits
    <2> QED BY <2>2, <2>3 DEF Suits
  \* The list and what each context is filling stay as they were.
  <1>3. ASSUME pc[d] = "setitimer", frame'[d] = frame[d], missed' = missed,
               UNCHANGED <<thealarms, mem, allocated>>,
               \A e \in Ctx : pc'[e] \in {"linked", "numbered"} =>
                   pc'[e] = pc[e] /\ frame'[e] = frame[e]
        PROVE  Suits(d)'
    <2>1. Listed' = Listed /\ mem' = mem
      BY <1>3, SameList
    <2> QED BY <1>2, <1>3, <2>1
  <1>4. ASSUME NEW c \in Ctx, NEW n \in Listed, Unlink(n), pc[d] = "setitimer",
               frame' = frame, missed' = missed,
               \A e \in Ctx : pc'[e] \in {"linked", "numbered"} => pc'[e] = pc[e]
        PROVE  Suits(d)'
    <2>1. /\ Listed' = Listed \ {n}
          /\ \A m \in Nodes : mem'[m].t_next = mem[m].t_next
      BY <1>0, <1>4, UnlinkRemoves DEF Sound
    <2> QED BY <1>0, <1>2, <1>4, <2>1
  <1>5. ASSUME NEW c \in Ctx, CtxStep(c) PROVE Suits(d)'
    <2>0. ASSUME NEW l, pc' = [pc EXCEPT ![c] = l], l # "setitimer"
          PROVE  d # c /\ pc[d] = "setitimer" /\ \A e \in Ctx \ {c} : pc'[e] = pc[e]
      BY <1>0, <1>1, <2>0
    <2>1. CASE RegisterWalk(c)
      <3>1. /\ d # c /\ pc[d] = "setitimer" /\ pc'[c] = "walked"
            /\ \A e \in Ctx \ {c} : pc'[e] = pc[e] /\ frame'[e] = frame[e]
        BY <1>0, <2>0, <2>1 DEF RegisterWalk
      <3> QED BY <1>3, <2>1, <3>1 DEF RegisterWalk
    <2>2. CASE RegisterLink(c)
      <3>1. PICK n \in Nodes \ (allocated \cup {frame[c].tail}) :
               /\ StoreAtTail(c, n, [mem EXCEPT ![n] = Zeroed])
               /\ frame' = [frame EXCEPT ![c].node = n]
               /\ Misses(c, n)
        BY <2>2 DEF RegisterLink
      <3>2. pc[c] = "walked" /\ pc' = [pc EXCEPT ![c] = "linked"]
        BY <2>2 DEF RegisterLink
      <3>3. d # c /\ pc[d] = "setitimer" /\ \A e \in Ctx \ {c} : pc'[e] = pc[e]
        BY <2>0, <3>2
      <3>4. missed'[d] = missed[d] \cup {n}
        BY <3>1, <3>3, MissesEffect
      <3>5. /\ Listed' = Listed \cup {n}
            /\ \A m \in Nodes \ {n} : SameClient(m)
        BY <1>0, <3>1, <3>2, LinkAppends DEF Place, Sound
      <3>6. frame'[c].node = n /\ \A e \in Ctx \ {c} : frame'[e] = frame[e]
        BY <1>0, <3>1 DEF Frame
      <3>7. \A m \in Listed' \ missed'[d] : m \in Listed /\ mem'[m].t_next = mem[m].t_next
        BY <1>0, <3>4, <3>5 DEF SameClient
      <3> QED BY <1>2, <3>3, <3>4, <3>6, <3>7
    <2>3. CASE RegisterNoMemory(c)
      <3>1. /\ pc[c] = "walked" /\ StoreAtTail(c, NULL, mem)
            /\ pc' = [pc EXCEPT ![c] = frame[c].ret]
            /\ frame' = [frame EXCEPT ![c] = NoFrame]
            /\ allocated' = allocated /\ missed' = missed
        BY <2>3 DEF RegisterNoMemory
      <3>2. thealarms' = thealarms /\ mem' = mem
        BY <1>0, <3>1, NoMemoryKeepsList
      <3>3. /\ d # c /\ pc[d] = "setitimer" /\ pc'[c] \in {"idle", "callback"}
            /\ \A e \in Ctx \ {c} : pc'[e] = pc[e] /\ frame'[e] = frame[e]
        BY <1>0, <1>1, <3>1
      <3> QED BY <1>3, <3>1, <3>2, <3>3
    <2>4. CASE RegisterOnItself(c) \/ RegisterNowhere(c)
      <3>1. UNCHANGED <<thealarms, mem, allocated, pc, frame, missed>>
        BY <2>4 DEF RegisterOnItself, RegisterNowhere
      <3> QED BY <1>1, <1>3, <3>1
    <2>5. CASE RegisterNumber(c)
      <3>1. PICK t \in Intervals, flags \in {0, SA_REPEAT} :
               mem' = [mem EXCEPT ![Target(c)] =
                         [@ EXCEPT !.t = t, !.flags = flags, !.thecallback = "client"]]
        BY <2>5 DEF RegisterNumber
      <3>2. /\ pc[c] = "linked" /\ pc' = [pc EXCEPT ![c] = "numbered"]
            /\ frame' = [frame EXCEPT ![c].reg = regnum]
            /\ UNCHANGED <<thealarms, missed>>
        BY <2>5 DEF RegisterNumber
      <3>3. d # c /\ pc[d] = "setitimer" /\ \A e \in Ctx \ {c} : pc'[e] = pc[e]
        BY <2>0, <3>2
      <3>4. \A m \in Nodes : mem'[m].next = mem[m].next /\ mem'[m].t_next = mem[m].t_next
        BY <1>0, <3>1 DEF Alarm
      <3>5. Listed' = Listed
        BY <3>2, <3>4, ListKept
      <3>6. frame'[c].node = frame[c].node /\ \A e \in Ctx \ {c} : frame'[e] = frame[e]
        BY <1>0, <3>2 DEF Frame
      <3> QED BY <1>0, <1>2, <3>2, <3>3, <3>4, <3>5, <3>6
    <2>6. CASE RegisterFill(c)
      <3> DEFINE node == frame[c].node
                 filled == [mem[node] EXCEPT !.clientreg = frame[c].reg, !.next = NULL]
      <3>1. Target(c) = node /\ node \in Nodes /\ mem[node].next = NULL /\ pc[c] = "numbered"
        BY <1>0, <2>6 DEF RegisterFill, Place
      <3>2. /\ mem' = [mem EXCEPT ![node] = sa_update_entry(filled)]
            /\ UNCHANGED <<thealarms, missed>>
        BY <1>0, <2>6, <3>1 DEF RegisterFill
      <3>3. /\ pc'[c] \in {"idle", "callback", "schedule"}
            /\ \A e \in Ctx \ {c} : pc'[e] = pc[e] /\ frame'[e] = frame[e]
        BY <1>0, <2>6 DEF RegisterFill, ArmIfStarted
      <3>4. d # c /\ pc[d] = "setitimer"
        BY <1>1, <3>3
      <3>5. node \in missed[d]
        BY <3>1, <3>4 DEF DelayInv, Suits
      <3>6. filled \in Alarm /\ filled.next = NULL
        <4>1. mem[node] \in Alarm /\ NULL \in Refs /\ frame[c].reg \in Nat
          BY <1>0, <3>1 DEF Refs, Frame
        <4> QED BY <4>1 DEF Alarm
      <3> HIDE DEF filled
      <3>7. sa_update_entry(filled).next = NULL
        BY <3>6, UpdateEntry DEF TypeOK
      <3> HIDE DEF node
      <3>8. /\ \A m \in Nodes : mem'[m].next = mem[m].next
            /\ \A m \in Nodes \ {node} : mem'[m] = mem[m]
        BY <1>0, <3>1, <3>2, <3>7
      <3>9. Listed' = Listed
        BY <3>2, <3>8, ListKept
      <3> QED BY <1>0, <1>2, <3>2, <3>3, <3>4, <3>5, <3>8, <3>9
    <2>7. CASE Unregister(c)
      <3>1. PICK n \in Listed : Unlink(n)
        BY <2>7 DEF Unregister, sa_find_specific
      <3>2. UNCHANGED <<pc, frame, missed>>
        BY <2>7 DEF Unregister
      <3> QED BY <1>1, <1>4, <3>1, <3>2
    <2>8. CASE ScheduleNothing(c)
      <3>1. /\ d # c /\ pc[d] = "setitimer" /\ pc'[c] \in {"idle", "callback"}
            /\ \A e \in Ctx \ {c} : pc'[e] = pc[e] /\ frame'[e] = frame[e]
        BY <1>0, <1>1, <2>8 DEF ScheduleNothing
      <3> QED BY <1>3, <2>8, <3>1 DEF ScheduleNothing
    <2>9. CASE ScheduleNext(c)
      <3>1. PICK n \in Nodes :
               /\ sa_find_next(n)
               /\ frame' = [frame EXCEPT ![c] = [@ EXCEPT !.delta = Delay(n), !.at = now]]
        BY <2>9 DEF ScheduleNext
      <3>2. /\ pc' = [pc EXCEPT ![c] = "setitimer"] /\ pc[c] = "schedule" /\ Touch(c)
            /\ missed' = [missed EXCEPT ![c] = {}]
            /\ UNCHANGED <<thealarms, mem, allocated>>
        BY <2>9 DEF ScheduleNext
      <3>3. Listed' = Listed /\ mem' = mem
        BY <3>2, SameList
      <3>4. \A e \in Ctx : pc'[e] \notin {"linked", "numbered"}
        BY <1>0, <3>2, OnlyOne DEF Inside
      <3>5. CASE d # c
        <4>1. /\ pc[d] = "setitimer" /\ frame'[d] = frame[d] /\ missed'[d] = missed[d]
          BY <1>0, <1>1, <3>1, <3>2, <3>5
        <4> QED BY <1>2, <3>3, <3>4, <4>1
      <3>6. CASE d = c
        <4>1. frame'[c] = [frame[c] EXCEPT !.delta = Delay(n), !.at = now]
          BY <1>0, <3>1
        <4>2. frame'[c].delta = Delay(n) /\ frame'[c].at = now
          BY <1>0, <4>1 DEF Frame
        <4>3. \A m \in Listed : now + Delay(n) <= Later(mem[m].t_next, now + 1)
          BY <3>1, DelaySuits
        <4> QED BY <3>3, <3>4, <3>6, <4>2, <4>3 DEF Suits, Later
      <3> QED BY <3>5, <3>6
    <2>10. CASE SetItimer(c)
      <3>1. /\ pc'[c] \in {"idle", "callback"}
            /\ \A e \in Ctx \ {c} : /\ pc'[e] = pc[e] /\ frame'[e] = frame[e]
                                     /\ missed'[e] = missed[e]
        BY <1>0, <2>10 DEF SetItimer
      <3>2. d # c /\ pc[d] = "setitimer"
        BY <1>1, <3>1
      <3>3. Listed' = Listed /\ mem' = mem
        BY <2>10, SameList DEF SetItimer
      <3> QED BY <1>2, <3>1, <3>2, <3>3
    <2> QED BY <1>5, <2>1, <2>2, <2>3, <2>4, <2>5, <2>6, <2>7, <2>8, <2>9, <2>10
            DEF CtxStep
  <1>6. CASE InitAlarmPostConfig
    <2>1. /\ pc[d] = "setitimer" /\ UNCHANGED <<thealarms, mem, allocated, frame, missed>>
          /\ \A e \in Ctx : pc'[e] \in {"linked", "numbered"} => pc'[e] = pc[e]
      BY <1>0, <1>1, <1>6 DEF InitAlarmPostConfig
    <2> QED BY <1>3, <2>1
  <1>7. ASSUME NEW t \in Threads, HandlerStep(t) PROVE Suits(d)'
    <2>0. /\ Sig(t) \in Ctx /\ frame' = frame
          /\ pc'[Sig(t)] \in {pc[Sig(t)], "run", "callback", "schedule", "reschedule"}
          /\ pc[Sig(t)] \in {"idle", "run", "callback", "reschedule"}
          /\ \A e \in Ctx \ {Sig(t)} : pc'[e] = pc[e]
      <3>1. Sig(t) \in Ctx
        BY DEF Sig, Ctx
      <3> QED BY <1>0, <1>7, <3>1
              DEF HandlerStep, Deliver, RunDue, RunDone, CallbackReturn, Reschedule
    <2>1. d # Sig(t) /\ pc[d] = "setitimer"
      BY <1>1, <2>0
    <2>2. \A e \in Ctx : pc'[e] \in {"linked", "numbered"} => pc'[e] = pc[e]
      BY <2>0
    <2>3. CASE UNCHANGED <<thealarms, mem, allocated, missed>>
      BY <1>3, <2>0, <2>1, <2>2, <2>3
    <2>4. ASSUME NEW n \in Nodes, sa_find_specific(n, running[t].id), Misses(Sig(t), n),
                 mem' = [mem EXCEPT ![n] = sa_update_entry(
                            [@ EXCEPT !.t_last = running[t].at, !.t_next = 0])],
                 UNCHANGED <<thealarms, allocated>>
          PROVE  Suits(d)'
      <3> DEFINE called == [mem[n] EXCEPT !.t_last = running[t].at, !.t_next = 0]
      <3>1. mem[n] \in Alarm /\ running[t].at \in Nat
        BY DEF TypeOK
      <3>2. called \in Alarm /\ called.next = mem[n].next
        BY <3>1 DEF Alarm
      <3>3. mem' = [mem EXCEPT ![n] = sa_update_entry(called)]
        BY <2>4
      <3> HIDE DEF called
      <3>4. sa_update_entry(called).next = mem[n].next
        BY <3>2, UpdateEntry DEF TypeOK
      <3>5. /\ \A m \in Nodes : mem'[m].next = mem[m].next
            /\ \A m \in Nodes \ {n} : mem'[m] = mem[m]
        BY <1>0, <3>3, <3>4
      <3>6. Listed' = Listed
        BY <2>4, <3>5, ListKept
      <3>7. missed'[d] = missed[d] \cup {n}
        BY <2>0, <2>1, <2>4, MissesEffect
      <3> QED BY <1>0, <1>2, <2>0, <2>1, <2>2, <3>5, <3>6, <3>7
    <2>5. ASSUME NEW n \in Nodes, sa_find_specific(n, running[t].id), Unlink(n),
                 missed' = missed
          PROVE  Suits(d)'
      BY <1>4, <2>0, <2>1, <2>2, <2>5 DEF sa_find_specific
    <2>6. CASE Reschedule(t)
      BY <2>3, <2>4, <2>5, <2>6 DEF Reschedule
    <2> QED BY <1>7, <2>3, <2>6 DEF HandlerStep, Deliver, RunDue, RunDone, CallbackReturn
  <1>8. CASE Tick \/ UNCHANGED vars
    <2>1. UNCHANGED <<thealarms, mem, allocated, pc, frame, missed>>
      BY <1>8 DEF Tick, vars
    <2> QED BY <1>1, <1>3, <2>1
  <1> QED BY <1>5, <1>6, <1>7, <1>8 DEF Next

\* Until contexts overlap, a timer that is too late for an alarm is about to
\* be set again.
LEMMA WakeStep ==
    ASSUME ThreadsAssumption, TypeOK, TypeOK', ClockInv, OwnerInv, ListInv, ListInv',
           DelayInv, WakeInv, [Next]_vars
    PROVE  WakeInv'
  <1> USE DEF list, clock, ghosts, Goto
  <1> SUFFICES ASSUME ~overlap' PROVE WakeInv'
    BY DEF WakeInv
  <1>0. /\ pc \in [Ctx -> Labels] /\ frame \in [Ctx -> Frame]
        /\ mem \in [Nodes -> Alarm]
        /\ \A c \in Ctx : frame[c].ret \in {"idle", "callback"}
        /\ ~crashed' /\ Listed \subseteq Nodes
    BY DEF TypeOK, Frame, ListInv, Sound, Listed
  <1>1. ASSUME NEW c \in Ctx, WillSchedule(c)'
        PROVE  WakeInv'
    BY <1>1 DEF WakeInv
  \* Alarms go at most, and who was bound to set the timer still is.
  <1>2. ASSUME ~overlap, UNCHANGED <<armed, start_alarms>>, itimer' \in {0, itimer},
               Listed' \subseteq Listed,
               \A n \in Listed' : mem'[n].t_next = mem[n].t_next,
               \A d \in Ctx : WillSchedule(d) => WillSchedule(d)'
        PROVE  WakeInv'
    BY <1>2 DEF WakeInv, Covered, Later
  <1>3. ASSUME NEW c \in Ctx, Touch(c)
        PROVE  ~overlap /\ (\A d \in Ctx \ {c} : ~Inside(d)) /\ Sound /\ Place(c)
    <2>1. ~overlap /\ \A d \in Ctx \ {c} : ~Inside(d)
      BY <1>3, OnlyOne
    <2> QED BY <2>1 DEF ListInv
  <1>4. ASSUME NEW c \in Ctx, CtxStep(c) PROVE WakeInv'
    <2>1. CASE RegisterWalk(c)
      <3>1. pc[c] \in {"idle", "callback"} /\ pc' = [pc EXCEPT ![c] = "walked"]
        BY <2>1 DEF RegisterWalk, MayCall
      <3>2. frame'[c].ret = pc[c] /\ \A d \in Ctx \ {c} : frame'[d] = frame[d]
        BY <1>0, <2>1 DEF RegisterWalk, NoFrame
      <3>3. Listed' = Listed /\ mem' = mem
        BY <2>1, SameList DEF RegisterWalk
      <3>4. \A d \in Ctx : WillSchedule(d) => WillSchedule(d)'
        BY <1>0, <3>1, <3>2 DEF WillSchedule
      <3> QED BY <1>2, <1>3, <2>1, <3>3, <3>4 DEF RegisterWalk
    <2>2. CASE RegisterLink(c)
      BY <1>0, <1>1, <2>2 DEF RegisterLink, WillSchedule
    <2>3. CASE RegisterNoMemory(c)
      <3>1. Touch(c) /\ pc[c] = "walked" /\ StoreAtTail(c, NULL, mem)
            /\ pc' = [pc EXCEPT ![c] = frame[c].ret]
            /\ frame' = [frame EXCEPT ![c] = NoFrame]
            /\ UNCHANGED <<allocated, armed, start_alarms, itimer>>
        BY <2>3 DEF RegisterNoMemory
      <3>2. UNCHANGED list
        BY <1>3, <3>1, NoMemoryKeepsList
      <3>3. Listed' = Listed /\ mem' = mem
        BY <3>2, SameList
      <3>4. \A d \in Ctx : WillSchedule(d) => WillSchedule(d)'
        BY <1>0, <3>1 DEF WillSchedule
      <3> QED BY <1>2, <1>3, <3>1, <3>3, <3>4
    <2>4. CASE RegisterOnItself(c) \/ RegisterNowhere(c)
      BY <1>0, <2>4 DEF RegisterOnItself, RegisterNowhere
    <2>5. CASE RegisterNumber(c)
      BY <1>0, <1>1, <2>5 DEF RegisterNumber, WillSchedule
    <2>6. CASE RegisterFill(c)
      <3>1. CASE start_alarms
        BY <1>0, <1>1, <2>6, <3>1 DEF RegisterFill, ArmIfStarted, WillSchedule
      <3>2. CASE ~start_alarms
        BY <2>6, <3>2 DEF RegisterFill, ArmIfStarted, WakeInv
      <3> QED BY <3>1, <3>2
    <2>7. CASE Unregister(c)
      <3>1. PICK n \in Listed : Unlink(n)
        BY <2>7 DEF Unregister, sa_find_specific
      <3>2. Touch(c) /\ UNCHANGED <<pc, frame, armed, start_alarms, itimer>>
        BY <2>7 DEF Unregister
      <3>3. Ends
        BY <1>3, <3>2 DEF Sound
      <3>4. Listed' = Listed \ {n} /\ \A m \in Nodes : mem'[m].t_next = mem[m].t_next
        BY <3>1, <3>3, UnlinkRemoves
      <3> QED BY <1>0, <1>2, <1>3, <3>2, <3>4 DEF WillSchedule
    <2>8. CASE ScheduleNothing(c)
      <3>1. Touch(c) /\ pc[c] = "schedule"
        BY <2>8 DEF ScheduleNothing
      <3>2. ASSUME NEW n \in Nodes, mem[n].clientreg = 0 PROVE FALSE
        <4>1. PICK d \in Ctx : pc[d] \in {"linked", "numbered"}
          BY <1>3, <3>1, <3>2 DEF OwnerInv
        <4> QED BY <1>3, <3>1, <4>1 DEF Inside
      <3>3. thealarms = NULL /\ UNCHANGED list
        BY <2>8, <3>2 DEF ScheduleNothing
      <3>4. {} \in SUBSET Nodes /\ WalkStays({})
        BY <3>3 DEF WalkStays
      <3>5. Listed' = {}
        BY <3>3, <3>4, SameList, ListedIsLeast DEF Least
      <3> QED BY <3>5 DEF WakeInv, Covered
    <2>9. CASE ScheduleNext(c)
      BY <1>0, <1>1, <2>9 DEF ScheduleNext, WillSchedule
    <2>10. CASE SetItimer(c)
      <3>1. /\ ~overlap /\ pc[c] = "setitimer" /\ UNCHANGED list
            /\ itimer' = IF frame[c].delta = 0 THEN 0 ELSE now + frame[c].delta
            /\ armed' = [at |-> frame[c].at, slip |-> now - frame[c].at,
                         missed |-> missed[c]]
        BY <2>10 DEF SetItimer
      <3>2. now \in Nat /\ frame[c].delta \in Nat /\ frame[c].at \in Nat
        BY <1>0 DEF TypeOK, Frame
      <3>3. Listed' = Listed /\ mem' = mem
        BY <3>1, SameList
      <3>4. ASSUME itimer' # 0, NEW n \in Listed' \ armed'.missed
            PROVE  itimer' <= Later(mem'[n].t_next, armed'.at + 1) + armed'.slip
        <4>1. frame[c].at + frame[c].delta <= Later(mem[n].t_next, frame[c].at + 1)
          BY <3>1, <3>3, <3>4 DEF DelayInv, Suits
        <4>2. itimer' = now + frame[c].delta /\ armed'.at = frame[c].at
              /\ armed'.slip = now - frame[c].at
          BY <3>1, <3>4
        <4>3. mem[n].t_next \in Nat
          BY <1>0, <3>3, <3>4 DEF Alarm
        <4> QED BY <3>2, <3>3, <4>1, <4>2, <4>3 DEF Later
      <3> QED BY <3>4 DEF WakeInv, Covered
    <2> QED BY <1>4, <2>1, <2>2, <2>3, <2>4, <2>5, <2>6, <2>7, <2>8, <2>9, <2>10
            DEF CtxStep
  <1>5. CASE InitAlarmPostConfig
    <2>1. App(Main) \in Ctx
      BY ThreadsAssumption DEF App, Ctx
    <2>2. pc'[App(Main)] = "schedule"
      BY <1>0, <1>5, <2>1 DEF InitAlarmPostConfig
    <2> QED BY <1>1, <2>1, <2>2 DEF WillSchedule
  <1>6. ASSUME NEW t \in Threads, HandlerStep(t) PROVE WakeInv'
    <2>0. Sig(t) \in Ctx
      BY DEF Sig, Ctx
    <2>1. pc'[Sig(t)] \in {"run", "schedule", "callback", "reschedule"}
      BY <1>0, <1>6, <2>0
         DEF HandlerStep, Deliver, RunDue, RunDone, CallbackReturn, Reschedule
    <2> QED BY <1>1, <2>0, <2>1 DEF WillSchedule
  <1>7. CASE Tick \/ UNCHANGED vars
    <2>1. /\ UNCHANGED <<list, overlap, armed, start_alarms, pc, frame>>
          /\ itimer' \in {0, itimer}
      BY <1>7 DEF Tick, vars
    <2>2. Listed' = Listed /\ mem' = mem
      BY <2>1, SameList
    <2> QED BY <1>2, <2>1, <2>2 DEF WillSchedule
  <1> QED BY <1>4, <1>5, <1>6, <1>7 DEF Next

\* A new due time is a period after now, or after a call that was no later.
LEMMA UpdateTimed ==
    ASSUME NEW a \in Alarm, now \in Nat, IntervalAssumption, Timed(a)
    PROVE  Timed(sa_update_entry(a))
  <1>0. /\ a.t \in Nat /\ a.t_last \in Nat /\ a.t_next \in Nat
        /\ sa_update_entry(a).t = a.t
    BY UpdateEntry DEF Alarm
  <1>1. a.t = 0 \/ a.t \in Intervals
    BY DEF Timed
  <1>2. CASE a.t_last = 0
    <2>1. sa_update_entry(a).t_last = now /\ sa_update_entry(a).t_next = now + a.t
      <3>1. sa_update_entry(a) = [a EXCEPT !.t_last = now, !.t_next = now + a.t]
        BY <1>2 DEF sa_update_entry
      <3> QED BY <3>1 DEF Alarm
    <2> QED BY <1>0, <1>1, <2>1 DEF Timed, Ahead
  <1>3. CASE a.t_last # 0 /\ a.t_next = 0
    <2>1. sa_update_entry(a).t_last = a.t_last /\ sa_update_entry(a).t_next = a.t_last + a.t
      <3>1. sa_update_entry(a) = [a EXCEPT !.t_next = a.t_last + a.t]
        BY <1>3 DEF sa_update_entry
      <3> QED BY <3>1 DEF Alarm
    <2>2. a.t_last + a.t <= now + a.t
      BY <1>0 DEF Timed
    <2>3. Ahead(a.t_last + a.t)
      BY <1>0, <1>1, <2>2 DEF Ahead
    <2> QED BY <1>0, <2>1, <2>3 DEF Timed
  <1>4. CASE a.t_last # 0 /\ a.t_next # 0
    BY <1>4 DEF sa_update_entry
  <1> QED BY <1>2, <1>3, <1>4

\* Only time itself brings a due time nearer, and nothing takes it further away.
LEMMA TimesStep ==
    ASSUME NodesAssumption, IntervalAssumption, TypeOK, TypeOK', TimesInv, [Next]_vars
    PROVE  TimesInv'
  <1> USE DEF list, clock, ghosts, Goto
  <1>0. /\ mem \in [Nodes -> Alarm] /\ now \in Nat /\ frame \in [Ctx -> Frame]
        /\ running \in [Threads -> [id : Nat, at : Nat]]
        /\ \A n \in Nodes : Timed(mem[n])
        /\ \A t \in Threads : running[t].at <= now
    BY DEF TypeOK, TimesInv
  <1>1. ASSUME now' = now, \A n \in Nodes : Timed(mem'[n]),
               \A t \in Threads : running'[t].at <= now
        PROVE  TimesInv'
    BY <1>1 DEF TimesInv, Timed, Ahead
  \* Two blocks with the same times.
  <1>2. ASSUME NEW a, NEW b, Timed(a), b.t = a.t, b.t_last = a.t_last, b.t_next = a.t_next
        PROVE  Timed(b)
    BY <1>2 DEF Timed
  <1>3. Timed(Zeroed)
    BY <1>0 DEF Timed, Zeroed, Ahead
  <1>4. ASSUME NEW n \in Nodes, Unlink(n), UNCHANGED <<now, running>> PROVE TimesInv'
    <2>1. \A m \in Nodes : /\ mem'[m].t = mem[m].t /\ mem'[m].t_last = mem[m].t_last
                           /\ mem'[m].t_next = mem[m].t_next
      BY <1>0, <1>4 DEF Unlink, Alarm
    <2>2. \A m \in Nodes : Timed(mem'[m])
      BY <1>0, <1>2, <2>1
    <2> QED BY <1>0, <1>1, <1>4, <2>2
  <1>5. ASSUME NEW c \in Ctx, NEW r \in Refs, NEW m \in [Nodes -> Alarm],
               StoreAtTail(c, r, m), UNCHANGED <<now, running>>,
               \A n \in Nodes : Timed(m[n])
        PROVE  TimesInv'
    <2>1. \A n \in Nodes : /\ mem'[n].t = m[n].t /\ mem'[n].t_last = m[n].t_last
                           /\ mem'[n].t_next = m[n].t_next
      <3>1. CASE frame[c].tail = NULL
        BY <1>5, <3>1 DEF StoreAtTail
      <3>2. CASE frame[c].tail # NULL
        <4>1. mem' = [m EXCEPT ![frame[c].tail].next = r]
          BY <1>5, <3>2 DEF StoreAtTail
        <4> QED BY <4>1 DEF Alarm
      <3> QED BY <3>1, <3>2
    <2>2. \A n \in Nodes : Timed(mem'[n])
      BY <1>2, <1>5, <2>1
    <2> QED BY <1>0, <1>1, <1>5, <2>2
  <1>6. ASSUME UNCHANGED <<mem, now, running>> PROVE TimesInv'
    BY <1>0, <1>1, <1>6
  <1>7. ASSUME NEW n \in Nodes, NEW a, Timed(a), mem' = [mem EXCEPT ![n] = a],
               UNCHANGED now, \A t \in Threads : running'[t].at <= now
        PROVE  TimesInv'
    <2>1. \A m \in Nodes : Timed(mem'[m])
      BY <1>0, <1>7
    <2> QED BY <1>1, <1>7, <2>1
  <1>8. ASSUME NEW c \in Ctx, CtxStep(c) PROVE TimesInv'
    <2>1. CASE RegisterLink(c)
      <3>1. PICK n \in Nodes : StoreAtTail(c, n, [mem EXCEPT ![n] = Zeroed])
        BY <2>1 DEF RegisterLink
      <3>2. /\ [mem EXCEPT ![n] = Zeroed] \in [Nodes -> Alarm]
            /\ \A m \in Nodes : Timed([mem EXCEPT ![n] = Zeroed][m])
        BY <1>0, <1>3, Constants
      <3> QED BY <1>5, <2>1, <3>1, <3>2 DEF RegisterLink, Refs
    <2>2. CASE RegisterNoMemory(c)
      BY <1>0, <1>5, <2>2 DEF RegisterNoMemory, Refs
    <2>3. CASE RegisterNumber(c)
      <3>1. PICK t \in Intervals, flags \in {0, SA_REPEAT} :
               mem' = [mem EXCEPT ![Target(c)] =
                         [@ EXCEPT !.t = t, !.flags = flags, !.thecallback = "client"]]
        BY <2>3 DEF RegisterNumber
      <3>2. Target(c) \in Nodes
        BY <2>3 DEF RegisterNumber, Target, TypeOK, Frame, Alarm, Refs
      <3> DEFINE a == [mem[Target(c)] EXCEPT !.t = t, !.flags = flags,
                                             !.thecallback = "client"]
      <3>3. a.t = t /\ a.t_last = mem[Target(c)].t_last /\ a.t_next = mem[Target(c)].t_next
        BY <1>0, <3>2 DEF Alarm
      <3>4. Timed(a)
        <4> HIDE DEF a
        <4> QED BY <1>0, <3>2, <3>3 DEF Timed
      <3>5. mem' = [mem EXCEPT ![Target(c)] = a]
        BY <3>1
      <3> HIDE DEF a
      <3> QED BY <1>0, <1>7, <2>3, <3>2, <3>4, <3>5 DEF RegisterNumber
    <2>4. CASE RegisterFill(c)
      <3> DEFINE filled == [mem[Target(c)] EXCEPT !.clientreg = frame[c].reg,
                                                  !.next = NULL]
      <3>1. Target(c) \in Nodes /\ frame[c].reg \in Nat
        BY <2>4 DEF RegisterFill, Target, TypeOK, Frame, Alarm, Refs
      <3>2. mem' = [mem EXCEPT ![Target(c)] = sa_update_entry(filled)]
            /\ UNCHANGED <<now, running>>
        BY <1>0, <2>4 DEF RegisterFill
      <3>3. /\ filled \in Alarm /\ filled.t = mem[Target(c)].t
            /\ filled.t_last = mem[Target(c)].t_last
            /\ filled.t_next = mem[Target(c)].t_next
        <4>1. mem[Target(c)] \in Alarm /\ NULL \in Refs
          BY <1>0, <3>1 DEF Refs
        <4> QED BY <3>1, <4>1 DEF Alarm
      <3> HIDE DEF filled
      <3>4. Timed(sa_update_entry(filled))
        BY <1>0, <1>2, <3>1, <3>3, UpdateTimed
      <3> QED BY <1>0, <1>7, <3>1, <3>2, <3>4
    <2>5. CASE Unregister(c)
      BY <1>4, <2>5 DEF Unregister
    <2>6. CASE \/ RegisterWalk(c) \/ RegisterOnItself(c) \/ RegisterNowhere(c)
               \/ ScheduleNothing(c) \/ ScheduleNext(c) \/ SetItimer(c)
      BY <1>6, <2>6 DEF RegisterWalk, RegisterOnItself, RegisterNowhere,
                        ScheduleNothing, ScheduleNext, SetItimer
    <2> QED BY <1>8, <2>1, <2>2, <2>3, <2>4, <2>5, <2>6 DEF CtxStep
  <1>9. CASE InitAlarmPostConfig
    BY <1>6, <1>9 DEF InitAlarmPostConfig
  <1>10. ASSUME NEW t \in Threads, HandlerStep(t) PROVE TimesInv'
    <2>1. CASE Deliver(t) \/ RunDone(t) \/ CallbackReturn(t)
      BY <1>6, <2>1 DEF Deliver, RunDone, CallbackReturn
    <2>2. CASE RunDue(t)
      <3>1. UNCHANGED <<mem, now>> /\ \A u \in Threads : running'[u].at <= now
        BY <1>0, <2>2 DEF RunDue
      <3> QED BY <1>0, <1>1, <3>1
    <2>3. CASE Reschedule(t)
      <3>0. now' = now /\ running' = [running EXCEPT ![t] = [id |-> 0, at |-> 0]]
        BY <2>3 DEF Reschedule
      <3>1. now' = now /\ \A u \in Threads : running'[u].at <= now
        BY <1>0, <3>0
      <3>2. CASE UNCHANGED <<thealarms, mem, allocated>>
        BY <1>0, <1>1, <3>1, <3>2
      <3>3. ASSUME NEW n \in Nodes,
                   mem' = [mem EXCEPT ![n] = sa_update_entry(
                              [@ EXCEPT !.t_last = running[t].at, !.t_next = 0])]
            PROVE  TimesInv'
        <4> DEFINE called == [mem[n] EXCEPT !.t_last = running[t].at, !.t_next = 0]
        <4>1. mem[n] \in Alarm /\ running[t].at \in Nat
          BY <1>0
        <4>2. /\ called \in Alarm /\ called.t = mem[n].t /\ called.t_next = 0
              /\ called.t_last = running[t].at
          BY <4>1 DEF Alarm
        <4>3. mem' = [mem EXCEPT ![n] = sa_update_entry(called)]
          BY <3>3
        <4> HIDE DEF called
        <4>4. Timed(called)
          BY <1>0, <4>2 DEF Timed, Ahead
        <4>5. Timed(sa_update_entry(called))
          BY <1>0, <4>2, <4>4, UpdateTimed
        <4> QED BY <1>7, <3>1, <4>3, <4>5
      <3>4. ASSUME NEW n \in Nodes, Unlink(n) PROVE TimesInv'
        <4>1. \A m \in Nodes : /\ mem'[m].t = mem[m].t /\ mem'[m].t_last = mem[m].t_last
                               /\ mem'[m].t_next = mem[m].t_next
          BY <1>0, <3>4 DEF Unlink, Alarm
        <4>2. \A m \in Nodes : Timed(mem'[m])
          BY <1>0, <1>2, <4>1
        <4> QED BY <1>1, <3>1, <4>2
      <3> QED BY <2>3, <3>2, <3>3, <3>4 DEF Reschedule
    <2> QED BY <1>10, <2>1, <2>2, <2>3 DEF HandlerStep
  <1>11. CASE Tick
    <2>1. now' = now + 1 /\ mem' = mem /\ running' = running
      BY <1>11 DEF Tick
    <2>2. ASSUME NEW n \in Nodes PROVE Timed(mem[n])'
      <3>1. /\ mem[n].t \in Intervals \cup {0} /\ mem[n].t_last <= now
            /\ Ahead(mem[n].t_next) /\ mem[n].t_next \in Nat /\ mem[n].t_last \in Nat
        BY <1>0 DEF Timed, Alarm
      <3>2. Intervals \subseteq Nat
        BY DEF IntervalAssumption
      <3>3. Ahead(mem[n].t_next)'
        BY <1>0, <2>1, <3>1, <3>2 DEF Ahead
      <3> QED BY <1>0, <2>1, <3>1, <3>3 DEF Timed
    <2>3. \A t \in Threads : running'[t].at <= now'
      BY <1>0, <2>1
    <2> QED BY <2>2, <2>3 DEF TimesInv
  <1>12. CASE UNCHANGED vars
    BY <1>6, <1>12 DEF vars
  <1> QED BY <1>8, <1>9, <1>10, <1>11, <1>12 DEF Next

\* So no delay, and no timer, is longer than a period.
LEMMA LimitStep ==
    ASSUME ThreadsAssumption, IntervalAssumption, TypeOK, ClockInv, TimesInv, LimitInv,
           [Next]_vars
    PROVE  LimitInv'
  <1> USE DEF list, clock, ghosts, Goto
  <1>0. /\ pc \in [Ctx -> Labels] /\ frame \in [Ctx -> Frame] /\ mem \in [Nodes -> Alarm]
        /\ now \in Nat /\ Intervals \subseteq Nat \ {0} /\ Intervals # {}
        /\ \A c \in Ctx : frame[c].ret \in {"idle", "callback"}
    BY DEF TypeOK, Frame, IntervalAssumption
  <1>1. ASSUME itimer' \in {0, itimer}, armed' = armed,
               \A d \in Ctx : pc'[d] = "setitimer" =>
                   pc[d] = "setitimer" /\ frame'[d].delta = frame[d].delta
        PROVE  LimitInv'
    BY <1>1 DEF LimitInv
  <1>2. ASSUME NEW n \in Nodes PROVE \E p \in Intervals : Delay(n) <= p
    <2>1. Ahead(mem[n].t_next) /\ mem[n].t_next \in Nat
      BY <1>0 DEF TimesInv, Timed, Alarm
    <2>2. CASE mem[n].t_next <= now
      <3>1. Delay(n) <= 1
        BY <1>0, <2>1, <2>2 DEF Delay
      <3>2. PICK p \in Intervals : p \in Nat \ {0}
        BY <1>0
      <3>3. Delay(n) \in Nat
        BY <1>0, DelayType
      <3> QED BY <3>1, <3>2, <3>3
    <2>3. ASSUME NEW p \in Intervals, mem[n].t_next <= now + p, mem[n].t_next > now
          PROVE  Delay(n) <= p
      <3>1. p \in Nat
        BY <1>0
      <3> QED BY <1>0, <2>1, <2>3, <3>1 DEF Delay
    <2>4. mem[n].t_next <= now \/ mem[n].t_next > now
      BY <1>0, <2>1
    <2> QED BY <2>1, <2>2, <2>3, <2>4 DEF Ahead
  <1>3. ASSUME NEW c \in Ctx, CtxStep(c) PROVE LimitInv'
    <2>1. ASSUME NEW l, l # "setitimer", pc' = [pc EXCEPT ![c] = l],
                 UNCHANGED <<itimer, armed>>, \A d \in Ctx \ {c} : frame'[d] = frame[d]
          PROVE  LimitInv'
      BY <1>0, <1>1, <2>1
    <2>2. CASE RegisterWalk(c)
      BY <1>0, <2>1, <2>2 DEF RegisterWalk
    <2>3. CASE RegisterLink(c)
      <3>1. \A d \in Ctx \ {c} : frame'[d] = frame[d]
        BY <1>0, <2>3 DEF RegisterLink
      <3> QED BY <2>1, <2>3, <3>1 DEF RegisterLink
    <2>4. CASE RegisterNoMemory(c)
      BY <1>0, <2>1, <2>4 DEF RegisterNoMemory
    <2>5. CASE RegisterNumber(c)
      BY <1>0, <2>1, <2>5 DEF RegisterNumber
    <2>6. CASE RegisterFill(c)
      BY <1>0, <2>1, <2>6 DEF RegisterFill, ArmIfStarted
    <2>7. CASE RegisterOnItself(c) \/ RegisterNowhere(c) \/ Unregister(c)
      BY <1>1, <2>7 DEF RegisterOnItself, RegisterNowhere, Unregister
    <2>8. CASE ScheduleNothing(c)
      BY <1>0, <2>1, <2>8 DEF ScheduleNothing
    <2>9. CASE ScheduleNext(c)
      <3>1. PICK n \in Nodes :
               frame' = [frame EXCEPT ![c] = [@ EXCEPT !.delta = Delay(n), !.at = now]]
        BY <2>9 DEF ScheduleNext
      <3>2. frame'[c] = [frame[c] EXCEPT !.delta = Delay(n), !.at = now]
            /\ \A d \in Ctx \ {c} : frame'[d] = frame[d]
        BY <1>0, <3>1
      <3>3. frame'[c].delta = Delay(n)
        BY <1>0, <3>2 DEF Frame
      <3>4. /\ \A d \in Ctx \ {c} : pc'[d] = pc[d]
            /\ UNCHANGED <<itimer, armed>>
        BY <1>0, <2>9 DEF ScheduleNext
      <3>5. \E p \in Intervals : frame'[c].delta <= p
        BY <1>2, <3>3
      <3> QED BY <3>2, <3>4, <3>5 DEF LimitInv
    <2>10. CASE SetItimer(c)
      <3>1. /\ itimer' = IF frame[c].delta = 0 THEN 0 ELSE now + frame[c].delta
            /\ armed' = [at |-> frame[c].at, slip |-> now - frame[c].at,
                         missed |-> missed[c]]
        BY <2>10 DEF SetItimer
      <3>2. PICK p \in Intervals : frame[c].delta <= p
        BY <2>10 DEF SetItimer, LimitInv
      <3>3. frame[c].delta \in Nat /\ frame[c].at \in Nat /\ p \in Nat
        BY <1>0 DEF Frame
      <3>4. armed'.at = frame[c].at /\ armed'.slip = now - frame[c].at
        BY <3>1
      <3>5. itimer' # 0 => itimer' <= armed'.at + armed'.slip + p
        BY <1>0, <3>1, <3>2, <3>3, <3>4
      <3>6. /\ pc'[c] \in {"idle", "callback"}
            /\ \A d \in Ctx \ {c} : pc'[d] = pc[d] /\ frame'[d] = frame[d]
        BY <1>0, <2>10 DEF SetItimer
      <3> QED BY <3>5, <3>6 DEF LimitInv
    <2> QED BY <1>3, <2>2, <2>3, <2>4, <2>5, <2>6, <2>7, <2>8, <2>9, <2>10 DEF CtxStep
  <1>4. CASE InitAlarmPostConfig
    BY <1>0, <1>1, <1>4 DEF InitAlarmPostConfig
  <1>5. ASSUME NEW t \in Threads, HandlerStep(t) PROVE LimitInv'
    <2>1. Sig(t) \in Ctx
      BY DEF Sig, Ctx
    <2>2. /\ UNCHANGED <<itimer, armed, frame>>
          /\ \A d \in Ctx : pc'[d] = "setitimer" => pc[d] = "setitimer"
      BY <1>0, <1>5, <2>1
         DEF HandlerStep, Deliver, RunDue, RunDone, CallbackReturn, Reschedule
    <2> QED BY <1>1, <2>2
  <1>6. CASE Tick \/ UNCHANGED vars
    BY <1>1, <1>6 DEF Tick, vars
  <1> QED BY <1>3, <1>4, <1>5, <1>6 DEF Next

-----------------------------------------------------------------------------
(* Theorems                                                                *)

\* The strengthened invariant holds in every behaviour of timer.c.
THEOREM Inductive == Spec => []IInv
  <1> USE ThreadsAssumption, NodesAssumption, IntervalAssumption
  <1>1. Init => IInv
    <2> SUFFICES ASSUME Init PROVE IInv
      OBVIOUS
    <2>1. TypeOK
      BY Constants DEF Init, TypeOK, Labels, Refs
    <2>2. ClockInv /\ NumberInv
      BY DEF Init, ClockInv, NumberInv, NoFrame
    <2>3. OwnerInv /\ EngineInv
      BY DEF Init, OwnerInv, EngineInv, Unused, Zeroed
    <2>4. Listed = {}
      <3>1. {} \in SUBSET Nodes /\ WalkStays({})
        BY DEF Init, WalkStays
      <3> QED BY <2>1, <3>1, ListedIsLeast DEF Least
    <2>5. ListInv /\ DelayInv /\ WakeInv
      BY <2>4 DEF Init, ListInv, Sound, Ends, Place, Inside, DelayInv, WakeInv
    <2>6. TimesInv /\ LimitInv
      BY DEF Init, TimesInv, Timed, Ahead, LimitInv, Unused, Zeroed
    <2> QED BY <2>1, <2>2, <2>3, <2>5, <2>6 DEF IInv
  <1>2. IInv /\ [Next]_vars => IInv'
    <2> SUFFICES ASSUME IInv, [Next]_vars PROVE IInv'
      OBVIOUS
    <2>1. TypeOK'
      BY TypeStep DEF IInv
    <2>2. ListInv'
      BY <2>1, ListStep DEF IInv
    <2> QED BY <2>1, <2>2, ClockStep, NumberStep, OwnerStep, EngineStep, DelayStep,
               WakeStep, TimesStep, LimitStep
            DEF IInv
  <1> QED BY <1>1, <1>2, PTL DEF Spec

\* Every variable keeps its type.
THEOREM TypeCorrect == Spec => []TypeOK
  <1>1. IInv => TypeOK
    BY DEF IInv
  <1> QED BY <1>1, Inductive, PTL

\* The alarm engine is never left without a timer while alarms are listed,
\* but by a setitimer with the delay 0 or by a block without its number.
THEOREM EngineStaysAlive == Spec => []EngineAlive
  <1>1. IInv => EngineAlive
    BY DEF IInv, EngineInv, EngineAlive, WillSchedule
  <1> QED BY <1>1, Inductive, PTL

\* Until contexts overlap, the list holds exactly what is allocated, its
\* numbers are unique and no wild call is made.
THEOREM ListStaysSound == Spec => []ListSound
  <1>1. IInv => ListSound
    BY DEF IInv, ListInv, Sound, ListSound
  <1> QED BY <1>1, Inductive, PTL

\* Until contexts overlap, the timer of an engine at rest suits every alarm but
\* those that came after the clock was read for it; whatever has raced, it is never
\* set further ahead than one of the periods.
THEOREM NoAlarmOversleeps == Spec => []NoOversleep
  <1>1. IInv => NoOversleep
    BY DEF IInv, WakeInv, Covered, LimitInv, NoOversleep, Quiescent, WillSchedule
  <1> QED BY <1>1, Inductive, PTL

-----------------------------------------------------------------------------
(* What the engine promises                                                *)

\* The entry a registration is filling has never been called, has no number yet
\* and, once its period is stored, one of the periods.
FreshInv ==
    \A c \in Ctx : ~overlap /\ pc[c] \in {"linked", "numbered"} =>
        /\ mem[frame[c].node].t_last = 0 /\ mem[frame[c].node].clientreg = 0
        /\ pc[c] = "numbered" => mem[frame[c].node].t \in Intervals

\* A handler is between the call of an alarm and its rescheduling.
Calling(t) ==
    \/ pc[Sig(t)] \in {"callback", "reschedule"}
    \/ frame[Sig(t)].ret = "callback"

\* What a handler remembers of the alarm it is calling; a handler that is
\* between two alarms has no call to return to.
Remembers(t) ==
    /\ IF Calling(t) THEN running[t].at >= 1 ELSE running[t] = Service!NoCall
    /\ pc[Sig(t)] \in {"walked", "linked", "numbered"} => frame[Sig(t)].ret = "callback"
    /\ pc[Sig(t)] \in {"idle", "run", "callback", "reschedule"} =>
          frame[Sig(t)].ret = "idle"

CallInv == \A t \in Threads : Remembers(t)

\* An entry as AlarmService sees it.
Shown(n) ==
    [id |-> mem[n].clientreg, period |-> mem[n].t,
     repeat |-> (mem[n].flags = SA_REPEAT), due |-> mem[n].t_next]

\* The due time of a new entry, and of one that was just called.
LEMMA DueTimes ==
    ASSUME NEW a \in Alarm, now \in Nat
    PROVE  /\ a.t_last = 0 => sa_update_entry(a).t_next = now + a.t
           /\ a.t_last # 0 /\ a.t_next = 0 => sa_update_entry(a).t_next = a.t_last + a.t
  BY DEF sa_update_entry, Alarm

\* What is registered are the entries that have a number.
LEMMA RegisteredAre ==
    \A a : a \in Registered <=> \E n \in Listed : mem[n].clientreg # 0 /\ a = Shown(n)
  BY DEF Registered, Shown

LEMMA RegisteredAreNext ==
    \A a : a \in Registered' <=>
              \E n \in Listed' : mem'[n].clientreg # 0 /\ a = Shown(n)'
  BY DEF Registered, Shown

\* Nothing is registered or removed by a step that leaves every numbered entry
\* as its client made it.
LEMMA RegisteredKept ==
    ASSUME \A n \in Listed : mem[n].clientreg # 0 => n \in Listed' /\ SameClient(n),
           \A n \in Listed' : mem'[n].clientreg # 0 => n \in Listed /\ SameClient(n)
    PROVE  Registered' = Registered
  <1>1. \A n : SameClient(n) => Shown(n)' = Shown(n) /\ mem'[n].clientreg = mem[n].clientreg
    BY DEF SameClient, Shown
  <1>2. \A a : a \in Registered' <=> a \in Registered
    BY <1>1, RegisteredAre, RegisteredAreNext
  <1> QED BY <1>2

LEMMA ListKeepsRegistered == UNCHANGED list => Registered' = Registered
  <1> SUFFICES ASSUME UNCHANGED list PROVE Registered' = Registered
    OBVIOUS
  <1>1. Listed' = Listed /\ mem' = mem
    BY SameList DEF list
  <1> QED BY <1>1, RegisteredKept DEF SameClient

\* Unlinking a numbered entry removes that alarm and no other.
LEMMA UnlinkUnregisters ==
    ASSUME NEW n \in Listed, TypeOK, TypeOK', Sound, Unlink(n), mem[n].clientreg # 0
    PROVE  Shown(n) \in Registered /\ Registered' = Registered \ {Shown(n)}
  <1>1. Listed' = Listed \ {n} /\ \A m \in Nodes : SameClient(m)
    BY UnlinkRemoves DEF Sound
  <1>2. Listed \subseteq Nodes
    BY DEF Listed
  <1>3. \A m \in Listed : Shown(m)' = Shown(m) /\ mem'[m].clientreg = mem[m].clientreg
    BY <1>1, <1>2 DEF SameClient, Shown
  <1>4. \A m \in Listed : Shown(m) = Shown(n) => m = n
    <2>1. \A m \in Nodes : Shown(m).id = mem[m].clientreg
      BY DEF Shown
    <2> QED BY <1>2, <2>1 DEF Sound
  <1>5. Shown(n) \in Registered
    BY RegisteredAre
  <1>6. \A a : a \in Registered' <=> a \in Registered /\ a # Shown(n)
    BY <1>1, <1>3, <1>4, RegisteredAre, RegisteredAreNext
  <1> QED BY <1>5, <1>6

\* Changing one entry in place changes one alarm, or adds it.
LEMMA OneEntryChanges ==
    ASSUME NEW n \in Listed, Listed' = Listed, Sound,
           \A m \in Listed \ {n} : SameClient(m), mem'[n].clientreg # 0
    PROVE  Registered' = (IF mem[n].clientreg = 0 THEN Registered
                          ELSE Registered \ {Shown(n)}) \cup {Shown(n)'}
  <1>1. \A m \in Listed \ {n} :
           Shown(m)' = Shown(m) /\ mem'[m].clientreg = mem[m].clientreg
    BY DEF SameClient, Shown
  <1>2. \A m \in Listed : Shown(m) = Shown(n) => m = n
    <2>1. \A m \in Listed : Shown(m).id = mem[m].clientreg
      BY DEF Shown
    <2> QED BY <2>1 DEF Sound
  <1>3. \A a : a \in Registered' <=>
           a = Shown(n)' \/ \E m \in Listed \ {n} : mem[m].clientreg # 0 /\ a = Shown(m)
    BY <1>1, RegisteredAreNext
  <1>4. \A a : (\E m \in Listed \ {n} : mem[m].clientreg # 0 /\ a = Shown(m)) <=>
           a \in (IF mem[n].clientreg = 0 THEN Registered ELSE Registered \ {Shown(n)})
    BY <1>2, RegisteredAre
  <1> QED BY <1>3, <1>4

\* Only the context that fills an entry writes it, until contexts overlap.
LEMMA FreshStep ==
    ASSUME ThreadsAssumption, NodesAssumption, TypeOK, ListInv, FreshInv, [Next]_vars
    PROVE  FreshInv'
  <1> USE DEF list, clock, ghosts, Goto
  <1> SUFFICES ASSUME ~overlap' PROVE FreshInv'
    BY DEF FreshInv
  <1>0. /\ pc \in [Ctx -> Labels] /\ frame \in [Ctx -> Frame]
        /\ mem \in [Nodes -> Alarm] /\ NULL \notin Nodes
        /\ \A c \in Ctx : frame[c].ret \in {"idle", "callback"}
    BY DEF TypeOK, NodesAssumption, Frame
  <1>1. ASSUME NEW c \in Ctx, Touch(c), \A d \in Ctx \ {c} : pc'[d] = pc[d],
               pc'[c] \in {"linked", "numbered"} =>
                   /\ mem'[frame'[c].node].t_last = 0
                   /\ mem'[frame'[c].node].clientreg = 0
                   /\ pc'[c] = "numbered" => mem'[frame'[c].node].t \in Intervals
        PROVE  FreshInv'
    <2>1. \A d \in Ctx \ {c} : ~Inside(d)
      BY <1>1, OnlyOne
    <2> QED BY <1>1, <2>1 DEF FreshInv, Inside
  <1>2. ASSUME UNCHANGED <<mem, frame, overlap>>,
               \A d \in Ctx : pc'[d] \in {"linked", "numbered"} => pc'[d] = pc[d]
        PROVE  FreshInv'
    BY <1>2 DEF FreshInv
  <1>3. ASSUME NEW c \in Ctx, CtxStep(c) PROVE FreshInv'
    <2>1. CASE RegisterWalk(c)
      BY <1>0, <1>1, <2>1 DEF RegisterWalk
    <2>2. CASE RegisterLink(c)
      <3>1. PICK n \in Nodes \ (allocated \cup {frame[c].tail}) :
               /\ StoreAtTail(c, n, [mem EXCEPT ![n] = Zeroed])
               /\ frame' = [frame EXCEPT ![c].node = n]
        BY <2>2 DEF RegisterLink
      <3>2. mem'[n] = Zeroed
        BY <1>0, <3>1 DEF StoreAtTail
      <3>3. frame'[c].node = n /\ pc'[c] = "linked"
        BY <1>0, <2>2, <3>1 DEF RegisterLink, Frame
      <3>4. mem'[n].t_last = 0 /\ mem'[n].clientreg = 0
        BY <3>2 DEF Zeroed
      <3> QED BY <1>0, <1>1, <2>2, <3>3, <3>4 DEF RegisterLink
    <2>3. CASE RegisterNoMemory(c)
      BY <1>0, <1>1, <2>3 DEF RegisterNoMemory
    <2>4. CASE RegisterOnItself(c) \/ RegisterNowhere(c)
      BY <1>2, <2>4, OnlyOne DEF RegisterOnItself, RegisterNowhere, TypeOK, Touch
    <2>5. CASE RegisterNumber(c)
      <3> DEFINE node == frame[c].node
      <3>2. /\ Touch(c) /\ pc[c] = "linked" /\ pc' = [pc EXCEPT ![c] = "numbered"]
            /\ frame' = [frame EXCEPT ![c].reg = regnum]
        BY <2>5 DEF RegisterNumber
      <3>3. ~overlap /\ node \in Nodes /\ Target(c) = node
        BY <3>2, OnlyOne DEF ListInv, Place, Listed
      <3>1. PICK t \in Intervals, flags \in {0, SA_REPEAT} :
               mem' = [mem EXCEPT ![node] =
                         [@ EXCEPT !.t = t, !.flags = flags, !.thecallback = "client"]]
        BY <2>5, <3>3 DEF RegisterNumber
      <3>4. mem[node].t_last = 0 /\ mem[node].clientreg = 0
        BY <3>2, <3>3 DEF FreshInv
      <3>5. frame'[c].node = node
        BY <1>0, <3>2 DEF Frame
      <3>6. mem'[node].t_last = 0 /\ mem'[node].clientreg = 0 /\ mem'[node].t = t
        BY <1>0, <3>1, <3>3, <3>4 DEF Alarm
      <3> QED BY <1>0, <1>1, <3>2, <3>5, <3>6
    <2>6. CASE RegisterFill(c)
      BY <1>0, <1>1, <2>6 DEF RegisterFill, ArmIfStarted
    <2>7. CASE Unregister(c)
      BY <1>0, <1>1, <2>7 DEF Unregister, MayCall
    <2>8. CASE ScheduleNothing(c)
      BY <1>0, <1>1, <2>8 DEF ScheduleNothing
    <2>9. CASE ScheduleNext(c)
      BY <1>0, <1>1, <2>9 DEF ScheduleNext
    <2>10. CASE SetItimer(c)
      <3>1. pc'[c] \in {"idle", "callback"}
        BY <1>0, <2>10 DEF SetItimer
      <3>2. \A d \in Ctx \ {c} : pc'[d] = pc[d] /\ frame'[d] = frame[d]
        BY <1>0, <2>10 DEF SetItimer
      <3>3. ~overlap /\ mem' = mem
        BY <2>10 DEF SetItimer
      <3> QED BY <3>1, <3>2, <3>3 DEF FreshInv
    <2> QED BY <1>3, <2>1, <2>2, <2>3, <2>4, <2>5, <2>6, <2>7, <2>8, <2>9, <2>10
            DEF CtxStep
  <1>4. CASE InitAlarmPostConfig
    <2>1. App(Main) \in Ctx
      BY ThreadsAssumption DEF App, Ctx
    <2> QED BY <1>0, <1>1, <1>4, <2>1 DEF InitAlarmPostConfig
  <1>5. ASSUME NEW t \in Threads, HandlerStep(t) PROVE FreshInv'
    <2>0. Sig(t) \in Ctx
      BY DEF Sig, Ctx
    <2>1. CASE Deliver(t) \/ CallbackReturn(t)
      BY <1>0, <1>2, <2>0, <2>1 DEF Deliver, CallbackReturn
    <2>2. CASE RunDue(t) \/ RunDone(t) \/ Reschedule(t)
      <3>1. Touch(Sig(t)) /\ pc[Sig(t)] \in {"run", "reschedule"}
        BY <2>2 DEF RunDue, RunDone, Reschedule
      <3>2. \E l \in {"run", "callback", "schedule"} : pc' \in {pc, [pc EXCEPT ![Sig(t)] = l]}
        BY <2>2 DEF RunDue, RunDone, Reschedule
      <3> QED BY <1>0, <1>1, <2>0, <3>1, <3>2
    <2> QED BY <1>5, <2>1, <2>2 DEF HandlerStep
  <1>6. CASE Tick \/ UNCHANGED vars
    BY <1>2, <1>6 DEF Tick, vars
  <1> QED BY <1>3, <1>4, <1>5, <1>6 DEF Next

\* A handler keeps the alarm it called until it has rescheduled it, whatever
\* registrations the callback makes meanwhile.
LEMMA CallStep ==
    ASSUME ThreadsAssumption, TypeOK, ClockInv, CallInv, [Next]_vars
    PROVE  CallInv'
  <1> USE DEF list, clock, ghosts, Goto
  <1>0. /\ pc \in [Ctx -> Labels] /\ frame \in [Ctx -> Frame]
        /\ \A c \in Ctx : frame[c].ret \in {"idle", "callback"}
        /\ running \in [Threads -> [id : Nat, at : Nat]] /\ now >= 1
        /\ NoFrame.ret = "idle"
    BY DEF TypeOK, Frame, ClockInv, NoFrame
  <1>1. \A t, u \in Threads : Sig(t) \in Ctx /\ (Sig(t) = Sig(u) => t = u) /\ Sig(t)[2] = "sig"
    BY DEF Sig, Ctx
  <1>2. ASSUME NEW c \in Ctx, UNCHANGED running,
               \A d \in Ctx \ {c} : pc'[d] = pc[d] /\ frame'[d] = frame[d],
               \A t \in Threads : Sig(t) = c => Remembers(t)'
        PROVE  CallInv'
    BY <1>1, <1>2 DEF CallInv, Remembers, Calling
  <1>3. ASSUME NEW c \in Ctx, CtxStep(c) PROVE CallInv'
    <2>0. UNCHANGED running
      BY <1>3 DEF CtxStep, RegisterWalk, RegisterLink, RegisterNoMemory,
            RegisterOnItself, RegisterNowhere, RegisterNumber, RegisterFill, Unregister,
            ScheduleNothing, ScheduleNext, SetItimer
    <2>1. CASE RegisterWalk(c)
      <3>1. frame'[c].ret = pc[c] /\ \A d \in Ctx \ {c} : frame'[d] = frame[d]
        BY <1>0, <2>1 DEF RegisterWalk, NoFrame
      <3>2. c[2] = "sig" => pc[c] = "callback"
        BY <2>1 DEF RegisterWalk, MayCall, Ctx
      <3>3. pc' = [pc EXCEPT ![c] = "walked"]
        BY <2>1 DEF RegisterWalk
      <3>4. \A t \in Threads : Sig(t) = c => Remembers(t)'
        BY <1>0, <1>1, <2>0, <3>1, <3>2, <3>3 DEF CallInv, Remembers, Calling
      <3> QED BY <1>0, <1>2, <2>0, <3>1, <3>3, <3>4
    <2>2. CASE RegisterLink(c) \/ RegisterNumber(c)
      <3>1. \E l \in {"linked", "numbered"} : pc' = [pc EXCEPT ![c] = l]
        BY <2>2 DEF RegisterLink, RegisterNumber
      <3>2. frame'[c].ret = frame[c].ret /\ \A d \in Ctx \ {c} : frame'[d] = frame[d]
        BY <1>0, <2>2 DEF RegisterLink, RegisterNumber, Frame
      <3>3. pc[c] \in {"walked", "linked"}
        BY <2>2 DEF RegisterLink, RegisterNumber
      <3>4. \A t \in Threads : Sig(t) = c => Remembers(t)'
        BY <1>0, <1>1, <2>0, <3>1, <3>2, <3>3 DEF CallInv, Remembers, Calling
      <3> QED BY <1>0, <1>2, <2>0, <3>1, <3>2, <3>4
    \* The end of a call of the engine: back to where it was made.
    <2>3. ASSUME pc' = [pc EXCEPT ![c] = frame[c].ret], frame' = [frame EXCEPT ![c] = NoFrame],
                 pc[c] \in {"walked", "numbered", "schedule", "setitimer"}
          PROVE  CallInv'
      <3>1. \A t \in Threads : Sig(t) = c => Remembers(t)'
        BY <1>0, <1>1, <2>0, <2>3 DEF CallInv, Remembers, Calling
      <3> QED BY <1>0, <1>2, <2>0, <2>3, <3>1
    \* On to the next step of set_an_alarm.
    <2>4. ASSUME NEW l \in {"schedule", "setitimer"}, pc' = [pc EXCEPT ![c] = l],
                 frame'[c].ret = frame[c].ret, \A d \in Ctx \ {c} : frame'[d] = frame[d],
                 pc[c] \in {"numbered", "schedule"}
          PROVE  CallInv'
      <3>1. \A t \in Threads : Sig(t) = c => Remembers(t)'
        BY <1>0, <1>1, <2>0, <2>4 DEF CallInv, Remembers, Calling
      <3> QED BY <1>0, <1>2, <2>0, <2>4, <3>1
    <2>5. CASE RegisterNoMemory(c) \/ ScheduleNothing(c) \/ SetItimer(c)
      BY <2>3, <2>5 DEF RegisterNoMemory, ScheduleNothing, SetItimer
    <2>6. CASE RegisterFill(c)
      <3>1. CASE start_alarms
        <4>1. frame'[c].ret = frame[c].ret /\ \A d \in Ctx \ {c} : frame'[d] = frame[d]
          BY <1>0, <2>6, <3>1 DEF RegisterFill, ArmIfStarted, NoFrame
        <4> QED BY <2>4, <2>6, <3>1, <4>1 DEF RegisterFill, ArmIfStarted
      <3>2. CASE ~start_alarms
        BY <2>3, <2>6, <3>2 DEF RegisterFill, ArmIfStarted
      <3> QED BY <3>1, <3>2
    <2>7. CASE ScheduleNext(c)
      <3>1. frame'[c].ret = frame[c].ret /\ \A d \in Ctx \ {c} : frame'[d] = frame[d]
        BY <1>0, <2>7 DEF ScheduleNext, Frame
      <3> QED BY <2>4, <2>7, <3>1 DEF ScheduleNext
    <2>8. CASE RegisterOnItself(c) \/ RegisterNowhere(c) \/ Unregister(c)
      BY <2>0, <2>8
         DEF RegisterOnItself, RegisterNowhere, Unregister, CallInv, Remembers, Calling
    <2> QED BY <1>3, <2>1, <2>2, <2>5, <2>6, <2>7, <2>8 DEF CtxStep
  <1>4. CASE InitAlarmPostConfig
    <2>1. App(Main) \in Ctx /\ \A t \in Threads : Sig(t) # App(Main)
      BY ThreadsAssumption DEF App, Sig, Ctx
    <2> QED BY <1>0, <1>2, <1>4, <2>1 DEF InitAlarmPostConfig
  <1>5. ASSUME NEW t \in Threads, HandlerStep(t) PROVE CallInv'
    <2>0. UNCHANGED frame
      BY <1>5 DEF HandlerStep, Deliver, RunDue, RunDone, CallbackReturn, Reschedule
    <2>1. \A u \in Threads \ {t} : pc'[Sig(u)] = pc[Sig(u)] /\ running'[u] = running[u]
      BY <1>0, <1>1, <1>5
         DEF HandlerStep, Deliver, RunDue, RunDone, CallbackReturn, Reschedule
    <2>2. Remembers(t)'
      <3>0. Remembers(t) /\ Sig(t) \in Ctx
        BY <1>1 DEF CallInv
      <3>1. CASE Deliver(t) \/ RunDone(t) \/ CallbackReturn(t)
        BY <1>0, <2>0, <3>0, <3>1
           DEF Deliver, RunDone, CallbackReturn, Remembers, Calling
      <3>2. CASE RunDue(t)
        BY <1>0, <2>0, <3>0, <3>2 DEF RunDue, Remembers, Calling
      <3>3. CASE Reschedule(t)
        <4>1. running'[t] = Service!NoCall
          BY <1>0, <3>3 DEF Reschedule, Service!NoCall
        <4> QED BY <1>0, <2>0, <3>0, <3>3, <4>1 DEF Reschedule, Remembers, Calling
      <3> QED BY <1>5, <3>1, <3>2, <3>3 DEF HandlerStep
    <2> QED BY <2>0, <2>1, <2>2 DEF CallInv, Remembers, Calling
  <1>6. CASE Tick \/ UNCHANGED vars
    BY <1>6 DEF Tick, vars, CallInv, Remembers, Calling
  <1> QED BY <1>3, <1>4, <1>5, <1>6 DEF Next

\* Every step of timer.c is a step of AlarmService, or no step for a client.
LEMMA ServiceStep ==
    ASSUME ThreadsAssumption, TypeOK, TypeOK', ClockInv, OwnerInv, ListInv, ListInv',
           FreshInv, CallInv, [Next]_vars
    PROVE  [Service!Next]_(Service!vars)
  <1> USE DEF list, clock, ghosts, Goto
  <1> SUFFICES ASSUME ~overlap' PROVE [Service!Next]_(Service!vars)
    BY DEF Service!Next, Service!Overlap
  <1>0. /\ pc \in [Ctx -> Labels] /\ frame \in [Ctx -> Frame]
        /\ mem \in [Nodes -> Alarm] /\ Listed \subseteq Nodes
        /\ regnum \in Nat /\ now \in Nat /\ overlap \in BOOLEAN /\ overlap' \in BOOLEAN
        /\ running \in [Threads -> [id : Nat, at : Nat]] /\ ~crashed'
    BY DEF TypeOK, ListInv, Sound, Listed
  \* The steps of a context that is alone, and what was true before them.
  <1>1. ASSUME NEW c \in Ctx, Touch(c)
        PROVE  /\ ~overlap /\ (\A d \in Ctx \ {c} : ~Inside(d))
               /\ UNCHANGED overlap /\ Sound /\ Place(c)
               /\ pc[c] \notin {"linked", "numbered"} =>
                     \A n \in Nodes : mem[n].clientreg # 0
    <2>1. ~overlap /\ \A d \in Ctx \ {c} : ~Inside(d)
      BY <1>1, OnlyOne
    <2> QED BY <1>0, <2>1 DEF ListInv, Inside, OwnerInv
  <1>2. ASSUME UNCHANGED <<now, overlap, regnum, running>>, Registered' = Registered
        PROVE  UNCHANGED Service!vars
    BY <1>2 DEF Service!vars
  <1>3. ASSUME NEW c \in Ctx, Touch(c), UNCHANGED <<now, regnum, running>>,
               Registered' = Registered
        PROVE  UNCHANGED Service!vars
    BY <1>1, <1>2, <1>3
  <1>4. ASSUME NEW c \in Ctx, CtxStep(c) PROVE [Service!Next]_(Service!vars)
    <2>1. CASE RegisterWalk(c) \/ ScheduleNothing(c) \/ ScheduleNext(c)
      BY <1>3, <2>1, ListKeepsRegistered
         DEF RegisterWalk, ScheduleNothing, ScheduleNext
    <2>1a. CASE SetItimer(c)
      BY <1>2, <2>1a, ListKeepsRegistered DEF SetItimer
    <2>2. CASE RegisterLink(c)
      <3>1. PICK n \in Nodes \ (allocated \cup {frame[c].tail}) :
               StoreAtTail(c, n, [mem EXCEPT ![n] = Zeroed])
        BY <2>2 DEF RegisterLink
      <3>2. Touch(c) /\ pc[c] = "walked" /\ UNCHANGED <<now, regnum, running>>
        BY <2>2 DEF RegisterLink
      <3>3. Sound /\ Place(c) /\ n \in Nodes \ Listed
        BY <1>1, <3>1, <3>2 DEF Sound
      <3>4. /\ Listed' = Listed \cup {n} /\ mem'[n] = Zeroed
            /\ \A m \in Nodes \ {n} : SameClient(m)
        BY <3>1, <3>2, <3>3, LinkAppends DEF Place, Sound
      <3>5. mem'[n].clientreg = 0
        BY <3>4 DEF Zeroed
      <3>6. Registered' = Registered
        BY <1>0, <3>3, <3>4, <3>5, RegisteredKept
      <3> QED BY <1>3, <3>2, <3>6
    <2>3. CASE RegisterNoMemory(c)
      <3>1. /\ Touch(c) /\ pc[c] = "walked" /\ StoreAtTail(c, NULL, mem)
            /\ UNCHANGED <<allocated, now, regnum, running>>
        BY <2>3 DEF RegisterNoMemory
      <3>2. UNCHANGED list
        BY <1>1, <3>1, NoMemoryKeepsList
      <3> QED BY <1>3, <3>1, <3>2, ListKeepsRegistered
    <2>4. CASE RegisterOnItself(c) \/ RegisterNowhere(c)
      BY <1>0, <2>4 DEF RegisterOnItself, RegisterNowhere
    <2>5. CASE RegisterNumber(c)
      <3> DEFINE node == frame[c].node
      <3>0. Target(c) = node
        BY <1>1, <2>5 DEF RegisterNumber, Place
      <3>1. PICK t \in Intervals, flags \in {0, SA_REPEAT} :
               mem' = [mem EXCEPT ![node] =
                         [@ EXCEPT !.t = t, !.flags = flags, !.thecallback = "client"]]
        BY <2>5, <3>0 DEF RegisterNumber
      <3>2. /\ Touch(c) /\ pc[c] = "linked"
            /\ UNCHANGED <<now, regnum, running, thealarms, allocated>>
        BY <2>5 DEF RegisterNumber
      <3>3. node \in Nodes /\ mem[node].clientreg = 0
        BY <1>0, <1>1, <3>2 DEF Place, FreshInv
      <3> HIDE DEF node
      <3>4. /\ \A m \in Nodes : mem'[m].next = mem[m].next
            /\ mem'[node].clientreg = 0
            /\ \A m \in Nodes \ {node} : mem'[m] = mem[m]
        BY <1>0, <3>1, <3>3 DEF Alarm
      <3>5. Listed' = Listed
        BY <3>2, <3>4, ListKept
      <3>6. Registered' = Registered
        BY <1>0, <3>3, <3>4, <3>5, RegisteredKept DEF SameClient
      <3> QED BY <1>3, <3>2, <3>6
    <2>6. CASE RegisterFill(c)
      <3>0. PICK node : node = frame[c].node
        OBVIOUS
      <3>0a. Target(c) = node
        BY <1>1, <2>6, <3>0 DEF RegisterFill, Place
      <3> DEFINE filled == [mem[node] EXCEPT !.clientreg = frame[c].reg, !.next = NULL]
      <3>1. /\ Touch(c) /\ pc[c] = "numbered"
            /\ UNCHANGED <<now, running, thealarms, allocated>>
            /\ regnum' = frame[c].reg + 1
            /\ mem' = [mem EXCEPT ![node] = sa_update_entry(filled)]
        BY <1>0, <2>6, <3>0a DEF RegisterFill, ArmIfStarted
      <3>2. /\ Sound /\ frame[c].reg = regnum /\ UNCHANGED overlap
            /\ node \in Listed /\ node \in Nodes /\ mem[node].next = NULL
            /\ mem[node].t_last = 0 /\ mem[node].clientreg = 0
            /\ mem[node].t \in Intervals
        BY <1>0, <1>1, <3>0, <3>1 DEF Place, FreshInv
      <3>3. /\ filled \in Alarm /\ filled.clientreg = regnum /\ filled.next = NULL
            /\ filled.t_last = 0 /\ filled.t = mem[node].t
            /\ filled.flags = mem[node].flags
        <4>1. mem[node] \in Alarm /\ NULL \in Refs /\ regnum \in Nat
          BY <1>0, <3>2 DEF Refs
        <4> QED BY <3>2, <4>1 DEF Alarm
      <3> HIDE DEF filled
      <3>4. /\ sa_update_entry(filled).clientreg = regnum
            /\ sa_update_entry(filled).next = NULL
            /\ sa_update_entry(filled).t = mem[node].t
            /\ sa_update_entry(filled).flags = mem[node].flags
            /\ sa_update_entry(filled).t_next = now + mem[node].t
        BY <1>0, <3>3, UpdateEntry, DueTimes
      <3>5. /\ mem'[node] = sa_update_entry(filled)
            /\ \A m \in Nodes \ {node} : mem'[m] = mem[m]
            /\ \A m \in Nodes : mem'[m].next = mem[m].next
        BY <1>0, <3>1, <3>2, <3>4
      <3>6. Listed' = Listed
        BY <3>1, <3>5, ListKept
      <3>6a. regnum >= 1
        BY <1>0, <3>2 DEF Sound, Alarm
      <3>6b. /\ mem'[node].clientreg = regnum /\ regnum # 0
             /\ \A m \in Listed \ {node} : SameClient(m)
        BY <1>0, <3>4, <3>5, <3>6a DEF SameClient
      <3>7. Registered' = Registered \cup {Shown(node)'}
        <4>1. Sound /\ node \in Listed /\ mem[node].clientreg = 0 /\ mem'[node].clientreg # 0
          BY <3>2, <3>6b
        <4> QED BY Zenon, <3>6, <3>6b, <4>1, OneEntryChanges
      <3>8. Shown(node)' = [id |-> (regnum - 1) + 1, period |-> mem[node].t,
                            repeat |-> (mem[node].flags = SA_REPEAT),
                            due |-> now + mem[node].t]
        <4>1. regnum = (regnum - 1) + 1
          BY <1>0
        <4>2. /\ mem'[node].clientreg = regnum /\ mem'[node].t = mem[node].t
              /\ mem'[node].flags = mem[node].flags
              /\ mem'[node].t_next = now + mem[node].t
          BY <3>4, <3>5
        <4>3. Shown(node)' = [id |-> regnum, period |-> mem[node].t,
                              repeat |-> (mem[node].flags = SA_REPEAT),
                              due |-> now + mem[node].t]
          BY Zenon, <4>2 DEF Shown
        <4> QED BY <4>1, <4>3
      <3>9. regnum' - 1 = (regnum - 1) + 1
        BY <1>0, <3>1, <3>2
      <3>10. Service!Register
        BY <3>1, <3>2, <3>7, <3>8, <3>9 DEF Service!Register
      <3> QED BY <3>10 DEF Service!Next
    <2>7. CASE Unregister(c)
      <3>1. PICK n \in Listed : Unlink(n)
        BY <2>7 DEF Unregister, sa_find_specific
      <3>2. /\ Touch(c) /\ pc[c] \in {"idle", "callback"}
            /\ UNCHANGED <<now, regnum, running>>
        BY <2>7 DEF Unregister, MayCall
      <3>3. Sound /\ UNCHANGED overlap /\ mem[n].clientreg # 0
        BY <1>0, <1>1, <3>2
      <3>4. Shown(n) \in Registered /\ Registered' = Registered \ {Shown(n)}
        BY <3>1, <3>3, UnlinkUnregisters
      <3>5. Service!Unregister
        BY <3>2, <3>3, <3>4 DEF Service!Unregister
      <3> QED BY <3>5 DEF Service!Next
    <2> QED BY <1>4, <2>1, <2>1a, <2>2, <2>3, <2>4, <2>5, <2>6, <2>7 DEF CtxStep
  <1>5. CASE InitAlarmPostConfig
    <2>1. App(Main) \in Ctx
      BY ThreadsAssumption DEF App, Ctx
    <2> QED BY <1>3, <1>5, <2>1, ListKeepsRegistered DEF InitAlarmPostConfig
  <1>6. ASSUME NEW t \in Threads, HandlerStep(t) PROVE [Service!Next]_(Service!vars)
    <2>0. Sig(t) \in Ctx
      BY DEF Sig, Ctx
    <2>1. CASE Deliver(t) \/ CallbackReturn(t)
      BY <1>2, <2>1, ListKeepsRegistered DEF Deliver, CallbackReturn
    <2>2. CASE RunDone(t)
      BY <1>3, <2>0, <2>2, ListKeepsRegistered DEF RunDone
    <2>3. CASE RunDue(t)
      <3>1. /\ Touch(Sig(t)) /\ pc[Sig(t)] = "run" /\ UNCHANGED list
            /\ UNCHANGED <<now, regnum>>
        BY <2>3 DEF RunDue
      <3>2. PICK n \in Nodes :
               /\ sa_find_next(n) /\ mem[n].t_next < now
               /\ running' = [running EXCEPT ![t] = [id |-> mem[n].clientreg, at |-> now]]
        BY <1>0, <2>3 DEF RunDue
      <3>3. UNCHANGED overlap /\ \A m \in Nodes : mem[m].clientreg # 0
        BY <1>1, <2>0, <3>1
      <3>4. n \in Listed /\ Shown(n) \in Registered
        BY <3>2, <3>3, RegisteredAre DEF sa_find_next
      <3>5. Shown(n).id = mem[n].clientreg /\ Shown(n).due < now
        BY <3>2 DEF Shown
      <3>6. \A b \in Registered : Shown(n).due <= b.due
        <4>1. ASSUME NEW m \in Listed PROVE Shown(n).due <= Shown(m).due
          <5>1. mem[m].t_next \in Nat /\ mem[n].t_next \in Nat
            BY <1>0 DEF Alarm
          <5>2. m = n \/ mem[n].t_next <= mem[m].t_next
            BY <3>2, <5>1 DEF sa_find_next
          <5> QED BY <5>1, <5>2 DEF Shown
        <4> QED BY <4>1, RegisteredAre
      <3>7. running[t] = Service!NoCall
        BY <3>1 DEF CallInv, Remembers, Calling
      <3>8. Registered' = Registered
        BY <3>1, ListKeepsRegistered
      <3>9. Service!Call(t)
        BY <3>1, <3>2, <3>3, <3>4, <3>5, <3>6, <3>7, <3>8 DEF Service!Call
      <3> QED BY <3>9 DEF Service!Next
    <2>4. CASE Reschedule(t)
      <3>1. /\ Touch(Sig(t)) /\ pc[Sig(t)] = "reschedule"
            /\ UNCHANGED <<now, regnum>>
            /\ running' = [running EXCEPT ![t] = Service!NoCall]
        BY <2>4 DEF Reschedule, Service!NoCall
      <3>2. UNCHANGED overlap /\ Sound /\ \A m \in Nodes : mem[m].clientreg # 0
        BY <1>1, <2>0, <3>1
      <3>3. running[t].at >= 1 /\ running[t].at \in Nat /\ running[t].id \in Nat
        BY <1>0, <3>1 DEF CallInv, Remembers, Calling
      <3>4. running[t] # Service!NoCall
        BY <3>3 DEF Service!NoCall
      <3>5. ASSUME \/ running[t].id \notin Service!Handles /\ Registered' = Registered
                   \/ \E a \in Registered :
                         /\ a.id = running[t].id
                         /\ Registered' = (Registered \ {a}) \cup
                               {b \in {[a EXCEPT !.due = running[t].at + a.period]} : a.repeat}
            PROVE  [Service!Next]_(Service!vars)
        <4>1. Service!Return(t)
          BY <3>1, <3>2, <3>4, <3>5 DEF Service!Return
        <4> QED BY <4>1 DEF Service!Next
      <3>6. CASE UNCHANGED list /\ \A n \in Listed : mem[n].clientreg # running[t].id
        <4>1. running[t].id \notin Service!Handles
          BY <3>6, RegisteredAre DEF Service!Handles, Shown
        <4> QED BY <3>5, <3>6, <4>1, ListKeepsRegistered
      <3>7. ASSUME NEW n \in Nodes, sa_find_specific(n, running[t].id),
                   mem[n].flags = SA_REPEAT,
                   mem' = [mem EXCEPT ![n] = sa_update_entry(
                              [@ EXCEPT !.t_last = running[t].at, !.t_next = 0])],
                   UNCHANGED <<thealarms, allocated>>
            PROVE  [Service!Next]_(Service!vars)
        <4> DEFINE called == [mem[n] EXCEPT !.t_last = running[t].at, !.t_next = 0]
        <4>1. mem[n] \in Alarm
          BY <1>0
        <4>2. /\ called \in Alarm /\ called.clientreg = mem[n].clientreg
              /\ called.next = mem[n].next /\ called.t = mem[n].t
              /\ called.flags = mem[n].flags
              /\ called.t_last = running[t].at /\ called.t_next = 0
          BY <3>3, <4>1 DEF Alarm
        <4>3. mem' = [mem EXCEPT ![n] = sa_update_entry(called)]
          BY <3>7
        <4> HIDE DEF called
        <4>4. /\ sa_update_entry(called).clientreg = mem[n].clientreg
              /\ sa_update_entry(called).next = mem[n].next
              /\ sa_update_entry(called).t = mem[n].t
              /\ sa_update_entry(called).flags = mem[n].flags
          BY <1>0, <4>2, UpdateEntry
        <4>4a. sa_update_entry(called).t_next = running[t].at + mem[n].t
          BY <1>0, <3>3, <4>2, DueTimes
        <4>5. /\ mem'[n] = sa_update_entry(called)
              /\ \A m \in Nodes \ {n} : mem'[m] = mem[m]
              /\ \A m \in Nodes : mem'[m].next = mem[m].next
          BY <1>0, <4>3, <4>4
        <4>6. Listed' = Listed /\ n \in Listed
          BY <3>7, <4>5, ListKept DEF sa_find_specific
        <4>6a. /\ mem'[n].clientreg # 0 /\ mem[n].clientreg # 0
               /\ \A m \in Listed \ {n} : SameClient(m)
          BY <1>0, <3>2, <4>4, <4>5 DEF SameClient
        <4>7. Registered' = (Registered \ {Shown(n)}) \cup {Shown(n)'}
          BY <3>2, <4>6, <4>6a, OneEntryChanges
        <4>8. Shown(n)' = [Shown(n) EXCEPT !.due = running[t].at + Shown(n).period]
          <5>1. /\ mem'[n].clientreg = mem[n].clientreg /\ mem'[n].t = mem[n].t
                /\ mem'[n].flags = mem[n].flags
                /\ mem'[n].t_next = running[t].at + mem[n].t
            BY <4>4, <4>4a, <4>5
          <5>2. Shown(n)' = [id |-> mem[n].clientreg, period |-> mem[n].t,
                             repeat |-> (mem[n].flags = SA_REPEAT),
                             due |-> running[t].at + mem[n].t]
            BY Zenon, <5>1 DEF Shown
          <5> QED BY <5>2 DEF Shown
        <4>8a. Shown(n).repeat /\ Shown(n).id = running[t].id
          BY <3>7 DEF Shown, sa_find_specific
        <4>9. Shown(n) \in Registered
          BY <3>2, <4>6, RegisteredAre
        <4> QED BY <3>5, <4>7, <4>8, <4>8a, <4>9
      <3>8. ASSUME NEW n \in Nodes, sa_find_specific(n, running[t].id),
                   mem[n].flags # SA_REPEAT, Unlink(n)
            PROVE  [Service!Next]_(Service!vars)
        <4>1. n \in Listed /\ mem[n].clientreg = running[t].id
          BY <3>8 DEF sa_find_specific
        <4>2. Shown(n) \in Registered /\ Registered' = Registered \ {Shown(n)}
          BY <3>2, <3>8, <4>1, UnlinkUnregisters
        <4>3. ~Shown(n).repeat /\ Shown(n).id = running[t].id
          BY <3>8, <4>1 DEF Shown
        <4> QED BY <3>5, <4>2, <4>3
      <3> QED BY <2>4, <3>6, <3>7, <3>8 DEF Reschedule
    <2> QED BY <1>6, <2>1, <2>2, <2>3, <2>4 DEF HandlerStep
  <1>7. CASE Tick
    <2>1. UNCHANGED <<list, overlap, regnum, running>> /\ now' = now + 1
      BY <1>7 DEF Tick
    <2>2. Service!Pass
      BY <2>1, ListKeepsRegistered DEF Service!Pass
    <2> QED BY <2>2 DEF Service!Next
  <1>8. CASE UNCHANGED vars
    BY <1>2, <1>8, ListKeepsRegistered DEF vars
  <1> QED BY <1>4, <1>5, <1>6, <1>7, <1>8 DEF Next

\* The alarm engine is what AlarmService promises: until contexts overlap, a
\* handle is new, removes its own alarm only, and what is called is registered,
\* overdue and the first that is due.
THEOREM ImplementsEngine == Spec => EngineSpec
  <1> USE ThreadsAssumption, NodesAssumption, IntervalAssumption
  <1>1. Init => Service!Init /\ FreshInv /\ CallInv
    <2> SUFFICES ASSUME Init PROVE Service!Init /\ FreshInv /\ CallInv
      OBVIOUS
    <2>1. FreshInv /\ CallInv
      BY DEF Init, FreshInv, CallInv, Remembers, Calling, NoFrame, Service!NoCall, Sig, Ctx
    <2>2. Registered = {}
      <3>1. {} \in SUBSET Nodes /\ WalkStays({})
        BY DEF Init, WalkStays
      <3>2. Listed = {}
        BY <3>1 DEF Listed
      <3> QED BY <3>2, RegisteredAre
    <2> QED BY <2>1, <2>2 DEF Init, Service!Init, Service!NoCall
  <1>2. IInv /\ FreshInv /\ CallInv /\ [Next]_vars => FreshInv' /\ CallInv'
    BY FreshStep, CallStep DEF IInv
  <1>3. IInv /\ IInv' /\ FreshInv /\ CallInv /\ [Next]_vars => [Service!Next]_(Service!vars)
    BY ServiceStep DEF IInv
  <1> QED BY <1>1, <1>2, <1>3, Inductive, PTL DEF Spec, EngineSpec, Service!Spec

\* Once an alarm is unregistered, by its client or because it was a single one,
\* its handle names no alarm ever again: a handle that a client kept too long, as
\* im_stop_flow_count may, unregisters nothing.
THEOREM HandlesAreNotReused ==
    Spec => [][~overlap' => \A k \in 1 .. regnum - 1 :
                                k \in Service!Handles' => k \in Service!Handles]_vars
  <1> USE ThreadsAssumption, NodesAssumption, IntervalAssumption
  <1>1. Init => FreshInv /\ CallInv
    BY DEF Init, FreshInv, CallInv, Remembers, Calling, NoFrame, Service!NoCall, Sig, Ctx
  <1>2. IInv /\ FreshInv /\ CallInv /\ [Next]_vars => FreshInv' /\ CallInv'
    BY FreshStep, CallStep DEF IInv
  <1>3. ASSUME IInv, IInv', FreshInv, CallInv, [Next]_vars, ~overlap',
               NEW k \in 1 .. regnum - 1, k \in Service!Handles'
        PROVE  k \in Service!Handles
    <2>1. [Service!Next]_(Service!vars)
      BY <1>3, ServiceStep DEF IInv
    <2>2. PICK a \in Registered' : k = a.id
      BY <1>3 DEF Service!Handles
    <2>3. CASE a \in Registered
      BY <2>2, <2>3 DEF Service!Handles
    <2>4. CASE a \notin Registered
      \* A new alarm has a new handle; one that was called keeps its own.
      <3>1. CASE Service!Register
        <4>1. a.id = regnum - 1 + 1
          BY <2>2, <2>4, <3>1 DEF Service!Register
        <4> QED BY <1>3, <2>2, <4>1 DEF IInv, TypeOK
      <3>2. ASSUME NEW t \in Threads, Service!Return(t) PROVE k \in Service!Handles
        <4>1. PICK b \in Registered : \E at : a = [b EXCEPT !.due = at]
          BY <2>2, <2>4, <3>2 DEF Service!Return
        <4>2. b.id = k
          BY <2>2, <4>1, RegisteredAre DEF Shown
        <4> QED BY <4>2 DEF Service!Handles
      <3>3. Registered' # Registered
        BY <2>2, <2>4
      <3>4. CASE Service!Unregister
        BY <2>2, <2>4, <3>4 DEF Service!Unregister
      <3> QED
        BY <1>3, <2>1, <3>1, <3>2, <3>3, <3>4
        DEF Service!Next, Service!vars, Service!Overlap, Service!Call, Service!Pass
    <2> QED BY <2>3, <2>4
  <1>4. IInv /\ IInv' /\ FreshInv /\ CallInv /\ [Next]_vars =>
           [~overlap' => \A k \in 1 .. regnum - 1 :
                             k \in Service!Handles' => k \in Service!Handles]_vars
    BY <1>3
  <1> QED BY <1>1, <1>2, <1>4, Inductive, PTL DEF Spec
=============================================================================
