------------------------------ MODULE AlarmClock ------------------------------
(***************************************************************************)
(* The alarm engine of timer.c: a linked list of alarms, the process's     *)
(* ITIMER_REAL, and the SIGALRM handler that runs the due callbacks and     *)
(* re-arms the timer.  No lock and no signal mask protects the list: a      *)
(* handler preempts whatever its host thread was doing, and other threads   *)
(* go on while it runs.  So the code is cut into the steps between which a  *)
(* handler or another thread can come in.                                   *)
(*                                                                         *)
(* A context is a thread's own code ("app") or the handler it hosts        *)
(* ("sig").  One unit of time is the resolution of gettimeofday.           *)
(***************************************************************************)
EXTENDS Integers, FiniteSets

CONSTANTS
    Threads,    \* the threads of the process that may host SIGALRM
    Main,       \* the thread that calls init_alarm_post_config
    Nodes,      \* heap blocks that calloc can hand out
    NULL,       \* the null pointer
    Intervals,  \* the periods alarms are registered with
    MaxReg,     \* bound: registrations in a behaviour
    MaxTime     \* bound: the clock

ASSUME ThreadsAssumption  == Main \in Threads
ASSUME NodesAssumption    == IsFiniteSet(Nodes) /\ NULL \notin Nodes
ASSUME IntervalAssumption == Intervals \subseteq Nat \ {0} /\ Intervals # {}
ASSUME BoundsAssumption   == MaxReg \in Nat /\ MaxTime \in Nat \ {0}

VARIABLES
    thealarms,    \* head of the list
    mem,          \* contents of every heap block
    allocated,    \* blocks handed out and not freed
    regnum,       \* next client registration number
    start_alarms, \* init_alarm_post_config has run
    now,          \* gettimeofday
    itimer,       \* when ITIMER_REAL expires; 0 = disarmed
    pending,      \* SIGALRM is pending on the process
    pc,           \* where each context is
    frame,        \* locals of register / set_an_alarm, per context
    running,      \* locals of run_alarms, per thread: the alarm being called
    crashed,      \* the process died of a wild call or a null pointer
    disarmed,     \* history: the last set_an_alarm armed nothing: it computed a zero
                  \*   delay, or found an entry that never gets its number
    overlap,      \* history: a context used the list inside another's update
    missed,       \* history: per context that holds a delay, the alarms that others
                  \*   registered or gave a new due time after it read the list
    armed         \* history: of the last setitimer, its read of the clock, how long
                  \*   after that read it took effect, and what it had missed

list   == <<thealarms, mem, allocated>>
clock  == <<now, itimer, pending>>
ghosts == <<disarmed, overlap, missed, armed>>
vars == <<thealarms, mem, allocated, regnum, start_alarms, now, itimer, pending,
          pc, frame, running, crashed, disarmed, overlap, missed, armed>>

Ctx    == Threads \X {"app", "sig"}
App(t) == <<t, "app">>
Sig(t) == <<t, "sig">>
Refs   == Nodes \cup {NULL}

\* "walked", "linked", "numbered": inside snmp_alarm_register;
\* "schedule", "setitimer": inside set_an_alarm;
\* "run", "reschedule": inside run_alarms; "callback": in a client's callback.
Labels == {"idle", "walked", "linked", "numbered", "schedule", "setitimer",
           "run", "callback", "reschedule"}

SA_REPEAT == 1

Alarm == [next : Refs, t : Nat, flags : {0, SA_REPEAT}, clientreg : Nat,
          t_last : Nat, t_next : Nat, thecallback : {"null", "client"}]
Frame == [tail : Refs, node : Refs, reg : Nat, delta : Nat, at : Nat,
          ret : {"idle", "callback"}]

\* What calloc returns.
Zeroed  == [next |-> NULL, t |-> 0, flags |-> 0, clientreg |-> 0,
            t_last |-> 0, t_next |-> 0, thecallback |-> "null"]
\* Memory that calloc has not handed out yet, which nothing reads.
Unused  == [Zeroed EXCEPT !.clientreg = 1]
NoFrame == [tail |-> NULL, node |-> NULL, reg |-> 0, delta |-> 0, at |-> 0,
            ret |-> "idle"]

-----------------------------------------------------------------------------
(* Walking the list                                                        *)

Later(a, b) == IF a > b THEN a ELSE b

\* A walk from the head never leaves the blocks of S.
WalkStays(S) ==
    /\ thealarms \in S \cup {NULL}
    /\ \A n \in S : mem[n].next \in S \cup {NULL}

\* The blocks a walk from the head meets.
Listed == {n \in Nodes : \A S \in SUBSET Nodes : WalkStays(S) => n \in S}

\* A walk from the head meets m before n: it can stop at m without meeting n.
Before(m, n) ==
    \E S \in SUBSET (Nodes \ {n}) :
        /\ m \in S /\ thealarms \in S
        /\ \A k \in S \ {m} : mem[k].next \in S

\* n is the last entry, where snmp_alarm_register's walk stops.
IsLast(n) == n \in Listed /\ mem[n].next = NULL

\* Mutant: the first entry of the list is taken for the one due first.
FindHead(n) == n \in Listed /\ n = thealarms

\* n is what sa_find_next returns: the first entry with the lowest due time.
sa_find_next(n) ==
    /\ n \in Listed
    /\ \A m \in Listed \ {n} :
          \/ mem[n].t_next < mem[m].t_next
          \/ mem[n].t_next = mem[m].t_next /\ Before(n, m)

\* n is what sa_find_specific(id) returns: the first entry numbered id.
sa_find_specific(n, id) ==
    /\ n \in Listed /\ mem[n].clientreg = id
    /\ \A m \in Listed \ {n} : mem[m].clientreg = id => Before(n, m)

\* Mutant: the due time is computed for a new entry only.
UpdateOnlyNew(a) ==
    IF a.t_last = 0 THEN [a EXCEPT !.t_last = now, !.t_next = now + a.t] ELSE a

\* A repeating or new alarm's due times after sa_update_entry: a new entry is
\* due t from now, one that was just called t after that call.
sa_update_entry(a) ==
    IF a.t_last = 0 THEN [a EXCEPT !.t_last = now, !.t_next = now + a.t]
    ELSE IF a.t_next = 0 THEN [a EXCEPT !.t_next = a.t_last + a.t]
    ELSE a

\* Mutant: the head pointer keeps pointing to a removed head.
UnlinkKeepsHead(n) ==
    /\ mem' = [m \in Nodes |->
                 IF m \in Listed /\ mem[m].next = n
                 THEN [mem[m] EXCEPT !.next = mem[n].next] ELSE mem[m]]
    /\ allocated' = allocated \ {n}
    /\ UNCHANGED thealarms

\* Take n out of the list and free it.
Unlink(n) ==
    /\ thealarms' = IF thealarms = n THEN mem[n].next ELSE thealarms
    /\ mem' = [m \in Nodes |->
                 IF m \in Listed /\ mem[m].next = n
                 THEN [mem[m] EXCEPT !.next = mem[n].next] ELSE mem[m]]
    /\ allocated' = allocated \ {n}

-----------------------------------------------------------------------------
(* Contexts                                                                *)

\* A handler preempts the thread that hosts it.
CanStep(c) == ~crashed /\ (c[2] = "app" => pc[Sig(c[1])] = "idle")

\* d is in the middle of a registration, with a pointer into the list or a number.
Inside(d) == pc[d] \in {"walked", "linked", "numbered"}

Touch(c) == overlap' = (overlap \/ \E d \in Ctx \ {c} : Inside(d))

\* Whoever holds a delay, other than c, does not know of what c does to n.
Misses(c, n) ==
    missed' = [d \in Ctx |-> IF d # c /\ pc[d] = "setitimer"
                             THEN missed[d] \cup {n} ELSE missed[d]]

Goto(c, l) == pc' = [pc EXCEPT ![c] = l]

\* A context may call the engine from its own code or from a callback.
MayCall(c) ==
    /\ CanStep(c)
    /\ pc[c] = (IF c[2] = "app" THEN "idle" ELSE "callback")

-----------------------------------------------------------------------------
(* snmp_alarm_register                                                     *)

\* Find the end of the list.
RegisterWalk(c) ==
    /\ MayCall(c)
    /\ regnum <= MaxReg
    /\ c = App(Main) => start_alarms
    /\ \E last \in Refs :
          /\ IF thealarms = NULL THEN last = NULL ELSE IsLast(last)
          /\ frame' = [frame EXCEPT ![c] = [NoFrame EXCEPT !.tail = last,
                                                           !.ret = pc[c]]]
    /\ Goto(c, "walked")
    /\ Touch(c)
    /\ UNCHANGED <<list, clock, regnum, start_alarms, running, crashed, disarmed, missed, armed>>

\* The pointer the walk ended on takes the new block, whatever it holds by now.
StoreAtTail(c, r, m) ==
    IF frame[c].tail = NULL
    THEN thealarms' = r /\ mem' = m
    ELSE thealarms' = thealarms /\ mem' = [m EXCEPT ![frame[c].tail].next = r]

RegisterLink(c) ==
    /\ CanStep(c) /\ pc[c] = "walked"
    /\ \E n \in Nodes \ (allocated \cup {frame[c].tail}) :
          /\ StoreAtTail(c, n, [mem EXCEPT ![n] = Zeroed])
          /\ allocated' = allocated \cup {n}
          /\ frame' = [frame EXCEPT ![c].node = n]
          /\ Misses(c, n)
    /\ Goto(c, "linked")
    /\ Touch(c)
    /\ UNCHANGED <<clock, regnum, start_alarms, running, crashed, disarmed, armed>>

\* No memory: the null pointer is stored and 0 returned.
RegisterNoMemory(c) ==
    /\ CanStep(c) /\ pc[c] = "walked"
    /\ allocated = Nodes
    /\ StoreAtTail(c, NULL, mem)
    /\ Goto(c, frame[c].ret)
    /\ frame' = [frame EXCEPT ![c] = NoFrame]
    /\ Touch(c)
    /\ UNCHANGED <<allocated, clock, regnum, start_alarms, running, crashed,
                   disarmed, missed, armed>>

\* The block at the tail was freed meanwhile and is the one calloc returns: it
\* is linked to itself, and clearing its next leaves a null pointer to fill.
RegisterOnItself(c) ==
    /\ CanStep(c) /\ pc[c] = "walked"
    /\ frame[c].tail \in Nodes \ allocated
    /\ crashed' = TRUE
    /\ Touch(c)
    /\ UNCHANGED <<list, clock, regnum, start_alarms, pc, frame, running, disarmed, missed, armed>>

\* *sa_pptr, which the code reads anew for every field: the new block, unless
\* another context has changed the pointer meanwhile.
Target(c) == IF frame[c].tail = NULL THEN thealarms ELSE mem[frame[c].tail].next

\* A null pointer is filled: there is no entry any more, or it was its own next.
RegisterNowhere(c) ==
    /\ CanStep(c)
    /\ \/ pc[c] = "linked" /\ Target(c) = NULL
       \/ pc[c] = "numbered" /\ Target(c) \in {NULL, frame[c].tail}
    /\ crashed' = TRUE
    /\ Touch(c)
    /\ UNCHANGED <<list, clock, regnum, start_alarms, pc, frame, running, disarmed, missed, armed>>

\* Period, flags and callback are stored; regnum is read.
RegisterNumber(c) ==
    /\ CanStep(c) /\ pc[c] = "linked" /\ Target(c) # NULL
    /\ \E t \in Intervals, flags \in {0, SA_REPEAT} :
          mem' = [mem EXCEPT ![Target(c)] =
                    [@ EXCEPT !.t = t, !.flags = flags, !.thecallback = "client"]]
    /\ frame' = [frame EXCEPT ![c].reg = regnum]
    /\ Goto(c, "numbered")
    /\ Touch(c)
    /\ UNCHANGED <<thealarms, allocated, clock, regnum, start_alarms, running,
                   crashed, disarmed, missed, armed>>

\* Mutant: a registration leaves the timer as it was.
ReturnUnarmed(c) ==
    Goto(c, frame[c].ret) /\ frame' = [frame EXCEPT ![c] = NoFrame]

\* Once the engine has been started, a registration ends with set_an_alarm.
ArmIfStarted(c) ==
    IF start_alarms
    THEN /\ Goto(c, "schedule")
         /\ frame' = [frame EXCEPT ![c] = [NoFrame EXCEPT !.ret = frame[c].ret]]
    ELSE Goto(c, frame[c].ret) /\ frame' = [frame EXCEPT ![c] = NoFrame]

\* regnum and clientreg are written, next is cleared, the entry gets its due time.
RegisterFill(c) ==
    /\ CanStep(c) /\ pc[c] = "numbered" /\ Target(c) \notin {NULL, frame[c].tail}
    /\ regnum' = frame[c].reg + 1
    /\ mem' = [mem EXCEPT ![Target(c)] =
                 sa_update_entry([@ EXCEPT !.clientreg = frame[c].reg,
                                           !.next = NULL])]
    /\ ArmIfStarted(c)
    /\ Touch(c)
    /\ UNCHANGED <<thealarms, allocated, clock, start_alarms, running, crashed,
                   disarmed, missed, armed>>

-----------------------------------------------------------------------------
(* snmp_alarm_unregister, one step: of its callers none is interrupted for  *)
(* longer than the few instructions between its walk and its store.         *)

Unregister(c) ==
    /\ MayCall(c)
    /\ \E id \in 1 .. MaxReg, n \in Nodes : sa_find_specific(n, id) /\ Unlink(n)
    /\ Touch(c)
    /\ UNCHANGED <<clock, regnum, start_alarms, pc, frame, running, crashed,
                   disarmed, missed, armed>>

-----------------------------------------------------------------------------
(* set_an_alarm                                                            *)

\* Mutant: no test for an entry whose time has passed.
DelayUnchecked(n) == mem[n].t_next - now

\* Mutant: the whole period instead of what is left of it.
DelayIsPeriod(n) == mem[n].t

\* A registration is on its way to give n its number.
BeingFilled(n) == \E d \in Ctx : pc[d] \in {"linked", "numbered"} /\ frame[d].node = n

\* get_next_alarm_delay_time: the delay to the next entry, at least 1 when it
\* is overdue.  An empty list, or an entry that has no number yet, is "no
\* alarms found to schedule".
Delay(n) == IF now > mem[n].t_next THEN 1 ELSE mem[n].t_next - now

ScheduleNothing(c) ==
    /\ CanStep(c) /\ pc[c] = "schedule"
    /\ \/ thealarms = NULL /\ UNCHANGED disarmed
       \/ \E n \in Nodes : /\ sa_find_next(n) /\ mem[n].clientreg = 0
                          /\ disarmed' = ~BeingFilled(n)
    /\ Goto(c, frame[c].ret)
    /\ frame' = [frame EXCEPT ![c] = NoFrame]
    /\ Touch(c)
    /\ UNCHANGED <<list, clock, regnum, start_alarms, running, crashed, missed, armed>>

ScheduleNext(c) ==
    /\ CanStep(c) /\ pc[c] = "schedule"
    /\ \E n \in Nodes :
          /\ sa_find_next(n) /\ mem[n].clientreg # 0
          /\ frame' = [frame EXCEPT ![c] = [@ EXCEPT !.delta = Delay(n),
                                                     !.at = now]]
    /\ missed' = [missed EXCEPT ![c] = {}]
    /\ Goto(c, "setitimer")
    /\ Touch(c)
    /\ UNCHANGED <<list, clock, regnum, start_alarms, running, crashed, disarmed, armed>>

\* setitimer with a one-shot value; a zero value disarms the timer.
SetItimer(c) ==
    /\ CanStep(c) /\ pc[c] = "setitimer"
    /\ itimer' = IF frame[c].delta = 0 THEN 0 ELSE now + frame[c].delta
    /\ disarmed' = (frame[c].delta = 0)
    /\ armed' = [at |-> frame[c].at, slip |-> now - frame[c].at, missed |-> missed[c]]
    /\ missed' = [missed EXCEPT ![c] = {}]
    /\ Goto(c, frame[c].ret)
    /\ frame' = [frame EXCEPT ![c] = NoFrame]
    /\ UNCHANGED <<list, now, pending, regnum, start_alarms, running, crashed, overlap>>

\* init_alarm_post_config, called once by main.
InitAlarmPostConfig ==
    /\ MayCall(App(Main)) /\ ~start_alarms
    /\ start_alarms' = TRUE
    /\ Goto(App(Main), "schedule")
    /\ Touch(App(Main))
    /\ UNCHANGED <<list, clock, regnum, frame, running, crashed, disarmed, missed, armed>>

-----------------------------------------------------------------------------
(* alarm_handler: run_alarms, then set_an_alarm                            *)

\* The kernel picks a thread that is not in the handler already.
Deliver(t) ==
    /\ ~crashed /\ pending /\ pc[Sig(t)] = "idle"
    /\ pending' = FALSE
    /\ Goto(Sig(t), "run")
    /\ UNCHANGED <<list, now, itimer, regnum, start_alarms, frame, running,
                   crashed, ghosts>>

\* The next entry is overdue: call it (a zeroed entry has no callback yet).
RunDue(t) ==
    /\ ~crashed /\ pc[Sig(t)] = "run"
    /\ \E n \in Nodes :
          /\ sa_find_next(n) /\ mem[n].t_next < now
          /\ IF mem[n].thecallback # "null"
             THEN /\ running' = [running EXCEPT ![t] = [id |-> mem[n].clientreg,
                                                        at |-> now]]
                  /\ Goto(Sig(t), "callback")
                  /\ UNCHANGED crashed
             ELSE crashed' = TRUE /\ UNCHANGED <<running, pc>>
    /\ Touch(Sig(t))
    /\ UNCHANGED <<list, clock, regnum, start_alarms, frame, disarmed, missed, armed>>

\* Nothing left, or nothing overdue: leave the loop.
RunDone(t) ==
    /\ ~crashed /\ pc[Sig(t)] = "run"
    /\ \/ thealarms = NULL
       \/ \E n \in Nodes : sa_find_next(n) /\ mem[n].t_next >= now
    /\ Goto(Sig(t), "schedule")
    /\ Touch(Sig(t))
    /\ UNCHANGED <<list, clock, regnum, start_alarms, frame, running, crashed,
                   disarmed, missed, armed>>

CallbackReturn(t) ==
    /\ ~crashed /\ pc[Sig(t)] = "callback"
    /\ Goto(Sig(t), "reschedule")
    /\ UNCHANGED <<list, clock, regnum, start_alarms, frame, running, crashed, ghosts>>

\* After the callback: a repeating alarm is due one period after the call
\* began, a single-time one is removed, one that is gone is left alone.
Reschedule(t) ==
    /\ ~crashed /\ pc[Sig(t)] = "reschedule"
    /\ \/ /\ \A n \in Listed : mem[n].clientreg # running[t].id
          /\ UNCHANGED <<list, missed>>
       \/ \E n \in Nodes :
             /\ sa_find_specific(n, running[t].id)
             /\ IF mem[n].flags = SA_REPEAT
                THEN /\ mem' = [mem EXCEPT ![n] = sa_update_entry(
                           [@ EXCEPT !.t_last = running[t].at, !.t_next = 0])]
                     /\ Misses(Sig(t), n)
                     /\ UNCHANGED <<thealarms, allocated>>
                ELSE Unlink(n) /\ UNCHANGED missed
    /\ running' = [running EXCEPT ![t] = [id |-> 0, at |-> 0]]
    /\ Goto(Sig(t), "run")
    /\ Touch(Sig(t))
    /\ UNCHANGED <<clock, regnum, start_alarms, frame, crashed, disarmed, armed>>

\* Time passes; the interval timer expires once and raises SIGALRM.
Tick ==
    /\ ~crashed /\ now < MaxTime
    /\ now' = now + 1
    /\ IF itimer # 0 /\ itimer <= now'
       THEN itimer' = 0 /\ pending' = TRUE
       ELSE UNCHANGED <<itimer, pending>>
    /\ UNCHANGED <<list, regnum, start_alarms, pc, frame, running, crashed, ghosts>>

-----------------------------------------------------------------------------

Init ==
    /\ thealarms = NULL
    /\ mem = [n \in Nodes |-> Unused]
    /\ allocated = {}
    /\ regnum = 1
    /\ start_alarms = FALSE
    /\ now = 1 /\ itimer = 0 /\ pending = FALSE
    /\ pc = [c \in Ctx |-> "idle"]
    /\ frame = [c \in Ctx |-> NoFrame]
    /\ running = [t \in Threads |-> [id |-> 0, at |-> 0]]
    /\ crashed = FALSE
    /\ disarmed = FALSE /\ overlap = FALSE
    /\ missed = [c \in Ctx |-> {}]
    /\ armed = [at |-> 0, slip |-> 0, missed |-> {}]

CtxStep(c) ==
    \/ RegisterWalk(c) \/ RegisterLink(c) \/ RegisterNoMemory(c)
    \/ RegisterOnItself(c) \/ RegisterNowhere(c) \/ RegisterNumber(c) \/ RegisterFill(c)
    \/ Unregister(c)
    \/ ScheduleNothing(c) \/ ScheduleNext(c) \/ SetItimer(c)

HandlerStep(t) ==
    \/ Deliver(t) \/ RunDue(t) \/ RunDone(t) \/ CallbackReturn(t) \/ Reschedule(t)

Next ==
    \/ InitAlarmPostConfig
    \/ \E c \in Ctx : CtxStep(c)
    \/ \E t \in Threads : HandlerStep(t)
    \/ Tick

Spec == Init /\ [][Next]_vars

-----------------------------------------------------------------------------
(* Properties                                                              *)

\* Every variable has its type (timer.h, struct snmp_alarm).
TypeOK ==
    /\ thealarms \in Refs
    /\ mem \in [Nodes -> Alarm]
    /\ allocated \subseteq Nodes
    /\ regnum \in Nat
    /\ start_alarms \in BOOLEAN
    /\ now \in Nat /\ itimer \in Nat /\ pending \in BOOLEAN
    /\ pc \in [Ctx -> Labels]
    /\ frame \in [Ctx -> Frame]
    /\ running \in [Threads -> [id : Nat, at : Nat]]
    /\ crashed \in BOOLEAN /\ disarmed \in BOOLEAN /\ overlap \in BOOLEAN
    /\ missed \in [Ctx -> SUBSET Nodes]
    /\ armed \in [at : Nat, slip : Nat, missed : SUBSET Nodes]

\* The engine stays alive: once started, as long as an alarm is on the list,
\* either SIGALRM is on its way (timer armed or signal pending), or a context
\* is on its way to set_an_alarm, or the last set_an_alarm computed the delay 0,
\* for an alarm due at that very instant, or found an entry which registrations
\* that crossed have left without its number for good, with which it arms nothing.
\* However handlers, registrations and the start interleave, nothing else stops it.
EngineAlive ==
    ~crashed /\ start_alarms /\ thealarms # NULL /\ itimer = 0 /\ ~pending /\ ~disarmed
        => \E c \in Ctx : pc[c] # "idle"

\* Used by one context at a time the list is sound: no wild call, every
\* allocated entry is on the list, none freed is, and numbers are unique, so
\* that unregistering a number removes the alarm it was returned for.
ListSound ==
    ~overlap =>
        /\ ~crashed
        /\ Listed = allocated
        /\ \A m, n \in Listed : mem[m].clientreg = mem[n].clientreg => m = n

Quiescent == \A c \in Ctx : pc[c] = "idle"

\* With the engine at rest and the timer armed, no alarm oversleeps but one that
\* the last setitimer did not know of: the timer expires no later than any other
\* alarm is due (or one unit after the clock was read, for an overdue one), plus
\* what passed between get_next_alarm_delay_time's read of the clock and
\* setitimer.  An alarm that came in between, so that the older delay replaced its
\* own, waits for one of the periods at most; that holds whatever has raced.
NoOversleep ==
    /\ ~overlap /\ start_alarms /\ Quiescent /\ itimer # 0 =>
           \A n \in Listed \ armed.missed :
               itimer <= Later(mem[n].t_next, armed.at + 1) + armed.slip
    /\ itimer # 0 => \E p \in Intervals : itimer <= armed.at + armed.slip + p

\* What the comment in get_next_alarm_delay_time says of the delay it computes
\* when the entry is not overdue, "Time is still in the future": set_an_alarm
\* hands setitimer a positive delay.
StillInTheFuture == \A c \in Ctx : pc[c] = "setitimer" => frame[c].delta > 0

-----------------------------------------------------------------------------
(* What AlarmClock implements                                               *)

\* The alarms of the list that have their number, and so a handle.
Registered ==
    {[id |-> mem[n].clientreg, period |-> mem[n].t,
      repeat |-> (mem[n].flags = SA_REPEAT), due |-> mem[n].t_next] :
        n \in {m \in Listed : mem[m].clientreg # 0}}

Service == INSTANCE AlarmService
    WITH Periods <- Intervals, alarms <- Registered, given <- regnum - 1, calls <- running

\* Used by one context at a time, the list, the timer and the handlers are what
\* AlarmService promises: however handlers on several threads, registrations and
\* removals interleave, in the callbacks too, a handle is new and removes its own
\* alarm only, and what is called is registered, due, and due first.
EngineSpec == Service!Spec
=============================================================================
