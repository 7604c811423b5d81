------------------------------ MODULE FlowCount ------------------------------
(***************************************************************************)
(* The flow of a session, as im_acc reports it to the cloud every five         *)
(* minutes: a repeating alarm reads the byte counter of the WAN interface,     *)
(* keeps the first reading as the baseline flow_count and reports the          *)
(* difference in kilobytes.  A stop forgets the baseline and unregisters the   *)
(* alarms by their handles, which begin as 100 although no alarm has it.       *)
(*                                                                         *)
(* The callback runs in a SIGALRM handler on any thread; the request           *)
(* structure it works in is shared.                                           *)
(***************************************************************************)
EXTENDS Integers, FiniteSets

CONSTANTS
    Others,    \* roll-query threads: they and the main thread host handlers
    Modulus,   \* an unsigned long counts bytes up to here (2^32 or 2^64)
    Unit,      \* bytes in a kilobyte (1024)
    Initial,   \* the handles before any registration (100)
    MaxAlarms  \* bound: registrations

ASSUME OthersAssumption == "main" \notin Others
ASSUME NumbersAssumption ==
    Modulus \in Nat \ {0} /\ Unit \in Nat \ {0} /\ Initial \in Nat /\ MaxAlarms \in Nat

VARIABLES
    rx,               \* the interface counter
    flow_count,       \* the baseline; 0: none
    im_use_flow,      \* s_im_countflow_cmd.im_use_flow
    at,               \* where im_start_flow_count is on each thread
    alarms,           \* the alarms in the list
    regnum,           \* the next handle
    timer_hearbeat, timer_flowcount,
    open,             \* a session is open
    since,            \* history: bytes since the baseline was read, at most Modulus
    seen,             \* history: since, when the counter was last read
    disturbed         \* history: callbacks or a stop crossed, the interface was
                      \*   reset, or a reading brought nothing; until a stop

counts  == <<flow_count, im_use_flow>>
handles == <<alarms, regnum, timer_hearbeat, timer_flowcount, open>>
flowGhosts  == <<since, seen, disturbed>>
flowVars == <<rx, counts, at, handles, flowGhosts>>

Hosts == Others \cup {"main"}
Bytes   == 0 .. Modulus - 1

\* "first", "next": about to read the counter; "base", "diff": it is read;
\* "report": about to build the request.
Labels == {"none", "first", "next", "base", "diff", "report"}

Kinds == {"beat", "flow", "notice"}
Alarm == [id : 1 .. MaxAlarms, kind : Kinds]

Goto(t, from, to) == at[t] = from /\ at' = [at EXCEPT ![t] = to]

Quiet == \A t \in Hosts : at[t] = "none"

-----------------------------------------------------------------------------
(* The interface                                                           *)

Traffic ==
    /\ rx' = (rx + 1) % Modulus
    /\ since' = IF since < Modulus THEN since + 1 ELSE since
    /\ UNCHANGED <<counts, at, handles, seen, disturbed>>

\* The WAN interface is set up anew.
Reset ==
    /\ rx' = 0
    /\ disturbed' = TRUE
    /\ UNCHANGED <<counts, at, handles, since, seen>>

-----------------------------------------------------------------------------
(* im_start_flow_count                                                     *)

Tick(t) ==
    /\ \E a \in alarms : a.kind = "flow"
    /\ disturbed' = (disturbed \/ ~Quiet)
    /\ Goto(t, "none", IF flow_count = 0 THEN "first" ELSE "next")
    /\ UNCHANGED <<rx, counts, handles, since, seen>>

Read(t) == Goto(t, "first", "base") \/ Goto(t, "next", "diff")

\* im_get_if_dbytes
ReadCounter(t) ==
    /\ Read(t)
    /\ im_use_flow' = rx
    /\ since' = IF at[t] = "first" THEN 0 ELSE since
    /\ seen' = since'
    /\ UNCHANGED <<rx, flow_count, handles, disturbed>>

\* No interface is up: the success of getifaddrs is returned, nothing written.
ReadNothing(t) ==
    /\ Read(t)
    /\ disturbed' = TRUE
    /\ UNCHANGED <<rx, counts, handles, since, seen>>

ReadFails(t) ==
    /\ Goto(t, "first", "none") \/ Goto(t, "next", "none")
    /\ UNCHANGED <<rx, counts, handles, flowGhosts>>

Baseline(t) ==
    /\ Goto(t, "base", "none")
    /\ flow_count' = im_use_flow
    /\ UNCHANGED <<rx, im_use_flow, handles, flowGhosts>>

\* Mutant: a counter that is below the baseline counts as nothing.
NoWrap(a, b) == IF a < b THEN 0 ELSE a - b

\* Unsigned.
Minus(a, b) == (a - b) % Modulus

Difference(t) ==
    /\ Goto(t, "diff", "report")
    /\ im_use_flow' = Minus(im_use_flow, flow_count) \div Unit
    /\ UNCHANGED <<rx, flow_count, handles, flowGhosts>>

\* im_cloud_countflow; what it answers is ignored.
Report(t) ==
    /\ Goto(t, "report", "none")
    /\ UNCHANGED <<rx, counts, handles, flowGhosts>>

-----------------------------------------------------------------------------
(* Sessions and handles                                                    *)

\* Mutant: the number of alarms is the next handle.
Recycled == Cardinality(alarms) + 1

\* snmp_alarm_register: handles are never used twice.
NextHandle == regnum + 1

Open ==
    /\ ~open /\ open' = TRUE
    /\ regnum < MaxAlarms /\ regnum' = NextHandle + 1
    /\ timer_hearbeat' = regnum /\ timer_flowcount' = NextHandle
    /\ alarms' = alarms \cup {[id |-> regnum, kind |-> "beat"],
                             [id |-> NextHandle, kind |-> "flow"]}
    /\ UNCHANGED <<rx, counts, at, flowGhosts>>

Notice ==
    /\ regnum <= MaxAlarms /\ regnum' = NextHandle
    /\ alarms' = alarms \cup {[id |-> regnum, kind |-> "notice"]}
    /\ UNCHANGED <<rx, counts, at, timer_hearbeat, timer_flowcount, open, flowGhosts>>

NoticeEnds ==
    /\ \E a \in alarms : a.kind = "notice" /\ alarms' = alarms \ {a}
    /\ UNCHANGED <<rx, counts, at, regnum, timer_hearbeat, timer_flowcount, open, flowGhosts>>

Unregistered(ids) == {a \in alarms : a.id \notin ids}

\* im_stop_heartbeat_cloud, im_stop_flow_count: by the main thread, or when the
\* heartbeats are counted out in a handler on any thread.
StopTimers(t) ==
    /\ at[t] = "none"
    /\ alarms' = Unregistered({timer_hearbeat, timer_flowcount})
    /\ flow_count' = 0
    /\ disturbed' = ~Quiet
    /\ UNCHANGED <<rx, im_use_flow, at, regnum, timer_hearbeat, timer_flowcount,
                   since, seen>>

\* A stop command is served whether a session is open or not.
StopCommand == StopTimers("main") /\ open' = FALSE

\* The count has run out: the session stays open.
Expire(t) ==
    /\ \E a \in alarms : a.kind = "beat"
    /\ StopTimers(t) /\ UNCHANGED open

-----------------------------------------------------------------------------

FlowInit ==
    /\ rx \in Bytes /\ flow_count = 0 /\ im_use_flow = 0
    /\ at = [t \in Hosts |-> "none"]
    /\ alarms = {} /\ regnum = 1
    /\ timer_hearbeat = Initial /\ timer_flowcount = Initial
    /\ open = FALSE
    /\ since = 0 /\ seen = 0 /\ disturbed = FALSE

Callback(t) ==
    \/ Tick(t) \/ ReadCounter(t) \/ ReadNothing(t) \/ ReadFails(t)
    \/ Baseline(t) \/ Difference(t) \/ Report(t)

FlowNext ==
    \/ Traffic \/ Reset \/ Open \/ StopCommand \/ Notice \/ NoticeEnds
    \/ \E t \in Hosts : Callback(t) \/ Expire(t)

FlowSpec == FlowInit /\ [][FlowNext]_flowVars

-----------------------------------------------------------------------------
(* Properties                                                              *)

FlowTypeOK ==
    /\ rx \in Bytes /\ flow_count \in Bytes /\ im_use_flow \in Bytes
    /\ at \in [Hosts -> Labels]
    /\ alarms \subseteq Alarm
    /\ regnum \in 1 .. MaxAlarms + 1
    /\ timer_hearbeat \in 1 .. MaxAlarms \cup {Initial}
    /\ timer_flowcount \in 1 .. MaxAlarms \cup {Initial}
    /\ open \in BOOLEAN /\ disturbed \in BOOLEAN
    /\ since \in 0 .. Modulus /\ seen \in 0 .. Modulus

\* What is reported is the bytes since this session's baseline, in kilobytes,
\* also across a wrap of the counter and over several sessions, unless they have
\* wrapped it all round, callbacks or a stop crossed or a reading was worth nothing.
ReportIsExact ==
    \A t \in Hosts :
        at[t] = "report" /\ ~disturbed /\ seen < Modulus =>
            im_use_flow = seen \div Unit

\* However sessions, stops and notices alternate, what a stop unregisters is an
\* alarm of a session or nothing: a handle whose alarm has ended names no other.
\* Before the first session it is the initial one, and may name any alarm.
HandlesAreOwn ==
    \A a \in alarms :
        /\ a.id = timer_hearbeat  => a.kind = "beat" \/ a.id = Initial
        /\ a.id = timer_flowcount => a.kind = "flow" \/ a.id = Initial
=============================================================================
