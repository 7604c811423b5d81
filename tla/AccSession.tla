------------------------------ MODULE AccSession ------------------------------
(***************************************************************************)
(* One acceleration session of im_acc (im_msg_handle.c): the state the      *)
(* device reports (s_im_speedupinfo_resp.im_acc_state), the main thread that *)
(* serves one terminal command at a time, the roll-query threads it starts  *)
(* when the cloud answers "delayed", and the heartbeat alarm, whose callback *)
(* runs inside SIGALRM on any thread.  None of them takes a lock.            *)
(*                                                                         *)
(* Between two steps of a context lies a blocking call (an HTTP exchange, a  *)
(* sleep) or the point where the code commits to a state it has read.        *)
(* Time is abstract: a registered alarm may be due at any moment, except      *)
(* within the few seconds in which its own session is still being opened      *)
(* (TIMER_5MIN is 300 s).                                                    *)
(***************************************************************************)
EXTENDS Integers, FiniteSets

CONSTANTS
    Rollers,     \* thread slots for im_rollquery_thread
    PollLimit,   \* waits of 20 s before a roller gives up (9 in the code)
    NoticeBeat,  \* the heartbeat that announces the end (24 in the code)
    MaxLost      \* bound: alarms whose handle was overwritten, per kind

ASSUME RollersAssumption == IsFiniteSet(Rollers) /\ "main" \notin Rollers
ASSUME LimitsAssumption  ==
    PollLimit \in Nat /\ NoticeBeat \in Nat \ {0} /\ MaxLost \in Nat \ {0}

VARIABLES
    acc_state,  \* s_im_speedupinfo_resp.im_acc_state
    mpc,        \* where the main thread is
    rpc,        \* where each roller is; "none" = no such thread
    im_code,    \* each roller's s_im_cmd_header.im_code, initially garbage
    roll_time,  \* each roller's count of 20 s waits
    heart,      \* heartbeat alarms: does timer_hearbeat name one; others listed
    flow,       \* flow-count alarms, likewise for timer_flowcount
    cnt_time,   \* heartbeats counted towards the automatic stop
    keepacc,    \* s_im_keepacc.im_is_keepacc
    armed,      \* the interval timer will raise SIGALRM
    hnd,        \* what the heartbeat callback on each thread's stack is doing
    overlap,    \* history: a stop took effect while a roller was alive
    stopped,    \* history: accelerate-stop broadcast, no start command since
    ended,      \* history: this session's timers were stopped by the count
    session     \* history: this session's heartbeats counted, notice sent
                \*   (the last two are kept until an overlap)

rollers  == <<rpc, im_code, roll_time>>
timers   == <<heart, flow, cnt_time, armed>>
ghosts   == <<overlap, stopped, ended, session>>
vars == <<acc_state, mpc, rollers, timers, keepacc, hnd, ghosts>>

Threads == Rollers \cup {"main"}

States == {"CLOSED", "OPENED", "OPENING", "QUERYING"}
Codes  == {"SUCESS", "IVALIDEDEVID", "OTHER"}

\* "..._wait": in the cloud exchange; "..._login": in the re-login after
\* MSG_CODE_INVALIDSES; "open": in the broadcast, no timer registered yet.
MainLabels == {"boot", "boot_wait", "boot_login", "idle", "start_wait",
               "start_login", "open", "stop_wait", "query_wait", "query_login"}
\* "poll": in im_cloud_gettaskresult; "parsed": result stored; "wait": sleep(20);
\* "brocast": no timer registered yet; "sleep1": heartbeat registered.
RollLabels == {"none", "poll", "parsed", "login", "wait", "brocast", "sleep1"}

Alarms == [named : BOOLEAN, lost : 0 .. MaxLost]

Live(r)  == rpc[r] # "none"
Delaying == acc_state \in {"OPENING", "QUERYING"}

\* A handler preempts the thread that hosts it.
Runs(t) == hnd[t] = "none"

\* timer_x = snmp_alarm_register(...): an alarm the handle named stays listed.
Registered(a) ==
    [named |-> TRUE,
     lost  |-> IF a.named /\ a.lost < MaxLost THEN a.lost + 1 ELSE a.lost]

\* snmp_alarm_unregister(timer_x).
Unregistered(a) == [a EXCEPT !.named = FALSE]

NewSession == session' = [beats |-> 0, notice |-> FALSE] /\ ended' = FALSE

-----------------------------------------------------------------------------
(* Roll-query threads                                                      *)

\* im_start_rollquery_result_cloud.  The header is an uninitialized local.
StartRoller ==
    \/ /\ \A r \in Rollers : Live(r)      \* pthread_create fails
       /\ UNCHANGED rollers
    \/ \E r \in Rollers, garbage \in Codes :
          /\ ~Live(r)
          /\ rpc' = [rpc EXCEPT ![r] = "poll"]
          /\ im_code' = [im_code EXCEPT ![r] = garbage]
          /\ roll_time' = [roll_time EXCEPT ![r] = 0]

RollGoto(r, l) == rpc' = [rpc EXCEPT ![r] = l]

RollReturn(r) ==
    /\ RollGoto(r, "none")
    /\ im_code' = [im_code EXCEPT ![r] = "OTHER"]
    /\ roll_time' = [roll_time EXCEPT ![r] = 0]

\* Mutant: one wait too many.
GivesUpLate(r) == roll_time[r] > PollLimit

GivesUp(r) == roll_time[r] >= PollLimit

\* The loop body once the header holds code and no result was stored.
PollAgain(r, code) ==
    \/ /\ code = "IVALIDEDEVID"
       /\ RollGoto(r, "login")
       /\ im_code' = [im_code EXCEPT ![r] = code]
       /\ UNCHANGED <<acc_state, roll_time>>
    \/ /\ code # "IVALIDEDEVID" /\ GivesUp(r)
       /\ acc_state' = "CLOSED"
       /\ RollReturn(r)
    \/ /\ code # "IVALIDEDEVID" /\ ~GivesUp(r)
       /\ RollGoto(r, "wait")
       /\ im_code' = [im_code EXCEPT ![r] = code]
       /\ UNCHANGED <<acc_state, roll_time>>

\* No answer: the header keeps what it held.
PollNoReply(r) ==
    /\ Runs(r) /\ rpc[r] = "poll"
    /\ PollAgain(r, im_code[r])
    /\ UNCHANGED <<mpc, timers, keepacc, hnd, ghosts>>

\* An answer that stores no result: another code, a partial header, bad data,
\* or data for a state that is no longer OPENING or QUERYING.
PollReply(r) ==
    /\ Runs(r) /\ rpc[r] = "poll"
    /\ \E code \in Codes : PollAgain(r, code)
    /\ UNCHANGED <<mpc, timers, keepacc, hnd, ghosts>>

\* The result is parsed and stored, which the parser does in these states only.
PollResult(r) ==
    /\ Runs(r) /\ rpc[r] = "poll" /\ Delaying
    /\ im_code' = [im_code EXCEPT ![r] = "SUCESS"]
    /\ RollGoto(r, "parsed")
    /\ UNCHANGED <<acc_state, mpc, roll_time, timers, keepacc, hnd, ghosts>>

\* The state is read again to decide what the result was for.
RollBranch(r) ==
    /\ Runs(r) /\ rpc[r] = "parsed"
    /\ \/ /\ acc_state = "OPENING"      \* the broadcast registers an alarm
          /\ RollGoto(r, "brocast")
          /\ armed' = TRUE
          /\ UNCHANGED <<acc_state, im_code, roll_time>>
       \/ /\ acc_state = "QUERYING"
          /\ acc_state' = "CLOSED"
          /\ RollReturn(r)
          /\ UNCHANGED armed
       \/ /\ ~Delaying
          /\ RollReturn(r)
          /\ UNCHANGED <<acc_state, armed>>
    /\ UNCHANGED <<mpc, heart, flow, cnt_time, keepacc, hnd, ghosts>>

RollHeartbeat(r) ==
    /\ Runs(r) /\ rpc[r] = "brocast"
    /\ heart' = Registered(heart)
    /\ armed' = TRUE
    /\ RollGoto(r, "sleep1")
    /\ UNCHANGED <<acc_state, mpc, im_code, roll_time, flow, cnt_time, keepacc,
                   hnd, ghosts>>

RollOpened(r) ==
    /\ Runs(r) /\ rpc[r] = "sleep1"
    /\ flow' = Registered(flow)
    /\ armed' = TRUE
    /\ acc_state' = "OPENED"
    /\ NewSession
    /\ RollReturn(r)
    /\ UNCHANGED <<mpc, heart, cnt_time, keepacc, hnd, overlap, stopped>>

\* Mutant: the waits are not counted.
WaitedUncounted(r) == roll_time

Waited(r) == IF rpc[r] = "wait" THEN [roll_time EXCEPT ![r] = @ + 1]
                                ELSE roll_time

\* Login or 20 s sleep is over (the result of the login is not used).
RollLoop(r) ==
    /\ Runs(r) /\ rpc[r] \in {"login", "wait"}
    /\ roll_time' = Waited(r)
    /\ RollGoto(r, "poll")
    /\ UNCHANGED <<acc_state, mpc, im_code, timers, keepacc, hnd, ghosts>>

-----------------------------------------------------------------------------
(* Main thread: im_auto_query_isacc at start-up, then terminal commands      *)

Main(from, to) == Runs("main") /\ mpc = from /\ mpc' = to

\* What a request can come back with: an error (no or malformed answer), or
\* one of the codes.  A "delayed" answer is an error unless a state waits for it.
Answers == {"error", "SUCESS", "INVALIDSES", "OTHER"}
           \cup (IF Delaying THEN {"MSGDELAY"} ELSE {})

Boot ==
    /\ Main("boot", "boot_wait")
    /\ acc_state' = "QUERYING"
    /\ UNCHANGED <<rollers, timers, keepacc, hnd, ghosts>>

\* The answer to the first query; init_alarm_post_config follows.
BootReply ==
    /\ \E a \in Answers :
          /\ Main("boot_wait", IF a = "INVALIDSES" THEN "boot_login" ELSE "idle")
          /\ acc_state' = IF a = "error" THEN "CLOSED" ELSE acc_state
          /\ IF a = "MSGDELAY" THEN StartRoller ELSE UNCHANGED rollers
          /\ armed' = (armed \/ a # "INVALIDSES")
    /\ UNCHANGED <<heart, flow, cnt_time, keepacc, hnd, ghosts>>

\* Logged in or not; the recursive call returns at once, the state being QUERYING.
BootLogin ==
    /\ Main("boot_login", "idle")
    /\ armed' = TRUE
    /\ UNCHANGED <<acc_state, rollers, heart, flow, cnt_time, keepacc, hnd, ghosts>>

\* Mutant: a start command is also taken while one is pending.
StartAcceptedPending == acc_state # "OPENED"

StartAccepted == acc_state = "CLOSED"

\* TERM_CMD_START_ACC is refused in every state but CLOSED.
StartRequest ==
    /\ Main("idle", "start_wait")
    /\ StartAccepted
    /\ acc_state' = "OPENING"
    /\ stopped' = FALSE
    /\ UNCHANGED <<rollers, timers, keepacc, hnd, overlap, ended, session>>

StartDelayed ==
    /\ Main("start_wait", "idle") /\ "MSGDELAY" \in Answers
    /\ StartRoller
    /\ UNCHANGED <<acc_state, timers, keepacc, hnd, ghosts>>

\* Opened at once: the state, then the broadcast, then the two timers.
StartOpened ==
    /\ Main("start_wait", "open")
    /\ acc_state' = "OPENED"
    /\ armed' = TRUE
    /\ NewSession
    /\ UNCHANGED <<rollers, heart, flow, cnt_time, keepacc, hnd, overlap, stopped>>

StartTimers ==
    /\ Main("open", "idle")
    /\ heart' = Registered(heart) /\ flow' = Registered(flow)
    /\ armed' = TRUE
    /\ UNCHANGED <<acc_state, rollers, cnt_time, keepacc, hnd, ghosts>>

\* An error closes; any other code than the three handled ones only replies.
StartFailed ==
    /\ \E a \in {"error", "OTHER"} :
          /\ Main("start_wait", "idle")
          /\ acc_state' = IF a = "error" THEN "CLOSED" ELSE acc_state
    /\ UNCHANGED <<rollers, timers, keepacc, hnd, ghosts>>

StartInvalid ==
    /\ Main("start_wait", "start_login")
    /\ UNCHANGED <<acc_state, rollers, timers, keepacc, hnd, ghosts>>

\* Logged in again: CLOSED, back to the start, OPENING, next request.
StartLogin ==
    /\ \E ok \in BOOLEAN :
          /\ Main("start_login", IF ok THEN "start_wait" ELSE "idle")
          /\ acc_state' = IF ok THEN "OPENING" ELSE "CLOSED"
    /\ UNCHANGED <<rollers, timers, keepacc, hnd, ghosts>>

\* TERM_CMD_STOP_ACC is accepted in every state.
StopRequest ==
    /\ Main("idle", "stop_wait")
    /\ UNCHANGED <<acc_state, rollers, timers, keepacc, hnd, ghosts>>

StopFailed ==
    /\ Main("stop_wait", "idle")
    /\ UNCHANGED <<acc_state, rollers, timers, keepacc, hnd, ghosts>>

\* Mutants: the flow count is left running; the count is not reset.
StopTimersButFlow ==
    /\ heart' = Unregistered(heart) /\ cnt_time' = 0
    /\ UNCHANGED flow
StopTimersButCount ==
    /\ heart' = Unregistered(heart) /\ flow' = Unregistered(flow)
    /\ UNCHANGED cnt_time

\* im_stop_heartbeat_cloud and im_stop_flow_count.
StopTimers ==
    /\ heart' = Unregistered(heart) /\ cnt_time' = 0
    /\ flow' = Unregistered(flow)

\* Whatever code the cloud answered; the broadcast registers an alarm.
StopDone ==
    /\ Main("stop_wait", "idle")
    /\ acc_state' = "CLOSED"
    /\ StopTimers
    /\ armed' = TRUE
    /\ overlap' = (overlap \/ \E r \in Rollers : Live(r))
    /\ stopped' = TRUE
    /\ NewSession
    /\ UNCHANGED <<rollers, keepacc, hnd>>

\* Mutant: only a pending request keeps the query from the cloud.
QueryAcceptedOpened == ~Delaying

QueryAccepted == acc_state = "CLOSED"

\* TERM_CMD_ACC_STATE_INFO queries the cloud only if nothing is pending, the
\* network has changed and acceleration is closed.
QueryRequest ==
    /\ Main("idle", "query_wait")
    /\ QueryAccepted
    /\ acc_state' = "QUERYING"
    /\ UNCHANGED <<rollers, timers, keepacc, hnd, ghosts>>

QueryReply ==
    /\ \E a \in Answers :
          /\ Main("query_wait", IF a = "INVALIDSES" THEN "query_login" ELSE "idle")
          /\ acc_state' = IF a = "error" THEN "CLOSED" ELSE acc_state
          /\ IF a = "MSGDELAY" THEN StartRoller ELSE UNCHANGED rollers
    /\ UNCHANGED <<timers, keepacc, hnd, ghosts>>

QueryLogin ==
    /\ \E ok \in BOOLEAN :
          /\ Main("query_login", IF ok THEN "query_wait" ELSE "idle")
          /\ acc_state' = IF ok THEN "QUERYING" ELSE "CLOSED"
    /\ UNCHANGED <<rollers, timers, keepacc, hnd, ghosts>>

\* TERM_CMD_KEEPACC: the parser stores the flag, the command does nothing.
KeepAcc ==
    /\ Main("idle", "idle")
    /\ keepacc' \in BOOLEAN
    /\ UNCHANGED <<acc_state, rollers, timers, hnd, ghosts>>

-----------------------------------------------------------------------------
(* The heartbeat callback, inside the SIGALRM handler of thread t            *)

\* A heartbeat alarm may be due: not the one that a roller registered within
\* the last second.
Due == heart.lost > 0 \/ (heart.named /\ \A r \in Rollers : rpc[r] # "sleep1")

BeatStart(t) ==
    /\ armed /\ Runs(t) /\ (t \in Rollers => Live(t))
    /\ Due
    /\ armed' = FALSE                    \* re-armed when the handler ends
    /\ hnd' = [hnd EXCEPT ![t] = "beat"]
    /\ UNCHANGED <<acc_state, mpc, rollers, heart, flow, cnt_time, keepacc, ghosts>>

HandlerEnd(t) == hnd' = [hnd EXCEPT ![t] = "none"] /\ armed' = TRUE

Counted(n) ==
    IF overlap THEN UNCHANGED session
    ELSE session' = [session EXCEPT !.beats = IF @ <= NoticeBeat THEN @ + 1 ELSE @,
                                    !.notice = @ \/ n]

\* After im_cloud_heartbeat, whose result is not used.
BeatKept(t) ==
    /\ hnd[t] = "beat" /\ (keepacc \/ cnt_time + 1 < NoticeBeat)
    /\ IF keepacc THEN UNCHANGED <<cnt_time, session>>
       ELSE cnt_time' = cnt_time + 1 /\ Counted(FALSE)
    /\ HandlerEnd(t)
    /\ UNCHANGED <<acc_state, mpc, rollers, heart, flow, keepacc,
                   overlap, stopped, ended>>

\* The broadcast registers an alarm, which re-arms the timer.
BeatNotice(t) ==
    /\ hnd[t] = "beat" /\ ~keepacc /\ cnt_time + 1 = NoticeBeat
    /\ cnt_time' = cnt_time + 1
    /\ Counted(TRUE)
    /\ armed' = TRUE
    /\ hnd' = [hnd EXCEPT ![t] = "notice"]
    /\ UNCHANGED <<acc_state, mpc, rollers, heart, flow, keepacc,
                   overlap, stopped, ended>>

BeatNoticed(t) ==
    /\ hnd[t] = "notice"
    /\ HandlerEnd(t)
    /\ UNCHANGED <<acc_state, mpc, rollers, heart, flow, cnt_time, keepacc, ghosts>>

BeatStops(t) ==
    /\ hnd[t] = "beat" /\ ~keepacc /\ cnt_time + 1 > NoticeBeat
    /\ StopTimers
    /\ HandlerEnd(t)
    /\ Counted(FALSE)
    /\ ended' = ~overlap
    /\ UNCHANGED <<acc_state, mpc, rollers, keepacc, overlap, stopped>>

-----------------------------------------------------------------------------

Init ==
    /\ acc_state = "CLOSED"              \* im_windband_init
    /\ mpc = "boot"
    /\ rpc = [r \in Rollers |-> "none"]
    /\ im_code = [r \in Rollers |-> "OTHER"]
    /\ roll_time = [r \in Rollers |-> 0]
    /\ heart = [named |-> FALSE, lost |-> 0]
    /\ flow = [named |-> FALSE, lost |-> 0]
    /\ cnt_time = 0 /\ keepacc = FALSE /\ armed = FALSE
    /\ hnd = [t \in Threads |-> "none"]
    /\ overlap = FALSE /\ stopped = FALSE /\ ended = FALSE
    /\ session = [beats |-> 0, notice |-> FALSE]

MainStep ==
    \/ Boot \/ BootReply \/ BootLogin
    \/ StartRequest \/ StartDelayed \/ StartOpened \/ StartTimers
    \/ StartFailed \/ StartInvalid \/ StartLogin
    \/ StopRequest \/ StopFailed \/ StopDone
    \/ QueryRequest \/ QueryReply \/ QueryLogin
    \/ KeepAcc

RollStep(r) ==
    \/ PollNoReply(r) \/ PollReply(r) \/ PollResult(r) \/ RollBranch(r)
    \/ RollHeartbeat(r) \/ RollOpened(r) \/ RollLoop(r)

BeatEnd(t) == BeatKept(t) \/ BeatNotice(t) \/ BeatNoticed(t) \/ BeatStops(t)

Next ==
    \/ MainStep
    \/ \E r \in Rollers : RollStep(r)
    \/ \E t \in Threads : BeatStart(t) \/ BeatEnd(t)

Spec == Init /\ [][Next]_vars

\* Threads get to run, however often a handler preempts them; every HTTP
\* exchange ends (CURLOPT_TIMEOUT is 5 s), so handlers end.
Fairness ==
    /\ \A r \in Rollers : SF_vars(RollStep(r))
    /\ \A t \in Threads : WF_vars(BeatEnd(t))

FairSpec == Spec /\ Fairness

-----------------------------------------------------------------------------
(* Properties                                                              *)

TypeOK ==
    /\ acc_state \in States
    /\ mpc \in MainLabels
    /\ rpc \in [Rollers -> RollLabels]
    /\ im_code \in [Rollers -> Codes]
    /\ roll_time \in [Rollers -> 0 .. PollLimit]
    /\ heart \in Alarms /\ flow \in Alarms
    /\ cnt_time \in 0 .. NoticeBeat
    /\ keepacc \in BOOLEAN /\ armed \in BOOLEAN
    /\ hnd \in [Threads -> {"none", "beat", "notice"}]
    /\ overlap \in BOOLEAN /\ stopped \in BOOLEAN /\ ended \in BOOLEAN
    /\ session \in [beats : 0 .. NoticeBeat + 1, notice : BOOLEAN]

\* The main thread holds the state while it waits for the cloud.
MainHolds == mpc \in {"boot_wait", "boot_login", "start_wait", "start_login",
                      "query_wait", "query_login"}

\* Unless a stop overtook a roller, the session has one owner: the state is
\* OPENING or QUERYING as long as a request or a roller is at work on it, there
\* is never a second roller, nor a roller beside a request of the main thread.
OneOwner ==
    ~overlap =>
        /\ MainHolds \/ (\E r \in Rollers : Live(r)) => Delaying
        /\ \A r, s \in Rollers : Live(r) /\ Live(s) => r = s
        /\ MainHolds \/ mpc \in {"boot", "open"} => \A r \in Rollers : ~Live(r)

\* Unless a stop overtook a roller, the timers follow the session: no alarm is
\* left without a handle, none runs in a closed session, and an open one has
\* both, up to the automatic stop.
TimersFollowState ==
    ~overlap =>
        /\ heart.lost = 0 /\ flow.lost = 0
        /\ acc_state = "CLOSED" => ~heart.named /\ ~flow.named
        /\ acc_state = "OPENED" /\ mpc # "open" =>
              heart.named = ~ended /\ flow.named = ~ended

\* Unless a stop overtook a roller, an open session is left by a stop command
\* only: no late answer, retry, timeout or heartbeat changes OPENED.
OpenedUntilStop ==
    [][acc_state = "OPENED" /\ acc_state' # "OPENED" /\ ~overlap
           => mpc = "stop_wait"]_vars

\* The count stops a session's timers only after it has run for the whole
\* count and its users were told so by the previous counted heartbeat.
StopIsAnnounced ==
    [][ended' /\ ~ended /\ ~overlap
           => session.notice /\ session.beats >= NoticeBeat]_vars

\* The state of AccService that this state implements.
Phase == IF overlap THEN "overtaken" ELSE acc_state
Clock == IF overlap THEN "off" ELSE IF ended THEN "expired"
         ELSE IF heart.named THEN "on" ELSE "off"
Told  == ~overlap /\ session.notice

Service == INSTANCE AccService WITH phase <- Phase, clock <- Clock, told <- Told

\* What the threads do together is what AccService promises: every step of the
\* main thread, a roller or a handler is one of its steps or none, until a stop
\* overtakes a roller.
ServiceSpec == Service!Spec

\* A roller comes to an end, unless it logs in for ever.
RollerEnds ==
    \A r \in Rollers : []<>(rpc[r] = "login") \/ (Live(r) ~> ~Live(r))

AtRest == mpc = "idle" /\ \A r \in Rollers : ~Live(r)

\* STATE_ACC_OPENING is "being opened" and STATE_ACC_QUERYING "querying":
\* somebody is at work on it.
PendingIsAtWork == AtRest => ~Delaying

\* After "acceleration was disconnected" was broadcast it is not open before
\* another start command.
StoppedStaysClosed == stopped => acc_state # "OPENED"

\* NOTIFY_ACC_WILLSTOP announces that acceleration is about to be closed: once
\* the timers were stopped for it, the session is not open.
AnnouncedIsClosed == ended => acc_state # "OPENED"
=============================================================================
