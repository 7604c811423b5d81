-------------------------- MODULE AccSession_proofs --------------------------
(***************************************************************************)
(* TLAPS proofs about AccSession, for every set of rollers and every bound:  *)
(* type correctness, the properties of a session that no stop overtook, and   *)
(* that the threads together implement AccService.                           *)
(***************************************************************************)
EXTENDS AccSession, TLAPS

-----------------------------------------------------------------------------
(* The invariant behind these properties                                    *)

NoRoller == \A r \in Rollers : ~Live(r)

Running == acc_state = "OPENED" /\ mpc # "open" /\ ~ended

\* Who is at work on the state.
Ownership ==
    /\ MainHolds => NoRoller
    /\ mpc \in {"start_wait", "start_login"} => acc_state = "OPENING"
    /\ mpc \in {"boot_wait", "boot_login", "query_wait", "query_login"}
          => acc_state = "QUERYING"
    /\ \A r \in Rollers : Live(r) => Delaying
    /\ \A r, s \in Rollers : Live(r) /\ Live(s) => r = s
    /\ mpc = "boot" => acc_state = "CLOSED" /\ NoRoller
    /\ mpc = "open" => acc_state = "OPENED"
    /\ \A r \in Rollers : rpc[r] \in {"brocast", "sleep1"} => acc_state = "OPENING"

\* Which alarms are listed, and on whose stack their handler runs.
AlarmsInv ==
    /\ heart.lost = 0 /\ flow.lost = 0
    /\ heart.named => Running \/ \E r \in Rollers : rpc[r] = "sleep1"
    /\ flow.named => Running
    /\ Running => heart.named /\ flow.named
    /\ \A r \in Rollers : rpc[r] = "sleep1" => heart.named
    /\ ended => acc_state = "OPENED" /\ mpc # "open"
    /\ \A t \in Threads : ~Runs(t) => t = "main" /\ Running

\* What was counted and told in this session.
CountInv ==
    /\ ~ended => session.beats = cnt_time
    /\ cnt_time # 0 => Running
    /\ cnt_time = NoticeBeat => session.notice
    /\ session.notice => acc_state = "OPENED" /\ (ended \/ cnt_time = NoticeBeat)

WaitInv == \A r \in Rollers : rpc[r] = "wait" => roll_time[r] < PollLimit

IInv ==
    /\ TypeOK /\ WaitInv
    /\ ~overlap => Ownership /\ AlarmsInv /\ CountInv

-----------------------------------------------------------------------------
(* Type correctness                                                        *)

\* The alarm records stay typed.
LEMMA AlarmTypes ==
    ASSUME NEW a \in Alarms, LimitsAssumption
    PROVE  Registered(a) \in Alarms /\ Unregistered(a) \in Alarms
  <1>1. a.named \in BOOLEAN /\ a.lost \in 0 .. MaxLost /\ MaxLost \in Nat
    BY DEF Alarms, LimitsAssumption
  <1>2. (IF a.named /\ a.lost < MaxLost THEN a.lost + 1 ELSE a.lost) \in 0 .. MaxLost
    BY <1>1
  <1>3. Registered(a) \in Alarms
    BY <1>2 DEF Registered, Alarms
  <1>4. Unregistered(a) \in Alarms
    BY DEF Unregistered, Alarms
  <1> QED BY <1>3, <1>4

\* Starting a thread, and the loop body of a roller, keep the rollers typed.
LEMMA RollerTypes ==
    ASSUME TypeOK, LimitsAssumption,
           \/ StartRoller \/ UNCHANGED rollers
           \/ \E r \in Rollers : RollReturn(r)
           \/ \E r \in Rollers, c \in Codes : PollAgain(r, c)
    PROVE  /\ rpc' \in [Rollers -> RollLabels]
           /\ im_code' \in [Rollers -> Codes]
           /\ roll_time' \in [Rollers -> 0 .. PollLimit]
  BY DEF TypeOK, LimitsAssumption, StartRoller, rollers, RollReturn, PollAgain,
         RollGoto, RollLabels, Codes

\* Every step keeps every variable in its type.
LEMMA TypeStep ==
    ASSUME RollersAssumption, LimitsAssumption, TypeOK, WaitInv, [Next]_vars
    PROVE  TypeOK'
  <1> USE DEF timers, ghosts
  <1>0. /\ Registered(heart) \in Alarms /\ Unregistered(heart) \in Alarms
        /\ Registered(flow) \in Alarms /\ Unregistered(flow) \in Alarms
    BY AlarmTypes DEF TypeOK
  <1>1. [beats |-> 0, notice |-> FALSE] \in [beats : 0 .. NoticeBeat + 1, notice : BOOLEAN]
    BY DEF LimitsAssumption
  <1>2. ASSUME NEW n \in BOOLEAN, Counted(n)
        PROVE  session' \in [beats : 0 .. NoticeBeat + 1, notice : BOOLEAN]
    <2>1. /\ session.beats \in 0 .. NoticeBeat + 1 /\ session.notice \in BOOLEAN
          /\ NoticeBeat \in Nat
      BY DEF TypeOK, LimitsAssumption
    <2>2. (IF session.beats <= NoticeBeat THEN session.beats + 1 ELSE session.beats)
              \in 0 .. NoticeBeat + 1
      BY <2>1
    <2>3. session \in [beats : 0 .. NoticeBeat + 1, notice : BOOLEAN]
      BY DEF TypeOK
    <2> QED BY <1>2, <2>1, <2>2, <2>3 DEF Counted
  <1>3. ASSUME StartRoller \/ UNCHANGED rollers
        PROVE  /\ rpc' \in [Rollers -> RollLabels]
               /\ im_code' \in [Rollers -> Codes]
               /\ roll_time' \in [Rollers -> 0 .. PollLimit]
    BY <1>3, RollerTypes
  <1>4. CASE MainStep
    <2>1. CASE Boot
      BY <1>3, <2>1 DEF Boot, TypeOK, Main, MainLabels, States
    <2>2. CASE BootReply
      BY <1>3, <2>2 DEF BootReply, TypeOK, Main, MainLabels, States
    <2>3. CASE BootLogin
      BY <1>3, <2>3 DEF BootLogin, TypeOK, Main, MainLabels, States
    <2>4. CASE StartRequest
      BY <1>3, <2>4 DEF StartRequest, TypeOK, Main, MainLabels, States
    <2>5. CASE StartDelayed
      BY <1>3, <2>5 DEF StartDelayed, TypeOK, Main, MainLabels, States
    <2>6. CASE StartOpened
      BY <1>3, <1>1, <2>6 DEF StartOpened, TypeOK, Main, MainLabels, States, NewSession
    <2>7. CASE StartTimers
      BY <1>3, <1>0, <2>7 DEF StartTimers, TypeOK, Main, MainLabels, States
    <2>8. CASE StartFailed
      BY <1>3, <2>8 DEF StartFailed, TypeOK, Main, MainLabels, States
    <2>9. CASE StartInvalid
      BY <1>3, <2>9 DEF StartInvalid, TypeOK, Main, MainLabels, States
    <2>10. CASE StartLogin
      BY <1>3, <2>10 DEF StartLogin, TypeOK, Main, MainLabels, States
    <2>11. CASE StopRequest
      BY <1>3, <2>11 DEF StopRequest, TypeOK, Main, MainLabels, States
    <2>12. CASE StopFailed
      BY <1>3, <2>12 DEF StopFailed, TypeOK, Main, MainLabels, States
    <2>13. CASE StopDone
      <3>1. overlap' \in BOOLEAN
        BY <2>13 DEF StopDone
      <3>2. heart' \in Alarms /\ flow' \in Alarms /\ cnt_time' \in 0 .. NoticeBeat
        BY <1>0, <2>13 DEF StopDone, StopTimers, LimitsAssumption
      <3>3. session' \in [beats : 0 .. NoticeBeat + 1, notice : BOOLEAN]
        BY <1>1, <2>13 DEF StopDone, NewSession
      <3>4. ended' \in BOOLEAN
        BY <2>13 DEF StopDone, NewSession
      <3> QED BY <2>13, <3>1, <3>2, <3>3, <3>4
              DEF StopDone, rollers, Main, MainLabels, States, TypeOK
    <2>14. CASE QueryRequest
      BY <1>3, <2>14 DEF QueryRequest, TypeOK, Main, MainLabels, States
    <2>15. CASE QueryReply
      BY <1>3, <2>15 DEF QueryReply, TypeOK, Main, MainLabels, States
    <2>16. CASE QueryLogin
      BY <1>3, <2>16 DEF QueryLogin, TypeOK, Main, MainLabels, States
    <2>17. CASE KeepAcc
      BY <1>3, <2>17 DEF KeepAcc, TypeOK, Main, MainLabels, States
    <2> QED BY <1>4, <2>1, <2>2, <2>3, <2>4, <2>5, <2>6, <2>7, <2>8, <2>9, <2>10, <2>11, <2>12, <2>13, <2>14, <2>15, <2>16, <2>17 DEF MainStep
  <1>5. ASSUME NEW r \in Rollers, RollStep(r) PROVE TypeOK'
    <2>1. CASE PollNoReply(r)
      <3>1. \E c \in Codes : PollAgain(r, c)
        BY <2>1 DEF PollNoReply, TypeOK
      <3>2. acc_state' \in States
        BY <3>1 DEF PollAgain, TypeOK, States
      <3> QED BY <2>1, <3>1, <3>2, RollerTypes DEF PollNoReply, TypeOK
    <2>2. CASE PollReply(r)
      <3>1. \E c \in Codes : PollAgain(r, c)
        BY <2>2 DEF PollReply, TypeOK
      <3>2. acc_state' \in States
        BY <3>1 DEF PollAgain, TypeOK, States
      <3> QED BY <2>2, <3>1, <3>2, RollerTypes DEF PollReply, TypeOK
    <2>3. CASE PollResult(r)
      BY <1>0, <2>3 DEF PollResult, RollGoto, RollLabels, Codes, TypeOK
    <2>4. CASE RollBranch(r)
      <3>1. RollReturn(r) \/ (rpc' = [rpc EXCEPT ![r] = "brocast"]
                             /\ UNCHANGED <<im_code, roll_time>>)
        BY <2>4 DEF RollBranch, RollGoto
      <3>2. /\ rpc' \in [Rollers -> RollLabels]
            /\ im_code' \in [Rollers -> Codes]
            /\ roll_time' \in [Rollers -> 0 .. PollLimit]
        BY <3>1, RollerTypes DEF TypeOK, RollLabels
      <3> QED BY <2>4, <3>2 DEF RollBranch, TypeOK, States
    <2>5. CASE RollHeartbeat(r)
      BY <1>0, <2>5 DEF RollHeartbeat, RollGoto, RollLabels, Codes, TypeOK
    <2>6. CASE RollOpened(r)
      <3>1. /\ rpc' \in [Rollers -> RollLabels]
            /\ im_code' \in [Rollers -> Codes]
            /\ roll_time' \in [Rollers -> 0 .. PollLimit]
        BY <2>6, RollerTypes DEF RollOpened
      <3>2. session' \in [beats : 0 .. NoticeBeat + 1, notice : BOOLEAN]
        BY <1>1, <2>6 DEF RollOpened, NewSession
      <3>3. ended' \in BOOLEAN
        BY <2>6 DEF RollOpened, NewSession
      <3> QED BY <1>0, <2>6, <3>1, <3>2, <3>3 DEF RollOpened, States, TypeOK
    <2>7. CASE RollLoop(r)
      <3>1. roll_time' \in [Rollers -> 0 .. PollLimit]
        BY <2>7 DEF RollLoop, Waited, WaitInv, TypeOK, LimitsAssumption
      <3> QED BY <2>7, <3>1 DEF RollLoop, RollGoto, RollLabels, TypeOK
    <2> QED BY <1>5, <2>1, <2>2, <2>3, <2>4, <2>5, <2>6, <2>7 DEF RollStep
  <1>6. ASSUME NEW t \in Threads, BeatStart(t) \/ BeatEnd(t) PROVE TypeOK'
    <2>1. CASE BeatStart(t)
      BY <2>1 DEF BeatStart, rollers, TypeOK
    <2>2. CASE BeatKept(t)
      <3>0. \/ cnt_time' = cnt_time
            \/ cnt_time' = cnt_time + 1 /\ cnt_time + 1 < NoticeBeat
        BY <2>2 DEF BeatKept
      <3>1. cnt_time' \in 0 .. NoticeBeat
        BY <3>0 DEF TypeOK, LimitsAssumption
      <3>2. session' \in [beats : 0 .. NoticeBeat + 1, notice : BOOLEAN]
        BY <1>2, <2>2 DEF BeatKept, TypeOK
      <3> QED BY <2>2, <3>1, <3>2 DEF BeatKept, HandlerEnd, rollers, TypeOK
    <2>3. CASE BeatNotice(t)
      <3>1. session' \in [beats : 0 .. NoticeBeat + 1, notice : BOOLEAN]
        BY <1>2, <2>3 DEF BeatNotice
      <3> QED BY <2>3, <3>1 DEF BeatNotice, rollers, TypeOK, LimitsAssumption
    <2>4. CASE BeatNoticed(t)
      BY <2>4 DEF BeatNoticed, HandlerEnd, rollers, TypeOK
    <2>5. CASE BeatStops(t)
      <3>1. session' \in [beats : 0 .. NoticeBeat + 1, notice : BOOLEAN]
        BY <1>2, <2>5 DEF BeatStops
      <3> QED BY <1>0, <2>5, <3>1 DEF BeatStops, StopTimers, HandlerEnd, rollers,
                                      TypeOK, LimitsAssumption
    <2> QED BY <1>6, <2>1, <2>2, <2>3, <2>4, <2>5 DEF BeatEnd
  <1>7. CASE UNCHANGED vars
    BY <1>7 DEF vars, rollers, TypeOK
  <1> QED BY <1>4, <1>5, <1>6, <1>7 DEF Next

\* A roller waits only while it has waits left.
LEMMA WaitStep ==
    ASSUME LimitsAssumption, TypeOK, WaitInv, [Next]_vars
    PROVE  WaitInv'
  <1>1. ASSUME UNCHANGED <<rpc, roll_time>> PROVE WaitInv'
    BY <1>1 DEF WaitInv
  <1>2. ASSUME StartRoller \/ UNCHANGED rollers PROVE WaitInv'
    BY <1>2 DEF StartRoller, rollers, WaitInv, TypeOK
  <1>3. CASE MainStep
    BY <1>2, <1>3 DEF MainStep, Boot, BootReply, BootLogin, StartRequest,
       StartDelayed, StartOpened, StartTimers, StartFailed, StartInvalid,
       StartLogin, StopRequest, StopFailed, StopDone, QueryRequest, QueryReply,
       QueryLogin, KeepAcc
  <1>4. ASSUME NEW r \in Rollers, RollStep(r) PROVE WaitInv'
    <2>1. ASSUME NEW c \in Codes, PollAgain(r, c) PROVE WaitInv'
      BY <2>1 DEF PollAgain, GivesUp, RollGoto, RollReturn, WaitInv, TypeOK,
                  LimitsAssumption
    <2>2. CASE PollNoReply(r) \/ PollReply(r)
      BY <2>1, <2>2 DEF PollNoReply, PollReply, TypeOK
    <2>3. CASE \/ PollResult(r) \/ RollBranch(r) \/ RollHeartbeat(r)
               \/ RollOpened(r) \/ RollLoop(r)
      <3>1. \A s \in Rollers : rpc'[s] = "wait" =>
                rpc[s] = "wait" /\ roll_time'[s] = roll_time[s]
        BY <2>3 DEF PollResult, RollBranch, RollHeartbeat, RollOpened, RollLoop,
                    Waited, RollGoto, RollReturn, TypeOK
      <3> QED BY <3>1 DEF WaitInv
    <2> QED BY <1>4, <2>2, <2>3 DEF RollStep
  <1>5. CASE \/ UNCHANGED vars
             \/ \E t \in Threads : BeatStart(t) \/ BeatEnd(t)
    BY <1>1, <1>5 DEF BeatStart, BeatEnd, BeatKept, BeatNotice, BeatNoticed,
                      BeatStops, rollers, vars
  <1> QED BY <1>3, <1>4, <1>5 DEF Next

-----------------------------------------------------------------------------
(* Who is at work on the state                                              *)

\* Ownership is kept while no stop overtakes a roller.
LEMMA OwnerStep ==
    ASSUME RollersAssumption, LimitsAssumption, TypeOK, ~overlap, ~overlap',
           Ownership, AlarmsInv, [Next]_vars
    PROVE  Ownership'
  <1> USE DEF Ownership, MainHolds, NoRoller, Delaying, Live
  <1>1. CASE MainStep
    <2> USE DEF Main, rollers, StartRoller, Answers
    <2>1. CASE Boot
      BY <2>1 DEF Boot, TypeOK
    <2>2. CASE BootReply
      BY <2>2 DEF BootReply, TypeOK
    <2>3. CASE BootLogin
      BY <2>3 DEF BootLogin, TypeOK
    <2>4. CASE StartRequest
      BY <2>4 DEF StartRequest, StartAccepted, TypeOK
    <2>5. CASE StartDelayed
      BY <2>5 DEF StartDelayed, TypeOK
    <2>6. CASE StartOpened
      BY <2>6 DEF StartOpened, TypeOK
    <2>7. CASE StartTimers
      BY <2>7 DEF StartTimers, TypeOK
    <2>8. CASE StartFailed
      BY <2>8 DEF StartFailed, TypeOK
    <2>9. CASE StartInvalid
      BY <2>9 DEF StartInvalid, TypeOK
    <2>10. CASE StartLogin
      BY <2>10 DEF StartLogin, TypeOK
    <2>11. CASE StopRequest
      BY <2>11 DEF StopRequest, TypeOK
    <2>12. CASE StopFailed
      BY <2>12 DEF StopFailed, TypeOK
    <2>13. CASE StopDone
      BY <2>13 DEF StopDone, TypeOK
    <2>14. CASE QueryRequest
      BY <2>14 DEF QueryRequest, QueryAccepted, TypeOK
    <2>15. CASE QueryReply
      BY <2>15 DEF QueryReply, TypeOK
    <2>16. CASE QueryLogin
      BY <2>16 DEF QueryLogin, TypeOK
    <2>17. CASE KeepAcc
      BY <2>17 DEF KeepAcc, TypeOK
    <2> QED BY <1>1, <2>1, <2>2, <2>3, <2>4, <2>5, <2>6, <2>7, <2>8, <2>9, <2>10, <2>11, <2>12, <2>13, <2>14, <2>15, <2>16, <2>17 DEF MainStep
  <1>2. ASSUME NEW r \in Rollers, RollStep(r) PROVE Ownership'
    <2> USE DEF RollGoto, RollReturn
    <2>1. ASSUME NEW c \in Codes, PollAgain(r, c), rpc[r] = "poll", UNCHANGED mpc
          PROVE  Ownership'
      BY <2>1 DEF PollAgain, TypeOK
    <2>2. CASE PollNoReply(r) \/ PollReply(r)
      BY <2>1, <2>2 DEF PollNoReply, PollReply, TypeOK
    <2>3. CASE PollResult(r)
      BY <2>3 DEF PollResult, TypeOK
    <2>4. CASE RollBranch(r)
      BY <2>4 DEF RollBranch, TypeOK
    <2>5. CASE RollHeartbeat(r)
      BY <2>5 DEF RollHeartbeat, TypeOK
    <2>6. CASE RollOpened(r)
      BY <2>6 DEF RollOpened, TypeOK
    <2>7. CASE RollLoop(r)
      BY <2>7 DEF RollLoop, TypeOK
    <2> QED BY <1>2, <2>2, <2>3, <2>4, <2>5, <2>6, <2>7 DEF RollStep
  <1>3. CASE \/ UNCHANGED vars
             \/ \E t \in Threads : BeatStart(t) \/ BeatEnd(t)
    BY <1>3 DEF BeatStart, BeatEnd, BeatKept, BeatNotice, BeatNoticed, BeatStops,
                rollers, vars
  <1> QED BY <1>1, <1>2, <1>3 DEF Next

-----------------------------------------------------------------------------
(* Which alarms are listed, and whose stack their handler uses               *)

\* A heartbeat can be due only in a running session, on the main thread.
LEMMA DueInSession ==
    ASSUME TypeOK, AlarmsInv, Ownership, NEW t \in Threads,
           Due, t \in Rollers => Live(t)
    PROVE  t = "main" /\ Running
  <1>1. heart.named /\ \A r \in Rollers : rpc[r] # "sleep1"
    BY DEF AlarmsInv, Due
  <1>2. Running
    BY <1>1 DEF AlarmsInv
  <1>3. \A r \in Rollers : ~Live(r)
    BY <1>2 DEF Running, Ownership, Delaying
  <1> QED BY <1>2, <1>3 DEF Threads

\* What registering and unregistering do to an alarm with one handle.
LEMMA AlarmEffect ==
    ASSUME NEW a \in Alarms, a.lost = 0
    PROVE  /\ ~a.named => Registered(a).lost = 0
           /\ Registered(a).named = TRUE
           /\ Unregistered(a).lost = 0 /\ Unregistered(a).named = FALSE
  BY DEF Registered, Unregistered, Alarms

LEMMA AlarmsStep ==
    ASSUME RollersAssumption, LimitsAssumption, TypeOK, ~overlap, ~overlap',
           Ownership, AlarmsInv, CountInv, [Next]_vars
    PROVE  AlarmsInv'
  <1> USE DEF AlarmsInv, Running, Runs
  <1>0. /\ heart \in Alarms /\ flow \in Alarms
        /\ heart.lost = 0 /\ flow.lost = 0
    BY DEF TypeOK
  <1>1. CASE MainStep
    <2> USE DEF Main, rollers, StartRoller, Answers, timers, ghosts, Ownership,
                MainHolds, NoRoller, Delaying, Live
    <2>1. CASE Boot
      BY <2>1 DEF Boot, TypeOK
    <2>2. CASE BootReply
      BY <2>2 DEF BootReply, TypeOK
    <2>3. CASE BootLogin
      BY <2>3 DEF BootLogin, TypeOK
    <2>4. CASE StartRequest
      BY <2>4 DEF StartRequest, StartAccepted, TypeOK
    <2>5. CASE StartDelayed
      BY <2>5 DEF StartDelayed, TypeOK
    <2>6. CASE StartOpened
      BY <2>6 DEF StartOpened, NewSession, TypeOK
    <2>7. CASE StartTimers
      BY <1>0, AlarmEffect, <2>7 DEF StartTimers, TypeOK
    <2>8. CASE StartFailed
      BY <2>8 DEF StartFailed, TypeOK
    <2>9. CASE StartInvalid
      BY <2>9 DEF StartInvalid, TypeOK
    <2>10. CASE StartLogin
      BY <2>10 DEF StartLogin, TypeOK
    <2>11. CASE StopRequest
      BY <2>11 DEF StopRequest, TypeOK
    <2>12. CASE StopFailed
      BY <2>12 DEF StopFailed, TypeOK
    <2>13. CASE StopDone
      BY <1>0, AlarmEffect, <2>13 DEF StopDone, NewSession, StopTimers, TypeOK
    <2>14. CASE QueryRequest
      BY <2>14 DEF QueryRequest, QueryAccepted, TypeOK
    <2>15. CASE QueryReply
      BY <2>15 DEF QueryReply, TypeOK
    <2>16. CASE QueryLogin
      BY <2>16 DEF QueryLogin, TypeOK
    <2>17. CASE KeepAcc
      BY <2>17 DEF KeepAcc, TypeOK
    <2> QED BY <1>1, <2>1, <2>2, <2>3, <2>4, <2>5, <2>6, <2>7, <2>8, <2>9, <2>10, <2>11, <2>12, <2>13, <2>14, <2>15, <2>16, <2>17 DEF MainStep
  <1>2. ASSUME NEW r \in Rollers, RollStep(r) PROVE AlarmsInv'
    <2> USE DEF RollGoto, RollReturn, timers, ghosts, Ownership, Delaying, Live
    <2>1. ASSUME NEW c \in Codes, PollAgain(r, c), rpc[r] = "poll",
                 UNCHANGED <<mpc, timers, hnd, ghosts>>
          PROVE  AlarmsInv'
      BY <2>1 DEF PollAgain, TypeOK
    <2>2. CASE PollNoReply(r) \/ PollReply(r)
      BY <2>1, <2>2 DEF PollNoReply, PollReply, TypeOK
    <2>3. CASE PollResult(r)
      BY <2>3 DEF PollResult, TypeOK
    <2>4. CASE RollBranch(r)
      BY <2>4 DEF RollBranch, TypeOK
    <2>5. CASE RollHeartbeat(r)
      BY <1>0, AlarmEffect, <2>5 DEF RollHeartbeat, TypeOK
    <2>6. CASE RollOpened(r)
      BY <1>0, AlarmEffect, <2>6 DEF RollOpened, NewSession, MainHolds, NoRoller, TypeOK
    <2>7. CASE RollLoop(r)
      BY <2>7 DEF RollLoop, TypeOK
    <2> QED BY <1>2, <2>2, <2>3, <2>4, <2>5, <2>6, <2>7 DEF RollStep
  <1>3. ASSUME NEW t \in Threads, BeatStart(t) \/ BeatEnd(t) PROVE AlarmsInv'
    <2> USE DEF rollers, ghosts, HandlerEnd
    <2>1. ASSUME UNCHANGED <<acc_state, mpc, rpc, heart, flow, ended>>,
                 \A u \in Threads : hnd'[u] # "none" => u = "main" /\ Running
          PROVE  AlarmsInv'
      BY <2>1
    <2>2. CASE BeatStart(t)
      <3>1. t = "main" /\ Running
        BY <2>2, DueInSession DEF BeatStart
      <3>2. \A u \in Threads : hnd'[u] # "none" => u = "main" /\ Running
        BY <2>2, <3>1 DEF BeatStart, TypeOK
      <3> QED BY <2>1, <2>2, <3>2 DEF BeatStart
    <2>3. CASE BeatKept(t) \/ BeatNotice(t) \/ BeatNoticed(t)
      <3>1. /\ hnd[t] # "none"
            /\ \E l : hnd' = [hnd EXCEPT ![t] = l]
            /\ UNCHANGED <<acc_state, mpc, rpc, heart, flow, ended>>
        BY <2>3 DEF BeatKept, BeatNotice, BeatNoticed
      <3>2. \A u \in Threads : hnd'[u] # "none" => u = "main" /\ Running
        BY <3>1 DEF TypeOK
      <3> QED BY <2>1, <3>1, <3>2
    <2>4. CASE BeatStops(t)
      <3>1. /\ heart'.lost = 0 /\ ~heart'.named
            /\ flow'.lost = 0 /\ ~flow'.named
            /\ ended' = TRUE
        BY <1>0, AlarmEffect, <2>4 DEF BeatStops, StopTimers
      <3>2. t = "main" /\ Running
        BY <2>4 DEF BeatStops
      <3>3. \A u \in Threads : hnd'[u] = "none"
        BY <2>4, <3>2 DEF BeatStops, TypeOK
      <3>4. \A r \in Rollers : rpc[r] = "none"
        BY <3>2 DEF Ownership, Live, Delaying
      <3>5. UNCHANGED <<acc_state, mpc, rpc>>
        BY <2>4 DEF BeatStops
      <3> QED BY <3>1, <3>2, <3>3, <3>4, <3>5
    <2> QED BY <1>3, <2>2, <2>3, <2>4 DEF BeatEnd
  <1>4. CASE UNCHANGED vars
    BY <1>4 DEF vars, rollers, timers, ghosts
  <1> QED BY <1>1, <1>2, <1>3, <1>4 DEF Next

-----------------------------------------------------------------------------
(* What was counted and told in this session                                *)

\* What counting a heartbeat does before an overlap.
LEMMA CountedEffect ==
    ASSUME LimitsAssumption, TypeOK, ~overlap, NEW n \in BOOLEAN, Counted(n)
    PROVE  /\ session'.notice = (session.notice \/ n)
           /\ session.beats <= NoticeBeat => session'.beats = session.beats + 1
  <1>1. session \in [beats : 0 .. NoticeBeat + 1, notice : BOOLEAN]
    BY DEF TypeOK
  <1>2. session' = [session EXCEPT
            !.beats = IF session.beats <= NoticeBeat THEN session.beats + 1 ELSE session.beats,
            !.notice = session.notice \/ n]
    BY DEF Counted
  <1>3. session'.notice = (session.notice \/ n)
    BY <1>1, <1>2
  <1>4. session'.beats = IF session.beats <= NoticeBeat THEN session.beats + 1
                         ELSE session.beats
    BY <1>1, <1>2
  <1> QED BY <1>3, <1>4

LEMMA CountStep ==
    ASSUME RollersAssumption, LimitsAssumption, TypeOK, ~overlap, ~overlap',
           Ownership, AlarmsInv, CountInv, [Next]_vars
    PROVE  CountInv'
  <1> USE DEF CountInv, Running, LimitsAssumption
  <1>0. /\ cnt_time \in Nat /\ NoticeBeat \in Nat \ {0} /\ ended \in BOOLEAN
        /\ session \in [beats : 0 .. NoticeBeat + 1, notice : BOOLEAN]
    BY DEF TypeOK
  \* Steps inside or outside an open session that count nothing.
  <1>1. ASSUME UNCHANGED <<cnt_time, session, ended>>,
               /\ acc_state = "OPENED" => acc_state' = "OPENED"
               /\ mpc' = "open" => mpc = "open"
        PROVE  CountInv'
    BY <1>1
  \* A new session starts from a count of zero.
  <1>2. ASSUME NewSession, cnt_time' = 0
        PROVE  CountInv'
    BY <1>2, <1>0 DEF NewSession
  <1>3. ASSUME MainHolds \/ (\E r \in Rollers : Live(r)) \/ mpc = "boot"
        PROVE  acc_state # "OPENED" /\ cnt_time = 0
    BY <1>3 DEF Ownership, Delaying, MainHolds
  <1>4. CASE MainStep
    <2> USE DEF Main, ghosts, timers
    <2>1. CASE \/ Boot \/ BootReply \/ BootLogin \/ StartDelayed \/ StartFailed
               \/ StartInvalid \/ StartLogin \/ QueryReply \/ QueryLogin
      <3>1. MainHolds \/ mpc = "boot"
        BY <2>1 DEF Boot, BootReply, BootLogin, StartDelayed, StartFailed,
                    StartInvalid, StartLogin, QueryReply, QueryLogin, MainHolds
      <3>2. /\ UNCHANGED <<cnt_time, session, ended>>
            /\ mpc' # "open"
        BY <2>1 DEF Boot, BootReply, BootLogin, StartDelayed, StartFailed,
                    StartInvalid, StartLogin, QueryReply, QueryLogin
      <3> QED BY <1>1, <1>3, <3>1, <3>2
    <2>2. CASE \/ StartRequest \/ StartTimers \/ StopRequest \/ StopFailed
               \/ QueryRequest \/ KeepAcc
      BY <1>1, <2>2 DEF StartRequest, StartAccepted, StartTimers, StopRequest,
                        StopFailed, QueryRequest, QueryAccepted, KeepAcc
    <2>3. CASE StartOpened
      BY <1>2, <1>3, <2>3 DEF StartOpened, MainHolds
    <2>4. CASE StopDone
      BY <1>2, <2>4 DEF StopDone, StopTimers
    <2> QED BY <1>4, <2>1, <2>2, <2>3, <2>4 DEF MainStep
  <1>5. ASSUME NEW r \in Rollers, RollStep(r) PROVE CountInv'
    <2>1. acc_state # "OPENED" /\ cnt_time = 0
      BY <1>3, <1>5 DEF RollStep, PollNoReply, PollReply, PollResult, RollBranch,
                        RollHeartbeat, RollOpened, RollLoop, Live
    <2>2. CASE RollOpened(r)
      BY <1>2, <2>1, <2>2 DEF RollOpened
    <2>3. CASE ~RollOpened(r)
      <3>1. UNCHANGED <<cnt_time, session, ended, mpc>>
        BY <1>5, <2>3 DEF RollStep, PollNoReply, PollReply, PollResult,
                          RollBranch, RollHeartbeat, RollLoop, timers, ghosts
      <3> QED BY <1>1, <2>1, <3>1
    <2> QED BY <2>2, <2>3
  <1>6. ASSUME NEW t \in Threads, BeatStart(t) \/ BeatEnd(t) PROVE CountInv'
    <2>1. CASE BeatStart(t) \/ BeatNoticed(t)
      BY <1>1, <2>1 DEF BeatStart, BeatNoticed, timers, ghosts
    <2>2. /\ UNCHANGED <<acc_state, mpc>>
          /\ ~BeatStart(t) => Running
      BY <1>6 DEF BeatStart, BeatEnd, BeatKept, BeatNotice, BeatNoticed,
                  BeatStops, AlarmsInv, Runs
    <2>3. CASE BeatKept(t)
      <3>1. CASE keepacc
        BY <1>1, <2>2, <2>3, <3>1 DEF BeatKept
      <3>2. CASE ~keepacc
        <4>1. /\ cnt_time' = cnt_time + 1 /\ cnt_time + 1 < NoticeBeat
              /\ Counted(FALSE) /\ ended' = ended
          BY <2>3, <3>2 DEF BeatKept
        <4>2. ~ended /\ Running
          BY <2>3 DEF BeatKept, AlarmsInv, Runs
        <4>3. session'.beats = session.beats + 1 /\ session'.notice = session.notice
          <5>1. session.beats <= NoticeBeat
            BY <1>0, <4>1, <4>2
          <5>2. session'.notice = (session.notice \/ FALSE)
            BY <4>1, CountedEffect
          <5>3. session'.beats = session.beats + 1
            BY <4>1, <5>1, CountedEffect
          <5>4. session.notice \in BOOLEAN
            BY <1>0
          <5> QED BY <5>2, <5>3, <5>4
        <4>4. ~session.notice
          BY <1>0, <4>1, <4>2
        <4> QED BY <1>0, <2>2, <4>1, <4>2, <4>3, <4>4
      <3> QED BY <3>1, <3>2
    <2>4. CASE BeatNotice(t)
      <3>1. /\ cnt_time' = cnt_time + 1 /\ cnt_time + 1 = NoticeBeat
            /\ Counted(TRUE) /\ ended' = ended
        BY <2>4 DEF BeatNotice
      <3>2. ~ended /\ Running
        BY <2>4 DEF BeatNotice, AlarmsInv, Runs
      <3>3. session.beats <= NoticeBeat
        BY <1>0, <3>1, <3>2
      <3>4. session'.notice = (session.notice \/ TRUE)
        BY <3>1, CountedEffect
      <3>5. session'.beats = session.beats + 1
        BY <3>1, <3>3, CountedEffect
      <3>6. session'.notice = TRUE
        BY <3>4
      <3> QED BY <1>0, <2>2, <3>1, <3>2, <3>5, <3>6
    <2>5. CASE BeatStops(t)
      <3>1. cnt_time' = 0 /\ ended' = TRUE /\ Counted(FALSE)
        BY <2>5 DEF BeatStops, StopTimers
      <3>2. Running
        BY <2>5 DEF BeatStops, AlarmsInv, Runs
      <3>3. cnt_time' # NoticeBeat
        BY <1>0, <3>1
      <3>4. ended' /\ acc_state' = "OPENED"
        BY <2>2, <3>1, <3>2
      <3> QED BY <3>1, <3>3, <3>4
    <2> QED BY <1>6, <2>1, <2>3, <2>4, <2>5 DEF BeatEnd
  <1>7. CASE UNCHANGED vars
    BY <1>1, <1>7 DEF vars, timers, ghosts
  <1> QED BY <1>4, <1>5, <1>6, <1>7 DEF Next

-----------------------------------------------------------------------------
(* The inductive invariant                                                  *)

\* Nothing undoes an overlap; only a stop command completes one.
LEMMA OverlapStable ==
    ASSUME TypeOK, [Next]_vars
    PROVE  /\ overlap => overlap'
           /\ ~overlap /\ overlap' => StopDone /\ \E r \in Rollers : Live(r)
  <1> USE DEF ghosts
  <1>1. CASE StopDone
    BY <1>1 DEF StopDone, TypeOK
  <1>2. CASE MainStep /\ ~StopDone
    BY <1>2 DEF MainStep, Boot, BootReply, BootLogin, StartRequest, StartDelayed,
       StartOpened, StartTimers, StartFailed, StartInvalid, StartLogin,
       StopRequest, StopFailed, QueryRequest, QueryReply, QueryLogin, KeepAcc
  <1>3. ASSUME NEW r \in Rollers, RollStep(r) PROVE overlap' = overlap
    BY <1>3 DEF RollStep, PollNoReply, PollReply, PollResult, RollBranch,
                RollHeartbeat, RollOpened, RollLoop
  <1>4. ASSUME NEW t \in Threads, BeatStart(t) \/ BeatEnd(t) PROVE overlap' = overlap
    BY <1>4 DEF BeatStart, BeatEnd, BeatKept, BeatNotice, BeatNoticed, BeatStops
  <1>5. CASE UNCHANGED vars
    BY <1>5 DEF vars
  <1> QED BY <1>1, <1>2, <1>3, <1>4, <1>5 DEF Next

\* The initial states satisfy the invariant.
LEMMA InitInv == ASSUME RollersAssumption, LimitsAssumption, Init PROVE IInv
  <1>1. TypeOK
    <2>1. [named |-> FALSE, lost |-> 0] \in Alarms
      BY DEF Alarms, LimitsAssumption
    <2>2. [beats |-> 0, notice |-> FALSE] \in [beats : 0 .. NoticeBeat + 1, notice : BOOLEAN]
      BY DEF LimitsAssumption
    <2>3. /\ rpc \in [Rollers -> RollLabels] /\ im_code \in [Rollers -> Codes]
          /\ roll_time \in [Rollers -> 0 .. PollLimit]
          /\ hnd \in [Threads -> {"none", "beat", "notice"}]
          /\ cnt_time \in 0 .. NoticeBeat
      BY DEF Init, RollLabels, Codes, LimitsAssumption
    <2>4. acc_state \in States /\ mpc \in MainLabels
      BY DEF Init, States, MainLabels
    <2>5. /\ heart \in Alarms /\ flow \in Alarms
          /\ session \in [beats : 0 .. NoticeBeat + 1, notice : BOOLEAN]
      BY <2>1, <2>2 DEF Init
    <2>6. /\ keepacc \in BOOLEAN /\ armed \in BOOLEAN
          /\ overlap \in BOOLEAN /\ stopped \in BOOLEAN /\ ended \in BOOLEAN
      BY DEF Init
    <2> QED BY <2>3, <2>4, <2>5, <2>6 DEF TypeOK
  <1>2. WaitInv
    BY DEF Init, WaitInv
  <1>3. Ownership
    BY DEF Init, Ownership, MainHolds, NoRoller, Live
  <1>4. AlarmsInv
    BY DEF Init, AlarmsInv, Running, Runs
  <1>5. CountInv
    BY DEF Init, CountInv, Running, LimitsAssumption
  <1> QED BY <1>1, <1>2, <1>3, <1>4, <1>5 DEF IInv

\* Every step keeps the invariant.
LEMMA StepInv ==
    ASSUME RollersAssumption, LimitsAssumption, IInv, [Next]_vars PROVE IInv'
  <1>1. TypeOK' /\ WaitInv'
    BY TypeStep, WaitStep DEF IInv
  <1>2. ASSUME ~overlap' PROVE Ownership' /\ AlarmsInv' /\ CountInv'
    BY <1>2, OverlapStable, OwnerStep, AlarmsStep, CountStep DEF IInv
  <1> QED BY <1>1, <1>2 DEF IInv

THEOREM Inductive == Spec => []IInv
  <1>1. Init => IInv
    BY InitInv, RollersAssumption, LimitsAssumption
  <1>2. IInv /\ [Next]_vars => IInv'
    BY StepInv, RollersAssumption, LimitsAssumption
  <1> QED BY <1>1, <1>2, PTL DEF Spec

\* Type correctness, also of sessions that a stop overtook.
THEOREM TypeCorrect == Spec => []TypeOK
  <1>1. IInv => TypeOK
    BY DEF IInv
  <1> QED BY <1>1, Inductive, PTL

\* Unless a stop overtook a roller, one thread at a time is at work on the
\* acceleration state, and the state says so.
THEOREM SessionHasOneOwner == Spec => []OneOwner
  <1>1. IInv => OneOwner
    <2> SUFFICES ASSUME IInv, ~overlap, Ownership PROVE OneOwner
      BY DEF IInv, OneOwner
    <2>1. mpc = "open" => \A r \in Rollers : ~Live(r)
      BY DEF Ownership, Delaying
    <2>2. MainHolds => Delaying
      BY DEF Ownership, MainHolds, Delaying
    <2> QED BY <2>1, <2>2 DEF Ownership, OneOwner, NoRoller
  <1> QED BY <1>1, Inductive, PTL

\* Unless a stop overtook a roller, the session's alarms run exactly while it is
\* open and not yet ended by the count, each under its handle.
THEOREM TimersAreTheSessions == Spec => []TimersFollowState
  <1>1. IInv => TimersFollowState
    <2> SUFFICES ASSUME IInv, ~overlap
                 PROVE  /\ heart.lost = 0 /\ flow.lost = 0
                        /\ acc_state = "CLOSED" => ~heart.named /\ ~flow.named
                        /\ acc_state = "OPENED" /\ mpc # "open" =>
                              heart.named = ~ended /\ flow.named = ~ended
      BY DEF TimersFollowState
    <2>1. /\ heart.named \in BOOLEAN /\ flow.named \in BOOLEAN
      BY DEF IInv, TypeOK, Alarms
    <2>2. Ownership /\ AlarmsInv
      BY DEF IInv
    <2>3. heart.lost = 0 /\ flow.lost = 0
      BY <2>2 DEF AlarmsInv
    <2>4. acc_state \in {"OPENED", "CLOSED"} => \A r \in Rollers : rpc[r] # "sleep1"
      BY <2>2 DEF Ownership
    <2>5. ASSUME acc_state = "CLOSED" PROVE ~heart.named /\ ~flow.named
      BY <2>2, <2>4, <2>5 DEF AlarmsInv, Running
    <2>6. ASSUME acc_state = "OPENED", mpc # "open"
          PROVE  heart.named = ~ended /\ flow.named = ~ended
      <3>1. heart.named <=> ~ended
        BY <2>2, <2>4, <2>6 DEF AlarmsInv, Running
      <3>2. flow.named <=> ~ended
        BY <2>2, <2>6 DEF AlarmsInv, Running
      <3> QED BY <2>1, <3>1, <3>2
    <2> QED BY <2>3, <2>5, <2>6
  <1> QED BY <1>1, Inductive, PTL

-----------------------------------------------------------------------------
(* What a step may not do                                                   *)

\* Only a stop command leaves OPENED.
LEMMA LeaveOpened ==
    ASSUME IInv, [Next]_vars, acc_state = "OPENED", acc_state' # "OPENED", ~overlap
    PROVE  mpc = "stop_wait"
  <1>1. /\ ~MainHolds /\ mpc # "boot"
        /\ \A r \in Rollers : rpc[r] = "none"
    BY DEF IInv, Ownership, Delaying, MainHolds, Live
  <1>2. CASE MainStep
    BY <1>1, <1>2 DEF MainStep, Boot, BootReply, BootLogin, StartRequest,
       StartAccepted, StartDelayed, StartOpened, StartTimers, StartFailed,
       StartInvalid, StartLogin, StopRequest, StopFailed, StopDone, QueryRequest,
       QueryAccepted, QueryReply, QueryLogin, KeepAcc, Main, MainHolds
  <1>3. ASSUME NEW r \in Rollers, RollStep(r) PROVE FALSE
    BY <1>1, <1>3 DEF RollStep, PollNoReply, PollReply, PollResult, RollBranch,
                      RollHeartbeat, RollOpened, RollLoop
  <1>4. CASE \/ UNCHANGED vars
             \/ \E t \in Threads : BeatStart(t) \/ BeatEnd(t)
    BY <1>4 DEF BeatStart, BeatEnd, BeatKept, BeatNotice, BeatNoticed, BeatStops,
                vars
  <1> QED BY <1>2, <1>3, <1>4 DEF Next

\* Unless a stop overtook a roller, a session stays open until a stop command:
\* no late answer, retry, timeout or heartbeat ends it.
THEOREM OnlyStopEndsSession == Spec => OpenedUntilStop
  <1>1. IInv /\ [Next]_vars
          => [acc_state = "OPENED" /\ acc_state' # "OPENED" /\ ~overlap
                => mpc = "stop_wait"]_vars
    BY LeaveOpened
  <1> QED BY <1>1, Inductive, PTL DEF Spec, OpenedUntilStop

\* The step that stops a session's timers for good is the handler's, in a running
\* session, when the count is full.
LEMMA EndsByCount ==
    ASSUME LimitsAssumption, IInv, [Next]_vars, ended', ~ended, ~overlap
    PROVE  \E t \in Threads : BeatStops(t) /\ Running /\ cnt_time = NoticeBeat
  <1>1. \E t \in Threads : BeatStops(t)
    <2>1. ~MainStep
      BY DEF MainStep, Boot, BootReply, BootLogin, StartRequest, StartDelayed,
         StartOpened, StartTimers, StartFailed, StartInvalid, StartLogin,
         StopRequest, StopFailed, StopDone, QueryRequest, QueryReply, QueryLogin,
         KeepAcc, NewSession, ghosts
    <2>2. ASSUME NEW r \in Rollers PROVE ~RollStep(r)
      BY DEF RollStep, PollNoReply, PollReply, PollResult, RollBranch,
             RollHeartbeat, RollOpened, RollLoop, NewSession, ghosts
    <2>3. ~UNCHANGED vars
      BY DEF vars, ghosts
    <2>4. ASSUME NEW t \in Threads, BeatStart(t) \/ BeatEnd(t) PROVE BeatStops(t)
      BY <2>4 DEF BeatStart, BeatEnd, BeatKept, BeatNotice, BeatNoticed, ghosts
    <2> QED BY <2>1, <2>2, <2>3, <2>4 DEF Next
  <1>2. PICK t \in Threads : BeatStops(t)
    BY <1>1
  <1>3. Running
    BY <1>2 DEF BeatStops, IInv, AlarmsInv, Runs
  <1>4. cnt_time + 1 > NoticeBeat
    BY <1>2 DEF BeatStops
  <1>5. cnt_time = NoticeBeat
    BY <1>4 DEF IInv, TypeOK, LimitsAssumption
  <1> QED BY <1>2, <1>3, <1>5

\* Unless a stop overtook a roller, the count stops a session's timers only after
\* the whole count of heartbeats of that session and after the users were told.
THEOREM EndIsAnnounced == Spec => StopIsAnnounced
  <1>1. ASSUME IInv, [Next]_vars, ended', ~ended, ~overlap
        PROVE  session.notice /\ session.beats >= NoticeBeat
    <2>1. Running /\ cnt_time = NoticeBeat
      BY <1>1, EndsByCount, LimitsAssumption
    <2>2. session.notice
      BY <1>1, <2>1 DEF IInv, CountInv
    <2>3. session.beats = cnt_time
      BY <1>1 DEF IInv, CountInv
    <2>4. session.beats >= NoticeBeat
      BY <2>1, <2>3, LimitsAssumption DEF LimitsAssumption
    <2> QED BY <2>2, <2>4
  <1>2. IInv /\ [Next]_vars
          => [ended' /\ ~ended /\ ~overlap
                => session.notice /\ session.beats >= NoticeBeat]_vars
    BY <1>1
  <1> QED BY <1>2, Inductive, PTL DEF Spec, StopIsAnnounced

-----------------------------------------------------------------------------
(* The threads implement the abstract service                               *)

LEMMA ServiceInit == Init => Service!Init
  BY DEF Init, Service!Init, Phase, Clock, Told

\* Every step is a step of the service, or none that it shows.
LEMMA ServiceStep ==
    ASSUME RollersAssumption, LimitsAssumption, IInv, [Next]_vars
    PROVE  [Service!Next]_(Service!vars)
  <1>0. TypeOK /\ session.notice \in BOOLEAN /\ heart \in Alarms
    BY DEF IInv, TypeOK
  <1>1. CASE overlap
    <2>1. overlap'
      BY <1>0, <1>1, OverlapStable
    <2> QED BY <1>1, <2>1 DEF Service!vars, Phase, Clock, Told
  <1>2. CASE ~overlap /\ overlap'
    <2>1. \E r \in Rollers : Live(r)
      BY <1>0, <1>2, OverlapStable
    <2>2. acc_state \in {"QUERYING", "OPENING"}
      BY <1>2, <2>1 DEF IInv, Ownership, Delaying
    <2>3. Service!Overtake
      BY <1>2, <2>2 DEF Service!Overtake, Service!Pending, Phase, Clock, Told
    <2> QED BY <2>3 DEF Service!Next
  <1>3. CASE ~overlap /\ ~overlap'
    <2> USE <1>3 DEF Phase, Clock, Told
    <2>0. Ownership /\ AlarmsInv /\ CountInv
      BY DEF IInv
    \* A step the service does not show.
    <2>1. ASSUME acc_state' = acc_state, heart'.named = heart.named,
                 ended' = ended, session'.notice = session.notice
          PROVE  UNCHANGED Service!vars
      BY <2>1 DEF Service!vars
    \* The state of a request at work: no session clock, nothing told.
    <2>2. ASSUME MainHolds \/ \E r \in Rollers : rpc[r] \in {"poll", "parsed", "brocast"}
          PROVE  Delaying /\ ~ended /\ ~heart.named /\ ~session.notice
      <3>1. Delaying /\ \A r \in Rollers : rpc[r] # "sleep1"
        BY <2>0, <2>2 DEF Ownership, Delaying, MainHolds, NoRoller, Live
      <3> QED BY <2>0, <3>1 DEF AlarmsInv, CountInv, Running, Delaying
    \* It either goes on or is settled.
    <2>3. ASSUME MainHolds \/ \E r \in Rollers : rpc[r] \in {"poll", "parsed"},
                 acc_state' \in {acc_state, "CLOSED"},
                 UNCHANGED <<heart, ended, session>>
          PROVE  [Service!Next]_(Service!vars)
      <3>1. CASE acc_state' = acc_state
        BY <2>1, <2>3, <3>1
      <3>2. CASE acc_state' = "CLOSED"
        <4>1. Service!Settle
          BY <2>2, <2>3, <3>2 DEF Service!Settle, Service!Pending, Delaying
        <4> QED BY <4>1 DEF Service!Next
      <3> QED BY <2>3, <3>1, <3>2
    <2>4. CASE MainStep
      <3> USE DEF Main, timers, ghosts
      <3>1. CASE Boot \/ StartRequest \/ QueryRequest
        <4>1. /\ acc_state = "CLOSED" /\ acc_state' \in {"QUERYING", "OPENING"}
              /\ UNCHANGED <<heart, ended, session>>
          BY <2>0, <3>1 DEF Boot, StartRequest, StartAccepted, QueryRequest,
                            QueryAccepted, Ownership
        <4>2. Service!Query \/ Service!Start
          BY <4>1 DEF Service!Query, Service!Start
        <4> QED BY <4>2 DEF Service!Next
      <3>2. CASE \/ BootReply \/ BootLogin \/ StartDelayed \/ StartFailed
                 \/ StartInvalid \/ StartLogin \/ QueryReply \/ QueryLogin
        <4>1. MainHolds /\ UNCHANGED <<heart, ended, session>>
          BY <3>2 DEF BootReply, BootLogin, StartDelayed, StartFailed,
                      StartInvalid, StartLogin, QueryReply, QueryLogin, MainHolds
        <4>2. acc_state' \in {acc_state, "CLOSED"}
          BY <2>0, <3>2 DEF BootReply, BootLogin, StartDelayed, StartFailed,
             StartInvalid, StartLogin, QueryReply, QueryLogin, Ownership
        <4> QED BY <2>3, <4>1, <4>2
      <3>3. CASE StartOpened
        <4>1. /\ acc_state = "OPENING" /\ acc_state' = "OPENED"
              /\ UNCHANGED heart
              /\ ended' = FALSE /\ session' = [beats |-> 0, notice |-> FALSE]
          BY <2>0, <3>3 DEF StartOpened, NewSession, Ownership
        <4>2. ~ended /\ ~session.notice
          BY <2>2, <3>3 DEF StartOpened, MainHolds
        <4>3. Service!Open
          BY <1>0, <4>1, <4>2 DEF Service!Open
        <4> QED BY <4>3 DEF Service!Next
      <3>4. CASE StartTimers
        <4>1. /\ acc_state = "OPENED" /\ ~heart.named /\ ~ended
          BY <2>0, <3>4 DEF StartTimers, Ownership, AlarmsInv, Running, Live, Delaying
        <4>2. /\ heart'.named = TRUE
              /\ UNCHANGED <<acc_state, ended, session>>
          BY <1>0, <3>4, AlarmEffect DEF StartTimers, Registered
        <4>3. Service!Run
          BY <4>1, <4>2 DEF Service!Run
        <4> QED BY <4>3 DEF Service!Next
      <3>5. CASE StopRequest \/ StopFailed \/ KeepAcc
        BY <2>1, <3>5 DEF StopRequest, StopFailed, KeepAcc
      <3>6. CASE StopDone
        <4>1. /\ acc_state' = "CLOSED" /\ ended' = FALSE
              /\ session' = [beats |-> 0, notice |-> FALSE]
          BY <3>6 DEF StopDone, NewSession
        <4>2. heart'.named = FALSE
          BY <1>0, <3>6 DEF StopDone, StopTimers, Unregistered, Alarms
        <4>3. acc_state # "overtaken"
          BY <1>0 DEF TypeOK, States
        <4>4. Service!Stop
          BY <4>1, <4>2, <4>3 DEF Service!Stop
        <4> QED BY <4>4 DEF Service!Next
      <3> QED BY <2>4, <3>1, <3>2, <3>3, <3>4, <3>5, <3>6 DEF MainStep
    <2>5. ASSUME NEW r \in Rollers, RollStep(r)
          PROVE  [Service!Next]_(Service!vars)
      <3> USE DEF timers, ghosts
      <3>1. CASE PollNoReply(r) \/ PollReply(r) \/ PollResult(r)
        <4>1. rpc[r] = "poll" /\ UNCHANGED <<heart, ended, session>>
          BY <3>1 DEF PollNoReply, PollReply, PollResult
        <4>2. acc_state' \in {acc_state, "CLOSED"}
          BY <3>1 DEF PollNoReply, PollReply, PollResult, PollAgain
        <4> QED BY <2>3, <4>1, <4>2
      <3>2. CASE RollBranch(r)
        <4>1. rpc[r] = "parsed" /\ UNCHANGED <<heart, ended, session>>
          BY <3>2 DEF RollBranch
        <4>2. acc_state' \in {acc_state, "CLOSED"}
          BY <3>2 DEF RollBranch
        <4> QED BY <2>3, <4>1, <4>2
      <3>3. CASE RollHeartbeat(r)
        <4>1. ~heart.named /\ ~ended /\ acc_state = "OPENING"
          BY <2>0, <2>2, <3>3 DEF RollHeartbeat, Ownership
        <4>2. heart'.named = TRUE /\ UNCHANGED <<acc_state, ended, session>>
          BY <3>3 DEF RollHeartbeat, Registered
        <4>3. Service!Run
          BY <4>1, <4>2 DEF Service!Run
        <4> QED BY <4>3 DEF Service!Next
      <3>4. CASE RollOpened(r)
        <4>1. /\ acc_state' = "OPENED" /\ UNCHANGED heart
              /\ ended' = FALSE /\ session' = [beats |-> 0, notice |-> FALSE]
          BY <3>4 DEF RollOpened, NewSession
        <4>2. acc_state = "OPENING" /\ ~ended /\ ~session.notice
          BY <2>0, <3>4 DEF RollOpened, Ownership, AlarmsInv, CountInv
        <4>3. Service!Open
          BY <1>0, <4>1, <4>2 DEF Service!Open
        <4> QED BY <4>3 DEF Service!Next
      <3>5. CASE RollLoop(r)
        BY <2>1, <3>5 DEF RollLoop
      <3> QED BY <2>5, <3>1, <3>2, <3>3, <3>4, <3>5 DEF RollStep
    <2>6. ASSUME NEW t \in Threads, BeatStart(t) \/ BeatEnd(t)
          PROVE  [Service!Next]_(Service!vars)
      <3> USE DEF ghosts
      <3>1. CASE BeatStart(t) \/ BeatNoticed(t)
        BY <2>1, <3>1 DEF BeatStart, BeatNoticed
      <3>2. CASE BeatKept(t)
        <4>1. session'.notice = session.notice
          <5>1. CASE UNCHANGED session
            BY <5>1
          <5>2. CASE Counted(FALSE)
            <6>1. session'.notice = (session.notice \/ FALSE)
              BY <1>0, <5>2, CountedEffect
            <6> QED BY <1>0, <6>1
          <5> QED BY <3>2, <5>1, <5>2 DEF BeatKept
        <4> QED BY <2>1, <3>2, <4>1 DEF BeatKept
      <3>3. ASSUME BeatNotice(t) \/ BeatStops(t)
            PROVE  acc_state = "OPENED" /\ ~ended /\ heart.named
        BY <2>0, <3>3 DEF BeatNotice, BeatStops, AlarmsInv, Running, Runs
      <3>4. CASE BeatNotice(t)
        <4>1. /\ UNCHANGED <<acc_state, heart, ended>> /\ Counted(TRUE)
              /\ cnt_time + 1 = NoticeBeat
          BY <3>4 DEF BeatNotice
        <4>2. session'.notice = TRUE
          <5>1. session'.notice = (session.notice \/ TRUE)
            BY <1>0, <4>1, CountedEffect
          <5> QED BY <5>1
        <4>3. cnt_time # NoticeBeat
          BY <1>0, <4>1 DEF TypeOK
        <4>4. ~session.notice
          BY <2>0, <3>3, <3>4, <4>3 DEF CountInv
        <4>5. Service!Tell
          BY <3>3, <3>4, <4>1, <4>2, <4>4 DEF Service!Tell
        <4> QED BY <4>5 DEF Service!Next
      <3>5. CASE BeatStops(t)
        <4>1. /\ UNCHANGED acc_state /\ Counted(FALSE) /\ ended' = TRUE
              /\ cnt_time + 1 > NoticeBeat
          BY <3>5 DEF BeatStops
        <4>2. session'.notice = session.notice
          <5>1. session'.notice = (session.notice \/ FALSE)
            BY <1>0, <4>1, CountedEffect
          <5> QED BY <1>0, <5>1
        <4>3. cnt_time = NoticeBeat
          BY <1>0, <4>1 DEF TypeOK, LimitsAssumption
        <4>4. session.notice
          BY <2>0, <4>3 DEF CountInv
        <4>5. Service!Expire
          BY <3>3, <3>5, <4>1, <4>2, <4>4 DEF Service!Expire
        <4> QED BY <4>5 DEF Service!Next
      <3> QED BY <2>6, <3>1, <3>2, <3>4, <3>5 DEF BeatEnd
    <2>7. CASE UNCHANGED vars
      BY <2>1, <2>7 DEF vars, timers, ghosts
    <2> QED BY <2>4, <2>5, <2>6, <2>7 DEF Next
  <1> QED BY <1>1, <1>2, <1>3

\* The main thread, the rollers and the handlers together are the service that
\* AccService describes, until a stop overtakes a roller.
THEOREM ImplementsService == Spec => ServiceSpec
  <1>1. Init => Service!Init
    BY ServiceInit
  <1>2. IInv /\ [Next]_vars => [Service!Next]_(Service!vars)
    BY ServiceStep, RollersAssumption, LimitsAssumption
  <1> QED BY <1>1, <1>2, Inductive, PTL DEF Spec, ServiceSpec, Service!Spec

=============================================================================
