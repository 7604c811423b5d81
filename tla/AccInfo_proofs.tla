---------------------------- MODULE AccInfo_proofs ----------------------------
(***************************************************************************)
(* For any number of rollers and of answers: what is saved, what is shown and   *)
(* what the peak flow is computed from belong together, until a stop overtakes   *)
(* a roller.                                                                 *)
(*                                                                         *)
(* None of it is inductive without the discipline of the state: a roller is      *)
(* alive only while the state is pending and the main thread idle, so one        *)
(* thread at a time writes (ControlInv); what it writes is what is shown          *)
(* (WriteInv); and what is staged between two writes is the last of them,          *)
(* unless the program died in one or a login committed half of one (KeptInv).      *)
(***************************************************************************)
EXTENDS AccInfo, TLAPS

OneRoller == \A r, q \in Rollers : Live(r) /\ Live(q) => r = q

RollersWork == \A r \in Rollers : Live(r) => Delaying /\ mpc = "idle"

StateFits ==
    /\ mpc \in {"boot", "boot_login", "save", "query", "query_login"} => acc_state = "QUERYING"
    /\ mpc \in {"start", "start_login"} => acc_state = "OPENING"
    /\ mpc = "open" => acc_state = "OPENED"
    /\ \A r \in Rollers : rpc[r] = "brocast" => acc_state = "OPENING"
    /\ \A r \in Rollers : rpc[r] = "again" => acc_state = "QUERYING"

WritersInv ==
    /\ Writing("main") => mpc = "save"
    /\ \A r \in Rollers : Writing(r) => rpc[r] \in {"good", "bad", "again"}

\* Who is at work, and what the state says about it.
ControlInv == OneRoller /\ RollersWork /\ StateFits /\ WritersInv

\* A write under way: what was composed is still what is shown, and the commands
\* that were run are staged.
WriteInv ==
    \A t \in Threads :
        /\ Writing(t) => write[t].buf = Compose
        /\ write[t].at \in {2, 3} => staged.is_acc = write[t].buf.is_acc
        /\ write[t].at = 3 => staged.band = write[t].buf.band

\* A roller that is about to open the session shows what it will open with.
ShownInv ==
    \A r \in Rollers :
        rpc[r] \in {"good", "brocast"} /\ acc_state = "OPENING" =>
            /\ ~direct
            /\ speed.band = start.band /\ speed.acc_band = start.acc_band
            /\ ~Writing(r) => ~unsaved

DirectInv == acc_state = "OPENED" /\ ~direct => ~unsaved

KeptInv ==
    ~left /\ ~mixed /\ (\A t \in Threads : write[t].at \notin {2, 3}) => staged = kept

Supported == ControlInv /\ WriteInv /\ ShownInv /\ DirectInv /\ KeptInv

Figured ==
    SavedIsLive /\ OpenedShowsStart /\ PeakIsTheSessions /\ TaskIsMine /\ SavedIsOneWrite

InfoInv == TypeOK /\ (~overlap => Supported) /\ Figured
-----------------------------------------------------------------------------
(* Types                                                                   *)

LEMMA MergedTypes ==
    ASSUME TypeOK, answers' \in Figures, NEW have
    PROVE  Merged(isacc, have) \in Line /\ Merged(start, have) \in Session
  BY DEF TypeOK, Merged, Line, Session

LEMMA NoWriteTypes == 0 \in Figures /\ NoWrite \in [at : 0 .. 3, buf : Line]
  BY BoundAssumption DEF NoWrite, Figures, Line

LEMMA BegunTypes ==
    ASSUME TypeOK, speed' \in Info, NEW t \in Threads, config_write_im_acc(t)
    PROVE  write' \in [Threads -> [at : 0 .. 3, buf : Line]]
<1>1. Compose' \in Line
  BY DEF Compose, Info, Line
<1> QED
  BY <1>1 DEF TypeOK, config_write_im_acc

LEMMA InfoTypeStep == ASSUME TypeOK, Next PROVE TypeOK'
<1> USE BoundAssumption DEF TypeOK
<1>1. ASSUME Answered PROVE answers' \in Figures
  BY <1>1 DEF Answered, Figures
<1>2. CASE Boot \/ BootSaved \/ StartCommand \/ StartAnnounced \/ Stop
  BY <1>2 DEF Boot, BootSaved, StartCommand, StartAnnounced, Stop, LoginCommit,
       im_count_flow_peakflow, ram, uci, disk, ghosts, MainLabels, States, Session
<1>3. CASE StateInfo
  BY <1>3 DEF StateInfo, config_read_im_acc, uci, disk, MainLabels, States, Info, Line
<1>4. CASE Delayed
  BY <1>1, <1>4 DEF Delayed, TaskOf, uci, disk, MainLabels, RollLabels
<1>5. CASE Failed
  BY <1>1, <1>5, MergedTypes DEF Failed, im_json_parse_data_isacc_resp, uci, disk, ghosts,
       MainLabels, States
<1>6. CASE LeftPending \/ Expired \/ LoggedIn \/ LoginFailed \/ OtherLogin
  <2> USE DEF LoginCommit, ram, uci, disk, ghosts
  <2>1. CASE LeftPending
    BY <2>1 DEF LeftPending, MainLabels
  <2>2. CASE Expired \/ LoginFailed
    BY <2>2 DEF Expired, LoginFailed, MainLabels, States
  <2>3. CASE LoggedIn
    BY <2>3 DEF LoggedIn, MainLabels, States
  <2>4. CASE OtherLogin
    BY <2>4 DEF OtherLogin
  <2> QED
    BY <1>6, <2>1, <2>2, <2>3, <2>4
<1>7. ASSUME NEW have, BootAnswered(have) \/ QueryAnswered(have) PROVE TypeOK'
  <2>1. isacc' \in Line /\ answers' \in Figures /\ peak' \in Figures
    BY <1>1, <1>7, MergedTypes DEF BootAnswered, QueryAnswered, Info,
         im_json_parse_data_isacc_resp, im_count_flow_peakflow
  <2>2. write' \in [Threads -> [at : 0 .. 3, buf : Line]]
    BY <1>7 DEF BootAnswered, QueryAnswered, config_write_im_acc, Compose, Info, Line
  <2> QED
    BY <1>7, <2>1, <2>2 DEF BootAnswered, QueryAnswered, ram, uci, disk, ghosts, MainLabels
<1>8. ASSUME NEW have, StartAnswered(have) PROVE TypeOK'
  <2>1. start' \in Session /\ answers' \in Figures
    BY <1>1, <1>8, MergedTypes DEF StartAnswered, im_json_parse_data_startacc_resp
  <2>2. speed' \in Info
    BY <1>8, <2>1 DEF StartAnswered, StartShown, Info, Session
  <2> QED
    BY <1>8, <2>1, <2>2 DEF StartAnswered, uci, disk, MainLabels, States
<1>9. ASSUME NEW r \in Rollers, NEW have, RollResult(r, have) PROVE TypeOK'
  <2>1. start' \in Session /\ isacc' \in Line /\ answers' \in Figures
    BY <1>1, <1>9, MergedTypes DEF RollResult, im_json_parse_data_startacc_resp,
         im_json_parse_data_isacc_resp
  <2>2. speed' \in Info
    BY <1>9, <2>1 DEF RollResult, StartShown, IsaccShown, Info, Session, Line
  <2>3. write' \in [Threads -> [at : 0 .. 3, buf : Line]]
    BY <1>9, <2>2, BegunTypes DEF RollResult, Threads
  <2> QED
    BY <1>9, <2>1, <2>2, <2>3 DEF RollResult, RollGoto, uci, disk, RollLabels
<1>10. ASSUME NEW r \in Rollers, RollNoData(r) \/ RollSaveAgain(r) PROVE TypeOK'
  <2>1. write' \in [Threads -> [at : 0 .. 3, buf : Line]]
    BY <1>10 DEF RollNoData, RollSaveAgain, config_write_im_acc, Compose, Info, Line
  <2> QED
    BY <1>10, <2>1 DEF RollNoData, RollSaveAgain, RollGoto, uci, disk, ghosts, RollLabels
<1>11. ASSUME NEW r \in Rollers,
             \/ RollAnnounce(r) \/ RollOpened(r) \/ RollQueried(r) \/ RollOvertaken(r)
             \/ RollAgain(r) \/ RollGivesUp(r)
       PROVE TypeOK'
  BY <1>11 DEF RollAnnounce, RollOpened, RollQueried, RollOvertaken, RollAgain, RollGivesUp,
       RollGoto, PeakOfStart, ram, uci, disk, ghosts, RollLabels, States, Session
<1>12. ASSUME NEW t \in Threads, SetStep(t) PROVE TypeOK'
  BY <1>12 DEF SetStep, CommitOnlyLast, ram, disk, ghosts, Line
<1>13. ASSUME NEW t \in Threads, CommitStep(t) PROVE TypeOK'
  <2>1. write[t].buf \in Line /\ NoWrite \in [at : 0 .. 3, buf : Line]
    BY NoWriteTypes
  <2>2. write' = [write EXCEPT ![t] = NoWrite] /\ kept' = write[t].buf
    BY <1>13 DEF CommitStep
  <2>3. write' \in [Threads -> [at : 0 .. 3, buf : Line]]
    BY <2>1, <2>2
  <2> QED
    BY <1>13, <2>1, <2>2, <2>3 DEF CommitStep, ram
<1>14. CASE Exit \/ PowerCut
  <2>1. Restarted
    BY <1>14 DEF Exit, PowerCut
  <2>2. 0 \in Figures /\ NoWrite \in [at : 0 .. 3, buf : Line]
    BY NoWriteTypes
  <2>3. /\ speed' \in Info /\ isacc' \in Line /\ start' \in Session
    BY <2>1, <2>2 DEF Restarted, Info, Line, Session
  <2>4. write' \in [Threads -> [at : 0 .. 3, buf : Line]] /\ mine' \in [Rollers -> Figures]
    BY <2>1, <2>2 DEF Restarted
  <2>5. /\ acc_state' \in States /\ mpc' \in MainLabels /\ rpc' \in [Rollers -> RollLabels]
        /\ peak' \in Figures /\ taskid' \in Figures /\ answers' \in Figures
        /\ unsaved' \in BOOLEAN /\ direct' \in BOOLEAN
    BY <2>1, <2>2 DEF Restarted, States, MainLabels, RollLabels
  <2>6. /\ staged' \in Line /\ saved' \in Line /\ kept' \in Line
        /\ overlap' \in BOOLEAN /\ left' \in BOOLEAN /\ mixed' \in BOOLEAN
    BY <1>14 DEF Exit, PowerCut, uci
  <2> QED
    BY <2>3, <2>4, <2>5, <2>6
<1> QED
  BY <1>2, <1>3, <1>4, <1>5, <1>6, <1>7, <1>8, <1>9, <1>10, <1>11, <1>12, <1>13, <1>14
  DEF Next, Main, Roll
-----------------------------------------------------------------------------
(* Who is at work                                                          *)

\* One thread writes at a time, and nothing is written but for a pending state.
LEMMA WhoWrites ==
    ASSUME ControlInv
    PROVE  /\ \A t, u \in Threads : Writing(t) /\ Writing(u) => t = u
           /\ ~Delaying => \A t \in Threads : ~Writing(t)
           /\ mpc \notin {"idle", "save"} => \A t \in Threads : ~Writing(t)
           /\ mpc # "idle" => \A r \in Rollers : ~Live(r)
           /\ \A r \in Rollers : Live(r) => \A t \in Threads : Writing(t) => t = r
<1> USE DEF ControlInv
<1>1. Writing("main") => mpc = "save" /\ acc_state = "QUERYING"
  BY DEF WritersInv, StateFits
<1>2. \A r \in Rollers : Writing(r) => Live(r)
  BY DEF WritersInv, Live
<1>3. \A r \in Rollers : Live(r) => Delaying /\ mpc = "idle"
  BY DEF RollersWork
<1>4. \A r, q \in Rollers : Live(r) /\ Live(q) => r = q
  BY DEF OneRoller
<1> QED
  BY <1>1, <1>2, <1>3, <1>4 DEF Threads, Delaying

\* Steps of the main thread that leave rollers and writes alone.
LEMMA MainControl ==
    ASSUME TypeOK, ControlInv,
           \/ Boot \/ BootSaved \/ StateInfo \/ StartCommand \/ StartAnnounced \/ Failed
           \/ LeftPending \/ Expired \/ LoggedIn \/ LoginFailed
           \/ \E have \in SUBSET {"is_acc", "band"} : QueryAnswered(have)
           \/ \E have \in SUBSET {"band", "acc_band"} : StartAnswered(have)
    PROVE  ControlInv'
<1>1. rpc' = rpc /\ write' = write
  BY DEF Boot, BootSaved, StateInfo, StartCommand, StartAnnounced, Failed, LeftPending, Expired,
       LoggedIn, LoginFailed, QueryAnswered, StartAnswered
<1>2. \A r \in Rollers : ~Live(r)
  BY WhoWrites DEF Boot, BootSaved, StateInfo, StartCommand, StartAnnounced, Failed, LeftPending,
       Expired, LoggedIn, LoginFailed, QueryAnswered, StartAnswered, ControlInv, RollersWork,
       Delaying
<1>3. ~Writing("main")
  BY DEF Boot, BootSaved, StateInfo, StartCommand, StartAnnounced, Failed, LeftPending, Expired,
       LoggedIn, LoginFailed, QueryAnswered, StartAnswered, ControlInv, WritersInv
<1>4. /\ mpc' \in {"boot", "boot_login", "save", "query", "query_login"} => acc_state' = "QUERYING"
      /\ mpc' \in {"start", "start_login"} => acc_state' = "OPENING"
      /\ mpc' = "open" => acc_state' = "OPENED"
  BY DEF Boot, BootSaved, StateInfo, StartCommand, StartAnnounced, Failed, LeftPending, Expired,
       LoggedIn, LoginFailed, QueryAnswered, StartAnswered, ControlInv, StateFits, ram
<1> QED
  BY <1>1, <1>2, <1>3, <1>4
  DEF ControlInv, OneRoller, RollersWork, StateFits, WritersInv, Live, Writing

\* Steps of a roller: the state is changed by the last one only.
LEMMA RollControl ==
    ASSUME TypeOK, ControlInv, NEW r \in Rollers, Roll(r)
    PROVE  ControlInv'
<1> USE DEF RollGoto
<1>1. Live(r) /\ mpc' = mpc
  BY DEF Roll, RollResult, RollNoData, RollAnnounce, RollSaveAgain, RollOpened, RollQueried,
       RollOvertaken, RollAgain, RollGivesUp, Live
<1>2. \A q \in Rollers : q # r => rpc'[q] = "none"
  BY <1>1 DEF Roll, RollResult, RollNoData, RollAnnounce, RollSaveAgain, RollOpened, RollQueried,
       RollOvertaken, RollAgain, RollGivesUp, Live, ControlInv, OneRoller, TypeOK
<1>3. Delaying /\ mpc = "idle" /\ ~Writing("main") /\ r # "main"
  BY <1>1, RollersAssumption DEF ControlInv, RollersWork, WritersInv
<1>4. \A t \in Threads : t # r => ~Writing(t)
  BY <1>1, WhoWrites
<1>5. \A t \in Threads : t # r => write'[t] = write[t]
  BY DEF Roll, RollResult, RollNoData, RollAnnounce, RollSaveAgain, RollOpened, RollQueried,
       RollOvertaken, RollAgain, RollGivesUp, config_write_im_acc, TypeOK
<1>6. rpc'[r] # "none" => acc_state' = acc_state
  BY DEF Roll, RollResult, RollNoData, RollAnnounce, RollSaveAgain, RollOpened, RollQueried,
       RollOvertaken, RollAgain, RollGivesUp, ram, TypeOK
<1>7. /\ rpc'[r] = "brocast" => acc_state = "OPENING"
      /\ rpc'[r] = "again" => acc_state = "QUERYING"
  BY DEF Roll, RollResult, RollNoData, RollAnnounce, RollSaveAgain, RollOpened, RollQueried,
       RollOvertaken, RollAgain, RollGivesUp, TypeOK
<1>8. write'[r].at # 0 => rpc'[r] \in {"good", "bad", "again"}
  <2>1. rpc[r] \notin {"good", "bad", "again"} => ~Writing(r)
    BY DEF ControlInv, WritersInv
  <2> QED
    BY <2>1 DEF Roll, RollResult, RollNoData, RollAnnounce, RollSaveAgain, RollOpened, RollQueried,
       RollOvertaken, RollAgain, RollGivesUp, TypeOK, Writing
<1>9. \A q \in Rollers : q # r => ~Writing(q)'
  BY <1>4, <1>5 DEF Writing, Threads
<1>10. ~Writing("main")'
  BY <1>3, <1>5 DEF Writing, Threads
<1> QED
  BY <1>1, <1>2, <1>3, <1>6, <1>7, <1>8, <1>9, <1>10
  DEF ControlInv, OneRoller, RollersWork, StateFits, WritersInv, Live, Writing, Delaying

LEMMA ControlStep ==
    ASSUME TypeOK, ControlInv, ~overlap', Next
    PROVE  ControlInv'
<1>1. ASSUME NEW have, BootAnswered(have) PROVE ControlInv'
  <2>1. \A r \in Rollers : ~Live(r) /\ ~Writing(r)
    BY <1>1, WhoWrites DEF BootAnswered, Threads
  <2>2. /\ mpc' = "save" /\ acc_state' = "QUERYING" /\ rpc' = rpc
        /\ \A r \in Rollers : write'[r] = write[r]
    BY <1>1, RollersAssumption DEF BootAnswered, config_write_im_acc, TypeOK, Threads, ControlInv,
         StateFits
  <2> QED
    BY <2>1, <2>2
    DEF ControlInv, OneRoller, RollersWork, StateFits, WritersInv, Live, Writing
<1>2. CASE Delayed
  <2>1. \A r \in Rollers : ~Live(r) /\ ~Writing(r)
    BY <1>2, WhoWrites DEF Delayed, Threads
  <2>2. ~Writing("main")
    BY <1>2 DEF Delayed, ControlInv, WritersInv
  <2>3. /\ mpc' = "idle" /\ acc_state' = acc_state /\ Delaying /\ write' = write
        /\ \/ rpc' = rpc
           \/ \E r \in Rollers : rpc' = [rpc EXCEPT ![r] = "poll"]
    BY <1>2 DEF Delayed
  <2>4. \A r, q \in Rollers : rpc'[r] # "none" /\ rpc'[q] # "none" => r = q
    BY <2>1, <2>3 DEF Live, TypeOK
  <2>5. \A r \in Rollers : rpc'[r] \notin {"brocast", "again"}
    BY <2>1, <2>3 DEF Live, TypeOK
  <2> QED
    BY <2>1, <2>2, <2>3, <2>4, <2>5
    DEF ControlInv, OneRoller, RollersWork, StateFits, WritersInv, Live, Writing, Delaying
<1>3. CASE Stop
  <2>1. \A r \in Rollers : ~Live(r)
    BY <1>3 DEF Stop
  <2> QED
    BY <1>3, <2>1
    DEF Stop, ControlInv, OneRoller, RollersWork, StateFits, WritersInv, Live, Writing
<1>4. CASE OtherLogin
  BY <1>4 DEF OtherLogin, ram, ControlInv, OneRoller, RollersWork, StateFits, WritersInv, Live,
       Writing, Delaying
<1>5. ASSUME NEW t \in Threads, SetStep(t) \/ CommitStep(t) PROVE ControlInv'
  <2>1. acc_state' = acc_state /\ mpc' = mpc /\ rpc' = rpc
    BY <1>5 DEF SetStep, CommitStep, ram
  <2>2. \A u \in Threads : Writing(u)' => Writing(u)
    BY <1>5 DEF SetStep, CommitStep, NoWrite, Writing, TypeOK
  <2> QED
    BY <2>1, <2>2
    DEF ControlInv, OneRoller, RollersWork, StateFits, WritersInv, Live, Delaying, Threads
<1>6. CASE Exit \/ PowerCut
  <2>1. /\ mpc' = "login" /\ acc_state' = "CLOSED"
        /\ \A r \in Rollers : rpc'[r] = "none"
        /\ \A t \in Threads : write'[t].at = 0
    BY <1>6 DEF Exit, PowerCut, Restarted, NoWrite
  <2> QED
    BY <2>1
    DEF ControlInv, OneRoller, RollersWork, StateFits, WritersInv, Live, Writing, Threads
<1> QED
  BY <1>1, <1>2, <1>3, <1>4, <1>5, <1>6, MainControl, RollControl DEF Next, Main
-----------------------------------------------------------------------------
(* What is written                                                         *)

NoWriters == \A t \in Threads : ~Writing(t)

\* What a step may do to the shown figures, the staged ones and the writes.
LEMMA Shapes ==
    ASSUME TypeOK, ControlInv, Next
    PROVE  \/ UNCHANGED <<speed, staged, write, unsaved>>
           \/ NoWriters /\ UNCHANGED <<staged, write>> /\ (StateInfo \/ unsaved' = TRUE)
           \/ /\ NoWriters /\ UNCHANGED <<staged, unsaved>>
              /\ \E t \in Threads : config_write_im_acc(t)
           \/ \E t \in Threads : SetStep(t) \/ CommitStep(t)
           \/ Exit \/ PowerCut
<1> USE DEF NoWriters
<1>1. CASE StateInfo
  BY <1>1, WhoWrites DEF StateInfo, uci
<1>2. ASSUME NEW have, StartAnswered(have)
      PROVE  NoWriters /\ UNCHANGED <<staged, write>> /\ unsaved' = TRUE
  BY <1>2, WhoWrites DEF StartAnswered, uci
<1>3. ASSUME NEW have, BootAnswered(have)
      PROVE  NoWriters /\ UNCHANGED <<staged, unsaved>> /\ config_write_im_acc("main")
  BY <1>3, WhoWrites DEF BootAnswered, uci, ghosts
<1>4. ASSUME NEW r \in Rollers, NEW have,
             RollResult(r, have) \/ RollNoData(r) \/ RollSaveAgain(r)
      PROVE  NoWriters /\ UNCHANGED <<staged, unsaved>> /\ config_write_im_acc(r)
  <2>1. Live(r) /\ ~Writing(r)
    BY <1>4 DEF RollResult, RollNoData, RollSaveAgain, RollGoto, Live, ControlInv, WritersInv
  <2>2. NoWriters
    BY <2>1, WhoWrites
  <2> QED
    BY <1>4, <2>2 DEF RollResult, RollNoData, RollSaveAgain, uci, ghosts
<1>5. CASE Boot \/ BootSaved \/ StartCommand \/ StartAnnounced \/ Stop \/ Delayed \/ Failed
           \/ LeftPending \/ Expired \/ LoggedIn \/ LoginFailed \/ OtherLogin
           \/ \E have \in SUBSET {"is_acc", "band"} : QueryAnswered(have)
  BY <1>5 DEF Boot, BootSaved, StartCommand, StartAnnounced, Stop, Delayed, Failed, LeftPending,
       Expired, LoggedIn, LoginFailed, OtherLogin, QueryAnswered, LoginCommit, ram, uci, ghosts
<1>6. ASSUME NEW r \in Rollers,
             \/ RollAnnounce(r) \/ RollOpened(r) \/ RollQueried(r) \/ RollOvertaken(r)
             \/ RollAgain(r) \/ RollGivesUp(r)
      PROVE  UNCHANGED <<speed, staged, write, unsaved>>
  BY <1>6 DEF RollAnnounce, RollOpened, RollQueried, RollOvertaken, RollAgain, RollGivesUp, ram,
       uci, ghosts
<1> QED
  BY <1>1, <1>2, <1>3, <1>4, <1>5, <1>6 DEF Next, Main, Roll, Threads

\* A command leaves the figures and the writer's text alone.
LEMMA SetShape ==
    ASSUME TypeOK, NEW t \in Threads, SetStep(t)
    PROVE  /\ write[t].at \in {1, 2} /\ write'[t].at = write[t].at + 1
           /\ write'[t].buf = write[t].buf
           /\ \A u \in Threads : u # t => write'[u] = write[u]
           /\ Compose' = Compose /\ UNCHANGED <<speed, start, acc_state, rpc, mpc>>
           /\ UNCHANGED <<unsaved, overlap, direct, kept, left, mixed, saved>>
           /\ write[t].at = 1 => staged'.is_acc = write[t].buf.is_acc
           /\ write[t].at = 2 => staged'.is_acc = staged.is_acc /\ staged'.band = write[t].buf.band
  BY DEF SetStep, CommitOnlyLast, ram, ghosts, disk, TypeOK, Compose, Line

LEMMA WriteStep ==
    ASSUME TypeOK, ControlInv, WriteInv, Next
    PROVE  WriteInv'
<1>1. CASE UNCHANGED <<speed, staged, write, unsaved>>
  BY <1>1 DEF WriteInv, Writing, Compose
<1>2. CASE NoWriters /\ UNCHANGED <<staged, write>>
  BY <1>2 DEF WriteInv, NoWriters, Writing
<1>3. ASSUME NoWriters, staged' = staged, NEW t \in Threads, config_write_im_acc(t)
      PROVE  WriteInv'
  <2>1. write'[t].at = 1 /\ write'[t].buf = Compose'
    BY <1>3 DEF config_write_im_acc, TypeOK
  <2>2. \A u \in Threads : u # t => write'[u] = write[u] /\ write[u].at = 0
    BY <1>3 DEF config_write_im_acc, TypeOK, NoWriters, Writing
  <2> QED
    BY <2>1, <2>2 DEF WriteInv, Writing
<1>4. ASSUME NEW t \in Threads, SetStep(t) PROVE WriteInv'
  <2>1. \A u \in Threads : u # t => write'[u] = write[u] /\ write[u].at = 0
    BY <1>4, SetShape, WhoWrites DEF Writing
  <2>2. write[t].buf = Compose
    BY <1>4, SetShape DEF WriteInv, Writing
  <2>3. write[t].at = 2 => staged.is_acc = write[t].buf.is_acc
    BY DEF WriteInv
  <2> QED
    BY <1>4, <2>1, <2>2, <2>3, SetShape DEF WriteInv, Writing
<1>5. ASSUME NEW t \in Threads, CommitStep(t) PROVE WriteInv'
  <2>1. write'[t].at = 0 /\ \A u \in Threads : u # t => write'[u] = write[u]
    BY <1>5 DEF CommitStep, NoWrite, TypeOK
  <2>2. \A u \in Threads : u # t => write[u].at = 0
    BY <1>5, WhoWrites DEF CommitStep, Writing
  <2> QED
    BY <2>1, <2>2 DEF WriteInv, Writing
<1>6. CASE Exit \/ PowerCut
  BY <1>6 DEF Exit, PowerCut, Restarted, NoWrite, WriteInv, Writing
<1> QED
  BY <1>1, <1>2, <1>3, <1>4, <1>5, <1>6, Shapes

\* The commands of a write that is about to be committed are all staged.
LEMMA WholeIsStaged ==
    ASSUME TypeOK, WriteInv, NEW t \in Threads, write[t].at = 3
    PROVE  staged = write[t].buf /\ write[t].buf = Compose
<1>1. /\ staged.is_acc = write[t].buf.is_acc /\ staged.band = write[t].buf.band
      /\ write[t].buf = Compose
  BY DEF WriteInv, Writing
<1>2. staged \in Line /\ write[t].buf \in Line
  BY DEF TypeOK
<1> QED
  BY <1>1, <1>2 DEF Line

LEMMA LiveStep ==
    ASSUME TypeOK, TypeOK', ~overlap, ControlInv, WriteInv, SavedIsLive, Next
    PROVE  SavedIsLive'
<1> SUFFICES ASSUME ~unsaved', \A t \in Threads : ~Writing(t)' PROVE staged' = Compose'
  BY DEF SavedIsLive
<1>1. CASE UNCHANGED <<speed, staged, write, unsaved>>
  BY <1>1 DEF SavedIsLive, Writing, Compose
<1>2. CASE StateInfo
  <2>1. /\ speed' = [speed EXCEPT !.is_acc = staged.is_acc, !.band = staged.band]
        /\ staged' = staged
    BY <1>2 DEF StateInfo, config_read_im_acc, uci
  <2>2. speed'.is_acc = staged.is_acc /\ speed'.band = staged.band
    BY <2>1 DEF TypeOK, Info
  <2> QED
    BY <2>1, <2>2 DEF TypeOK, Compose, Line
<1>3. ASSUME NEW t \in Threads, config_write_im_acc(t) PROVE FALSE
  BY <1>3 DEF config_write_im_acc, TypeOK, Writing
<1>4. ASSUME NEW t \in Threads, SetStep(t) PROVE FALSE
  BY <1>4, SetShape DEF Writing
<1>5. ASSUME NEW t \in Threads, CommitStep(t) PROVE staged' = Compose'
  BY <1>5, WholeIsStaged DEF CommitStep, ram, Compose
<1>6. CASE Exit \/ PowerCut
  BY <1>6 DEF Exit, PowerCut, Restarted
<1> QED
  BY <1>1, <1>2, <1>3, <1>4, <1>5, <1>6, Shapes
-----------------------------------------------------------------------------
(* What is kept                                                            *)

\* What a step may do to the package in flash, and to the histories about it.
LEMMA DiskShapes ==
    ASSUME TypeOK, Next
    PROVE  \/ UNCHANGED <<staged, saved, kept, left, mixed>>
           \/ LoginCommit
           \/ \E t \in Threads : SetStep(t) \/ CommitStep(t)
           \/ Exit \/ PowerCut
<1>1. CASE Boot \/ LeftPending \/ LoggedIn \/ OtherLogin
  BY <1>1 DEF Boot, LeftPending, LoggedIn, OtherLogin, uci, disk
<1>2. CASE \/ BootSaved \/ StateInfo \/ StartCommand \/ StartAnnounced \/ Stop \/ Delayed
           \/ Failed \/ Expired \/ LoginFailed
           \/ \E have \in SUBSET {"is_acc", "band"} : BootAnswered(have) \/ QueryAnswered(have)
           \/ \E have \in SUBSET {"band", "acc_band"} : StartAnswered(have)
  BY <1>2 DEF BootSaved, StateInfo, StartCommand, StartAnnounced, Stop, Delayed, Failed, Expired,
       LoginFailed, BootAnswered, QueryAnswered, StartAnswered, uci, disk
<1>3. ASSUME NEW r \in Rollers, Roll(r)
      PROVE  UNCHANGED <<staged, saved, kept, left, mixed>>
  BY <1>3 DEF Roll, RollResult, RollNoData, RollAnnounce, RollSaveAgain, RollOpened, RollQueried,
       RollOvertaken, RollAgain, RollGivesUp, uci, disk
<1> QED
  BY <1>1, <1>2, <1>3 DEF Next, Main

LEMMA SavedStep ==
    ASSUME TypeOK, ~overlap, ControlInv, WriteInv, KeptInv, SavedIsOneWrite, Next
    PROVE  SavedIsOneWrite'
<1>1. CASE UNCHANGED <<staged, saved, kept, left, mixed>>
  BY <1>1 DEF SavedIsOneWrite
<1>2. CASE LoginCommit
  BY <1>2 DEF LoginCommit, SavedIsOneWrite, KeptInv
<1>3. ASSUME NEW t \in Threads, SetStep(t) PROVE SavedIsOneWrite'
  BY <1>3, SetShape DEF SavedIsOneWrite
<1>4. ASSUME NEW t \in Threads, CommitStep(t) PROVE SavedIsOneWrite'
  BY <1>4, WholeIsStaged DEF CommitStep, SavedIsOneWrite
<1>5. CASE Exit \/ PowerCut
  BY <1>5 DEF Exit, PowerCut, uci, SavedIsOneWrite
<1> QED
  BY <1>1, <1>2, <1>3, <1>4, <1>5, DiskShapes

\* A write that is half staged stays so in every step but those of the writes.
LEMMA HalfStays ==
    ASSUME TypeOK, Next, NEW u \in Threads, write[u].at \in {2, 3},
           ~ \E t \in Threads : SetStep(t) \/ CommitStep(t),
           ~Exit, ~PowerCut, ControlInv
    PROVE  write'[u].at \in {2, 3}
<1>1. ~NoWriters
  BY DEF NoWriters, Writing
<1> QED
  BY <1>1, Shapes

LEMMA KeptStep ==
    ASSUME TypeOK, ~overlap, ControlInv, WriteInv, KeptInv, SavedIsOneWrite, Next
    PROVE  KeptInv'
<1> SUFFICES ASSUME ~left', ~mixed', \A t \in Threads : write'[t].at \notin {2, 3}
             PROVE  staged' = kept'
  BY DEF KeptInv
<1>1. ASSUME NEW t \in Threads, SetStep(t) PROVE FALSE
  BY <1>1, SetShape
<1>2. ASSUME NEW t \in Threads, CommitStep(t) PROVE staged' = kept'
  BY <1>2, WholeIsStaged DEF CommitStep
<1>3. CASE Exit
  BY <1>3 DEF Exit, uci, KeptInv
<1>4. CASE PowerCut
  BY <1>4 DEF PowerCut, SavedIsOneWrite
<1>5. ASSUME ~ \E t \in Threads : SetStep(t) \/ CommitStep(t), ~Exit, ~PowerCut
      PROVE  staged' = kept'
  <2>1. \A t \in Threads : write[t].at \notin {2, 3}
    BY <1>5, HalfStays
  <2>2. UNCHANGED <<staged, kept, left>> /\ (mixed => mixed')
    <3>1. UNCHANGED <<staged, saved, kept, left, mixed>> \/ LoginCommit
      BY <1>5, DiskShapes
    <3>2. CASE UNCHANGED <<staged, saved, kept, left, mixed>>
      BY <3>2
    <3>3. CASE LoginCommit
      BY <3>3 DEF LoginCommit, TypeOK
    <3> QED
      BY <3>1, <3>2, <3>3
  <2> QED
    BY <2>1, <2>2 DEF KeptInv
<1> QED
  BY <1>1, <1>2, <1>3, <1>4, <1>5
-----------------------------------------------------------------------------
(* What is shown                                                           *)

\* Where a roller is afterwards.
LEMMA RollerMoves ==
    ASSUME TypeOK, Next, NEW r \in Rollers, rpc'[r] \in {"good", "brocast"}
    PROVE  \/ rpc'[r] = rpc[r]
           \/ \E have \in SUBSET {"is_acc", "band", "acc_band"} : RollResult(r, have)
           \/ RollAnnounce(r)
<1>1. CASE Main
  BY <1>1 DEF Main, Boot, BootSaved, StateInfo, StartCommand, StartAnnounced, Stop, Delayed,
       Failed, LeftPending, Expired, LoggedIn, LoginFailed, OtherLogin, BootAnswered,
       QueryAnswered, StartAnswered, TypeOK
<1>2. ASSUME NEW q \in Rollers, Roll(q), q # r PROVE rpc'[r] = rpc[r]
  BY <1>2 DEF Roll, RollResult, RollNoData, RollAnnounce, RollSaveAgain, RollOpened, RollQueried,
       RollOvertaken, RollAgain, RollGivesUp, RollGoto, TypeOK
<1>3. ASSUME Roll(r)
      PROVE  \/ \E have \in SUBSET {"is_acc", "band", "acc_band"} : RollResult(r, have)
             \/ RollAnnounce(r)
  BY <1>3 DEF Roll, RollNoData, RollSaveAgain, RollOpened, RollQueried, RollOvertaken, RollAgain,
       RollGivesUp, RollGoto, TypeOK
<1>4. ASSUME NEW t \in Threads, SetStep(t) \/ CommitStep(t) PROVE rpc' = rpc
  BY <1>4 DEF SetStep, CommitStep
<1>5. ~(Exit \/ PowerCut)
  BY DEF Exit, PowerCut, Restarted
<1> QED
  BY <1>1, <1>2, <1>3, <1>4, <1>5 DEF Next

\* While a roller is alive, what is shown and the session's figures change only by
\* its result, and nothing is left unsaved anew.
LEMMA WhileRolling ==
    ASSUME TypeOK, ControlInv, Next, NEW r \in Rollers, Live(r), rpc'[r] = rpc[r]
    PROVE  /\ UNCHANGED <<speed, start, direct, acc_state>> \/ acc_state' # "OPENING"
           /\ unsaved' = unsaved \/ unsaved' = FALSE
           /\ write'[r].at = 0 => write[r].at = 0 \/ unsaved' = FALSE
<1>1. Delaying /\ mpc = "idle" /\ \A q \in Rollers : q # r => ~Live(q)
  BY DEF ControlInv, RollersWork, OneRoller
<1>2. \A q \in Rollers : ~Roll(q)
  <2>1. ~Roll(r)
    BY DEF Roll, RollResult, RollNoData, RollAnnounce, RollSaveAgain, RollOpened, RollQueried,
         RollOvertaken, RollAgain, RollGivesUp, RollGoto, TypeOK
  <2>2. \A q \in Rollers : q # r => ~Roll(q)
    BY <1>1 DEF Roll, RollResult, RollNoData, RollAnnounce, RollSaveAgain, RollOpened, RollQueried,
         RollOvertaken, RollAgain, RollGivesUp, RollGoto, Live
  <2> QED
    BY <2>1, <2>2
<1>3. ASSUME Main
      PROVE  /\ UNCHANGED <<speed, start, direct, write, unsaved>>
             /\ acc_state' = acc_state \/ acc_state' # "OPENING"
  BY <1>1, <1>3 DEF Main, Boot, BootSaved, StateInfo, StartCommand, StartAnnounced, Stop, Delayed,
       Failed, LeftPending, Expired, LoggedIn, LoginFailed, OtherLogin, BootAnswered,
       QueryAnswered, StartAnswered, Delaying, ram, ghosts
<1>4. ASSUME NEW t \in Threads, SetStep(t)
      PROVE  /\ UNCHANGED <<speed, start, direct, acc_state, unsaved>>
             /\ write'[r].at = 0 => write[r].at = 0
  BY <1>4, SetShape DEF TypeOK, Threads
<1>5. ASSUME NEW t \in Threads, CommitStep(t)
      PROVE  UNCHANGED <<speed, start, direct, acc_state>> /\ unsaved' = FALSE
  BY <1>5 DEF CommitStep, ram
<1>6. ~(Exit \/ PowerCut)
  BY DEF Exit, PowerCut, Restarted, Live
<1> QED
  BY <1>2, <1>3, <1>4, <1>5, <1>6 DEF Next

LEMMA ShownStep ==
    ASSUME TypeOK, TypeOK', ControlInv, ShownInv, Next
    PROVE  ShownInv'
<1> SUFFICES ASSUME NEW r \in Rollers, rpc'[r] \in {"good", "brocast"}, acc_state' = "OPENING"
             PROVE  /\ ~direct'
                    /\ speed'.band = start'.band /\ speed'.acc_band = start'.acc_band
                    /\ ~Writing(r)' => ~unsaved'
  BY DEF ShownInv
<1>1. CASE rpc'[r] = rpc[r]
  <2>1. Live(r)
    BY <1>1 DEF Live
  <2> QED
    BY <1>1, <2>1, WhileRolling DEF ShownInv, Writing
<1>2. ASSUME NEW have, RollResult(r, have)
      PROVE  /\ ~direct' /\ Writing(r)'
             /\ speed'.band = start'.band /\ speed'.acc_band = start'.acc_band
  <2>1. acc_state = "OPENING"
    BY <1>2 DEF RollResult
  <2>2. direct' = FALSE /\ speed' = [speed EXCEPT !.band = start'.band, !.acc_band = start'.acc_band]
    BY <1>2, <2>1 DEF RollResult, StartShown
  <2>3. write'[r].at = 1
    BY <1>2 DEF RollResult, config_write_im_acc, TypeOK, Threads
  <2> QED
    BY <2>2, <2>3 DEF TypeOK, Info, Writing
<1>3. CASE RollAnnounce(r)
  BY <1>3 DEF RollAnnounce, RollGoto, ram, ghosts, ShownInv, Writing
<1> QED
  BY <1>1, <1>2, <1>3, RollerMoves

\* How the state comes to be, or stays, OPENED.
LEMMA OpenMoves ==
    ASSUME TypeOK, ControlInv, Next, acc_state' = "OPENED"
    PROVE  \/ \E have \in SUBSET {"band", "acc_band"} : StartAnswered(have)
           \/ StateInfo /\ acc_state = "OPENED"
           \/ /\ acc_state = "OPENED" /\ UNCHANGED <<speed, start, direct>>
              /\ unsaved' = unsaved \/ unsaved' = FALSE
              /\ peak' = peak \/ StartAnnounced
              /\ mpc = "open" /\ mpc' # "open" => StartAnnounced
           \/ \E r \in Rollers : RollOpened(r)
<1>1. CASE Main
  BY <1>1 DEF Main, Boot, BootSaved, StateInfo, StartCommand, StartAnnounced, Stop, Delayed,
       Failed, LeftPending, Expired, LoggedIn, LoginFailed, OtherLogin, BootAnswered,
       QueryAnswered, ControlInv, StateFits, Delaying, ram, ghosts
<1>2. ASSUME NEW r \in Rollers, Roll(r) PROVE RollOpened(r)
  <2>1. Delaying
    BY <1>2 DEF Roll, RollResult, RollNoData, RollAnnounce, RollSaveAgain, RollOpened, RollQueried,
         RollOvertaken, RollAgain, RollGivesUp, RollGoto, Live, ControlInv, RollersWork
  <2> QED
    BY <1>2, <2>1 DEF Roll, RollResult, RollNoData, RollAnnounce, RollSaveAgain, RollQueried,
         RollOvertaken, RollAgain, RollGivesUp, Delaying, ram
<1>3. ASSUME NEW t \in Threads, SetStep(t) \/ CommitStep(t)
      PROVE  /\ UNCHANGED <<acc_state, speed, start, direct, peak, mpc>>
             /\ unsaved' = unsaved \/ unsaved' = FALSE
  BY <1>3 DEF SetStep, CommitStep, ram, ghosts
<1>4. ~(Exit \/ PowerCut)
  BY DEF Exit, PowerCut, Restarted
<1> QED
  BY <1>1, <1>2, <1>3, <1>4 DEF Next

\* What a roller that opens finds.
LEMMA OpensWithStart ==
    ASSUME ControlInv, ShownInv, NEW r \in Rollers, RollOpened(r)
    PROVE  /\ ~direct /\ ~unsaved
           /\ speed.band = start.band /\ speed.acc_band = start.acc_band
           /\ UNCHANGED <<speed, start, direct, unsaved, mpc>> /\ peak' = start.band /\ mpc = "idle"
<1>1. rpc[r] = "brocast" /\ Live(r)
  BY DEF RollOpened, RollGoto, Live
<1>2. acc_state = "OPENING" /\ ~Writing(r) /\ mpc = "idle"
  BY <1>1 DEF ControlInv, StateFits, WritersInv, RollersWork
<1> QED
  BY <1>1, <1>2 DEF ShownInv, RollOpened, PeakOfStart, ghosts

LEMMA DirectStep ==
    ASSUME TypeOK, ControlInv, ShownInv, DirectInv, Next
    PROVE  DirectInv'
<1> SUFFICES ASSUME acc_state' = "OPENED", ~direct' PROVE ~unsaved'
  BY DEF DirectInv
<1>1. \A have : ~StartAnswered(have)
  BY DEF StartAnswered
<1>2. ASSUME StateInfo PROVE ~unsaved'
  BY <1>2 DEF StateInfo, config_read_im_acc
<1>3. ASSUME NEW r \in Rollers, RollOpened(r) PROVE ~unsaved'
  BY <1>3, OpensWithStart
<1> QED
  BY <1>1, <1>2, <1>3, OpenMoves DEF DirectInv

LEMMA OpenedStep ==
    ASSUME TypeOK, TypeOK', ~overlap, ControlInv, ShownInv, DirectInv, SavedIsLive,
           OpenedShowsStart, Next
    PROVE  OpenedShowsStart'
<1> SUFFICES ASSUME acc_state' = "OPENED", direct' => unsaved'
             PROVE  speed'.band = start'.band /\ speed'.acc_band = start'.acc_band
  BY DEF OpenedShowsStart
<1>1. ASSUME NEW have, StartAnswered(have)
      PROVE  speed'.band = start'.band /\ speed'.acc_band = start'.acc_band
  <2>1. speed' = [speed EXCEPT !.band = start'.band, !.acc_band = start'.acc_band]
    BY <1>1 DEF StartAnswered, StartShown
  <2> QED
    BY <2>1 DEF TypeOK, Info
<1>2. ASSUME StateInfo, acc_state = "OPENED"
      PROVE  speed'.band = start'.band /\ speed'.acc_band = start'.acc_band
  <2>1. /\ speed' = [speed EXCEPT !.is_acc = staged.is_acc, !.band = staged.band]
        /\ unsaved' = FALSE /\ direct' = direct /\ start' = start
    BY <1>2 DEF StateInfo, config_read_im_acc
  <2>2. ~direct /\ ~unsaved
    BY <1>2, <2>1 DEF DirectInv
  <2>3. staged = Compose
    BY <1>2, <2>2, WhoWrites DEF SavedIsLive, Delaying
  <2>4. speed'.band = speed.band /\ speed'.acc_band = speed.acc_band
    BY <2>1, <2>3 DEF TypeOK, Info, Compose
  <2> QED
    BY <1>2, <2>1, <2>2, <2>4 DEF OpenedShowsStart
<1>3. ASSUME NEW r \in Rollers, RollOpened(r)
      PROVE  speed'.band = start'.band /\ speed'.acc_band = start'.acc_band
  BY <1>3, OpensWithStart
<1> QED
  BY <1>1, <1>2, <1>3, OpenMoves DEF OpenedShowsStart

LEMMA PeakStep ==
    ASSUME TypeOK, ~overlap, ControlInv, ShownInv, PeakIsTheSessions, Next
    PROVE  PeakIsTheSessions'
<1> SUFFICES ASSUME acc_state' = "OPENED", mpc' # "open" PROVE peak' = start'.band
  BY DEF PeakIsTheSessions
<1>1. \A have : ~StartAnswered(have)
  BY DEF StartAnswered
<1>2. ASSUME StateInfo, acc_state = "OPENED" PROVE peak' = start'.band
  BY <1>2 DEF StateInfo, PeakIsTheSessions
<1>3. ASSUME NEW r \in Rollers, RollOpened(r) PROVE peak' = start'.band
  BY <1>3, OpensWithStart
<1>4. ASSUME StartAnnounced PROVE peak' = start'.band
  BY <1>4 DEF StartAnnounced, im_count_flow_peakflow
<1> QED
  BY <1>1, <1>2, <1>3, <1>4, OpenMoves DEF PeakIsTheSessions

LEMMA TaskStep ==
    ASSUME TypeOK, ~overlap, ControlInv, TaskIsMine, Next
    PROVE  TaskIsMine'
<1>1. CASE Delayed
  <2>1. \A r \in Rollers : ~Live(r)
    BY <1>1, WhoWrites DEF Delayed
  <2>2. taskid' = answers'
    BY <1>1 DEF Delayed, TaskOf
  <2>3. CASE UNCHANGED <<rpc, mine>>
    BY <2>1, <2>3 DEF TaskIsMine, Live
  <2>4. ASSUME NEW r \in Rollers, rpc' = [rpc EXCEPT ![r] = "poll"],
               mine' = [mine EXCEPT ![r] = answers']
        PROVE  TaskIsMine'
    BY <2>1, <2>2, <2>4 DEF TaskIsMine, Live, TypeOK
  <2> QED
    BY <1>1, <2>3, <2>4 DEF Delayed
<1>2. CASE Main /\ ~Delayed
  <2>1. UNCHANGED <<taskid, rpc, mine>>
    BY <1>2 DEF Main, Boot, BootSaved, StateInfo, StartCommand, StartAnnounced, Stop, Failed,
         LeftPending, Expired, LoggedIn, LoginFailed, OtherLogin, BootAnswered, QueryAnswered,
         StartAnswered, ram, ghosts
  <2> QED
    BY <2>1 DEF TaskIsMine, Live
<1>3. ASSUME NEW r \in Rollers, Roll(r) PROVE TaskIsMine'
  <2>1. taskid' = taskid /\ mine' = mine
    BY <1>3 DEF Roll, RollResult, RollNoData, RollAnnounce, RollSaveAgain, RollOpened, RollQueried,
         RollOvertaken, RollAgain, RollGivesUp, ram, ghosts
  <2>2. \A q \in Rollers : Live(q)' => Live(q)
    BY <1>3 DEF Roll, RollResult, RollNoData, RollAnnounce, RollSaveAgain, RollOpened, RollQueried,
         RollOvertaken, RollAgain, RollGivesUp, RollGoto, Live, TypeOK
  <2> QED
    BY <2>1, <2>2 DEF TaskIsMine
<1>4. ASSUME NEW t \in Threads, SetStep(t) \/ CommitStep(t) PROVE TaskIsMine'
  BY <1>4 DEF SetStep, CommitStep, ram, ghosts, TaskIsMine, Live
<1>5. CASE Exit \/ PowerCut
  BY <1>5 DEF Exit, PowerCut, Restarted, TaskIsMine, Live
<1> QED
  BY <1>1, <1>2, <1>3, <1>4, <1>5 DEF Next
-----------------------------------------------------------------------------
(* The invariant                                                           *)

LEMMA InfoInitially == Init => InfoInv
<1> SUFFICES ASSUME Init PROVE InfoInv
  OBVIOUS
<1> USE DEF Init
<1>1. 0 \in Figures /\ NoWrite \in [at : 0 .. 3, buf : Line]
  BY NoWriteTypes
<1>2. TypeOK
  <2>1. /\ speed \in Info /\ isacc \in Line /\ start \in Session /\ staged \in Line
    BY <1>1 DEF Info, Line, Session
  <2> QED
    BY <1>1, <2>1 DEF TypeOK, States, MainLabels, RollLabels
<1>3. ControlInv
  BY DEF ControlInv, OneRoller, RollersWork, StateFits, WritersInv, Live, Writing, NoWrite,
       Threads
<1>4. WriteInv /\ ShownInv /\ DirectInv /\ KeptInv
  BY DEF WriteInv, ShownInv, DirectInv, KeptInv, Writing, NoWrite
<1>5. Figured
  BY DEF Figured, SavedIsLive, OpenedShowsStart, PeakIsTheSessions, TaskIsMine, SavedIsOneWrite,
       Live
<1> QED
  BY <1>2, <1>3, <1>4, <1>5 DEF InfoInv, Supported

\* A stop is remembered.
LEMMA OverlapStays == ASSUME TypeOK, Next, overlap PROVE overlap'
<1>1. CASE Main
  BY <1>1 DEF Main, Boot, BootSaved, StateInfo, StartCommand, StartAnnounced, Stop, Delayed,
       Failed, LeftPending, Expired, LoggedIn, LoginFailed, OtherLogin, BootAnswered,
       QueryAnswered, StartAnswered, ghosts, TypeOK
<1>2. ASSUME NEW r \in Rollers, Roll(r) PROVE overlap'
  BY <1>2 DEF Roll, RollResult, RollNoData, RollAnnounce, RollSaveAgain, RollOpened, RollQueried,
       RollOvertaken, RollAgain, RollGivesUp, ghosts
<1>3. ASSUME NEW t \in Threads, SetStep(t) \/ CommitStep(t) PROVE overlap'
  BY <1>3 DEF SetStep, CommitStep, ghosts
<1>4. ASSUME Exit \/ PowerCut PROVE overlap'
  BY <1>4 DEF Exit, PowerCut
<1> QED
  BY <1>1, <1>2, <1>3, <1>4 DEF Next

LEMMA InfoInductive == Spec => []InfoInv
<1>1. InfoInv /\ [Next]_vars => InfoInv'
  <2> SUFFICES ASSUME InfoInv, [Next]_vars PROVE InfoInv'
    OBVIOUS
  <2>1. CASE UNCHANGED vars
    BY <2>1 DEF vars, ram, uci, disk, ghosts, InfoInv, TypeOK, Supported, Figured, ControlInv,
         OneRoller, RollersWork, StateFits, WritersInv, WriteInv, ShownInv, DirectInv, KeptInv,
         SavedIsLive, OpenedShowsStart, PeakIsTheSessions, TaskIsMine, SavedIsOneWrite, Live,
         Writing, Compose, Delaying
  <2>2. CASE Next
    <3>1. TypeOK /\ TypeOK'
      BY <2>2, InfoTypeStep DEF InfoInv
    <3>2. CASE overlap'
      BY <3>1, <3>2
      DEF InfoInv, Figured, SavedIsLive, OpenedShowsStart, PeakIsTheSessions, TaskIsMine,
          SavedIsOneWrite
    <3>3. CASE ~overlap'
      <4>1. ~overlap /\ Supported /\ Figured
        BY <2>2, <3>1, <3>3, OverlapStays DEF InfoInv
      <4>2. Supported'
        BY <2>2, <3>1, <3>3, <4>1, ControlStep, WriteStep, ShownStep, DirectStep, KeptStep
        DEF Supported, Figured
      <4>3. Figured'
        BY <2>2, <3>1, <3>3, <4>1, LiveStep, OpenedStep, PeakStep, TaskStep, SavedStep
        DEF Supported, Figured
      <4> QED
        BY <3>1, <4>2, <4>3 DEF InfoInv
    <3> QED
      BY <3>2, <3>3
  <2> QED
    BY <2>1, <2>2
<1> QED
  BY <1>1, InfoInitially, PTL DEF Spec
-----------------------------------------------------------------------------
(* The state as the terminals see it                                       *)

\* The first request is made of a service that is closed.
LoginInv == mpc = "login" => acc_state = "CLOSED"

LEMMA LoginStep == ASSUME TypeOK, ControlInv, LoginInv, Next PROVE LoginInv'
<1> USE DEF LoginInv
<1>1. CASE Main
  BY <1>1 DEF Main, Boot, BootSaved, StateInfo, StartCommand, StartAnnounced, Stop, Delayed,
       Failed, LeftPending, Expired, LoggedIn, LoginFailed, OtherLogin, BootAnswered,
       QueryAnswered, StartAnswered, ram
<1>2. ASSUME NEW r \in Rollers, Roll(r) PROVE LoginInv'
  <2>1. Live(r) /\ mpc' = mpc
    BY <1>2 DEF Roll, RollResult, RollNoData, RollAnnounce, RollSaveAgain, RollOpened,
         RollQueried, RollOvertaken, RollAgain, RollGivesUp, RollGoto, Live
  <2> QED
    BY <2>1 DEF ControlInv, RollersWork
<1>3. ASSUME NEW t \in Threads, SetStep(t) \/ CommitStep(t) PROVE LoginInv'
  BY <1>3 DEF SetStep, CommitStep, ram
<1>4. ASSUME Exit \/ PowerCut PROVE LoginInv'
  BY <1>4 DEF Exit, PowerCut, Restarted
<1> QED
  BY <1>1, <1>2, <1>3, <1>4 DEF Next

LEMMA StateStep ==
    ASSUME TypeOK, ~overlap => ControlInv /\ LoginInv, [Next]_vars
    PROVE  [Service!Next]_(Service!vars)
<1> USE DEF Service!vars
<1>1. CASE overlap
  <2>1. CASE Next
    BY <1>1, <2>1, OverlapStays
  <2> QED
    BY <1>1, <2>1 DEF vars, ghosts
<1> SUFFICES ASSUME ~overlap, ControlInv, LoginInv PROVE [Service!Next]_(Service!vars)
  BY <1>1
<1>2. ASSUME UNCHANGED <<acc_state, overlap>> PROVE [Service!Next]_(Service!vars)
  BY <1>2
\* A request that ends without a session, and one that is begun or answered.
<1>3. ASSUME Delaying, acc_state' = "CLOSED", UNCHANGED overlap
      PROVE  [Service!Next]_(Service!vars)
  BY <1>3 DEF Delaying, Service!Settle, Service!Pending, Service!Next
<1>4. ASSUME acc_state = "CLOSED", acc_state' \in {"QUERYING", "OPENING"}, UNCHANGED overlap
      PROVE  [Service!Next]_(Service!vars)
  BY <1>4 DEF Service!Query, Service!Start, Service!Next
<1>5. ASSUME acc_state = "OPENING", acc_state' = "OPENED", UNCHANGED overlap
      PROVE  [Service!Next]_(Service!vars)
  BY <1>5 DEF Service!Open, Service!Next
<1>6. CASE Main
  <2> USE DEF ghosts
  <2>1. CASE Boot \/ StartCommand
    BY <1>4, <2>1 DEF Boot, StartCommand, LoginInv
  <2>2. CASE StateInfo
    BY <1>2, <1>4, <2>2 DEF StateInfo, NothingOpen
  <2>3. CASE BootSaved \/ StartAnnounced \/ Delayed \/ LeftPending \/ Expired \/ OtherLogin
    BY <1>2, <2>3 DEF BootSaved, StartAnnounced, Delayed, LeftPending, Expired, OtherLogin, ram
  <2>4. CASE Failed
    BY <1>3, <2>4 DEF Failed, ControlInv, StateFits, Delaying
  <2>5. CASE LoginFailed
    BY <1>2, <1>3, <2>5 DEF LoginFailed, ControlInv, StateFits, Delaying
  <2>6. CASE LoggedIn
    BY <1>2, <2>6 DEF LoggedIn, ControlInv, StateFits
  <2>7. ASSUME NEW have, BootAnswered(have) \/ QueryAnswered(have)
        PROVE  [Service!Next]_(Service!vars)
    BY <1>2, <2>7 DEF BootAnswered, QueryAnswered
  <2>8. ASSUME NEW have, StartAnswered(have) PROVE [Service!Next]_(Service!vars)
    BY <1>5, <2>8 DEF StartAnswered, ControlInv, StateFits
  \* With a roller at work the request is pending: the stop overtakes it.
  <2>9. CASE Stop
    <3>1. CASE \E r \in Rollers : Live(r)
      BY <2>9, <3>1 DEF Stop, ControlInv, RollersWork, Delaying, Service!Overtake,
           Service!Pending, Service!Next
    <3>2. CASE ~\E r \in Rollers : Live(r)
      BY <2>9, <3>2 DEF Stop, TypeOK, States, Service!Stop, Service!Next
    <3> QED
      BY <3>1, <3>2
  <2> QED
    BY <1>6, <2>1, <2>2, <2>3, <2>4, <2>5, <2>6, <2>7, <2>8, <2>9 DEF Main
<1>7. ASSUME NEW r \in Rollers, Roll(r) PROVE [Service!Next]_(Service!vars)
  <2> USE DEF ghosts, RollGoto
  <2>1. CASE RollOpened(r)
    BY <1>5, <2>1 DEF RollOpened, ControlInv, StateFits
  <2>2. CASE RollQueried(r) \/ RollGivesUp(r)
    BY <1>3, <2>2 DEF RollQueried, RollGivesUp, ControlInv, RollersWork, Live
  <2>3. CASE \/ RollNoData(r) \/ RollAnnounce(r) \/ RollSaveAgain(r)
             \/ RollOvertaken(r) \/ RollAgain(r)
    BY <1>2, <2>3 DEF RollNoData, RollAnnounce, RollSaveAgain, RollOvertaken, RollAgain, ram
  <2>4. ASSUME NEW have, RollResult(r, have) PROVE [Service!Next]_(Service!vars)
    BY <1>2, <2>4 DEF RollResult
  <2> QED
    BY <1>7, <2>1, <2>2, <2>3, <2>4 DEF Roll
<1>8. ASSUME NEW t \in Threads, SetStep(t) \/ CommitStep(t)
      PROVE  [Service!Next]_(Service!vars)
  BY <1>2, <1>8 DEF SetStep, CommitStep, ram, ghosts
<1>9. CASE Exit \/ PowerCut
  BY <1>9 DEF Exit, PowerCut, Restarted, TypeOK, States, Service!Stop, Service!Next
<1>10. CASE UNCHANGED vars
  BY <1>2, <1>10 DEF vars, ram, ghosts
<1> QED
  BY <1>6, <1>7, <1>8, <1>9, <1>10 DEF Next
-----------------------------------------------------------------------------
(* The theorems                                                            *)

\* Every figure, wherever im_acc keeps it, was brought by an answer or is the zero
\* of a fresh start, whatever an answer lacks and also once a stop overtook a roller.
THEOREM InfoTypeCorrect == Spec => []TypeOK
<1>1. InfoInv => TypeOK
  BY DEF InfoInv
<1> QED
  BY <1>1, InfoInductive, PTL

\* config_read_im_acc before a reply reads what is shown already, but for the
\* figures of an immediate answer and while config_write_im_acc is at work.
THEOREM ReloadChangesNothing == Spec => []SavedIsLive
<1>1. InfoInv => SavedIsLive
  BY DEF InfoInv, Figured
<1> QED
  BY <1>1, InfoInductive, PTL

\* An open session is shown with the figures of the one answer that opened it.
THEOREM SessionIsShownWhole == Spec => []OpenedShowsStart
<1>1. InfoInv => OpenedShowsStart
  BY DEF InfoInv, Figured
<1> QED
  BY <1>1, InfoInductive, PTL

\* im_count_flow_peakflow was last called with the open session's bandwidth.
THEOREM PeakBelongsToSession == Spec => []PeakIsTheSessions
<1>1. InfoInv => PeakIsTheSessions
  BY DEF InfoInv, Figured
<1> QED
  BY <1>1, InfoInductive, PTL

\* s_im_taskresult_cmd.im_taskid is the task of the roller that asks with it.
THEOREM RollersAskForTheirTask == Spec => []TaskIsMine
<1>1. InfoInv => TaskIsMine
  BY DEF InfoInv, Figured
<1> QED
  BY <1>1, InfoInductive, PTL

\* What a power failure leaves is what one config_write_im_acc wrote, unless the
\* "uci commit" of a login cut one in half.
THEOREM FlashHoldsOneWrite == Spec => []SavedIsOneWrite
<1>1. InfoInv => SavedIsOneWrite
  BY DEF InfoInv, Figured
<1> QED
  BY <1>1, InfoInductive, PTL

\* The state moves beside the figures as AccService promises, for any number of
\* rollers and answers and through every end of the program: this module's copy
\* of the moves and AccSession keep the same promise.
THEOREM StateImplementsService == Spec => StateSpec
<1>1. Init => Service!Init /\ LoginInv
  BY DEF Init, Service!Init, LoginInv
<1>2. InfoInv /\ (~overlap => LoginInv) /\ [Next]_vars => (~overlap => LoginInv)'
  <2>1. InfoInv /\ (~overlap => LoginInv) /\ Next => (~overlap => LoginInv)'
    BY OverlapStays, LoginStep DEF InfoInv, Supported
  <2>2. (~overlap => LoginInv) /\ UNCHANGED vars => (~overlap => LoginInv)'
    BY DEF vars, ram, ghosts, LoginInv
  <2> QED
    BY <2>1, <2>2
<1>3. InfoInv /\ (~overlap => LoginInv) /\ [Next]_vars => [Service!Next]_(Service!vars)
  BY StateStep DEF InfoInv, Supported
<1> QED
  BY <1>1, <1>2, <1>3, InfoInductive, PTL DEF Spec, StateSpec, Service!Spec
=============================================================================
