------------------------------- MODULE AccInfo -------------------------------
(***************************************************************************)
(* The figures of im_acc: what the cloud says of the line (s_im_isacc_resp)   *)
(* and of the session (s_im_startacc_resp), what a terminal is told           *)
(* (s_im_speedupinfo_resp), the peak flow computed from them, and the copy in *)
(* the uci package im_acc, which six "uci set" commands stage in RAM and      *)
(* "uci commit" moves to flash.  A login commits the same package.            *)
(*                                                                         *)
(* A figure is named by the answer that brought it: 0 is the zero of a fresh  *)
(* start.  "band" stands for the bandwidths, the ISP and the remaining time,   *)
(* which are always copied together.  How the state moves is AccSession's      *)
(* subject; here it moves as the figures need it, and as AccService promises.   *)
(***************************************************************************)
EXTENDS Integers, FiniteSets

CONSTANTS
    Rollers,    \* thread slots for im_rollquery_thread
    MaxAnswers  \* bound: answers with data that the cloud gives

ASSUME RollersAssumption == "main" \notin Rollers
ASSUME BoundAssumption   == MaxAnswers \in Nat

VARIABLES
    acc_state,  \* s_im_speedupinfo_resp.im_acc_state
    speed,      \* the figures of s_im_speedupinfo_resp
    isacc,      \* s_im_isacc_resp
    start,      \* s_im_startacc_resp
    peak,       \* the figure s_im_peakflow_resp was computed from
    taskid,     \* s_im_taskresult_cmd.im_taskid
    staged,     \* im_acc as a load sees it
    saved,      \* im_acc in flash
    mpc,        \* where the main thread is
    rpc,        \* where each roller is; "none" = no such thread
    write,      \* each thread's config_write_im_acc: next command, its texts
    answers,    \* the cloud: answers given
    mine,       \* history: the task each roller was started for
    overlap,    \* history: a stop took effect while a roller was alive
    unsaved,    \* history: figures changed, neither written nor reloaded since
    direct,     \* history: the last session was opened by an immediate answer
    kept,       \* history: what the last whole config_write_im_acc wrote
    left,       \* history: the program died in a write; its rest is staged
    mixed       \* history: a login has committed half a write

ram    == <<acc_state, speed, isacc, start, peak, taskid>>
uci    == <<staged, saved>>
disk   == <<kept, left, mixed>>
ghosts == <<mine, overlap, unsaved, direct>>
vars   == <<ram, uci, mpc, rpc, write, answers, ghosts, disk>>

Threads == Rollers \cup {"main"}
Figures == 0 .. MaxAnswers

Info    == [is_acc : Figures, band : Figures, acc_band : Figures]
Line    == [is_acc : Figures, band : Figures]
Session == [band : Figures, acc_band : Figures]

States == {"CLOSED", "OPENED", "OPENING", "QUERYING"}

\* "login": the first login; "boot": im_auto_query_isacc, "save": its write;
\* "..._login": the re-login after MSG_CODE_INVALIDSES; "open": announcing.
MainLabels == {"login", "boot", "boot_login", "save", "idle", "start",
               "start_login", "open", "query", "query_login"}
\* "good", "bad": in the write after a result that was, was not, complete;
\* "brocast": announcing; "again": in the second write.
RollLabels == {"none", "poll", "good", "bad", "brocast", "again"}

Live(r)  == rpc[r] # "none"
Delaying == acc_state \in {"OPENING", "QUERYING"}

-----------------------------------------------------------------------------
(* The configuration                                                       *)

\* Which command comes next: 0 = none, 1 = the first "uci set", 2 = the others,
\* 3 = "uci commit".
NoWrite == [at |-> 0, buf |-> [is_acc |-> 0, band |-> 0]]

Writing(t) == write[t].at # 0

\* Mutant: the texts are composed from the answer.
ComposeAnswer == isacc

\* The commands are composed before the first one runs; im_acc_bandwidth is
\* composed and never run.
Compose == [is_acc |-> speed.is_acc, band |-> speed.band]

config_write_im_acc(t) ==
    write' = [write EXCEPT ![t] = [at |-> 1, buf |-> Compose']]

\* Mutant: each command is committed at once.
CommitEachSet == saved' = staged'

CommitOnlyLast == UNCHANGED saved

SetStep(t) ==
    /\ write[t].at \in {1, 2}
    /\ staged' = IF write[t].at = 1
                 THEN [staged EXCEPT !.is_acc = write[t].buf.is_acc]
                 ELSE [staged EXCEPT !.band = write[t].buf.band]
    /\ write' = [write EXCEPT ![t].at = @ + 1]
    /\ CommitOnlyLast
    /\ UNCHANGED <<ram, mpc, rpc, answers, ghosts, disk>>

CommitStep(t) ==
    /\ write[t].at = 3
    /\ saved' = staged
    /\ write' = [write EXCEPT ![t] = NoWrite]
    /\ kept' = write[t].buf /\ left' = FALSE /\ mixed' = FALSE
    /\ unsaved' = FALSE
    /\ UNCHANGED <<ram, staged, mpc, rpc, answers, mine, overlap, direct>>

\* The "uci commit" of a login.
LoginCommit ==
    /\ saved' = staged
    /\ mixed' = (mixed \/ left \/ \E t \in Threads : write[t].at \in {2, 3})
    /\ UNCHANGED <<staged, kept, left>>

\* config_read_im_acc: the package has no option im_acc_bandwidth.
config_read_im_acc ==
    /\ speed' = [speed EXCEPT !.is_acc = staged.is_acc, !.band = staged.band]
    /\ unsaved' = FALSE

-----------------------------------------------------------------------------
(* Answers                                                                 *)

Answered == answers < MaxAnswers /\ answers' = answers + 1

\* Mutant: a missing figure is -1.
MissingIsError(old, have) ==
    [f \in DOMAIN old |-> IF f \in have THEN answers' ELSE -1]

\* The figures of an answer, have, replace the old ones; a missing one stays.
Merged(old, have) == [f \in DOMAIN old |-> IF f \in have THEN answers' ELSE old[f]]

im_json_parse_data_isacc_resp(have) == isacc' = Merged(isacc, have)

im_json_parse_data_startacc_resp(have) == start' = Merged(start, have)

\* Mutant: the accelerated bandwidth is forgotten.
ForgetAccBandwidth == [speed EXCEPT !.band = start'.band]

StartShown ==
    [speed EXCEPT !.band = start'.band, !.acc_band = start'.acc_band]

IsaccShown == [speed EXCEPT !.is_acc = isacc'.is_acc, !.band = isacc'.band]

im_count_flow_peakflow(band) == peak' = band

\* Mutant: an answer for a request already delayed once keeps the old id.
KeepTask == IF taskid = 0 THEN answers' ELSE taskid

TaskOf == answers'

\* MSG_CODE_MSGDELAY: the task id is stored in these states only, and a roller
\* is started, unless pthread_create fails.
Delayed ==
    /\ mpc \in {"boot", "start", "query"} /\ Delaying
    /\ Answered
    /\ taskid' = TaskOf
    /\ mpc' = "idle"
    /\ \/ \E r \in Rollers :
             /\ ~Live(r)
             /\ rpc' = [rpc EXCEPT ![r] = "poll"]
             /\ mine' = [mine EXCEPT ![r] = answers']
       \/ UNCHANGED <<rpc, mine>>
    /\ UNCHANGED <<acc_state, speed, isacc, start, peak, uci, write,
                   overlap, unsaved, direct, disk>>

\* No answer, or one that cannot be parsed: a query answer without im_is_acc
\* stores the other figures nevertheless.
Failed ==
    /\ mpc \in {"boot", "start", "query"}
    /\ \/ UNCHANGED <<isacc, answers>>
       \/ mpc # "start" /\ Answered /\ im_json_parse_data_isacc_resp({"band"})
    /\ acc_state' = "CLOSED" /\ mpc' = "idle"
    /\ UNCHANGED <<speed, start, peak, taskid, uci, rpc, write, ghosts, disk>>

\* Another code, or an expired session at start-up, where the query is repeated
\* in vain: the state stays.
LeftPending ==
    /\ mpc \in {"boot", "boot_login", "start", "query"}
    /\ mpc' = "idle"
    /\ IF mpc = "boot_login" THEN LoginCommit ELSE UNCHANGED <<uci, disk>>
    /\ UNCHANGED <<ram, rpc, write, answers, ghosts>>

\* MSG_CODE_INVALIDSES.
Expired ==
    /\ \/ mpc = "boot"  /\ mpc' = "boot_login"
       \/ mpc = "start" /\ mpc' = "start_login"
       \/ mpc = "query" /\ mpc' = "query_login"
    /\ UNCHANGED <<ram, uci, rpc, write, answers, ghosts, disk>>

\* The re-login succeeded: the request is made again.
LoggedIn ==
    /\ \/ mpc = "start_login" /\ mpc' = "start" /\ acc_state' = "OPENING"
       \/ mpc = "query_login" /\ mpc' = "query" /\ acc_state' = "QUERYING"
    /\ LoginCommit
    /\ UNCHANGED <<speed, isacc, start, peak, taskid, rpc, write, answers, ghosts>>

LoginFailed ==
    /\ mpc \in {"boot_login", "start_login", "query_login"}
    /\ mpc' = "idle"
    /\ acc_state' = IF mpc = "boot_login" THEN acc_state ELSE "CLOSED"
    /\ UNCHANGED <<speed, isacc, start, peak, taskid, uci, rpc, write, answers,
                   ghosts, disk>>

-----------------------------------------------------------------------------
(* The main thread                                                         *)

\* The first login, which may fail; im_windband_init; im_auto_query_isacc.
Boot ==
    /\ mpc = "login" /\ mpc' = "boot"
    /\ acc_state' = "QUERYING"
    /\ LoginCommit \/ UNCHANGED <<uci, disk>>
    /\ UNCHANGED <<speed, isacc, start, peak, taskid, rpc, write, answers, ghosts>>

\* An immediate answer: the figures are written, the answer is not among them.
BootAnswered(have) ==
    /\ mpc = "boot" /\ "is_acc" \in have
    /\ Answered
    /\ im_json_parse_data_isacc_resp(have)
    /\ im_count_flow_peakflow(speed.band)
    /\ speed' = speed /\ config_write_im_acc("main")
    /\ mpc' = "save"
    /\ UNCHANGED <<acc_state, start, taskid, uci, rpc, ghosts, disk>>

BootSaved ==
    /\ mpc = "save" /\ ~Writing("main")
    /\ mpc' = "idle"
    /\ UNCHANGED <<ram, uci, rpc, write, answers, ghosts, disk>>

\* Mutant: the cloud is asked while a session is open, too.
AskAnyway == TRUE

NothingOpen == acc_state = "CLOSED"

\* TERM_CMD_ACC_STATE_INFO: the figures are reloaded; with the network changed
\* and nothing open, the cloud is asked.
StateInfo ==
    /\ mpc = "idle" /\ ~Delaying
    /\ config_read_im_acc
    /\ \/ UNCHANGED <<acc_state, mpc>>
       \/ NothingOpen /\ acc_state' = "QUERYING" /\ mpc' = "query"
    /\ UNCHANGED <<isacc, start, peak, taskid, uci, rpc, write, answers, mine,
                   overlap, direct, disk>>

\* An immediate answer: it is stored, the reply shows the figures loaded above.
QueryAnswered(have) ==
    /\ mpc = "query" /\ "is_acc" \in have
    /\ Answered
    /\ im_json_parse_data_isacc_resp(have)
    /\ im_count_flow_peakflow(speed.band)
    /\ mpc' = "idle"
    /\ UNCHANGED <<acc_state, speed, start, taskid, uci, rpc, write, ghosts, disk>>

\* TERM_CMD_START_ACC.
StartCommand ==
    /\ mpc = "idle" /\ acc_state = "CLOSED"
    /\ acc_state' = "OPENING" /\ mpc' = "start"
    /\ UNCHANGED <<speed, isacc, start, peak, taskid, uci, rpc, write, answers,
                   ghosts, disk>>

\* An immediate answer opens the session; its figures are shown, not written.
StartAnswered(have) ==
    /\ mpc = "start" /\ mpc' = "open"
    /\ Answered
    /\ im_json_parse_data_startacc_resp(have)
    /\ acc_state' = "OPENED" /\ speed' = StartShown
    /\ direct' = TRUE /\ unsaved' = TRUE
    /\ UNCHANGED <<isacc, peak, taskid, uci, rpc, write, mine, overlap, disk>>

StartAnnounced ==
    /\ mpc = "open" /\ mpc' = "idle"
    /\ im_count_flow_peakflow(start.band)
    /\ UNCHANGED <<acc_state, speed, isacc, start, taskid, uci, rpc, write,
                   answers, ghosts, disk>>

\* TERM_CMD_STOP_ACC, answered.
Stop ==
    /\ mpc = "idle"
    /\ acc_state' = "CLOSED"
    /\ overlap' = (overlap \/ \E r \in Rollers : Live(r))
    /\ UNCHANGED <<speed, isacc, start, peak, taskid, uci, mpc, rpc, write,
                   answers, mine, unsaved, direct, disk>>

\* The re-login of any other command, or of a roller.
OtherLogin ==
    /\ mpc = "idle" \/ \E r \in Rollers : rpc[r] = "poll"
    /\ LoginCommit
    /\ UNCHANGED <<ram, mpc, rpc, write, answers, ghosts>>

-----------------------------------------------------------------------------
(* Roll-query threads                                                      *)

RollGoto(r, from, to) == rpc[r] = from /\ rpc' = [rpc EXCEPT ![r] = to]

\* A result is stored for the state it finds, and whatever it lacks the
\* configuration is written.
RollResult(r, have) ==
    /\ Answered
    /\ \/ /\ acc_state = "OPENING" /\ RollGoto(r, "poll", "good")
          /\ im_json_parse_data_startacc_resp(have)
          /\ speed' = StartShown
          /\ direct' = FALSE
          /\ UNCHANGED isacc
       \/ /\ acc_state = "QUERYING" /\ "is_acc" \in have /\ RollGoto(r, "poll", "good")
          /\ im_json_parse_data_isacc_resp(have)
          /\ speed' = IsaccShown
          /\ UNCHANGED <<start, direct>>
       \/ /\ acc_state = "QUERYING" /\ "is_acc" \notin have /\ RollGoto(r, "poll", "bad")
          /\ im_json_parse_data_isacc_resp(have)
          /\ UNCHANGED <<speed, start, direct>>
    /\ config_write_im_acc(r)
    /\ UNCHANGED <<acc_state, peak, taskid, uci, mpc, mine, overlap, unsaved, disk>>

\* A session result without data.
RollNoData(r) ==
    /\ acc_state = "OPENING" /\ RollGoto(r, "poll", "bad")
    /\ speed' = speed /\ config_write_im_acc(r)
    /\ UNCHANGED <<acc_state, isacc, start, peak, taskid, uci, mpc, answers,
                   ghosts, disk>>

\* The state is read again to decide what the result was for.
RollAnnounce(r) ==
    /\ ~Writing(r) /\ acc_state = "OPENING" /\ RollGoto(r, "good", "brocast")
    /\ UNCHANGED <<ram, uci, mpc, write, answers, ghosts, disk>>

RollSaveAgain(r) ==
    /\ ~Writing(r) /\ acc_state = "QUERYING" /\ RollGoto(r, "good", "again")
    /\ speed' = speed /\ config_write_im_acc(r)
    /\ UNCHANGED <<acc_state, isacc, start, peak, taskid, uci, mpc, answers,
                   ghosts, disk>>

\* Mutant: the peak is left as it was.
SamePeak == peak

PeakOfStart == start.band

RollOpened(r) ==
    /\ RollGoto(r, "brocast", "none")
    /\ peak' = PeakOfStart
    /\ acc_state' = "OPENED"
    /\ UNCHANGED <<speed, isacc, start, taskid, uci, mpc, write, answers, ghosts, disk>>

RollQueried(r) ==
    /\ ~Writing(r) /\ RollGoto(r, "again", "none")
    /\ acc_state' = "CLOSED"
    /\ UNCHANGED <<speed, isacc, start, peak, taskid, uci, mpc, write, answers,
                   ghosts, disk>>

\* The state is neither: the thread ends.
RollOvertaken(r) ==
    /\ ~Writing(r) /\ ~Delaying /\ RollGoto(r, "good", "none")
    /\ UNCHANGED <<ram, uci, mpc, write, answers, ghosts, disk>>

RollAgain(r) ==
    /\ ~Writing(r) /\ RollGoto(r, "bad", "poll")
    /\ UNCHANGED <<ram, uci, mpc, write, answers, ghosts, disk>>

\* No result after 180 s.
RollGivesUp(r) ==
    /\ RollGoto(r, "poll", "none")
    /\ acc_state' = "CLOSED"
    /\ UNCHANGED <<speed, isacc, start, peak, taskid, uci, mpc, write, answers,
                   ghosts, disk>>

-----------------------------------------------------------------------------
(* The end of the program, and of the power                                 *)

Restarted ==
    /\ acc_state' = "CLOSED" /\ peak' = 0 /\ taskid' = 0
    /\ speed' = [is_acc |-> 0, band |-> 0, acc_band |-> 0]
    /\ isacc' = [is_acc |-> 0, band |-> 0]
    /\ start' = [band |-> 0, acc_band |-> 0]
    /\ mpc' = "login"
    /\ rpc' = [r \in Rollers |-> "none"]
    /\ write' = [t \in Threads |-> NoWrite]
    /\ mine' = [r \in Rollers |-> 0]
    /\ unsaved' = TRUE /\ direct' = FALSE
    /\ UNCHANGED answers

\* main returns while a roller may be anywhere: /tmp, and what is staged, stay.
Exit ==
    /\ mpc = "idle"
    /\ left' = (left \/ \E t \in Threads : write[t].at \in {2, 3})
    /\ Restarted
    /\ UNCHANGED <<uci, overlap, kept, mixed>>

PowerCut ==
    /\ staged' = saved /\ left' = FALSE
    /\ Restarted
    /\ UNCHANGED <<saved, overlap, kept, mixed>>

-----------------------------------------------------------------------------

Init ==
    /\ acc_state = "CLOSED" /\ peak = 0 /\ taskid = 0 /\ answers = 0
    /\ speed = [is_acc |-> 0, band |-> 0, acc_band |-> 0]
    /\ isacc = [is_acc |-> 0, band |-> 0]
    /\ start = [band |-> 0, acc_band |-> 0]
    /\ staged = [is_acc |-> 0, band |-> 0] /\ saved = staged /\ kept = staged
    /\ mpc = "login"
    /\ rpc = [r \in Rollers |-> "none"]
    /\ write = [t \in Threads |-> NoWrite]
    /\ mine = [r \in Rollers |-> 0]
    /\ overlap = FALSE /\ unsaved = TRUE /\ direct = FALSE
    /\ left = FALSE /\ mixed = FALSE

Main ==
    \/ Boot \/ BootSaved \/ StateInfo \/ StartCommand \/ StartAnnounced \/ Stop
    \/ Delayed \/ Failed \/ LeftPending \/ Expired \/ LoggedIn \/ LoginFailed
    \/ OtherLogin
    \/ \E have \in SUBSET {"is_acc", "band"} : BootAnswered(have) \/ QueryAnswered(have)
    \/ \E have \in SUBSET {"band", "acc_band"} : StartAnswered(have)

Roll(r) ==
    \/ \E have \in SUBSET {"is_acc", "band", "acc_band"} : RollResult(r, have)
    \/ RollNoData(r) \/ RollAnnounce(r) \/ RollSaveAgain(r) \/ RollOpened(r)
    \/ RollQueried(r) \/ RollOvertaken(r) \/ RollAgain(r) \/ RollGivesUp(r)

Next ==
    \/ Main
    \/ \E r \in Rollers : Roll(r)
    \/ \E t \in Threads : SetStep(t) \/ CommitStep(t)
    \/ Exit \/ PowerCut

Spec == Init /\ [][Next]_vars

-----------------------------------------------------------------------------
(* Properties                                                              *)

TypeOK ==
    /\ acc_state \in States
    /\ speed \in Info /\ isacc \in Line /\ start \in Session
    /\ peak \in Figures /\ taskid \in Figures /\ answers \in Figures
    /\ staged \in Line /\ saved \in Line /\ kept \in Line
    /\ mpc \in MainLabels /\ rpc \in [Rollers -> RollLabels]
    /\ write \in [Threads -> [at : 0 .. 3, buf : Line]]
    /\ mine \in [Rollers -> Figures]
    /\ overlap \in BOOLEAN /\ unsaved \in BOOLEAN /\ direct \in BOOLEAN
    /\ left \in BOOLEAN /\ mixed \in BOOLEAN

\* Reloading the configuration before every state reply changes nothing, unless
\* a session opened by an immediate answer was never written, a write is under
\* way, or a stop overtook a roller.
SavedIsLive ==
    ~overlap /\ ~unsaved /\ (\A t \in Threads : ~Writing(t)) => staged = Compose

\* An open session is reported with the figures the cloud opened it with, all
\* from one request; a reload spoils that only for an immediate answer.
OpenedShowsStart ==
    ~overlap /\ acc_state = "OPENED" /\ (direct => unsaved) =>
        /\ speed.band = start.band
        /\ speed.acc_band = start.acc_band

\* The peak flow of an open session follows from that session's bandwidth and
\* not from an earlier query's, once the session is announced.
PeakIsTheSessions ==
    ~overlap /\ acc_state = "OPENED" /\ mpc # "open" => peak = start.band

\* There is one task id for all rollers: each polls for the request it was
\* started for, unless a stop let a second request overtake it.
TaskIsMine == ~overlap => \A r \in Rollers : Live(r) => mine[r] = taskid

\* Whenever the power fails or the program ends, the flash holds what one whole
\* write wrote, unless a login committed half of one.
SavedIsOneWrite == ~overlap /\ ~mixed => saved = kept

\* The state moves here as AccService promises, and so as in AccSession: through
\* whole requests with their re-logins, rollers, ends of the program and power
\* cuts, an open session is left by a stop or a restart only.  The session clock
\* is no part of this module: it stands still.
Service == INSTANCE AccService WITH
    phase <- IF overlap THEN "overtaken" ELSE acc_state,
    clock <- "off", told <- FALSE

StateSpec == Service!Spec
=============================================================================
