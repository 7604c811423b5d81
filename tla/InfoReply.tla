------------------------------ MODULE InfoReply ------------------------------
(***************************************************************************)
(* The commands of a terminal that ask for flow packages and for the history    *)
(* of accelerations: the cloud's answer is stored in structures that live as     *)
(* long as the program, and the reply is built from these.  Only the main        *)
(* thread uses them; TerminalLoop has the rest of such a command.              *)
(*                                                                         *)
(* A record has two figures, im_total_flow and im_remain_flow or im_use_time     *)
(* and im_use_flow (im_open_acc_time is a third like it).  They are unsigned      *)
(* longs, a reply holds ints.                                                *)
(***************************************************************************)
EXTENDS Integers, Sequences, SequencesExt

CONSTANTS
    Amounts,     \* figures that the cloud may give
    Missing,     \* in place of a figure that an answer lacks
    IntRange,    \* what an int can tell apart (2^32)
    MAX_ACC_HIS, \* rows of the history (20)
    MaxRecords   \* bound: records of an answer

ASSUME AmountsAssumption == Amounts \subseteq Nat /\ Missing \notin Amounts \cup {0}
ASSUME RangeAssumption   == IntRange \in Nat \ {0} /\ IntRange % 2 = 0
ASSUME HistoryAssumption == MAX_ACC_HIS \in Nat \ {0} /\ MaxRecords \in Nat

VARIABLES
    info_pc,            \* "idle", "ask" (in im_cloud_*), "relogin", "respond";
                        \* "overrun": memory behind acc_list is overwritten
    info_cmd,           \* the command being served; "none" in between
    s_im_flowinfo_resp,
    acc_list,           \* the rows of s_im_acclist_resp
    info_code,          \* errcode
    json_data,          \* the data of the reply
    answer              \* history: the last answer: what for, and its records

infoVars == <<info_pc, info_cmd, s_im_flowinfo_resp, acc_list, info_code,
              json_data, answer>>

InfoCmds == {"GETFLOW_INFO", "GET_ACCLIST", "UNGETFLOW", "GETFLOW"}

AccRows == 1 .. MAX_ACC_HIS
Fields  == {1, 2}

Given    == [Fields -> Amounts \cup {Missing}]
NoRecord == [f \in Fields |-> 0]
NoAnswer == [cmd |-> "none", records |-> <<>>]

\* Only the first record of an answer is looked at, unless it is a history.
Records(cmd) ==
    CASE cmd = "GETFLOW_INFO" -> BoundedSeq(Given, 1)
      [] cmd = "GET_ACCLIST"  -> BoundedSeq(Given, MaxRecords)
      [] OTHER                -> {<<>>, <<NoRecord>>}

InfoGoto(from, to) == info_pc = from /\ info_pc' = to

-----------------------------------------------------------------------------
(* im_json_parse_data_cloud                                                *)

\* im_json_get_int64 leaves what it does not find.
Overwritten(old, record) ==
    [f \in Fields |-> IF record[f] = Missing THEN old[f] ELSE record[f]]

Whole(record) == \A f \in Fields : record[f] # Missing

im_json_parse_data_getflowinfo_resp(records) ==
    s_im_flowinfo_resp' = IF records = <<>> THEN s_im_flowinfo_resp
                          ELSE Overwritten(s_im_flowinfo_resp, records[1])

\* The loop looks at the length of the list only.  A shorter one leaves the rows
\* behind it; what a longer one has for the rows that are not there is written
\* behind the table.
PastTheTable(records) ==
    \E i \in 1 .. Len(records) :
        i > MAX_ACC_HIS /\ \E f \in Fields : records[i][f] # Missing

im_json_parse_data_getacclist_resp(records) ==
    acc_list' = [i \in AccRows |-> IF i <= Len(records)
                                   THEN Overwritten(acc_list[i], records[i])
                                   ELSE acc_list[i]]

\* Mutant: only the last figure that is looked for decides (ret =, not ret |=).
LastFigureParsed(cmd, records) ==
    CASE cmd = "GETFLOW_INFO" -> records # <<>> /\ records[1][2] # Missing
      [] cmd = "GET_ACCLIST"  -> \A i \in 1 .. Len(records) : records[i][2] # Missing
      [] OTHER                -> records # <<>>

\* An empty list of accelerations is no error.
Parsed(cmd, records) ==
    CASE cmd = "GETFLOW_INFO" -> records # <<>> /\ Whole(records[1])
      [] cmd = "GET_ACCLIST"  -> \A i \in 1 .. Len(records) : Whole(records[i])
      [] OTHER                -> records # <<>>

-----------------------------------------------------------------------------
(* Building the reply                                                      *)

Half == IntRange \div 2

\* json_object_new_int of an unsigned long.
AsInt(amount) == ((amount + Half) % IntRange) - Half

Shown(record) == [f \in Fields |-> AsInt(record[f])]

\* json_object_new_int(...) != 0 compares a pointer: every row is added; and each
\* time the same object, which holds the last row in the end.
im_json_make_termres_acclist == [i \in AccRows |-> Shown(acc_list'[MAX_ACC_HIS])]

\* s_im_ungetflow_resp is never filled: two empty strings.
ReplyTo(cmd) ==
    CASE cmd = "GETFLOW_INFO" -> <<Shown(s_im_flowinfo_resp')>>
      [] cmd = "GET_ACCLIST"  -> im_json_make_termres_acclist
      [] cmd = "UNGETFLOW"    -> <<NoRecord>>
      [] OTHER                -> <<>>

-----------------------------------------------------------------------------
(* The command                                                             *)

InfoCommand(cmd) ==
    /\ InfoGoto("idle", "ask")
    /\ info_cmd' = cmd
    /\ UNCHANGED <<s_im_flowinfo_resp, acc_list, info_code, json_data, answer>>

\* The answer is parsed for the command that its own header names.
InfoAnswered(cmd, records) ==
    /\ InfoGoto("ask", "respond")
    /\ cmd = "GET_ACCLIST" => ~PastTheTable(records)
    /\ answer' = [cmd |-> cmd, records |-> records]
    /\ IF cmd = "GETFLOW_INFO" THEN im_json_parse_data_getflowinfo_resp(records)
       ELSE UNCHANGED s_im_flowinfo_resp
    /\ IF cmd = "GET_ACCLIST" THEN im_json_parse_data_getacclist_resp(records)
       ELSE UNCHANGED acc_list
    /\ IF Parsed(cmd, records)
       THEN info_code' = "SUCESS" /\ json_data' = ReplyTo(info_cmd)
       ELSE info_code' = "UNKNOWN" /\ json_data' = <<>>
    /\ UNCHANGED info_cmd

\* From here on the program is undefined.
InfoOverrun(records) ==
    /\ InfoGoto("ask", "overrun")
    /\ PastTheTable(records)
    /\ UNCHANGED <<info_cmd, s_im_flowinfo_resp, acc_list, info_code, json_data, answer>>

InfoRefused(to, code) ==
    /\ InfoGoto("ask", to)
    /\ info_code' = code
    /\ UNCHANGED <<info_cmd, s_im_flowinfo_resp, acc_list, json_data, answer>>

InfoFails   == InfoRefused("respond", "UNKNOWN")
InfoOther   == InfoRefused("respond", "OTHER")
InfoExpired == InfoRefused("relogin", info_code)

InfoLoggedIn ==
    /\ InfoGoto("relogin", "ask")
    /\ UNCHANGED <<info_cmd, s_im_flowinfo_resp, acc_list, info_code, json_data, answer>>

InfoLoginFails ==
    /\ InfoGoto("relogin", "respond")
    /\ info_code' = "UNKNOWN"
    /\ UNCHANGED <<info_cmd, s_im_flowinfo_resp, acc_list, json_data, answer>>

InfoRespond ==
    /\ InfoGoto("respond", "idle")
    /\ info_cmd' = "none" /\ info_code' = "SUCESS"
    /\ json_data' = <<>> /\ answer' = NoAnswer
    /\ UNCHANGED <<s_im_flowinfo_resp, acc_list>>

InfoInit ==
    /\ info_pc = "idle" /\ info_cmd = "none" /\ info_code = "SUCESS"
    /\ s_im_flowinfo_resp = NoRecord
    /\ acc_list = [i \in AccRows |-> NoRecord]
    /\ json_data = <<>> /\ answer = NoAnswer

InfoNext ==
    \/ \E cmd \in InfoCmds : InfoCommand(cmd)
    \/ \E cmd \in InfoCmds : \E records \in Records(cmd) : InfoAnswered(cmd, records)
    \/ \E records \in Records("GET_ACCLIST") : InfoOverrun(records)
    \/ InfoFails \/ InfoOther \/ InfoExpired
    \/ InfoLoggedIn \/ InfoLoginFails \/ InfoRespond

InfoSpec == InfoInit /\ [][InfoNext]_infoVars

-----------------------------------------------------------------------------
(* Properties                                                              *)

\* A figure of a reply, if it is not too wide for an int (2 GB and more).
Tells(shown, figure) == shown = figure \/ (figure \in Amounts /\ figure >= Half)

\* A terminal that is told of success about its flow packages is shown what the
\* cloud answered to this very command, all of one answer, however incomplete the
\* answers before it were and however often it was asked.  Of a history the table
\* holds all of that answer, but the reply has its last row alone, in the place of
\* every row: that of this answer if the cloud's list fills the table.  The cloud
\* must answer what it was asked.
ReplyIsTheAnswer ==
    info_pc = "respond" /\ info_code = "SUCESS" /\ answer.cmd = info_cmd =>
        /\ info_cmd = "GETFLOW_INFO" =>
               \A f \in Fields : Tells(json_data[1][f], answer.records[1][f])
        /\ info_cmd = "GET_ACCLIST" =>
               /\ Len(answer.records) <= MAX_ACC_HIS
               /\ \A i \in 1 .. Len(answer.records) : acc_list[i] = answer.records[i]
               /\ Len(answer.records) = MAX_ACC_HIS =>
                      \A i \in AccRows : \A f \in Fields :
                          Tells(json_data[i][f], answer.records[MAX_ACC_HIS][f])
=============================================================================
