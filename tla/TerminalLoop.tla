----------------------------- MODULE TerminalLoop -----------------------------
(***************************************************************************)
(* The main thread of im_acc (main, im_handle_msg, im_handle_cmd_terminal):   *)
(* it starts up, then serves one terminal at a time on the local socket:       *)
(* accept, receive a message, parse it, carry the command out with the cloud, *)
(* logging in and asking again when the session has expired, reply, close.    *)
(*                                                                         *)
(* How commands move the session is in AccSession, what logins store in       *)
(* CloudLogin; here a command is known by how it may end.                     *)
(***************************************************************************)
EXTENDS Integers, Sequences, SequencesExt

CONSTANTS
    Clients,  \* terminals
    NoClient  \* accept_socket holds none

ASSUME ClientsAssumption == NoClient \notin Clients

VARIABLES
    pc,       \* where the main thread is
    backlog,  \* connections not accepted yet
    cur,      \* the terminal on accept_socket
    form,     \* what im_json_parse_terminal makes of its message
    cmd,      \* the kind of its command
    errcode,  \* errcode of im_handle_cmd_terminal
    got,      \* replies it was sent
    last      \* history: how the last exchange for this command ended

loopVars == <<pc, backlog, cur, form, cmd, errcode, got, last>>

\* "wan", "lan", "login", "boot", "listen": starting up.  "serve": at the switch
\* of im_handle_cmd_terminal; "ask", "relogin": in an exchange with the cloud;
\* "end": main has returned.
Labels == {"wan", "lan", "login", "boot", "listen", "accept", "receive",
           "parse", "serve", "ask", "relogin", "respond", "deinit", "end"}

\* "junk": no JSON, or no header; "nocode": a header without im_code; "lacking":
\* a header without another field; "nodata": without the data the command needs.
Forms == {"junk", "nocode", "lacking", "nodata", "good"}

\* "local": keepacc, peakflow, iosinfo; "info": flow, packages, history; "start",
\* "stop", "state": TERM_CMD_START_ACC, _STOP_ACC, _ACC_STATE_INFO.
Cmds == {"none", "local", "info", "start", "stop", "state", "unknown"}

\* "OTHER": another code of the cloud, which is passed on.
ErrCodes == {"SUCESS", "UNKNOWN", "FORMAT_ERR", "FORMAT_ERR_TERM",
          "MSGDELAY_TERM", "INVALIDSES", "OTHER"}

Ends == {"none", "failed", "SUCESS", "MSGDELAY", "INVALIDSES", "OTHER"}

Goto(from, to) == pc = from /\ pc' = to

Served == <<backlog, cur, form, cmd, errcode, got, last>>
Talk   == <<backlog, cur, form, cmd, got>>

-----------------------------------------------------------------------------
(* Starting up                                                             *)

\* im_check_internet_connect, im_start_login_cloud: once the interfaces have an
\* address; the login may fail; the query may take a login.
StartUp ==
    /\ \/ Goto("wan", "lan") \/ Goto("lan", "login")
       \/ Goto("login", "boot") \/ Goto("boot", "listen")
       \/ Goto("listen", "accept")
    /\ UNCHANGED Served

\* IM_DomainServerInit fails, or accept does: on SIGALRM too, as what it returns
\* is never EINTR.
Exit ==
    /\ Goto("listen", "end") \/ Goto("accept", "end")
    /\ backlog' = <<>>
    /\ UNCHANGED <<cur, form, cmd, errcode, got, last>>

Listening == pc \notin {"wan", "lan", "login", "boot", "listen", "end"}

Connect(c) ==
    /\ Listening
    /\ c # cur /\ ~Contains(backlog, c)
    /\ backlog' = Append(backlog, c)
    /\ UNCHANGED <<pc, cur, form, cmd, errcode, got, last>>

-----------------------------------------------------------------------------
(* One terminal                                                            *)

Accept ==
    /\ Goto("accept", "receive")
    /\ backlog # <<>>
    /\ cur' = Head(backlog) /\ backlog' = Tail(backlog)
    /\ got' = 0
    /\ UNCHANGED <<form, cmd, errcode, last>>

\* im_handle_msg passes the parse error on; the cloud's code, not the terminal's.
Receive ==
    /\ Goto("receive", "parse")
    /\ form' \in Forms /\ cmd' \in Cmds
    /\ cmd' = "none" <=> form' \in {"junk", "nocode", "lacking"}
    /\ form' = "nodata" => cmd' \notin {"state", "unknown"}
    /\ errcode' = "SUCESS" /\ last' = "none"
    /\ UNCHANGED <<backlog, cur, got>>

Forgotten ==
    /\ cur' = NoClient /\ got' = 0
    /\ form' = "junk" /\ cmd' = "none" /\ errcode' = "SUCESS" /\ last' = "none"
    /\ UNCHANGED backlog

\* Mutant: the connection is left open.
KeepSocket == UNCHANGED Served

im_DomainServerDeinit == Forgotten

ReceiveFails == Goto("receive", "accept") /\ im_DomainServerDeinit

Parse ==
    \/ /\ form = "good" /\ Goto("parse", "serve")
       /\ UNCHANGED Served
    \/ /\ form # "good" /\ Goto("parse", "respond")
       /\ errcode' = "FORMAT_ERR"
       /\ UNCHANGED <<Talk, last>>

\* The command is over with code c.
Over(c) == pc' = "respond" /\ errcode' = c /\ UNCHANGED <<Talk, last>>

\* Nothing to ask: a state query while pending, with the network unchanged, or
\* with it changed and a session open; a start unless CLOSED.
ServeHere ==
    /\ pc = "serve"
    /\ \/ cmd = "local" /\ Over("SUCESS")
       \/ cmd = "unknown" /\ Over("FORMAT_ERR_TERM")
       \/ cmd = "state" /\ \E c \in {"SUCESS", "MSGDELAY_TERM", "UNKNOWN"} : Over(c)
       \/ cmd = "start" /\ Over("UNKNOWN")

ServeByCloud ==
    /\ Goto("serve", "ask")
    /\ cmd \in {"info", "start", "stop", "state"}
    /\ UNCHANGED Served

OverWith(end, c) ==
    /\ last' = end
    /\ pc' = "respond" /\ errcode' = c
    /\ UNCHANGED Talk

\* No answer, or one that cannot be parsed: a delayed answer has a task id only
\* for a start and a state query.
AskFails == pc = "ask" /\ OverWith("failed", "UNKNOWN")

\* Mutant: other codes are taken for success.
AlwaysSucess(code) == IF code = "MSGDELAY" THEN "MSGDELAY_TERM" ELSE "SUCESS"

\* A stop command is over whatever the cloud says.
AnswerCode(code) ==
    IF cmd = "stop" THEN "SUCESS"
    ELSE IF code = "MSGDELAY" THEN "MSGDELAY_TERM" ELSE code

Answered ==
    /\ pc = "ask"
    /\ \E code \in {"SUCESS", "MSGDELAY", "OTHER", "INVALIDSES"} :
          /\ code = "MSGDELAY" => cmd \in {"start", "state"}
          /\ code = "INVALIDSES" => cmd = "stop"
          /\ OverWith(code, AnswerCode(code))

\* A start command looks at the state again, the others ask at once.
RetryAt == IF cmd = "start" THEN "serve" ELSE "ask"

\* Mutant: the request is repeated without a login.
NoLogin == RetryAt

LoginFirst == "relogin"

\* MSG_CODE_INVALIDSES: only a start command puts it into errcode at once.
Rejected ==
    /\ cmd \in {"info", "start", "state"}
    /\ Goto("ask", LoginFirst)
    /\ last' = "INVALIDSES"
    /\ errcode' = IF cmd = "start" THEN "INVALIDSES" ELSE errcode
    /\ UNCHANGED Talk

LoggedIn == Goto("relogin", RetryAt) /\ UNCHANGED Served

LoginFails == pc = "relogin" /\ Over("UNKNOWN")

\* The reply is the message with its code and data replaced, and needs a header
\* that has a code.  The terminal may have gone.
Answerable == form \notin {"junk", "nocode"}

\* Mutant: the reply is sent twice.
RespondTwice == got' \in {0, 2}

Sent == IF Answerable THEN got' \in {got, got + 1} ELSE UNCHANGED got

im_json_make_respone_send ==
    /\ Goto("respond", "deinit")
    /\ Sent
    /\ UNCHANGED <<backlog, cur, form, cmd, errcode, last>>

Deinit == Goto("deinit", "accept") /\ Forgotten

-----------------------------------------------------------------------------

LoopInit ==
    /\ pc = "wan" /\ backlog = <<>> /\ cur = NoClient
    /\ form = "junk" /\ cmd = "none" /\ errcode = "SUCESS"
    /\ got = 0 /\ last = "none"

\* What main does without waiting for a terminal; an exchange with the cloud
\* ends after CURLOPT_TIMEOUT at the latest.
LoopMain ==
    \/ Accept \/ Parse \/ ServeHere \/ ServeByCloud
    \/ AskFails \/ Answered \/ Rejected \/ LoggedIn \/ LoginFails
    \/ im_json_make_respone_send \/ Deinit

LoopNext ==
    \/ StartUp \/ Exit \/ LoopMain \/ Receive \/ ReceiveFails
    \/ \E c \in Clients : Connect(c)

LoopSpec == LoopInit /\ [][LoopNext]_loopVars

LoopFairSpec == LoopSpec /\ WF_loopVars(LoopMain)

-----------------------------------------------------------------------------
(* Properties                                                              *)

LoopTypeOK ==
    /\ pc \in Labels /\ cur \in Clients \cup {NoClient}
    /\ backlog \in Seq(Clients)
    /\ form \in Forms /\ cmd \in Cmds /\ errcode \in ErrCodes
    /\ got \in {0, 1} /\ last \in Ends

\* However often the session expires while a command is carried out, the reply
\* tells how its last exchange ended; a stop is told as done if it was answered.
CodeIsTheOutcome ==
    pc = "deinit" /\ form = "good" =>
        /\ errcode = "SUCESS" /\ cmd \in {"info", "start"} => last = "SUCESS"
        /\ errcode = "SUCESS" /\ cmd = "stop" => last \notin {"none", "failed"}
        /\ errcode = "SUCESS" /\ cmd = "state" => last \in {"none", "SUCESS"}
        /\ errcode = "MSGDELAY_TERM" =>
               last = "MSGDELAY" \/ (cmd = "state" /\ last = "none")
        /\ errcode # "INVALIDSES"

\* What the terminal on accept_socket is owed.
Owes ==
    IF pc = "receive" THEN "ear"
    ELSE IF Answerable /\ pc \in {"parse", "serve", "ask", "relogin", "respond"}
         THEN "reply"
         ELSE IF ~Answerable /\ pc \in {"parse", "respond", "deinit"}
              THEN "silence" ELSE "nothing"

\* What the terminals are promised, whatever the cloud answers.
Terminals == INSTANCE TerminalService WITH
    line <- backlog, serving <- cur, owes <- Owes, replies <- got
TerminalsSpec == Terminals!Spec

Waits(c) == c = cur \/ Contains(backlog, c)

\* A terminal that has connected is served and let go, unless the cloud keeps
\* rejecting sessions it has just given or a terminal connects and says nothing:
\* either keeps the only thread.
TerminalIsServed ==
    \A c \in Clients :
        \/ Waits(c) ~> ~Waits(c)
        \/ []<>(pc = "relogin")
        \/ <>[](pc = "receive")
=============================================================================
