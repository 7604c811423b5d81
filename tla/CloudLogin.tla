------------------------------ MODULE CloudLogin ------------------------------
(***************************************************************************)
(* The cloud session of im_acc.  A login answer is stored in s_im_login_resp,  *)
(* its address in the uci configuration, its session in the four request      *)
(* structures (im_init_session).  Some requests present the stored session,   *)
(* some a copy; when the cloud rejects it the thread logs in and retries.      *)
(* The heartbeat callback overwrites the stored address, and the difference   *)
(* from the configured one is what im_check_isnet_change calls a change of    *)
(* network.  Main thread, roll-query threads and handlers share it all        *)
(* without a lock.                                                           *)
(*                                                                         *)
(* What the requests are about is in AccSession.  The four copies are written *)
(* together and are one variable here.                                       *)
(***************************************************************************)
EXTENDS Integers

CONSTANTS
    Rollers,     \* thread slots for im_rollquery_thread
    Addrs,       \* WAN addresses
    NoAddr,      \* no address: the empty string
    MaxSessions  \* bound: sessions the cloud issues

ASSUME RollersAssumption == "main" \notin Rollers
ASSUME AddrsAssumption   == NoAddr \notin Addrs
ASSUME BoundAssumption   == MaxSessions \in Nat

VARIABLES
    issued,   \* the cloud: sessions 1 .. issued were issued
    login,    \* s_im_login_resp: session (0: none) and address
    copy,     \* im_session_id of the request structures
    beat_ip,  \* s_im_heartbeat_resp.im_ip
    uci_ip,   \* im_acc.isacc.im_ip in the configuration
    pc,       \* where each thread is
    cmd,      \* what each thread asks the cloud
    sent,     \* the session its request presents
    resp,     \* the login answer it has received
    beat,     \* the heartbeat answer that the handler it hosts has received
    told,     \* history: the address in the last login answer and in the last
              \*   answer, until answers crossed
    crossed   \* history: two answers in hand at once, or one without address

store  == <<login, copy, beat_ip, uci_ip>>
thread == <<pc, cmd, sent, resp>>
ghosts == <<told, crossed>>
vars   == <<issued, store, thread, beat, ghosts>>

Threads  == Rollers \cup {"main"}
Sessions == 0 .. MaxSessions
Texts    == Addrs \cup {NoAddr}

\* "acc": query or start; "info": flow, packages, history; "stop"; "boot": the
\* query at start-up; "poll": the task result; "none".
Cmds == {"none", "acc", "info", "stop", "boot", "poll"}

\* "wait": for the answer to cmd; "login": for a login answer; "parse", "save",
\* "init": storing it; "retry": about to send cmd again.
Labels == {"none", "idle", "wait", "login", "parse", "save", "init", "retry"}

\* The parts of a login answer; one that is missing is 0 or NoAddr.
Answer   == [ses : Sessions, ip : Texts]
NoAnswer == [ses |-> 0, ip |-> NoAddr]
NoBeat   == [here |-> FALSE, ip |-> NoAddr]

\* A handler preempts the thread that hosts it.
Runs(t) == ~beat[t].here

InHand(t) == beat[t].here \/ pc[t] \in {"parse", "save", "init"}

Step(t, from, to) == Runs(t) /\ pc[t] = from /\ pc' = [pc EXCEPT ![t] = to]

\* An answer with address ip is here; no promise is kept once answers crossed.
Untold == [atLogin |-> NoAddr, last |-> NoAddr]

Told(atLogin, ip) ==
    /\ crossed' = (crossed \/ ip = NoAddr \/ \E t \in Threads : InHand(t))
    /\ told' = IF crossed' THEN Untold ELSE [atLogin |-> atLogin, last |-> ip]

Resting(t) == IF t = "main" THEN "idle" ELSE "none"

-----------------------------------------------------------------------------
(* Requests                                                                *)

\* Which session a request presents.
Presented(c) == IF c \in {"acc", "boot", "poll"} THEN copy ELSE login.ses

\* The thread is through with its command.
Over(t) ==
    /\ cmd' = [cmd EXCEPT ![t] = "none"]
    /\ sent' = [sent EXCEPT ![t] = 0]
    /\ resp' = [resp EXCEPT ![t] = NoAnswer]

\* A terminal command.
Ask(c) ==
    /\ Step("main", "idle", "wait")
    /\ cmd' = [cmd EXCEPT !["main"] = c]
    /\ sent' = [sent EXCEPT !["main"] = Presented(c)]
    /\ UNCHANGED <<issued, store, resp, beat, ghosts>>

\* Answered or not, or given up: the command is over.  A stop is over whatever
\* the answer says.
Answered(t) ==
    /\ Step(t, "wait", Resting(t))
    /\ Over(t)
    /\ UNCHANGED <<issued, store, beat, ghosts>>

\* MSG_CODE_MSGDELAY: roller r is to poll.
Delayed(r) ==
    /\ Runs("main") /\ pc["main"] = "wait" /\ cmd["main"] \in {"acc", "boot"}
    /\ pc[r] = "none"
    /\ pc' = [pc EXCEPT !["main"] = "idle", ![r] = "retry"]
    /\ cmd' = [cmd EXCEPT !["main"] = "none", ![r] = "poll"]
    /\ sent' = [sent EXCEPT !["main"] = 0]
    /\ resp' = [resp EXCEPT !["main"] = NoAnswer]
    /\ UNCHANGED <<issued, store, beat, ghosts>>

\* MSG_CODE_INVALIDSES: the cloud may let any session expire.
Rejected(t) ==
    /\ cmd[t] \in {"acc", "info", "boot"}
    /\ Step(t, "wait", "login")
    /\ UNCHANGED <<issued, store, cmd, sent, resp, beat, ghosts>>

\* No result yet: poll again after 20 s, or log in on MSG_CODE_IVALIDEDEVID.
\* A roller does not look at MSG_CODE_INVALIDSES.
PollAgain(r) ==
    /\ cmd[r] = "poll"
    /\ \E l \in {"retry", "login"} : Step(r, "wait", l)
    /\ UNCHANGED <<issued, store, cmd, sent, resp, beat, ghosts>>

\* Mutant: the message built for the first try is sent again.
SameSession(t) == sent[t]

NextSession(t) == Presented(cmd[t])

\* Back from the login, its sleep(1) over: the request is built and sent again.
Retry(t) ==
    /\ cmd[t] \in {"acc", "info", "poll"}
    /\ Step(t, "retry", "wait")
    /\ sent' = [sent EXCEPT ![t] = NextSession(t)]
    /\ resp' = [resp EXCEPT ![t] = NoAnswer]
    /\ UNCHANGED <<issued, store, cmd, beat, ghosts>>

\* The first login is over: im_windband_init, im_auto_query_isacc.
BootInit ==
    /\ cmd["main"] = "none" /\ Step("main", "retry", "wait")
    /\ copy' = login.ses
    /\ cmd' = [cmd EXCEPT !["main"] = "boot"]
    /\ sent' = [sent EXCEPT !["main"] = copy']
    /\ resp' = [resp EXCEPT !["main"] = NoAnswer]
    /\ UNCHANGED <<issued, login, beat_ip, uci_ip, beat, ghosts>>

\* im_auto_query_isacc calls itself after the login, and returns at once.
BootRetry ==
    /\ cmd["main"] = "boot" /\ Step("main", "retry", "idle")
    /\ Over("main")
    /\ UNCHANGED <<issued, store, beat, ghosts>>

-----------------------------------------------------------------------------
(* im_cloud_login                                                          *)

\* No answer, or another code than MSG_CODE_SUCESS.  A roller, and the first
\* login, go on nevertheless.
LoginFailed(t) ==
    /\ IF cmd[t] \in {"none", "poll"}
       THEN Step(t, "login", "retry") /\ UNCHANGED <<cmd, sent, resp>>
       ELSE Step(t, "login", Resting(t)) /\ Over(t)
    /\ UNCHANGED <<issued, store, beat, ghosts>>

\* MSG_CODE_SUCESS without data, or an answer that is no JSON and leaves
\* MSG_CODE_SUCESS in the uninitialized header: the login counts as done.
LoginEmpty(t) ==
    /\ Step(t, "login", "retry")
    /\ UNCHANGED <<issued, store, cmd, sent, resp, beat, ghosts>>

\* Data in the answer, some of which may be missing.
LoginServed(t) ==
    /\ Step(t, "login", "parse")
    /\ \E ip \in Texts :
          /\ \/ /\ issued < MaxSessions
                /\ issued' = issued + 1
                /\ resp' = [resp EXCEPT ![t] = [ses |-> issued', ip |-> ip]]
             \/ /\ resp' = [resp EXCEPT ![t] = [ses |-> 0, ip |-> ip]]
                /\ UNCHANGED issued
          /\ Told(ip, ip)
    /\ UNCHANGED <<store, cmd, sent, beat>>

\* im_json_parse_data_login_resp stores what is there, and builds the uci
\* command from the stored address.
LoginParsed(t) ==
    /\ Step(t, "parse", "save")
    /\ login' = [ses |-> IF resp[t].ses # 0 THEN resp[t].ses ELSE login.ses,
                 ip  |-> IF resp[t].ip # NoAddr THEN resp[t].ip ELSE login.ip]
    /\ resp' = [resp EXCEPT ![t].ip = login'.ip]
    /\ UNCHANGED <<issued, copy, beat_ip, uci_ip, cmd, sent, beat, ghosts>>

\* Mutant: the address is not saved.
NotSaved(t) == uci_ip

Saved(t) == resp[t].ip

\* "uci set", "uci commit".
LoginSaved(t) ==
    /\ Step(t, "save", "init")
    /\ uci_ip' = Saved(t)
    /\ UNCHANGED <<issued, login, copy, beat_ip, cmd, sent, resp, beat, ghosts>>

\* Mutants: this answer's session, not the stored one, is copied; the address is.
CopyAnswer(t) == resp[t].ses
CopyAddress(t) == login.ip

Copied(t) == login.ses

im_init_session(t) ==
    /\ Step(t, "init", "retry")
    /\ copy' = Copied(t)
    /\ UNCHANGED <<issued, login, beat_ip, uci_ip, cmd, sent, resp, beat, ghosts>>

-----------------------------------------------------------------------------
(* im_cloud_heartbeat, in a handler, and the check for another network       *)

Booting == cmd["main"] = "boot" \/ (cmd["main"] = "none" /\ pc["main"] # "idle")

\* MSG_CODE_SUCESS, with an address or without.
BeatServed(t) ==
    /\ ~Booting /\ Runs(t) /\ pc[t] # "none"
    /\ \E ip \in Texts :
          /\ beat' = [beat EXCEPT ![t] = [here |-> TRUE, ip |-> ip]]
          /\ Told(told.atLogin, ip)
    /\ UNCHANGED <<issued, store, thread>>

\* Without an address the one of an earlier heartbeat is stored.
BeatParsed(t) ==
    /\ beat[t].here
    /\ beat_ip' = IF beat[t].ip # NoAddr THEN beat[t].ip ELSE beat_ip
    /\ login' = [login EXCEPT !.ip = beat_ip']
    /\ beat' = [beat EXCEPT ![t] = NoBeat]
    /\ UNCHANGED <<issued, copy, uci_ip, thread, ghosts>>

im_check_isnet_change == uci_ip # login.ip

-----------------------------------------------------------------------------

Init ==
    /\ issued = 0
    /\ login = [ses |-> 0, ip |-> NoAddr] /\ copy = 0
    /\ beat_ip = NoAddr /\ uci_ip \in Texts
    /\ pc = [t \in Threads |-> IF t = "main" THEN "login" ELSE "none"]
    /\ cmd = [t \in Threads |-> "none"]
    /\ sent = [t \in Threads |-> 0]
    /\ resp = [t \in Threads |-> NoAnswer]
    /\ beat = [t \in Threads |-> NoBeat]
    /\ told = Untold
    /\ crossed = FALSE

Request(t) == Answered(t) \/ Rejected(t) \/ PollAgain(t) \/ Retry(t)

Login(t) ==
    \/ LoginFailed(t) \/ LoginEmpty(t) \/ LoginServed(t)
    \/ LoginParsed(t) \/ LoginSaved(t) \/ im_init_session(t)

Next ==
    \/ \E c \in {"acc", "info", "stop"} : Ask(c)
    \/ \E r \in Rollers : Delayed(r)
    \/ BootInit \/ BootRetry
    \/ \E t \in Threads : Request(t) \/ Login(t) \/ BeatServed(t) \/ BeatParsed(t)

Spec == Init /\ [][Next]_vars

-----------------------------------------------------------------------------
(* Properties                                                              *)

TypeOK ==
    /\ issued \in Sessions
    /\ login \in Answer /\ copy \in Sessions
    /\ beat_ip \in Texts /\ uci_ip \in Texts
    /\ pc \in [Threads -> Labels] /\ cmd \in [Threads -> Cmds]
    /\ sent \in [Threads -> Sessions] /\ resp \in [Threads -> Answer]
    /\ beat \in [Threads -> [here : BOOLEAN, ip : Texts]]
    /\ told \in [atLogin : Texts, last : Texts] /\ crossed \in BOOLEAN

\* However the logins of several threads interleave, once none is being stored
\* the request structures carry the session of the stored login.
CopyFollowsLogin ==
    (\A t \in Threads : pc[t] \notin {"save", "init"}) => copy = login.ses

\* A retry after a login that brought a session never presents the session
\* that was rejected, whatever other threads store in between.
RetryIsNew ==
    [][\A t \in Threads :
           pc[t] = "retry" /\ pc'[t] = "wait" /\ resp[t].ses # 0
               => sent'[t] # sent[t]]_vars

\* Unless two answers crossed or one lacked its address: with every answer
\* stored, the check reports another network exactly if the cloud has named
\* another address since the last login.
ChangeIsExact ==
    ~crossed /\ told.atLogin # NoAddr /\ (\A t \in Threads : ~InHand(t)) =>
        (im_check_isnet_change <=> told.last # told.atLogin)
=============================================================================
