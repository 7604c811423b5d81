-------------------------- MODULE TerminalLoop_proofs --------------------------
(***************************************************************************)
(* For any set of terminals: typing, that the reply tells the outcome of the   *)
(* last exchange, and that TerminalLoop implements TerminalService.           *)
(***************************************************************************)
EXTENDS TerminalLoop, TLAPS

\* No connection is held where none can have been accepted.
Waiting == {"wan", "lan", "login", "boot", "listen", "accept", "end"}

SocketInv ==
    /\ cur = NoClient <=> pc \in Waiting
    /\ pc # "deinit" => got = 0

\* A command is carried out only if it was understood; ...
InHand == {"serve", "ask", "relogin"}

\* ... what is left over from a rejected session is there to be replaced.
CommandInv ==
    /\ pc \in InHand =>
        /\ form = "good" /\ cmd # "none"
        /\ last \in {"none", "INVALIDSES"}
        /\ errcode \in {"SUCESS", "INVALIDSES"}
    /\ pc = "serve" /\ cmd # "start" => last = "none"
    /\ pc \in {"ask", "relogin"} => cmd \in {"info", "start", "stop", "state"}
    /\ pc = "relogin" => cmd # "stop"
    /\ pc = "parse" => /\ errcode = "SUCESS" /\ last = "none"
                       /\ form = "good" => cmd # "none"

\* The outcome is settled once there is nothing left but to reply.
Settled ==
    /\ errcode = "SUCESS" /\ cmd \in {"info", "start"} => last = "SUCESS"
    /\ errcode = "SUCESS" /\ cmd = "stop" => last \notin {"none", "failed"}
    /\ errcode = "SUCESS" /\ cmd = "state" => last \in {"none", "SUCESS"}
    /\ errcode = "MSGDELAY_TERM" =>
           last = "MSGDELAY" \/ (cmd = "state" /\ last = "none")
    /\ errcode # "INVALIDSES"

OutcomeInv == pc \in {"respond", "deinit"} /\ form = "good" => Settled

LoopInv == LoopTypeOK /\ SocketInv /\ CommandInv /\ OutcomeInv
-----------------------------------------------------------------------------
(* The invariant                                                           *)

LEMMA LoopInitially == LoopInit => LoopInv
  BY ClientsAssumption
  DEF LoopInit, LoopInv, LoopTypeOK, SocketInv, CommandInv, OutcomeInv, Labels, Forms,
      Cmds, ErrCodes, Ends, Waiting, InHand

\* Starting up, ending, and a terminal that connects.
LEMMA AroundStep ==
    ASSUME LoopInv, StartUp \/ Exit \/ (\E c \in Clients : Connect(c))
    PROVE  LoopInv'
<1> USE DEF LoopInv, LoopTypeOK, SocketInv, CommandInv, OutcomeInv, Labels, Waiting, InHand, Settled
<1>1. CASE StartUp
  BY <1>1 DEF StartUp, Goto, Served
<1>2. CASE Exit
  BY <1>2 DEF Exit, Goto
<1>3. CASE \E c \in Clients : Connect(c)
  BY <1>3 DEF Connect
<1> QED
  BY <1>1, <1>2, <1>3

\* Taking a terminal and hearing it.
LEMMA TakeStep ==
    ASSUME LoopInv, Accept \/ Receive \/ ReceiveFails \/ Parse
    PROVE  LoopInv'
<1> USE DEF LoopInv, LoopTypeOK, SocketInv, CommandInv, OutcomeInv, Labels, Waiting, InHand, Settled
<1>1. CASE Accept
  BY <1>1, ClientsAssumption DEF Accept, Goto
<1>2. CASE Receive
  BY <1>2 DEF Receive, Goto, Forms, Cmds, ErrCodes, Ends
<1>3. CASE ReceiveFails
  BY <1>3 DEF ReceiveFails, im_DomainServerDeinit, Forgotten, Goto, Forms, Cmds, ErrCodes, Ends
<1>4. CASE Parse
  BY <1>4 DEF Parse, Goto, Served, Talk, ErrCodes
<1> QED
  BY <1>1, <1>2, <1>3, <1>4

\* Carrying a command out.
LEMMA CommandStep ==
    ASSUME LoopInv,
           ServeHere \/ ServeByCloud \/ AskFails \/ Answered \/ Rejected
             \/ LoggedIn \/ LoginFails
    PROVE  LoopInv'
<1> USE DEF LoopInv, LoopTypeOK, SocketInv, CommandInv, OutcomeInv, Labels, Waiting, InHand, Settled
<1>1. CASE ServeHere
  BY <1>1 DEF ServeHere, Over, Talk, ErrCodes
<1>2. CASE ServeByCloud
  BY <1>2 DEF ServeByCloud, Goto, Served
<1>3. CASE AskFails
  BY <1>3 DEF AskFails, OverWith, Talk, ErrCodes, Ends
<1>4. CASE Answered
  <2>1. PICK code \in {"SUCESS", "MSGDELAY", "OTHER", "INVALIDSES"} :
            /\ code = "MSGDELAY" => cmd \in {"start", "state"}
            /\ code = "INVALIDSES" => cmd = "stop"
            /\ OverWith(code, AnswerCode(code))
    BY <1>4 DEF Answered
  <2>2. AnswerCode(code) \in ErrCodes
    BY <2>1 DEF AnswerCode, ErrCodes
  <2> QED
    BY <1>4, <2>1, <2>2 DEF Answered, OverWith, AnswerCode, Talk, Ends
<1>5. CASE Rejected
  BY <1>5 DEF Rejected, LoginFirst, Goto, Talk, ErrCodes, Ends
<1>6. CASE LoggedIn
  BY <1>6 DEF LoggedIn, RetryAt, Goto, Served
<1>7. CASE LoginFails
  BY <1>7 DEF LoginFails, Over, Talk, ErrCodes
<1> QED
  BY <1>1, <1>2, <1>3, <1>4, <1>5, <1>6, <1>7

\* Replying and closing.
LEMMA ReplyStep ==
    ASSUME LoopInv, im_json_make_respone_send \/ Deinit
    PROVE  LoopInv'
<1> USE DEF LoopInv, LoopTypeOK, SocketInv, CommandInv, OutcomeInv, Labels, Waiting, InHand, Settled
<1>1. CASE im_json_make_respone_send
  BY <1>1 DEF im_json_make_respone_send, Sent, Goto
<1>2. CASE Deinit
  BY <1>2 DEF Deinit, Forgotten, Goto, Forms, Cmds, ErrCodes, Ends
<1> QED
  BY <1>1, <1>2

LEMMA LoopInductive == LoopSpec => []LoopInv
<1>1. LoopInv /\ [LoopNext]_loopVars => LoopInv'
  <2> SUFFICES ASSUME LoopInv, [LoopNext]_loopVars PROVE LoopInv'
    OBVIOUS
  <2>1. CASE LoopNext
    BY <2>1, AroundStep, TakeStep, CommandStep, ReplyStep DEF LoopNext, LoopMain
  <2>2. CASE UNCHANGED loopVars
    BY <2>2 DEF loopVars, LoopInv, LoopTypeOK, SocketInv, CommandInv, OutcomeInv, Settled
  <2> QED
    BY <2>1, <2>2
<1> QED
  BY <1>1, LoopInitially, PTL DEF LoopSpec
-----------------------------------------------------------------------------
(* The theorems                                                            *)

\* The main loop keeps its variables typed; above all, a terminal is sent one
\* reply at most.
THEOREM LoopTypeCorrect == LoopSpec => []LoopTypeOK
<1>1. LoopInv => LoopTypeOK
  BY DEF LoopInv
<1> QED
  BY <1>1, LoopInductive, PTL

\* However often im_handle_cmd_terminal logs in and asks again, the code of the
\* reply tells how its last exchange ended.
THEOREM ReplyTellsOutcome == LoopSpec => []CodeIsTheOutcome
<1>1. LoopInv => CodeIsTheOutcome
  BY DEF LoopInv, OutcomeInv, Settled, CodeIsTheOutcome
<1> QED
  BY <1>1, LoopInductive, PTL
-----------------------------------------------------------------------------
(* The refinement                                                          *)

LEMMA ServiceInit == LoopInit => Terminals!Init
  BY DEF LoopInit, Terminals!Init, Owes

\* Every step is a step of the service, or none.
LEMMA ServiceStep ==
    ASSUME LoopInv, [LoopNext]_loopVars
    PROVE  [Terminals!Next]_(Terminals!vars)
<1> DEFINE Same == UNCHANGED <<backlog, cur, Owes, got>>
<1>0. Same => UNCHANGED Terminals!vars
  BY DEF Terminals!vars, Owes
<1>1. CASE StartUp
  <2>1. Same
    BY <1>1 DEF StartUp, Goto, Served, Owes, Answerable
  <2> QED
    BY <2>1, <1>0
<1>2. CASE Exit
  <2>1. Terminals!End
    BY <1>2 DEF Exit, Goto, Terminals!End, Owes, LoopInv, SocketInv, Waiting, Answerable
  <2> QED
    BY <2>1 DEF Terminals!Next
<1>3. ASSUME NEW c \in Clients, Connect(c)
      PROVE  Terminals!Next
  <2>1. Terminals!Join(c)
    BY <1>3 DEF Connect, Terminals!Join, Owes, Answerable, Listening, Contains, Terminals!Contains
  <2> QED
    BY <2>1 DEF Terminals!Next
<1>4. CASE Accept
  <2>1. Terminals!Take
    BY <1>4 DEF Accept, Goto, Terminals!Take, Owes, LoopInv, SocketInv, Waiting
  <2> QED
    BY <2>1 DEF Terminals!Next
<1>5. CASE Receive
  <2>1. Terminals!Hear
    BY <1>5 DEF Receive, Goto, Terminals!Hear, Owes
  <2> QED
    BY <2>1 DEF Terminals!Next
<1>6. CASE ReceiveFails
  <2>1. Terminals!Close
    BY <1>6 DEF ReceiveFails, im_DomainServerDeinit, Forgotten, Goto, Terminals!Close, Owes, Answerable,
                LoopInv, SocketInv, Waiting
  <2> QED
    BY <2>1 DEF Terminals!Next
<1>7. CASE Parse
  <2>1. Same
    BY <1>7 DEF Parse, Goto, Served, Talk, Owes, Answerable
  <2> QED
    BY <2>1, <1>0
<1>8. CASE ServeHere \/ ServeByCloud \/ AskFails \/ Answered \/ Rejected
             \/ LoggedIn \/ LoginFails
  <2>1. form = "good" /\ pc \in {"serve", "ask", "relogin"}
    BY <1>8 DEF ServeHere, ServeByCloud, AskFails, Answered, Rejected, LoggedIn, LoginFails,
                OverWith, Over, Goto, LoopInv, CommandInv, InHand
  <2>2. UNCHANGED <<backlog, cur, got, form>>
    BY <1>8 DEF ServeHere, ServeByCloud, AskFails, Answered, Rejected, LoggedIn, LoginFails,
                OverWith, Over, Goto, Served, Talk
  <2>3. pc' \in {"serve", "ask", "relogin", "respond"}
    BY <1>8 DEF ServeHere, ServeByCloud, AskFails, Answered, Rejected, LoggedIn, LoginFails,
                OverWith, Over, Goto, RetryAt, LoginFirst
  <2>4. Same
    BY <2>1, <2>2, <2>3 DEF Owes, Answerable
  <2> QED
    BY <2>4, <1>0
<1>9. CASE im_json_make_respone_send
  <2>1. CASE Answerable
    <3>1. Terminals!Reply
      BY <1>9, <2>1 DEF im_json_make_respone_send, Sent, Goto, Terminals!Reply, Owes, Answerable,
                        LoopInv, SocketInv
    <3> QED
      BY <3>1 DEF Terminals!Next
  <2>2. CASE ~Answerable
    <3>1. Same
      BY <1>9, <2>2 DEF im_json_make_respone_send, Sent, Goto, Owes, Answerable
    <3> QED
      BY <3>1, <1>0
  <2> QED
    BY <2>1, <2>2
<1>10. CASE Deinit
  <2>1. Terminals!Close
    BY <1>10 DEF Deinit, Forgotten, Goto, Terminals!Close, Owes, Answerable, LoopInv, SocketInv, Waiting
  <2> QED
    BY <2>1 DEF Terminals!Next
<1>11. CASE UNCHANGED loopVars
  <2>1. Same
    BY <1>11 DEF loopVars, Owes, Answerable
  <2> QED
    BY <2>1, <1>0
<1> QED
  BY <1>1, <1>2, <1>3, <1>4, <1>5, <1>6, <1>7, <1>8, <1>9, <1>10, <1>11
  DEF LoopNext, LoopMain

\* The main loop serves the terminals as TerminalService promises: in turn, one
\* reply at most, none to what was not understood, every connection closed.
THEOREM ImplementsTerminalService == LoopSpec => TerminalsSpec
<1>1. LoopInv /\ LoopInv' /\ [LoopNext]_loopVars => [Terminals!Next]_(Terminals!vars)
  BY ServiceStep
<1> QED
  BY <1>1, ServiceInit, LoopInductive, PTL DEF LoopSpec, TerminalsSpec, Terminals!Spec
=============================================================================
