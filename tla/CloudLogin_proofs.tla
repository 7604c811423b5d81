--------------------------- MODULE CloudLogin_proofs ---------------------------
(***************************************************************************)
(* Proofs about CloudLogin, for any number of rollers, addresses and         *)
(* sessions.  CopyFollowsLogin is inductive.  That a retry presents another   *)
(* session rests on an answer's session being unknown to everybody until it   *)
(* is stored; that the network check is exact rests on one answer being in    *)
(* hand at a time.                                                          *)
(***************************************************************************)
EXTENDS CloudLogin, TLAPS

\* Every session anywhere was issued.
Issued ==
    /\ login.ses \in 0 .. issued /\ copy \in 0 .. issued
    /\ \A t \in Threads : sent[t] \in 0 .. issued /\ resp[t].ses \in 0 .. issued

\* A thread without a login answer holds no session of one.
NoStaleAnswer ==
    \A t \in Threads : pc[t] \in {"none", "idle", "wait", "login"} => resp[t].ses = 0

Brings(t) == pc[t] = "parse" /\ resp[t].ses # 0

\* The session of an answer that is not stored yet is in that answer only.
Unknown ==
    \A t \in Threads : Brings(t) =>
        /\ resp[t].ses # login.ses /\ resp[t].ses # copy
        /\ \A u \in Threads :
              /\ resp[t].ses # sent[u]
              /\ Brings(u) /\ resp[u].ses = resp[t].ses => u = t

\* Once it is stored, the session that was presented before is gone for good.
Replaced ==
    \A t \in Threads : resp[t].ses # 0 =>
        /\ pc[t] \in {"save", "init", "retry"} => login.ses # sent[t]
        /\ pc[t] = "retry" => copy # sent[t]

\* One answer in hand at a time, and told is about it.
InTurn ==
    /\ \A t, u \in Threads : InHand(t) /\ InHand(u) => t = u
    /\ \A t \in Threads :
          /\ beat[t].here => /\ pc[t] \notin {"parse", "save", "init"}
                             /\ beat[t].ip = told.last /\ told.last # NoAddr
                             /\ told.atLogin # NoAddr => uci_ip = told.atLogin
          /\ pc[t] \in {"parse", "save", "init"} =>
                told.atLogin = told.last /\ told.last # NoAddr
          /\ pc[t] \in {"parse", "save"} => resp[t].ip = told.last
          /\ pc[t] \in {"save", "init"} => login.ip = told.last
          /\ pc[t] = "init" => uci_ip = told.last
    /\ (\A t \in Threads : ~InHand(t)) /\ told.atLogin # NoAddr =>
          login.ip = told.last /\ uci_ip = told.atLogin

-----------------------------------------------------------------------------
(* Typing                                                                  *)

LEMMA MainIsThread == "main" \in Threads /\ Rollers \subseteq Threads
  BY DEF Threads

LEMMA Typed == Init => TypeOK
<1> SUFFICES ASSUME Init PROVE TypeOK
  OBVIOUS
<1> USE DEF Init
<1>1. NoAnswer \in Answer /\ 0 \in Sessions /\ NoAddr \in Texts
  BY BoundAssumption DEF NoAnswer, Answer, Sessions, Texts
<1>2. issued \in Sessions /\ copy \in Sessions /\ login \in Answer
  BY <1>1 DEF NoAnswer
<1>3. /\ beat_ip \in Texts /\ uci_ip \in Texts /\ crossed \in BOOLEAN
      /\ told \in [atLogin : Texts, last : Texts]
  BY <1>1 DEF Untold
<1>4. pc \in [Threads -> Labels] /\ cmd \in [Threads -> Cmds]
  BY DEF Labels, Cmds
<1>5. sent \in [Threads -> Sessions] /\ resp \in [Threads -> Answer]
  BY <1>1
<1>6. beat \in [Threads -> [here : BOOLEAN, ip : Texts]]
  BY <1>1 DEF NoBeat
<1> QED
  BY <1>2, <1>3, <1>4, <1>5, <1>6 DEF TypeOK

\* What a step does to the control of the threads.
LEMMA PcTyped == TypeOK /\ [Next]_vars => pc' \in [Threads -> Labels]
<1> SUFFICES ASSUME TypeOK, [Next]_vars PROVE pc' \in [Threads -> Labels]
  OBVIOUS
<1> USE MainIsThread DEF TypeOK, Labels
<1>1. ASSUME NEW t \in Threads, NEW f \in Labels, NEW l \in Labels, Step(t, f, l)
      PROVE pc' \in [Threads -> Labels]
  BY <1>1 DEF Step
<1>2. \A t \in Threads : Resting(t) \in Labels
  BY DEF Resting
<1>3. ASSUME NEW c \in {"acc", "info", "stop"}, Ask(c) PROVE pc' \in [Threads -> Labels]
  BY <1>1, <1>3 DEF Ask
<1>4. ASSUME NEW r \in Rollers, Delayed(r) PROVE pc' \in [Threads -> Labels]
  BY <1>4 DEF Delayed
<1>5. CASE BootInit \/ BootRetry
  BY <1>1, <1>5 DEF BootInit, BootRetry
<1>6. ASSUME NEW t \in Threads, Request(t) PROVE pc' \in [Threads -> Labels]
  BY <1>1, <1>2, <1>6 DEF Request, Answered, Rejected, PollAgain, Retry
<1>7. ASSUME NEW t \in Threads, Login(t) PROVE pc' \in [Threads -> Labels]
  BY <1>1, <1>2, <1>7
  DEF Login, LoginFailed, LoginEmpty, LoginServed, LoginParsed, LoginSaved,
      im_init_session
<1>8. ASSUME NEW t \in Threads, BeatServed(t) \/ BeatParsed(t)
      PROVE pc' \in [Threads -> Labels]
  BY <1>8 DEF BeatServed, BeatParsed, thread
<1>9. CASE UNCHANGED vars
  BY <1>9 DEF vars, thread
<1> QED
  BY <1>3, <1>4, <1>5, <1>6, <1>7, <1>8, <1>9 DEF Next

LEMMA OverTyped ==
  ASSUME TypeOK, NEW t \in Threads, Over(t)
  PROVE  /\ cmd' \in [Threads -> Cmds] /\ sent' \in [Threads -> Sessions]
         /\ resp' \in [Threads -> Answer]
<1>1. NoAnswer \in Answer /\ 0 \in Sessions /\ "none" \in Cmds
  BY BoundAssumption DEF NoAnswer, Answer, Sessions, Texts, Cmds
<1> QED
  BY <1>1 DEF TypeOK, Over

\* The requests leave the other variables typed.
LEMMA RequestTyped ==
  ASSUME TypeOK, pc' \in [Threads -> Labels],
         \/ \E c \in {"acc", "info", "stop"} : Ask(c)
         \/ \E r \in Rollers : Delayed(r)
         \/ BootInit \/ BootRetry
         \/ \E t \in Threads : Request(t)
  PROVE  TypeOK'
<1> USE MainIsThread DEF TypeOK
<1>1. NoAnswer \in Answer /\ 0 \in Sessions
  BY BoundAssumption DEF NoAnswer, Answer, Sessions, Texts
<1>2. \A c \in Cmds : Presented(c) \in Sessions
  BY DEF Presented, Answer
<1>3. ASSUME NEW c \in {"acc", "info", "stop"}, Ask(c) PROVE TypeOK'
  BY <1>2, <1>3 DEF Ask, store, ghosts, Cmds
<1>4. ASSUME NEW r \in Rollers, Delayed(r) PROVE TypeOK'
  BY <1>1, <1>4 DEF Delayed, store, ghosts, Cmds
<1>5. CASE BootInit
  BY <1>1, <1>5 DEF BootInit, ghosts, Cmds, Answer
<1>6. ASSUME NEW t \in Threads, Answered(t) \/ BootRetry PROVE TypeOK'
  BY <1>6, OverTyped DEF Answered, BootRetry, store, ghosts
<1>7. ASSUME NEW t \in Threads, Rejected(t) \/ PollAgain(t) PROVE TypeOK'
  BY <1>7 DEF Rejected, PollAgain, store, ghosts
<1>8. ASSUME NEW t \in Threads, Retry(t) PROVE TypeOK'
  BY <1>1, <1>2, <1>8 DEF Retry, NextSession, store, ghosts
<1> QED
  BY <1>3, <1>4, <1>5, <1>6, <1>7, <1>8 DEF Request

LEMMA TypeStep == TypeOK /\ [Next]_vars => TypeOK'
<1> SUFFICES ASSUME TypeOK, [Next]_vars PROVE TypeOK'
  OBVIOUS
<1>1. pc' \in [Threads -> Labels]
  BY PcTyped
<1> USE <1>1, MainIsThread DEF TypeOK
<1>2. NoAnswer \in Answer /\ 0 \in Sessions /\ NoAddr \in Texts
  BY BoundAssumption DEF NoAnswer, Answer, Sessions, Texts
<1>3. ASSUME NEW t \in Threads, LoginFailed(t) \/ LoginEmpty(t) PROVE TypeOK'
  BY <1>3, OverTyped DEF LoginFailed, LoginEmpty, store, ghosts
<1>4. ASSUME NEW t \in Threads, LoginServed(t) PROVE TypeOK'
  <2>1. PICK ip \in Texts :
          /\ \/ /\ issued < MaxSessions /\ issued' = issued + 1
                /\ resp' = [resp EXCEPT ![t] = [ses |-> issued', ip |-> ip]]
             \/ /\ resp' = [resp EXCEPT ![t] = [ses |-> 0, ip |-> ip]]
                /\ UNCHANGED issued
          /\ Told(ip, ip)
    BY <1>4 DEF LoginServed
  <2>2. issued' \in Sessions
    BY <2>1, BoundAssumption DEF Sessions
  <2>3. resp' \in [Threads -> Answer]
    BY <1>2, <2>1, <2>2 DEF Answer
  <2>4. told' \in [atLogin : Texts, last : Texts] /\ crossed' \in BOOLEAN
    BY <1>2, <2>1 DEF Told, Untold
  <2> QED
    BY <1>4, <2>2, <2>3, <2>4 DEF LoginServed, store
<1>5. ASSUME NEW t \in Threads, LoginParsed(t) PROVE TypeOK'
  <2>1. login' \in Answer
    BY <1>5 DEF LoginParsed, Answer
  <2> QED
    BY <1>5, <2>1 DEF LoginParsed, ghosts, Answer
<1>6. ASSUME NEW t \in Threads, LoginSaved(t) \/ im_init_session(t) PROVE TypeOK'
  BY <1>6 DEF LoginSaved, im_init_session, Saved, Copied, ghosts, Answer
<1>7. ASSUME NEW t \in Threads, BeatServed(t) PROVE TypeOK'
  <2>1. PICK ip \in Texts :
          /\ beat' = [beat EXCEPT ![t] = [here |-> TRUE, ip |-> ip]]
          /\ Told(told.atLogin, ip)
    BY <1>7 DEF BeatServed
  <2>2. told' \in [atLogin : Texts, last : Texts] /\ crossed' \in BOOLEAN
    BY <1>2, <2>1 DEF Told, Untold
  <2> QED
    BY <1>7, <2>1, <2>2 DEF BeatServed, store, thread
<1>8. ASSUME NEW t \in Threads, BeatParsed(t) PROVE TypeOK'
  BY <1>2, <1>8 DEF BeatParsed, NoBeat, thread, ghosts, Answer
<1>9. CASE UNCHANGED vars
  BY <1>9 DEF vars, store, thread, ghosts
<1> QED
  BY RequestTyped, <1>3, <1>4, <1>5, <1>6, <1>7, <1>8, <1>9 DEF Next, Login

-----------------------------------------------------------------------------
(* Sessions                                                                *)

SInv == Issued /\ NoStaleAnswer /\ Unknown /\ Replaced

\* A thread's pc moves, the others' stay.
LEMMA StepMoves ==
  ASSUME TypeOK, NEW t \in Threads, NEW f, NEW l, Step(t, f, l)
  PROVE  pc[t] = f /\ pc'[t] = l /\ \A u \in Threads \ {t} : pc'[u] = pc[u]
  BY DEF Step, TypeOK

\* The copies follow the stored login.
LEMMA CopyStep ==
  TypeOK /\ CopyFollowsLogin /\ [Next]_vars => CopyFollowsLogin'
<1> SUFFICES ASSUME TypeOK, CopyFollowsLogin, [Next]_vars PROVE CopyFollowsLogin'
  OBVIOUS
<1> DEFINE Storing(t) == pc[t] \in {"save", "init"}
<1>1. ASSUME UNCHANGED <<login.ses, copy>>,
             \A t \in Threads : Storing(t) => Storing(t)'
      PROVE  CopyFollowsLogin'
  BY <1>1 DEF CopyFollowsLogin
<1>2. ASSUME NEW t \in Threads, Storing(t)' PROVE CopyFollowsLogin'
  BY <1>2 DEF CopyFollowsLogin
<1>3. ASSUME copy' = login'.ses PROVE CopyFollowsLogin'
  BY <1>3 DEF CopyFollowsLogin
<1> USE MainIsThread, StepMoves
<1>4. ASSUME NEW c \in {"acc", "info", "stop"}, Ask(c) PROVE CopyFollowsLogin'
  BY <1>1, <1>4 DEF Ask, store
<1>5. ASSUME NEW r \in Rollers, Delayed(r) PROVE CopyFollowsLogin'
  BY <1>1, <1>5 DEF Delayed, store, TypeOK
<1>6. CASE BootInit
  BY <1>3, <1>6 DEF BootInit
<1>7. CASE BootRetry
  BY <1>1, <1>7 DEF BootRetry, store
<1>8. ASSUME NEW t \in Threads, Request(t) PROVE CopyFollowsLogin'
  BY <1>1, <1>8 DEF Request, Answered, Rejected, PollAgain, Retry, store
<1>9. ASSUME NEW t \in Threads, LoginFailed(t) \/ LoginEmpty(t) \/ LoginServed(t)
      PROVE  CopyFollowsLogin'
  BY <1>1, <1>9 DEF LoginFailed, LoginEmpty, LoginServed, store
<1>10. ASSUME NEW t \in Threads, LoginParsed(t) \/ LoginSaved(t)
       PROVE  CopyFollowsLogin'
  BY <1>2, <1>10 DEF LoginParsed, LoginSaved
<1>11. ASSUME NEW t \in Threads, im_init_session(t) PROVE CopyFollowsLogin'
  BY <1>3, <1>11 DEF im_init_session, Copied
<1>12. ASSUME NEW t \in Threads, BeatServed(t) \/ BeatParsed(t)
       PROVE  CopyFollowsLogin'
  <2>1. UNCHANGED <<pc, login.ses, copy>>
    BY <1>12 DEF BeatServed, BeatParsed, store, thread, TypeOK, Answer
  <2> QED
    BY <1>1, <2>1
<1>13. CASE UNCHANGED vars
  BY <1>1, <1>13 DEF vars, store, thread
<1> QED
  BY <1>4, <1>5, <1>6, <1>7, <1>8, <1>9, <1>10, <1>11, <1>12, <1>13 DEF Next, Login

\* A step of threads T that carry no login answer and send 0, the session they
\* sent, the copy or the stored one.
LEMMA RequestKeeps ==
  ASSUME TypeOK, SInv, NEW T \in SUBSET Threads,
         issued' = issued, login' = login, copy' \in {copy, login.ses},
         \A u \in Threads \ T :
            pc'[u] = pc[u] /\ sent'[u] = sent[u] /\ resp'[u] = resp[u],
         \A t \in T :
            /\ pc'[t] \notin {"parse", "save", "init"}
            /\ sent'[t] \in {0, sent[t], copy, login.ses}
            /\ resp'[t].ses = 0
  PROVE  SInv'
<1> USE DEF SInv, TypeOK
<1>1. Issued'
  BY DEF Issued, Sessions
<1>2. NoStaleAnswer'
  BY DEF NoStaleAnswer
<1>3. Unknown'
  BY DEF Unknown, Brings
<1>4. Replaced'
  BY DEF Replaced
<1> QED
  BY <1>1, <1>2, <1>3, <1>4

LEMMA OneRequest ==
  ASSUME TypeOK, SInv, NEW t \in Threads,
         issued' = issued, login' = login, copy' \in {copy, login.ses},
         \A u \in Threads \ {t} :
            pc'[u] = pc[u] /\ sent'[u] = sent[u] /\ resp'[u] = resp[u],
         pc'[t] \notin {"parse", "save", "init"},
         sent'[t] \in {0, sent[t], copy, login.ses},
         resp'[t].ses = 0
  PROVE  SInv'
<1> DEFINE T == {t}
<1>1. T \in SUBSET Threads
  OBVIOUS
<1> QED
  BY <1>1, RequestKeeps

\* Requests, and logins that bring nothing.
LEMMA RequestSessions ==
  ASSUME TypeOK, SInv,
         \/ \E c \in {"acc", "info", "stop"} : Ask(c)
         \/ \E r \in Rollers : Delayed(r)
         \/ BootInit \/ BootRetry
         \/ \E t \in Threads : Request(t) \/ LoginFailed(t) \/ LoginEmpty(t)
  PROVE  SInv'
<1> USE MainIsThread, StepMoves
<1>1. ASSUME NEW t \in Threads, pc[t] \in {"none", "idle", "wait", "login"}
      PROVE  resp[t].ses = 0
  BY <1>1 DEF SInv, NoStaleAnswer
<1>2. NoAnswer.ses = 0 /\ \A c \in Cmds : Presented(c) \in {copy, login.ses}
  BY DEF NoAnswer, Presented
<1>3. ASSUME NEW t \in Threads, Over(t)
      PROVE  /\ sent'[t] = 0 /\ resp'[t].ses = 0
             /\ \A u \in Threads \ {t} : sent'[u] = sent[u] /\ resp'[u] = resp[u]
  BY <1>2, <1>3 DEF Over, TypeOK
<1>4. \A t \in Threads : Resting(t) \in {"idle", "none"}
  BY DEF Resting
<1>5. ASSUME NEW c \in {"acc", "info", "stop"}, Ask(c) PROVE SInv'
  <2>1. pc["main"] = "idle" /\ pc'["main"] = "wait"
        /\ \A u \in Threads \ {"main"} : pc'[u] = pc[u]
    BY <1>5 DEF Ask
  <2>2. sent'["main"] \in {copy, login.ses}
        /\ \A u \in Threads \ {"main"} : sent'[u] = sent[u]
    BY <1>2, <1>5 DEF Ask, TypeOK, Cmds
  <2> QED
    BY <1>1, <1>5, <2>1, <2>2, OneRequest DEF Ask, store
<1>6. ASSUME NEW r \in Rollers, Delayed(r) PROVE SInv'
  <2> DEFINE T == {"main", r}
  <2>1. r # "main" /\ T \in SUBSET Threads
    BY RollersAssumption
  <2>2. \A t \in T : /\ pc'[t] \notin {"parse", "save", "init"}
                     /\ sent'[t] \in {0, sent[t], copy, login.ses}
                     /\ resp'[t].ses = 0
    BY <1>1, <1>2, <1>6, <2>1 DEF Delayed, TypeOK
  <2>3. \A u \in Threads \ T :
          pc'[u] = pc[u] /\ sent'[u] = sent[u] /\ resp'[u] = resp[u]
    BY <1>6 DEF Delayed, TypeOK
  <2>4. issued' = issued /\ login' = login /\ copy' \in {copy, login.ses}
    BY <1>6 DEF Delayed, store
  <2> HIDE DEF T
  <2> QED
    BY <2>1, <2>2, <2>3, <2>4, RequestKeeps
<1>7. CASE BootInit
  <2>1. pc'["main"] = "wait" /\ \A u \in Threads \ {"main"} : pc'[u] = pc[u]
    BY <1>7 DEF BootInit
  <2>2. /\ sent'["main"] = login.ses /\ resp'["main"].ses = 0
        /\ \A u \in Threads \ {"main"} : sent'[u] = sent[u] /\ resp'[u] = resp[u]
    BY <1>2, <1>7 DEF BootInit, TypeOK
  <2> QED
    BY <1>7, <2>1, <2>2, OneRequest DEF BootInit
<1>8. CASE BootRetry
  BY <1>3, <1>8, OneRequest DEF BootRetry, store
<1>9. ASSUME NEW t \in Threads, Answered(t) PROVE SInv'
  BY <1>3, <1>4, <1>9, OneRequest DEF Answered, store
<1>10. ASSUME NEW t \in Threads,
              Rejected(t) \/ PollAgain(t) \/ LoginEmpty(t)
       PROVE  SInv'
  <2>1. /\ pc[t] \in {"wait", "login"} /\ pc'[t] \in {"login", "retry"}
        /\ \A u \in Threads \ {t} : pc'[u] = pc[u]
    BY <1>10 DEF Rejected, PollAgain, LoginEmpty
  <2>2. UNCHANGED <<issued, store, sent, resp>>
    BY <1>10 DEF Rejected, PollAgain, LoginEmpty
  <2> QED
    BY <1>1, <2>1, <2>2, OneRequest DEF store
<1>11. ASSUME NEW t \in Threads, LoginFailed(t) PROVE SInv'
  <2>1. /\ pc[t] = "login" /\ pc'[t] \in {"retry", "idle", "none"}
        /\ \A u \in Threads \ {t} : pc'[u] = pc[u]
    BY <1>4, <1>11 DEF LoginFailed
  <2>2. UNCHANGED <<sent, resp>> \/ Over(t)
    BY <1>11 DEF LoginFailed
  <2> QED
    BY <1>1, <1>3, <1>11, <2>1, <2>2, OneRequest DEF LoginFailed, store
<1>12. ASSUME NEW t \in Threads, Retry(t) PROVE SInv'
  <2>1. /\ sent'[t] \in {copy, login.ses} /\ resp'[t].ses = 0
        /\ \A u \in Threads \ {t} : sent'[u] = sent[u] /\ resp'[u] = resp[u]
    BY <1>2, <1>12 DEF Retry, NextSession, TypeOK
  <2> QED
    BY <1>12, <2>1, OneRequest DEF Retry, store
<1> QED
  BY <1>5, <1>6, <1>7, <1>8, <1>9, <1>10, <1>11, <1>12 DEF Request

\* An answer that has just come brings a session nobody knows.
LEMMA ServedSessions ==
  ASSUME TypeOK, SInv, NEW t \in Threads, LoginServed(t)
  PROVE  SInv'
<1> USE DEF SInv
<1>1. pc[t] = "login" /\ pc'[t] = "parse" /\ \A u \in Threads \ {t} : pc'[u] = pc[u]
  BY StepMoves DEF LoginServed
<1>2. /\ UNCHANGED <<login, copy, sent>>
      /\ \A u \in Threads \ {t} : resp'[u] = resp[u]
      /\ \/ issued' = issued + 1 /\ resp'[t].ses = issued'
         \/ issued' = issued /\ resp'[t].ses = 0
  BY DEF LoginServed, store, TypeOK
<1>3. issued \in Nat
  BY DEF TypeOK, Sessions
<1>4. Issued'
  BY <1>2, <1>3 DEF Issued
<1>5. NoStaleAnswer' /\ Replaced'
  BY <1>1, <1>2 DEF NoStaleAnswer, Replaced
<1>6. Unknown'
  <2>1. \A n \in 0 .. issued : n # issued + 1
    BY <1>3
  <2> QED
    BY <1>1, <1>2, <2>1 DEF Unknown, Brings, Issued
<1> QED
  BY <1>4, <1>5, <1>6

\* The answer is stored: its session is the stored one and no longer unknown.
LEMMA ParsedSessions ==
  ASSUME TypeOK, SInv, NEW t \in Threads, LoginParsed(t)
  PROVE  SInv'
<1> USE DEF SInv
<1>1. pc[t] = "parse" /\ pc'[t] = "save" /\ \A u \in Threads \ {t} : pc'[u] = pc[u]
  BY StepMoves DEF LoginParsed
<1>2. /\ UNCHANGED <<issued, copy, sent>>
      /\ login'.ses = IF resp[t].ses # 0 THEN resp[t].ses ELSE login.ses
  BY DEF LoginParsed
<1>3. \A u \in Threads : resp'[u].ses = resp[u].ses
  <2>1. resp'[t].ses = resp[t].ses
    BY DEF LoginParsed, TypeOK, Answer
  <2>2. \A u \in Threads \ {t} : resp'[u] = resp[u]
    BY DEF LoginParsed, TypeOK
  <2> QED
    BY <2>1, <2>2
<1>4. Issued'
  BY <1>2, <1>3 DEF Issued
<1>5. NoStaleAnswer'
  BY <1>1, <1>3 DEF NoStaleAnswer
<1>6. Unknown'
  BY <1>1, <1>2, <1>3 DEF Unknown, Brings
<1>7. Replaced'
  BY <1>1, <1>2, <1>3 DEF Replaced, Unknown, Brings
<1> QED
  BY <1>4, <1>5, <1>6, <1>7

\* Saving the address, copying the session, and the heartbeats.
LEMMA SavedSessions ==
  ASSUME TypeOK, SInv, NEW t \in Threads,
         LoginSaved(t) \/ im_init_session(t) \/ BeatServed(t) \/ BeatParsed(t)
  PROVE  SInv'
<1> USE DEF SInv
<1>1. /\ UNCHANGED <<issued, sent, resp>> /\ login'.ses = login.ses
      /\ \/ UNCHANGED copy
         \/ pc[t] = "init" /\ copy' = login.ses
  BY StepMoves DEF LoginSaved, im_init_session, Copied, BeatServed, BeatParsed,
                   store, thread, TypeOK, Answer
<1>2. \A u \in Threads \ {t} : pc'[u] = pc[u]
  BY StepMoves DEF LoginSaved, im_init_session, BeatServed, BeatParsed, thread
<1>3. \/ pc[t] = "save" /\ pc'[t] = "init"
      \/ pc[t] = "init" /\ pc'[t] = "retry" /\ copy' = login.ses
      \/ pc'[t] = pc[t]
  BY StepMoves DEF LoginSaved, im_init_session, Copied, BeatServed, BeatParsed, thread
<1>4. Issued'
  BY <1>1 DEF Issued
<1>5. NoStaleAnswer'
  BY <1>1, <1>2, <1>3 DEF NoStaleAnswer
<1>6. Unknown'
  BY <1>1, <1>2, <1>3 DEF Unknown, Brings
<1>7. Replaced'
  BY <1>1, <1>2, <1>3 DEF Replaced
<1> QED
  BY <1>4, <1>5, <1>6, <1>7

LEMMA SessionStep == TypeOK /\ SInv /\ [Next]_vars => SInv'
<1> SUFFICES ASSUME TypeOK, SInv, [Next]_vars PROVE SInv'
  OBVIOUS
<1>1. CASE UNCHANGED vars
  BY <1>1 DEF vars, store, thread, SInv, Issued, NoStaleAnswer, Unknown, Brings,
              Replaced
<1> QED
  BY <1>1, RequestSessions, ServedSessions, ParsedSessions, SavedSessions
  DEF Next, Login

LEMMA SessionInit == Init => SInv
  BY BoundAssumption
  DEF Init, NoAnswer, SInv, Issued, NoStaleAnswer, Unknown, Brings, Replaced

-----------------------------------------------------------------------------
(* Addresses                                                               *)

TInv == ~crossed => InTurn

\* A step that stores nothing and leaves alone who has an answer in hand.
LEMMA TurnKeeps ==
  ASSUME InTurn, UNCHANGED <<login, uci_ip, beat, told>>,
         \A t \in Threads :
            \/ pc'[t] = pc[t] /\ resp'[t] = resp[t]
            \/ /\ pc[t] \notin {"parse", "save", "init"}
               /\ pc'[t] \notin {"parse", "save", "init"}
  PROVE  InTurn'
  BY DEF InTurn, InHand

\* Requests, logins that bring nothing, and the first im_windband_init.
LEMMA RequestTurn ==
  ASSUME TypeOK, InTurn,
         \/ \E c \in {"acc", "info", "stop"} : Ask(c)
         \/ \E r \in Rollers : Delayed(r)
         \/ BootInit \/ BootRetry
         \/ \E t \in Threads : Request(t) \/ LoginFailed(t) \/ LoginEmpty(t)
  PROVE  InTurn'
<1> USE MainIsThread, StepMoves
<1>1. ASSUME NEW t \in Threads, Over(t)
      PROVE  \A u \in Threads \ {t} : resp'[u] = resp[u]
  BY <1>1 DEF Over, TypeOK
<1>2. \A t \in Threads : Resting(t) \in {"idle", "none"}
  BY DEF Resting
<1>3. ASSUME NEW t \in Threads,
             UNCHANGED <<login, uci_ip, beat, told>>,
             \A u \in Threads \ {t} : pc'[u] = pc[u] /\ resp'[u] = resp[u],
             pc[t] \notin {"parse", "save", "init"},
             pc'[t] \notin {"parse", "save", "init"}
      PROVE  InTurn'
  BY <1>3, TurnKeeps
<1>4. ASSUME NEW c \in {"acc", "info", "stop"}, Ask(c) PROVE InTurn'
  BY <1>3, <1>4 DEF Ask, store, ghosts
<1>5. ASSUME NEW r \in Rollers, Delayed(r) PROVE InTurn'
  <2>1. \A u \in Threads \ {"main", r} : pc'[u] = pc[u] /\ resp'[u] = resp[u]
    BY <1>5 DEF Delayed, TypeOK
  <2>2. \A u \in {"main", r} : pc[u] \in {"wait", "none"} /\ pc'[u] \in {"idle", "retry"}
    BY <1>5, RollersAssumption DEF Delayed, TypeOK
  <2> QED
    BY <1>5, <2>1, <2>2, TurnKeeps DEF Delayed, store, ghosts
<1>6. CASE BootInit
  BY <1>3, <1>6 DEF BootInit, ghosts, TypeOK
<1>7. CASE BootRetry
  BY <1>1, <1>3, <1>7 DEF BootRetry, store, ghosts
<1>8. ASSUME NEW t \in Threads, Answered(t) PROVE InTurn'
  BY <1>1, <1>2, <1>3, <1>8 DEF Answered, store, ghosts
<1>9. ASSUME NEW t \in Threads, Rejected(t) \/ PollAgain(t) \/ LoginEmpty(t)
      PROVE  InTurn'
  <2>1. /\ pc[t] \in {"wait", "login"} /\ pc'[t] \in {"login", "retry"}
        /\ \A u \in Threads \ {t} : pc'[u] = pc[u]
    BY <1>9 DEF Rejected, PollAgain, LoginEmpty
  <2> QED
    BY <1>3, <1>9, <2>1 DEF Rejected, PollAgain, LoginEmpty, store, ghosts
<1>10. ASSUME NEW t \in Threads, LoginFailed(t) PROVE InTurn'
  <2>1. /\ pc[t] = "login" /\ pc'[t] \in {"retry", "idle", "none"}
        /\ \A u \in Threads \ {t} : pc'[u] = pc[u]
    BY <1>2, <1>10 DEF LoginFailed
  <2>2. UNCHANGED resp \/ Over(t)
    BY <1>10 DEF LoginFailed
  <2> QED
    BY <1>1, <1>3, <1>10, <2>1, <2>2 DEF LoginFailed, store, ghosts
<1>11. ASSUME NEW t \in Threads, Retry(t) PROVE InTurn'
  BY <1>3, <1>11 DEF Retry, store, ghosts, TypeOK
<1> QED
  BY <1>4, <1>5, <1>6, <1>7, <1>8, <1>9, <1>10, <1>11 DEF Request

\* An answer that comes while none is in hand.
LEMMA ServedTurn ==
  ASSUME TypeOK, InTurn, ~crossed', NEW t \in Threads,
         LoginServed(t) \/ BeatServed(t)
  PROVE  InTurn'
<1>1. \A u \in Threads : ~InHand(u)
  BY DEF LoginServed, BeatServed, Told
<1>2. CASE LoginServed(t)
  <2>1. pc'[t] = "parse" /\ \A u \in Threads \ {t} : pc'[u] = pc[u]
    BY <1>2, StepMoves DEF LoginServed
  <2>2. PICK ip \in Texts : /\ \E n : resp' = [resp EXCEPT ![t] = [ses |-> n, ip |-> ip]]
                            /\ Told(ip, ip)
    BY <1>2 DEF LoginServed
  <2>3. resp'[t].ip = ip
    <3>1. PICK n : resp' = [resp EXCEPT ![t] = [ses |-> n, ip |-> ip]]
      BY <2>2
    <3>2. resp'[t] = [ses |-> n, ip |-> ip]
      BY <3>1 DEF TypeOK
    <3> QED
      BY <3>2
  <2>4. ip # NoAddr /\ told' = [atLogin |-> ip, last |-> ip]
    BY <2>2 DEF Told
  <2> QED
    BY <1>1, <1>2, <2>1, <2>3, <2>4 DEF LoginServed, store, InTurn, InHand
<1>3. CASE BeatServed(t)
  <2>1. PICK ip \in Texts : /\ beat' = [beat EXCEPT ![t] = [here |-> TRUE, ip |-> ip]]
                            /\ ip # NoAddr
                            /\ told' = [atLogin |-> told.atLogin, last |-> ip]
    BY <1>3 DEF BeatServed, Told
  <2>2. /\ beat'[t].here /\ beat'[t].ip = ip
        /\ \A u \in Threads \ {t} : beat'[u] = beat[u]
    BY <2>1 DEF TypeOK
  <2> QED
    BY <1>1, <1>3, <2>1, <2>2 DEF BeatServed, store, thread, InTurn, InHand
<1> QED
  BY <1>2, <1>3

\* Storing the one answer in hand.
LEMMA StoredTurn ==
  ASSUME TypeOK, InTurn, NEW t \in Threads,
         LoginParsed(t) \/ LoginSaved(t) \/ im_init_session(t) \/ BeatParsed(t)
  PROVE  InTurn'
<1>1. InHand(t) /\ \A u \in Threads \ {t} : ~InHand(u)
  BY StepMoves
  DEF LoginParsed, LoginSaved, im_init_session, BeatParsed, InTurn, InHand
<1>2. CASE LoginParsed(t)
  <2>1. /\ pc[t] = "parse" /\ pc'[t] = "save"
        /\ \A u \in Threads \ {t} : pc'[u] = pc[u]
    BY <1>2, StepMoves DEF LoginParsed
  <2>2. resp[t].ip = told.last /\ told.last # NoAddr
    BY <2>1 DEF InTurn
  <2>3. login'.ip = told.last /\ resp'[t].ip = told.last
    BY <1>2, <2>2 DEF LoginParsed, TypeOK, Answer
  <2> QED
    BY <1>1, <1>2, <2>1, <2>2, <2>3 DEF LoginParsed, ghosts, InTurn, InHand
<1>3. CASE LoginSaved(t)
  <2>1. /\ pc[t] = "save" /\ pc'[t] = "init"
        /\ \A u \in Threads \ {t} : pc'[u] = pc[u]
    BY <1>3, StepMoves DEF LoginSaved
  <2> QED
    BY <1>1, <1>3, <2>1 DEF LoginSaved, Saved, ghosts, InTurn, InHand
<1>4. CASE im_init_session(t)
  <2>1. /\ pc[t] = "init" /\ pc'[t] = "retry"
        /\ \A u \in Threads \ {t} : pc'[u] = pc[u]
    BY <1>4, StepMoves DEF im_init_session
  <2> QED
    BY <1>1, <1>4, <2>1 DEF im_init_session, ghosts, InTurn, InHand
<1>5. CASE BeatParsed(t)
  <2>1. /\ beat[t].here /\ ~beat'[t].here
        /\ \A u \in Threads \ {t} : beat'[u] = beat[u]
    BY <1>5 DEF BeatParsed, NoBeat, TypeOK
  <2>2. beat[t].ip = told.last /\ told.last # NoAddr
        /\ pc[t] \notin {"parse", "save", "init"}
    BY <2>1 DEF InTurn
  <2>3. login'.ip = told.last
    BY <1>5, <2>2 DEF BeatParsed, TypeOK, Answer
  <2> QED
    BY <1>1, <1>5, <2>1, <2>2, <2>3 DEF BeatParsed, thread, ghosts, InTurn, InHand
<1> QED
  BY <1>2, <1>3, <1>4, <1>5

LEMMA TurnStep == TypeOK /\ TInv /\ [Next]_vars => TInv'
<1> SUFFICES ASSUME TypeOK, TInv, [Next]_vars, ~crossed' PROVE InTurn'
  BY DEF TInv
<1>1. ~crossed
  BY MainIsThread
  DEF Next, Request, Login, Ask, Delayed, BootInit, BootRetry, Answered, Rejected,
      PollAgain, Retry, LoginFailed, LoginEmpty, LoginServed, LoginParsed,
      LoginSaved, im_init_session, BeatServed, BeatParsed, Told, ghosts, vars
<1>2. InTurn
  BY <1>1 DEF TInv
<1>3. CASE UNCHANGED vars
  BY <1>2, <1>3, TurnKeeps DEF vars, store, thread, ghosts
<1> QED
  BY <1>2, <1>3, RequestTurn, ServedTurn, StoredTurn DEF Next, Login

LEMMA TurnInit == Init => TInv
  BY DEF Init, TInv, InTurn, InHand, NoBeat, Untold

\* Every reachable state is typed.
THEOREM TypeCorrect == Spec => []TypeOK
  BY Typed, TypeStep, PTL DEF Spec

\* With no login being stored, the request structures carry the session of the
\* stored login, for any number of threads that log in.
THEOREM CopiesFollow == Spec => []CopyFollowsLogin
<1>1. Init => CopyFollowsLogin
  BY DEF Init, CopyFollowsLogin
<1> QED
  BY <1>1, Typed, TypeStep, CopyStep, PTL DEF Spec

\* A retry after a login that brought a session does not present the one that
\* was rejected, for any number of threads that log in at the same time.
THEOREM RetriesAreNew == Spec => RetryIsNew
<1>1. TypeOK /\ SInv /\ [Next]_vars =>
        [\A t \in Threads : pc[t] = "retry" /\ pc'[t] = "wait" /\ resp[t].ses # 0
                               => sent'[t] # sent[t]]_vars
  <2> SUFFICES ASSUME TypeOK, SInv, Next, NEW t \in Threads,
                      pc[t] = "retry", pc'[t] = "wait", resp[t].ses # 0
               PROVE  sent'[t] # sent[t]
    OBVIOUS
  <2>1. copy # sent[t] /\ login.ses # sent[t]
    BY DEF SInv, Replaced
  <2>2. Retry(t) \/ BootInit
    <3> USE StepMoves, MainIsThread
    <3>1. ASSUME NEW c \in {"acc", "info", "stop"}, Ask(c) PROVE FALSE
      BY <3>1 DEF Ask
    <3>2. ASSUME NEW r \in Rollers, Delayed(r) PROVE FALSE
      BY <3>2 DEF Delayed, TypeOK
    <3>3. CASE BootRetry
      BY <3>3 DEF BootRetry
    <3>4. ASSUME NEW u \in Threads, Request(u) PROVE Retry(t)
      <4>1. CASE Answered(u) \/ Rejected(u) \/ PollAgain(u)
        <5>1. pc[u] = "wait" /\ (u # t => pc'[t] = pc[t])
          BY <4>1 DEF Answered, Rejected, PollAgain
        <5> QED
          BY <5>1
      <4>2. CASE Retry(u)
        <5>1. u # t => pc'[t] = pc[t]
          BY <4>2 DEF Retry
        <5> QED
          BY <4>2, <5>1
      <4> QED
        BY <3>4, <4>1, <4>2 DEF Request
    <3>5. ASSUME NEW u \in Threads, Login(u) PROVE FALSE
      BY <3>5 DEF Login, LoginFailed, LoginEmpty, LoginServed, LoginParsed,
                  LoginSaved, im_init_session
    <3>6. ASSUME NEW u \in Threads, BeatServed(u) \/ BeatParsed(u) PROVE FALSE
      BY <3>6 DEF BeatServed, BeatParsed, thread
    <3> QED
      BY <3>1, <3>2, <3>3, <3>4, <3>5, <3>6 DEF Next
  <2>3. CASE Retry(t)
    BY <2>1, <2>3 DEF Retry, NextSession, Presented, TypeOK
  <2>4. CASE BootInit
    <3>1. t = "main"
      BY <2>4, StepMoves, MainIsThread DEF BootInit
    <3> QED
      BY <2>1, <2>4, <3>1 DEF BootInit, TypeOK
  <2> QED
    BY <2>2, <2>3, <2>4
<1> QED
  BY <1>1, Typed, TypeStep, SessionInit, SessionStep, PTL DEF Spec, RetryIsNew

\* Unless answers crossed or lacked their address, the check for another network
\* compares the address of the last login with the last one the cloud named.
THEOREM NetworkCheckIsExact == Spec => []ChangeIsExact
<1>1. TInv => ChangeIsExact
  BY DEF TInv, InTurn, ChangeIsExact, im_check_isnet_change
<1> QED
  BY <1>1, Typed, TypeStep, TurnInit, TurnStep, PTL DEF Spec
=============================================================================
