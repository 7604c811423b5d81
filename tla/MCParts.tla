------------------------------- MODULE MCParts -------------------------------
(***************************************************************************)
(* AccInfo, FlowCount, IosPush, HttpClient, InfoReply, Md5Buffer and NoticeText *)
(* for TLC.  They share no variable, so one run checks them side by side:       *)
(* "which" says which of them runs, and the others stay where they begin.        *)
(***************************************************************************)
EXTENDS AccInfo, FlowCount, IosPush, HttpClient, InfoReply, Md5Buffer, NoticeText,
        TLC

VARIABLE which

partVars == <<vars, flowVars, pushVars, httpVars, infoVars, md5Vars, textVars>>

\* The codes of the table in nls_cp54936.c for the two-byte characters below,
\* and the bytes of "5", "!", and of the first and the last character of
\* "open" and "start" in the notices' texts.
TwoBytes  == 12010 :> 24320 @@ 13428 :> 21551
GBLetters == {<<53>>, <<33>>, <<191, 170>>, <<198, 244>>}

\* Interchangeable thread slots.
RollerSymmetry == Permutations(Rollers)

PartsInit ==
    /\ which \in {"info", "flow", "push", "http", "reply", "md5", "text"}
    /\ length \in IF which = "md5" THEN 0 .. MaxText ELSE {0}
    /\ rx \in IF which = "flow" THEN Bytes ELSE {0}
    /\ Init /\ FlowInit /\ PushInit /\ HttpInit /\ InfoInit /\ Md5Init /\ TextInit
    /\ which # "text" => text = <<<<53>>>>

PartsNext ==
    /\ UNCHANGED which
    /\ IF which = "info" THEN Next     ELSE UNCHANGED vars
    /\ IF which = "flow" THEN FlowNext ELSE UNCHANGED flowVars
    /\ IF which = "push" THEN PushNext ELSE UNCHANGED pushVars
    /\ IF which = "http" THEN HttpNext ELSE UNCHANGED httpVars
    /\ IF which = "reply" THEN InfoNext ELSE UNCHANGED infoVars
    /\ IF which = "md5"  THEN Md5Next  ELSE UNCHANGED md5Vars
    /\ IF which = "text" THEN TextNext ELSE UNCHANGED textVars

PartsSpec == PartsInit /\ [][PartsNext]_<<which, partVars>>
=============================================================================
