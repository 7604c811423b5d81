-------------------------------- MODULE IosPush --------------------------------
(***************************************************************************)
(* The push messages of im_acc: terminals register device tokens in the table  *)
(* s_im_iosinfo (TERM_CMD_IOSINFO, served by the main thread), and every        *)
(* notice, whichever thread or handler gives it, is sent to a push server with  *)
(* one entry for each token in the table.  The entries are one and the same      *)
(* object, so that all name the device of the last.  Nothing locks the table,    *)
(* and nothing looks at the size of the buffer the message is copied to.        *)
(***************************************************************************)
EXTENDS Integers, Sequences, FiniteSets, FiniteSetsExt, Functions

CONSTANTS
    Givers,      \* contexts that give notices: threads and handlers
    Tokens,      \* device tokens
    NoToken,     \* the empty string
    Torn,        \* a token of which only a part is there
    MAX_IOS_DEV, \* rows of the table (20)
    MsgRoom      \* entries for which msg[1024] and json_string[1024] have room

ASSUME GiversAssumption == "main" \notin Givers
ASSUME TokensAssumption == NoToken \notin Tokens /\ Torn \notin Tokens /\ Torn # NoToken
ASSUME RowsAssumption   == MAX_IOS_DEV \in Nat \ {0} /\ MsgRoom \in Nat

VARIABLES
    s_im_iosinfo,  \* the devicetoken of each row
    copying,       \* the row and the token of a strcpy under way
    row,           \* how far im_json_make_cmd_brocast_IOS is for each giver; 0: idle
    entries,       \* the rows it has put into dataarray
    device,        \* the token in pDataObj, the one object of all entries
    spilled,       \* a message has been written past the end of its buffer
    told,          \* history: the tokens whose terminals were told MSG_CODE_SUCESS
    before         \* history: the tokens registered when the message was begun

push == <<row, entries, device, before, spilled>>
pushVars == <<s_im_iosinfo, copying, push, told>>

Rows  == 1 .. MAX_IOS_DEV
Texts == Tokens \cup {NoToken, Torn}

Filled     == {i \in Rows : s_im_iosinfo[i] # NoToken}
Registered == Range(s_im_iosinfo) \cap Tokens

NoCopy == [row |-> 0, token |-> NoToken]

-----------------------------------------------------------------------------
(* im_json_parse_data_iosinfo                                              *)

FreeRows == Rows \ Filled

\* Mutant: only the first row is compared.
KnownInFirst(token) == s_im_iosinfo[1] = token

Known(token) == token \in Registered

\* Known already, or no row is free: the terminal is told MSG_CODE_SUCESS.
RegisterNothing(token) ==
    /\ copying = NoCopy
    /\ Known(token) \/ FreeRows = {}
    /\ told' = told \cup {token}
    /\ UNCHANGED <<s_im_iosinfo, copying, push>>

\* strcpy into the first free row begins ...
RegisterBegins(token) ==
    /\ copying = NoCopy /\ ~Known(token) /\ FreeRows # {}
    /\ s_im_iosinfo' = [s_im_iosinfo EXCEPT ![Min(FreeRows)] = Torn]
    /\ copying' = [row |-> Min(FreeRows), token |-> token]
    /\ UNCHANGED <<push, told>>

Copied == copying.token

\* ... and is done.
RegisterEnds ==
    /\ copying # NoCopy
    /\ s_im_iosinfo' = [s_im_iosinfo EXCEPT ![copying.row] = Copied]
    /\ told' = told \cup {Copied}
    /\ copying' = NoCopy
    /\ UNCHANGED push

-----------------------------------------------------------------------------
(* im_json_make_cmd_brocast_IOS                                            *)

PushBegins(g) ==
    /\ row[g] = 0
    /\ row' = [row EXCEPT ![g] = 1]
    /\ entries' = [entries EXCEPT ![g] = {}]
    /\ device' = [device EXCEPT ![g] = NoToken]
    /\ before' = [before EXCEPT ![g] = Registered]
    /\ UNCHANGED <<s_im_iosinfo, copying, told, spilled>>

\* Mutant: the loop ends one row early.
RowsButLast == 1 .. MAX_IOS_DEV - 1

RowsRead == Rows

\* An empty row is passed over; any other one adds the same object once more, and
\* its token takes the place of the last one there.
PushRow(g) ==
    /\ row[g] \in RowsRead
    /\ row' = [row EXCEPT ![g] = @ + 1]
    /\ IF s_im_iosinfo[row[g]] = NoToken
       THEN UNCHANGED <<entries, device>>
       ELSE /\ entries' = [entries EXCEPT ![g] = @ \cup {row[g]}]
            /\ device' = [device EXCEPT ![g] = s_im_iosinfo[row[g]]]
    /\ UNCHANGED <<s_im_iosinfo, copying, before, told, spilled>>

\* The array is complete: the text is made of it, signed and sent.
Complete(g) == row[g] # 0 /\ row[g] \notin RowsRead

PushSent(g) ==
    /\ Complete(g) /\ Cardinality(entries[g]) <= MsgRoom
    /\ row' = [row EXCEPT ![g] = 0]
    /\ entries' = [entries EXCEPT ![g] = {}]
    /\ device' = [device EXCEPT ![g] = NoToken]
    /\ before' = [before EXCEPT ![g] = {}]
    /\ UNCHANGED <<s_im_iosinfo, copying, told, spilled>>

\* strcpy and sprintf of a longer text: what follows is undefined.
PushSpills(g) ==
    /\ Complete(g) /\ Cardinality(entries[g]) > MsgRoom
    /\ spilled' = TRUE
    /\ UNCHANGED <<s_im_iosinfo, copying, told, row, entries, device, before>>

-----------------------------------------------------------------------------

PushInit ==
    /\ s_im_iosinfo = [i \in Rows |-> NoToken] /\ copying = NoCopy
    /\ row = [g \in Givers |-> 0] /\ entries = [g \in Givers |-> {}]
    /\ device = [g \in Givers |-> NoToken]
    /\ told = {} /\ before = [g \in Givers |-> {}] /\ spilled = FALSE

PushNext ==
    /\ ~spilled
    /\ \/ \E token \in Tokens : RegisterNothing(token) \/ RegisterBegins(token)
       \/ RegisterEnds
       \/ \E g \in Givers : PushBegins(g) \/ PushRow(g) \/ PushSent(g) \/ PushSpills(g)

PushSpec == PushInit /\ [][PushNext]_pushVars

-----------------------------------------------------------------------------
(* Properties                                                              *)

\* No token is registered twice, and a terminal that was told of success is
\* registered unless the table is full: only then is a device forgotten.
RegistryIsExact ==
    /\ \A i, j \in Filled : s_im_iosinfo[i] = s_im_iosinfo[j] => i = j
    /\ FreeRows # {} => told \subseteq Registered
    /\ Registered \subseteq told

LastEntry(g, i) == i \in entries[g] /\ \A j \in entries[g] : j <= i

\* While devices register, a message gets an entry for the row of every device
\* that was registered when it was begun, and for no row that is still empty; but
\* it names one device only, that of the last of these rows, whole or in part:
\* all others, registered as they are, are named in no entry.
PushNamesTheLast ==
    \A g \in Givers :
        Complete(g) =>
            /\ \A i \in Rows : s_im_iosinfo[i] \in before[g] => i \in entries[g]
            /\ entries[g] \subseteq Filled
            /\ \A i \in Rows : LastEntry(g, i) => device[g] \in {s_im_iosinfo[i], Torn}
=============================================================================
