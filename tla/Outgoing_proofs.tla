---------------------------- MODULE Outgoing_proofs ----------------------------
(***************************************************************************)
(* What im_acc sends out: the push messages, the requests that carry them and   *)
(* all others, the digests they contain, the texts of the notices, and the      *)
(* replies to the questions about flow and history.  For any number of givers,   *)
(* devices and rows no device is lost or registered twice, and a message has an  *)
(* entry for each that was there, in the name of the last.  For any number of    *)
(* requesters, chunks and failures libcurl is torn down under nobody, and a       *)
(* success is the whole body if none was too long.  For every message and every  *)
(* size of a block MD5 compresses it, its padding and its length.  Of every text  *)
(* in every alphabet of the table a reader of the UTF-8 finds the characters.  A  *)
(* reply about flow is what the cloud told; one about the history is the last row *)
(* of it if the table is full.                                               *)
(***************************************************************************)
EXTENDS IosPush, HttpClient, InfoReply, Md5Buffer, NoticeText, FiniteSetTheorems, SequenceTheorems,
        TLAPS

PushTypeOK ==
    /\ s_im_iosinfo \in [Rows -> Texts]
    /\ row \in [Givers -> 0 .. MAX_IOS_DEV + 1]
    /\ entries \in [Givers -> SUBSET Rows] /\ device \in [Givers -> Texts]
    /\ told \subseteq Tokens /\ before \in [Givers -> SUBSET Tokens]

\* A torn row is the one being copied to, and what is copied is not there yet.
CopyInv ==
    /\ \A i \in Rows : s_im_iosinfo[i] = Torn => copying # NoCopy /\ copying.row = i
    /\ copying # NoCopy =>
           /\ copying.row \in Rows /\ s_im_iosinfo[copying.row] = Torn
           /\ copying.token \in Tokens \ Registered

\* The rows passed so far are in the message if they were filled when it began:
\* what is registered is never removed, and a copy that ends brings another.
EntryInv(g) ==
    /\ \A j \in Rows : j < row[g] /\ s_im_iosinfo[j] \in before[g] => j \in entries[g]
    /\ before[g] \subseteq Registered
    /\ entries[g] \subseteq Filled
    /\ \A j \in entries[g] : j < row[g]
    /\ \A j \in Rows : LastEntry(g, j) => device[g] \in {s_im_iosinfo[j], Torn}

PushInv ==
    PushTypeOK /\ CopyInv /\ RegistryIsExact /\ \A g \in Givers : EntryInv(g)
-----------------------------------------------------------------------------
(* Numbers and sets                                                        *)

\* A set of natural numbers has a least one.
LEMMA MinIsElement == ASSUME NEW S, S \subseteq Nat, S # {} PROVE Min(S) \in S
<1> DEFINE less == {p \in Nat \X Nat : p[1] < p[2]}
<1>1. IsWellFoundedOn(less, Nat)
  BY NatLessThanWellFounded, Zenon DEF OpToRel
<1>2. PICK x \in S : \A y \in S : <<y, x>> \notin less
  BY <1>1, WFMin
<1>3. \A y \in S : x <= y
  <2> SUFFICES ASSUME NEW y \in S, ~(x <= y) PROVE FALSE
    OBVIOUS
  <2>1. y < x /\ <<y, x>> \in Nat \X Nat
    OBVIOUS
  <2>2. <<y, x>> \in less
    BY <2>1
  <2> QED
    BY <1>2, <2>2
<1> QED
  BY <1>3 DEF Min

\* The row im_json_parse_data_iosinfo takes.
LEMMA FirstFreeRow ==
    ASSUME FreeRows # {}
    PROVE  Min(FreeRows) \in Rows /\ s_im_iosinfo[Min(FreeRows)] = NoToken
<1>1. FreeRows \subseteq Nat
  BY RowsAssumption DEF FreeRows, Rows
<1> QED
  BY <1>1, MinIsElement DEF FreeRows, Filled

LEMMA RegisteredIff ==
    ASSUME PushTypeOK
    PROVE  \A token \in Tokens : token \in Registered <=> \E i \in Rows : s_im_iosinfo[i] = token
  BY DEF PushTypeOK, Registered, Range

LEMMA RegisteredIffNext ==
    ASSUME PushTypeOK'
    PROVE  \A token \in Tokens : token \in Registered' <=> \E i \in Rows : s_im_iosinfo'[i] = token
  BY DEF PushTypeOK, Registered, Range
-----------------------------------------------------------------------------
(* The invariant of the devices                                            *)

LEMMA PushInitially == PushInit => PushInv
<1> SUFFICES ASSUME PushInit PROVE PushInv
  OBVIOUS
<1> USE TokensAssumption, RowsAssumption DEF PushInit
<1>1. PushTypeOK
  BY DEF PushTypeOK, Texts
<1>2. Registered = {} /\ Filled = {}
  BY DEF Registered, Range, Filled
<1>3. CopyInv
  BY DEF CopyInv
<1>4. RegistryIsExact
  BY <1>2 DEF RegistryIsExact
<1>5. \A g \in Givers : EntryInv(g)
  BY <1>2 DEF EntryInv
<1> QED
  BY <1>1, <1>3, <1>4, <1>5 DEF PushInv

LEMMA NothingStep ==
    ASSUME PushInv, NEW token \in Tokens, RegisterNothing(token) PROVE PushInv'
<1> USE DEF PushInv, RegisterNothing, push
<1>1. PushTypeOK'
  BY DEF PushTypeOK
<1>2. Registered' = Registered /\ Filled' = Filled /\ FreeRows' = FreeRows
  BY DEF Registered, Filled, FreeRows
<1>3. CopyInv' /\ \A g \in Givers : EntryInv(g)'
  BY <1>2 DEF CopyInv, EntryInv, LastEntry
<1>4. RegistryIsExact'
  BY <1>2 DEF RegistryIsExact, Known
<1> QED
  BY <1>1, <1>3, <1>4

LEMMA BeginsStep ==
    ASSUME PushInv, NEW token \in Tokens, RegisterBegins(token) PROVE PushInv'
<1> USE TokensAssumption DEF PushInv, RegisterBegins, push
<1> DEFINE first == Min(FreeRows)
<1>0. first \in Rows /\ s_im_iosinfo[first] = NoToken
  BY FirstFreeRow
<1> HIDE DEF first
<1>1. /\ s_im_iosinfo' = [s_im_iosinfo EXCEPT ![first] = Torn]
      /\ copying' = [row |-> first, token |-> token]
  BY DEF first
<1>2. PushTypeOK'
  BY <1>1 DEF PushTypeOK, Texts
<1>3. /\ s_im_iosinfo'[first] = Torn
      /\ \A i \in Rows : i # first => s_im_iosinfo'[i] = s_im_iosinfo[i]
  BY <1>0, <1>1 DEF PushTypeOK
<1>4. Registered' = Registered
  <2>1. \A u \in Tokens : u \in Registered' <=> u \in Registered
    BY <1>0, <1>2, <1>3, RegisteredIff, RegisteredIffNext
  <2> QED
    BY <2>1 DEF Registered
<1>5. Filled' = Filled \cup {first}
  BY <1>0, <1>3 DEF Filled
<1>6. CopyInv'
  <2>1. copying' # NoCopy
    BY <1>0, <1>1, RowsAssumption DEF NoCopy, Rows
  <2>2. copying'.row = first /\ copying'.token = token
    BY <1>1
  <2> QED
    BY <1>0, <1>3, <1>4, <2>1, <2>2 DEF CopyInv, Known
<1>7. RegistryIsExact'
  <2>1. \A i \in Filled : s_im_iosinfo[i] # Torn /\ i # first
    BY <1>0 DEF CopyInv, Filled
  <2>2. \A i, j \in Filled' : s_im_iosinfo'[i] = s_im_iosinfo'[j] => i = j
    BY <1>0, <1>3, <1>5, <2>1 DEF RegistryIsExact, Filled
  <2>3. told \subseteq Registered /\ Registered \subseteq told
    BY DEF RegistryIsExact
  <2> QED
    BY <1>4, <2>2, <2>3 DEF RegistryIsExact
<1>8. \A g \in Givers : EntryInv(g)'
  <2> SUFFICES ASSUME NEW g \in Givers PROVE EntryInv(g)'
    OBVIOUS
  <2>1. Torn \notin before[g]
    BY DEF PushTypeOK
  <2>2. first \notin entries[g]
    BY <1>0 DEF EntryInv, Filled
  <2> QED
    BY <1>3, <1>4, <1>5, <2>1, <2>2 DEF EntryInv, LastEntry
<1> QED
  BY <1>2, <1>6, <1>7, <1>8

LEMMA EndsStep == ASSUME PushInv, RegisterEnds PROVE PushInv'
<1> USE TokensAssumption DEF PushInv, RegisterEnds, Copied, push
<1> DEFINE at == copying.row
           token == copying.token
<1>0. at \in Rows /\ s_im_iosinfo[at] = Torn /\ token \in Tokens /\ token \notin Registered
  BY DEF CopyInv
<1>1. s_im_iosinfo' = [s_im_iosinfo EXCEPT ![at] = token] /\ told' = told \cup {token}
  OBVIOUS
<1> HIDE DEF at, token
<1>2. PushTypeOK'
  BY <1>0, <1>1 DEF PushTypeOK, Texts
<1>3. /\ s_im_iosinfo'[at] = token
      /\ \A i \in Rows : i # at => s_im_iosinfo'[i] = s_im_iosinfo[i]
  BY <1>0, <1>1 DEF PushTypeOK
<1>4. Registered' = Registered \cup {token}
  <2>1. \A u \in Tokens : u \in Registered' <=> u \in Registered \/ u = token
    BY <1>0, <1>2, <1>3, RegisteredIff, RegisteredIffNext
  <2> QED
    BY <1>0, <2>1 DEF Registered
<1>5. Filled' = Filled /\ FreeRows' = FreeRows
  <2>1. Filled' = Filled
    BY <1>0, <1>3 DEF Filled
  <2> QED
    BY <2>1 DEF FreeRows
<1>6. CopyInv'
  <2>1. \A i \in Rows : s_im_iosinfo[i] = Torn => i = at
    BY DEF CopyInv, at
  <2>2. \A i \in Rows : s_im_iosinfo'[i] # Torn
    BY <1>0, <1>3, <2>1
  <2> QED
    BY <2>2 DEF CopyInv
<1>7. RegistryIsExact'
  <2>1. \A i \in Rows : s_im_iosinfo[i] # token
    BY <1>0, RegisteredIff
  <2>2. \A i, j \in Filled : s_im_iosinfo[i] = s_im_iosinfo[j] => i = j
    BY DEF RegistryIsExact
  <2>3. \A i, j \in Filled' : s_im_iosinfo'[i] = s_im_iosinfo'[j] => i = j
    BY <1>3, <1>5, <2>1, <2>2 DEF Filled
  <2>4. (FreeRows # {} => told \subseteq Registered) /\ Registered \subseteq told
    BY DEF RegistryIsExact
  <2> QED
    BY <1>1, <1>4, <1>5, <2>3, <2>4 DEF RegistryIsExact
<1>8. \A g \in Givers : EntryInv(g)'
  <2> SUFFICES ASSUME NEW g \in Givers PROVE EntryInv(g)'
    OBVIOUS
  <2>1. token \notin before[g]
    BY <1>0 DEF EntryInv
  <2>2. \A j \in Rows : LastEntry(g, j)' => device'[g] \in {s_im_iosinfo'[j], Torn}
    BY <1>0, <1>3 DEF EntryInv, LastEntry
  <2> QED
    BY <1>3, <1>4, <1>5, <2>1, <2>2 DEF EntryInv
<1> QED
  BY <1>2, <1>6, <1>7, <1>8

\* Making a message leaves the table as it is.
LEMMA GiverStep ==
    ASSUME PushInv, NEW g \in Givers,
           PushBegins(g) \/ PushRow(g) \/ PushSent(g) \/ PushSpills(g)
    PROVE  PushInv'
<1> USE TokensAssumption, RowsAssumption DEF PushInv
<1>1. UNCHANGED <<s_im_iosinfo, copying, told>>
  BY DEF PushBegins, PushRow, PushSent, PushSpills
<1>2. Registered' = Registered /\ Filled' = Filled /\ FreeRows' = FreeRows
  BY <1>1 DEF Registered, Filled, FreeRows
<1>3. CopyInv' /\ RegistryIsExact'
  BY <1>1, <1>2 DEF CopyInv, RegistryIsExact
<1>4. \A h \in Givers : h # g => EntryInv(h)'
  <2> SUFFICES ASSUME NEW h \in Givers, h # g PROVE EntryInv(h)'
    OBVIOUS
  <2>1. /\ row'[h] = row[h] /\ entries'[h] = entries[h]
        /\ device'[h] = device[h] /\ before'[h] = before[h]
    BY DEF PushTypeOK, PushBegins, PushRow, PushSent, PushSpills
  <2> QED
    BY <1>1, <1>2, <2>1 DEF EntryInv, LastEntry
<1>5. CASE PushBegins(g)
  <2>1. PushTypeOK'
    BY <1>1, <1>5 DEF PushTypeOK, PushBegins, Texts, Registered
  <2>2. row'[g] = 1 /\ entries'[g] = {} /\ before'[g] = Registered
    BY <1>5 DEF PushTypeOK, PushBegins
  <2>3. EntryInv(g)'
    BY <1>2, <2>2 DEF EntryInv, Rows, LastEntry
  <2> QED
    BY <1>3, <1>4, <2>1, <2>3
<1>6. CASE PushRow(g)
  <2> DEFINE here == row[g]
  <2>1. here \in Rows /\ row'[g] = here + 1 /\ before'[g] = before[g]
    BY <1>6 DEF PushTypeOK, PushRow, RowsRead
  <2>2. PushTypeOK'
    <3>1. here + 1 \in 0 .. MAX_IOS_DEV + 1 /\ s_im_iosinfo[here] \in Texts
      BY <2>1 DEF PushTypeOK, Rows
    <3>2. entries[g] \cup {here} \in SUBSET Rows
      BY <2>1 DEF PushTypeOK
    <3>3. row' \in [Givers -> 0 .. MAX_IOS_DEV + 1]
      BY <1>6, <3>1 DEF PushTypeOK, PushRow
    <3>4. entries' \in [Givers -> SUBSET Rows]
      BY <1>6, <3>2 DEF PushTypeOK, PushRow
    <3>5. device' \in [Givers -> Texts]
      BY <1>6, <3>1 DEF PushTypeOK, PushRow
    <3> QED
      BY <1>1, <1>6, <3>3, <3>4, <3>5 DEF PushTypeOK, PushRow
  <2>3. \A j \in Rows : j < here + 1 => j < here \/ j = here
    BY <2>1 DEF Rows
  <2>6. \A j \in entries[g] : j < here /\ j < here + 1 /\ ~(here <= j) /\ j \in Rows
    <3>1. entries[g] \subseteq Rows /\ \A j \in entries[g] : j < here
      BY DEF EntryInv, PushTypeOK
    <3>2. \A j \in Rows : j < here => j < here + 1 /\ ~(here <= j)
      BY <2>1 DEF Rows
    <3> QED
      BY <3>1, <3>2
  <2>7. here < here + 1
    BY <2>1 DEF Rows
  <2> HIDE DEF here
  <2>4. CASE s_im_iosinfo[here] = NoToken
    <3>1. entries'[g] = entries[g] /\ device'[g] = device[g]
      BY <1>6, <2>4 DEF PushRow, here
    <3>2. NoToken \notin before[g]
      BY DEF PushTypeOK
    <3> QED
      <4>1. EntryInv(g)'
        <5>1. \A j \in Rows : LastEntry(g, j)' => device'[g] \in {s_im_iosinfo'[j], Torn}
          BY <1>1, <3>1 DEF EntryInv, LastEntry
        <5>2. \A j \in Rows : j < row'[g] /\ s_im_iosinfo'[j] \in before'[g] => j \in entries'[g]
          BY <1>1, <2>1, <2>3, <2>4, <3>1, <3>2 DEF EntryInv, here
        <5> QED
          BY <1>1, <1>2, <2>1, <2>6, <3>1, <5>1, <5>2 DEF EntryInv
      <4> QED
        BY <1>3, <1>4, <2>2, <4>1
  <2>5. CASE s_im_iosinfo[here] # NoToken
    <3>1. entries'[g] = entries[g] \cup {here} /\ device'[g] = s_im_iosinfo[here]
      BY <1>6, <2>5 DEF PushRow, PushTypeOK, here
    <3>2. here \in Filled
      BY <2>1, <2>5 DEF Filled
    <3> QED
      <4>1. \A j \in Rows : LastEntry(g, j)' => j = here
        BY <2>6, <3>1 DEF LastEntry
      <4>2. \A j \in entries'[g] : j < here + 1
        BY <2>6, <2>7, <3>1
      <4>3. EntryInv(g)'
        <5>1. \A j \in Rows : j < row'[g] /\ s_im_iosinfo'[j] \in before'[g] => j \in entries'[g]
          BY <1>1, <2>1, <2>3, <3>1 DEF EntryInv, here
        <5> QED
          BY <1>1, <1>2, <2>1, <3>1, <3>2, <4>1, <4>2, <5>1 DEF EntryInv
      <4> QED
        BY <1>3, <1>4, <2>2, <4>3
  <2> QED
    BY <2>4, <2>5
<1>7. CASE PushSent(g)
  <2>1. PushTypeOK'
    BY <1>1, <1>7 DEF PushTypeOK, PushSent, Texts
  <2>2. entries'[g] = {} /\ before'[g] = {}
    BY <1>7 DEF PushTypeOK, PushSent
  <2>3. EntryInv(g)'
    BY <2>2 DEF EntryInv, LastEntry
  <2> QED
    BY <1>3, <1>4, <2>1, <2>3
<1>8. CASE PushSpills(g)
  BY <1>1, <1>2, <1>3, <1>8 DEF PushSpills, PushTypeOK, EntryInv, LastEntry
<1> QED
  BY <1>5, <1>6, <1>7, <1>8

LEMMA PushInductive == PushSpec => []PushInv
<1>1. PushInv /\ [PushNext]_pushVars => PushInv'
  <2> SUFFICES ASSUME PushInv, [PushNext]_pushVars PROVE PushInv'
    OBVIOUS
  <2>1. CASE UNCHANGED pushVars
    <3>1. Registered' = Registered /\ Filled' = Filled /\ FreeRows' = FreeRows
      BY <2>1 DEF pushVars, push, Registered, Filled, FreeRows
    <3> QED
      BY <2>1, <3>1 DEF pushVars, push, PushInv, PushTypeOK, CopyInv, RegistryIsExact,
                        EntryInv, LastEntry
  <2> QED
    BY <2>1, NothingStep, BeginsStep, EndsStep, GiverStep DEF PushNext
<1> QED
  BY <1>1, PushInitially, PTL DEF PushSpec
-----------------------------------------------------------------------------
(* The theorems about the devices                                          *)

\* im_json_parse_data_iosinfo registers no token twice, and forgets a device only
\* when the table is full, however its strcpy interleaves with the notices.
THEOREM RegistryStaysExact == PushSpec => []RegistryIsExact
<1>1. PushInv => RegistryIsExact
  BY DEF PushInv
<1> QED
  BY <1>1, PushInductive, PTL

\* im_json_make_cmd_brocast_IOS adds an entry for every device that was registered
\* when it began, and for no empty row, while others register; all its entries name
\* the device of the last.
THEOREM MessagesNameTheLast == PushSpec => []PushNamesTheLast
<1>1. PushInv => PushNamesTheLast
  <2> SUFFICES ASSUME PushInv, NEW g \in Givers, Complete(g)
               PROVE  \A i \in Rows : s_im_iosinfo[i] \in before[g] => i \in entries[g]
    BY DEF PushNamesTheLast, PushInv, EntryInv
  <2>1. row[g] = MAX_IOS_DEV + 1
    BY RowsAssumption DEF PushInv, PushTypeOK, Complete, RowsRead, Rows
  <2> QED
    BY <2>1, RowsAssumption DEF PushInv, EntryInv, Rows
<1> QED
  BY <1>1, PushInductive, PTL
-----------------------------------------------------------------------------
(* The requests                                                            *)

HttpTypeOK ==
    /\ hpc \in [Requesters -> HttpLabels]
    /\ curlhandle \in [Requesters -> BOOLEAN]
    /\ httpresp \in [Requesters -> Seq(Nat)]
    /\ res \in [Requesters -> {0, -1}]
    /\ inits \in Nat /\ leaked \in Nat
    /\ sent \in [Requesters -> Nat] /\ status \in [Requesters -> BOOLEAN]

\* What was collected is the beginning of the body, and there was room for it.
Exact(c) ==
    /\ \A i \in 1 .. Len(httpresp[c]) : httpresp[c][i] = i
    /\ Len(httpresp[c]) < RespSize

\* A handle lives from its making to the cleanup; until something fails, what is
\* collected is what was sent so far, and all of it once the transfer is over.
RequestInv(c) ==
    /\ curlhandle[c] => hpc[c] \in {"perform", "clean"}
    /\ hpc[c] \in {"idle", "easy"} => httpresp[c] = <<>> /\ res[c] = 0
    /\ hpc[c] = "perform" => (Exact(c) \/ overrun) /\ res[c] = 0 /\ curlhandle[c]
    /\ hpc[c] \in {"clean", "return"} /\ res[c] = 0 =>
           status[c] /\ Exact(c) /\ Len(httpresp[c]) = sent[c]

HttpInv == HttpTypeOK /\ (\A c \in Requesters : RequestInv(c)) /\ LibraryIsUp
-----------------------------------------------------------------------------

\* Users are counted.
LEMMA UsersAreFinite == IsFiniteSet(Users) /\ Cardinality(Users) \in Nat
  BY HttpAssumption, FS_Subset, FS_CardinalityType DEF Users

\* One more, or one less.
LEMMA UserComes ==
    ASSUME NEW c \in Requesters, c \notin Users, Users' = Users \cup {c}
    PROVE  Cardinality(Users)' = Cardinality(Users) + 1
  BY UsersAreFinite, FS_AddElement

LEMMA UserGoes ==
    ASSUME NEW c \in Requesters, c \in Users, Users' = Users \ {c}
    PROVE  /\ Cardinality(Users)' = Cardinality(Users) - 1
           /\ Cardinality(Users) >= 1
<1>1. Cardinality(Users)' = Cardinality(Users) - 1
  BY UsersAreFinite, FS_RemoveElement
<1>2. Cardinality(Users) # 0
  BY UsersAreFinite, FS_EmptySet
<1> QED
  BY <1>1, <1>2, UsersAreFinite

LEMMA HttpInitially == HttpInit => HttpInv
<1> SUFFICES ASSUME HttpInit PROVE HttpInv
  OBVIOUS
<1> USE DEF HttpInit
<1>1. HttpTypeOK
  BY DEF HttpTypeOK, HttpLabels
<1>2. \A c \in Requesters : RequestInv(c)
  BY DEF RequestInv
<1>3. Users = {}
  BY DEF Users
<1>4. LibraryIsUp
  BY <1>3, FS_EmptySet DEF LibraryIsUp
<1> QED
  BY <1>1, <1>2, <1>4 DEF HttpInv

\* What a chunk appends.
LEMMA Appended ==
    ASSUME HttpTypeOK, NEW c \in Requesters,
           NEW len \in 1 .. MaxBody, NEW found \in 0 .. len + MaxPast,
           Receive(c, len, found)
    PROVE  /\ httpresp'[c] \in Seq(Nat) /\ httpresp' \in [Requesters -> Seq(Nat)]
           /\ Len(httpresp'[c]) = Len(httpresp[c]) + found
           /\ \A i \in 1 .. Len(httpresp[c]) : httpresp'[c][i] = httpresp[c][i]
           /\ found = len =>
                 \A i \in Len(httpresp[c]) + 1 .. Len(httpresp'[c]) : httpresp'[c][i] = i
<1>0. len \in Nat /\ found \in Nat
  BY HttpAssumption
<1> DEFINE old == httpresp[c]
           more == [i \in 1 .. found |-> IF i <= len THEN Len(old) + i ELSE 0]
<1>1. old \in Seq(Nat) /\ Len(old) \in Nat
  BY DEF HttpTypeOK
<1>2. more \in Seq(Nat) /\ Len(more) = found
  <2>1. \A i \in 1 .. found : more[i] \in Nat
    BY <1>0, <1>1
  <2> QED
    BY <1>0, <2>1
<1>3. httpresp' = [httpresp EXCEPT ![c] = old \o more]
  BY DEF Receive, HttpTypeOK
<1>4. httpresp'[c] = old \o more
  BY <1>3 DEF HttpTypeOK
<1> HIDE DEF old
<1>5. found = len => \A i \in 1 .. found : more[i] = Len(old) + i
  BY <1>0
<1> HIDE DEF more
<1>6. /\ old \o more \in Seq(Nat) /\ Len(old \o more) = Len(old) + found
      /\ \A i \in 1 .. Len(old) : (old \o more)[i] = old[i]
      /\ \A i \in Len(old) + 1 .. Len(old) + found : (old \o more)[i] = more[i - Len(old)]
  <2>1. /\ old \o more \in Seq(Nat) /\ Len(old \o more) = Len(old) + found
        /\ \A i \in 1 .. Len(old) + found :
              (old \o more)[i] = IF i <= Len(old) THEN old[i] ELSE more[i - Len(old)]
    BY <1>1, <1>2, ConcatProperties
  <2> QED
    BY <2>1, <1>0, <1>1
<1>7. found = len => \A i \in Len(old) + 1 .. Len(old) + found : (old \o more)[i] = i
  BY <1>0, <1>1, <1>5, <1>6
<1> QED
  BY <1>3, <1>4, <1>6, <1>7 DEF HttpTypeOK, old

\* Typing, and that a step of one requester leaves the others as they were.
LEMMA TypeStep ==
    ASSUME HttpTypeOK, NEW c \in Requesters, Request(c)
    PROVE  HttpTypeOK'
<1> USE DEF HttpTypeOK, HttpGoto, Fails, HttpLabels
<1>1. CASE GlobalInit(c)
  <2>1. <<>> \in Seq(Nat)
    OBVIOUS
  <2>2. 0 .. MaxBody \subseteq Nat
    BY HttpAssumption
  <2> QED
    BY <1>1, <2>1, <2>2 DEF GlobalInit
<1>2. CASE GlobalInitFails(c) \/ PerformFails(c)
  BY <1>2 DEF GlobalInitFails, PerformFails
<1>7. CASE EasyInitFails(c)
  BY <1>7 DEF EasyInitFails
<1>3. CASE EasyInit(c) \/ Performed(c)
  BY <1>3 DEF EasyInit, Performed
<1>4. ASSUME NEW len \in 1 .. MaxBody, NEW found \in 0 .. len + MaxPast, Receive(c, len, found)
      PROVE  HttpTypeOK'
  <2>1. httpresp' \in [Requesters -> Seq(Nat)]
    BY <1>4, Appended DEF Receive
  <2> QED
    <3>1. hpc' \in [Requesters -> HttpLabels] /\ res' \in [Requesters -> {0, -1}]
      BY <1>4 DEF Receive
    <3>2. /\ curlhandle' = curlhandle /\ inits' = inits /\ sent' = sent
          /\ status' = status /\ leaked' = leaked
      BY <1>4 DEF Receive
    <3> QED
      BY <2>1, <3>1, <3>2
<1>5. CASE im_curl_clean(c)
  <2>0. /\ \/ inits' = IF inits = 0 THEN 0 ELSE inits - 1
           \/ inits' = inits
        /\ res' = res \/ res' = [res EXCEPT ![c] = -1]
    BY <1>5 DEF im_curl_clean
  <2>1. res' \in [Requesters -> {0, -1}]
    BY <2>0
  <2>3. inits' \in Nat
    BY <2>0
  <2>2. /\ hpc' \in [Requesters -> HttpLabels] /\ curlhandle' \in [Requesters -> BOOLEAN]
        /\ httpresp' = httpresp /\ sent' = sent /\ status' = status /\ leaked' = leaked
    BY <1>5 DEF im_curl_clean
  <2> QED
    BY <2>1, <2>2, <2>3
<1>6. CASE Return(c)
  BY <1>6 DEF Return
<1> QED
  BY <1>1, <1>2, <1>3, <1>4, <1>5, <1>6, <1>7 DEF Request

\* What a requester does disturbs no other's.
LEMMA OthersStep ==
    ASSUME HttpTypeOK, ~overrun, NEW c \in Requesters, Request(c),
           NEW d \in Requesters, d # c, RequestInv(d)
    PROVE  RequestInv(d)' /\ (d \in Users' <=> d \in Users)
<1>1. /\ hpc'[d] = hpc[d] /\ curlhandle'[d] = curlhandle[d] /\ res'[d] = res[d]
      /\ httpresp'[d] = httpresp[d] /\ sent'[d] = sent[d] /\ status'[d] = status[d]
  BY DEF HttpTypeOK, HttpGoto, Fails, Request, GlobalInit, GlobalInitFails, EasyInit,
         EasyInitFails, Receive, Performed, PerformFails, im_curl_clean, Return
<1> QED
  BY <1>1 DEF RequestInv, Exact, Users

\* The requester's own part.
LEMMA OwnStep ==
    ASSUME HttpTypeOK, ~overrun, NEW c \in Requesters, RequestInv(c), Request(c)
    PROVE  RequestInv(c)'
<1> USE DEF HttpTypeOK, HttpGoto, Fails, RequestInv
<1>1. CASE GlobalInit(c) \/ GlobalInitFails(c) \/ EasyInitFails(c) \/ PerformFails(c)
  BY <1>1 DEF GlobalInit, GlobalInitFails, EasyInitFails, PerformFails, Exact
<1>2. CASE EasyInit(c)
  BY <1>2, HttpAssumption DEF EasyInit, Exact
<1>3. ASSUME NEW len \in 1 .. MaxBody, NEW found \in 0 .. len + MaxPast, Receive(c, len, found)
      PROVE  RequestInv(c)'
  <2>1. hpc[c] = "perform" /\ curlhandle'[c] = curlhandle[c]
    BY <1>3 DEF Receive
  <2>2. CASE found = len
    <3>1. hpc'[c] = "perform" /\ res'[c] = res[c]
      BY <1>3, <2>1, <2>2 DEF Receive, Acknowledged
    <3>2. Exact(c)' \/ overrun'
      BY <1>3, <2>1, <2>2, Appended, HttpAssumption DEF Receive, Exact
    <3> QED
      BY <2>1, <3>1, <3>2
  <2>3. CASE found # len
    BY <1>3, <2>1, <2>3 DEF Receive, Acknowledged
  <2> QED
    BY <2>2, <2>3
<1>4. CASE Performed(c)
  BY <1>4 DEF Performed, Exact
<1>5. CASE im_curl_clean(c)
  BY <1>5 DEF im_curl_clean, Cleaned, Exact
<1>6. CASE Return(c)
  BY <1>6 DEF Return
<1> QED
  BY <1>1, <1>2, <1>3, <1>4, <1>5, <1>6 DEF Request

\* The balance of initializations.
LEMMA CountStep ==
    ASSUME HttpInv, ~overrun, NEW c \in Requesters, Request(c)
    PROVE  LibraryIsUp'
<1> USE DEF HttpInv, HttpTypeOK, HttpGoto, LibraryIsUp
<1>0. \A d \in Requesters : d # c => (d \in Users' <=> d \in Users)
  BY OthersStep
<1>1. CASE GlobalInit(c)
  <2>1. c \notin Users /\ c \in Users'
    BY <1>1 DEF GlobalInit, Users, RequestInv
  <2>2. Users' = Users \cup {c}
    BY <1>0, <2>1 DEF Users
  <2> QED
    <3>1. Cardinality(Users)' = Cardinality(Users) + 1
      BY <2>1, <2>2, UserComes
    <3>2. inits' = inits + 1 /\ leaked' = leaked
      BY <1>1 DEF GlobalInit
    <3> QED
      BY <3>1, <3>2, UsersAreFinite
<1>2. CASE EasyInitFails(c)
  <2>1. c \in Users /\ c \notin Users'
    BY <1>2 DEF EasyInitFails, Users, RequestInv
  <2>2. Users' = Users \ {c}
    BY <1>0, <2>1 DEF Users
  <2> QED
    <3>1. Cardinality(Users)' = Cardinality(Users) - 1
      BY <2>1, <2>2, UserGoes
    <3>2. inits' = inits /\ leaked' = leaked + 1
      BY <1>2 DEF EasyInitFails
    <3> QED
      BY <3>1, <3>2, UsersAreFinite
<1>3. CASE im_curl_clean(c)
  <2>1. CASE curlhandle[c]
    <3>1. c \in Users /\ c \notin Users'
      BY <1>3, <2>1 DEF im_curl_clean, Users
    <3>2. Users' = Users \ {c}
      BY <1>0, <3>1 DEF Users
    <3>3. Cardinality(Users)' = Cardinality(Users) - 1 /\ Cardinality(Users) >= 1
      BY <3>1, <3>2, UserGoes
    <3>4. inits' = inits - 1 /\ leaked' = leaked
      BY <1>3, <2>1, <3>3, UsersAreFinite DEF im_curl_clean, Cleaned
    <3> QED
      BY <3>3, <3>4, UsersAreFinite
  <2>2. CASE ~curlhandle[c]
    <3>1. c \in Users' <=> c \in Users
      BY <1>3, <2>2 DEF im_curl_clean, Users
    <3>2. Users' = Users
      BY <1>0, <3>1 DEF Users
    <3> QED
      BY <1>3, <2>2, <3>2 DEF im_curl_clean, Cleaned
  <2> QED
    BY <2>1, <2>2
<1>4. CASE GlobalInitFails(c) \/ EasyInit(c) \/ Performed(c) \/ PerformFails(c) \/ Return(c)
           \/ \E len \in 1 .. MaxBody : \E found \in 0 .. len + MaxPast : Receive(c, len, found)
  <2>1. c \in Users' <=> c \in Users
    BY <1>4 DEF GlobalInitFails, EasyInit, Performed, PerformFails, Return, Receive,
                Users, RequestInv
  <2>2. Users' = Users
    BY <1>0, <2>1 DEF Users
  <2>3. inits' = inits /\ leaked' = leaked
    BY <1>4 DEF GlobalInitFails, EasyInit, Performed, PerformFails, Return, Receive
  <2> QED
    BY <2>2, <2>3
<1> QED
  BY <1>1, <1>2, <1>3, <1>4 DEF Request

LEMMA HttpInductive == HttpSpec => []HttpInv
<1>1. HttpInv /\ [HttpNext]_httpVars => HttpInv'
  <2> SUFFICES ASSUME HttpInv, [HttpNext]_httpVars PROVE HttpInv'
    OBVIOUS
  <2>1. ASSUME ~overrun, NEW c \in Requesters, Request(c) PROVE HttpInv'
    BY <2>1, TypeStep, OthersStep, OwnStep, CountStep DEF HttpInv
  <2>2. CASE UNCHANGED httpVars
    BY <2>2 DEF httpVars, HttpInv, HttpTypeOK, RequestInv, Exact, LibraryIsUp, Users
  <2> QED
    BY <2>1, <2>2 DEF HttpNext
<1> QED
  BY <1>1, HttpInitially, PTL DEF HttpSpec
-----------------------------------------------------------------------------
(* The theorems about the requests                                         *)

\* im_curl_clean never takes libcurl down under another request, and what is left
\* initialized is what im_curl_init left when curl_easy_init failed.
THEOREM NoRequestLosesLibcurl == HttpSpec => []LibraryIsUp
<1>1. HttpInv => LibraryIsUp
  BY DEF HttpInv
<1> QED
  BY <1>1, HttpInductive, PTL

\* As long as no body was too long for the buffer of its request, a success of
\* im_http_sendmsg is a whole body under the status 200, byte by byte, although
\* im_get_respone collects it by strlen and strcat.
THEOREM SuccessIsTheWholeReply == HttpSpec => []ReplyIsWhole
<1>1. HttpInv => ReplyIsWhole
  <2> SUFFICES ASSUME HttpInv, NEW c \in Requesters, hpc[c] = "return", res[c] = 0
               PROVE  /\ status[c] /\ httpresp[c] = [i \in 1 .. sent[c] |-> i]
                      /\ sent[c] < RespSize
    BY DEF ReplyIsWhole
  <2>1. status[c] /\ Exact(c) /\ Len(httpresp[c]) = sent[c] /\ httpresp[c] \in Seq(Nat)
    BY DEF HttpInv, HttpTypeOK, RequestInv
  <2> QED
    BY <2>1 DEF Exact
<1> QED
  BY <1>1, HttpInductive, PTL
-----------------------------------------------------------------------------
(* The replies about flow and history                                     *)

\* An int shows a figure below half its range as it is.
LEMMA SmallFitsInt ==
    ASSUME NEW a \in Nat, a < Half PROVE AsInt(a) = a
  <1>1. IntRange \in Nat \ {0} /\ Half \in Nat /\ IntRange = 2 * Half
    BY RangeAssumption DEF RangeAssumption, Half
  <1>2. a + Half \in 0 .. IntRange - 1
    BY <1>1
  <1>3. (a + Half) % IntRange = a + Half
    BY <1>1, <1>2
  <1> QED BY <1>1, <1>3 DEF AsInt

LEMMA SmallIsTold ==
    ASSUME NEW a \in Amounts PROVE Tells(AsInt(a), a)
  <1>1. a \in Nat /\ Half \in Nat
    BY AmountsAssumption, RangeAssumption DEF AmountsAssumption, RangeAssumption, Half
  <1> QED BY <1>1, SmallFitsInt DEF Tells

LEMMA ReplyStep == ReplyIsTheAnswer /\ [InfoNext]_infoVars => ReplyIsTheAnswer'
  <1> SUFFICES ASSUME ReplyIsTheAnswer, [InfoNext]_infoVars PROVE ReplyIsTheAnswer'
    OBVIOUS
  <1> USE DEF InfoGoto
  <1>1. ASSUME NEW cmd \in InfoCmds, NEW records \in Records(cmd), InfoAnswered(cmd, records)
        PROVE  ReplyIsTheAnswer'
    <2> SUFFICES ASSUME info_code' = "SUCESS", cmd = info_cmd
          PROVE  ReplyIsTheAnswer'
      BY <1>1 DEF InfoAnswered, ReplyIsTheAnswer
    <2>1. Parsed(cmd, records) /\ json_data' = ReplyTo(cmd)
      BY <1>1 DEF InfoAnswered
    <2>2. answer'.records = records /\ info_cmd' = cmd
      BY <1>1 DEF InfoAnswered
    <2>3. ASSUME cmd = "GETFLOW_INFO", NEW f \in Fields
          PROVE  Tells(json_data'[1][f], records[1][f])
      <3>1. records # <<>> /\ records[1][f] # Missing
        BY <2>1, <2>3 DEF Parsed, Whole
      <3>2. records[1] \in Given
        BY <2>3, <3>1 DEF Records, BoundedSeq, SeqOf
      <3>3. records[1][f] \in Amounts /\ records[1][f] \in Nat
        BY <3>1, <3>2, AmountsAssumption DEF Given, AmountsAssumption
      <3>4. s_im_flowinfo_resp' = Overwritten(s_im_flowinfo_resp, records[1])
        BY <1>1, <2>3, <3>1 DEF InfoAnswered, im_json_parse_data_getflowinfo_resp
      <3>5. s_im_flowinfo_resp'[f] = records[1][f]
        BY <3>1, <3>4 DEF Overwritten
      <3>6. json_data'[1][f] = AsInt(records[1][f])
        BY <2>1, <2>3, <3>5 DEF ReplyTo, Shown
      <3> QED BY <3>3, <3>6, SmallIsTold
    <2>4. ASSUME cmd = "GET_ACCLIST"
          PROVE  /\ Len(records) \in Nat /\ Len(records) <= MAX_ACC_HIS
                 /\ \A i \in 1 .. Len(records) : records[i] \in Given /\ Whole(records[i])
      <3>1. records \in Seq(Given)
        BY <2>4 DEF Records, BoundedSeq, SeqOf
      <3>2. \A i \in 1 .. Len(records) : Whole(records[i])
        BY <2>1, <2>4 DEF Parsed
      <3>3. ~PastTheTable(records)
        BY <1>1, <2>4 DEF InfoAnswered
      <3>4. \A i \in 1 .. Len(records) : ~(i > MAX_ACC_HIS)
        BY <3>2, <3>3 DEF PastTheTable, Whole, Fields
      <3> QED BY <3>1, <3>2, <3>4, HistoryAssumption DEF HistoryAssumption
    <2>5. ASSUME cmd = "GET_ACCLIST", NEW i \in 1 .. Len(records)
          PROVE  acc_list'[i] = records[i]
      <3>1. i \in AccRows /\ records[i] \in Given /\ Whole(records[i])
        BY <2>4, <2>5, HistoryAssumption DEF HistoryAssumption, AccRows
      <3>2. acc_list'[i] = Overwritten(acc_list[i], records[i])
        BY <1>1, <2>5, <3>1 DEF InfoAnswered, im_json_parse_data_getacclist_resp
      <3> QED BY <3>1, <3>2 DEF Overwritten, Whole, Given
    <2>6. ASSUME cmd = "GET_ACCLIST", Len(records) = MAX_ACC_HIS,
                 NEW i \in AccRows, NEW f \in Fields
          PROVE  Tells(json_data'[i][f], records[MAX_ACC_HIS][f])
      <3>1. MAX_ACC_HIS \in 1 .. Len(records)
        BY <2>6, HistoryAssumption DEF HistoryAssumption
      <3>2. acc_list'[MAX_ACC_HIS] = records[MAX_ACC_HIS]
        BY <2>5, <2>6, <3>1
      <3>3. json_data' = [k \in AccRows |-> Shown(acc_list'[MAX_ACC_HIS])]
        BY <2>1, <2>6 DEF ReplyTo, im_json_make_termres_acclist
      <3>4. json_data'[i][f] = AsInt(records[MAX_ACC_HIS][f])
        BY <2>6, <3>2, <3>3 DEF Shown
      <3>5. records[MAX_ACC_HIS][f] \in Amounts
        BY <2>4, <2>6, <3>1 DEF Given, Whole
      <3> QED BY <3>4, <3>5, SmallIsTold
    <2> QED BY <2>2, <2>3, <2>4, <2>5, <2>6 DEF ReplyIsTheAnswer
  <1>2. ASSUME NEW cmd \in InfoCmds, InfoCommand(cmd) PROVE ReplyIsTheAnswer'
    BY <1>2 DEF InfoCommand, ReplyIsTheAnswer
  <1>6. CASE \E records \in Records("GET_ACCLIST") : InfoOverrun(records)
    BY <1>6 DEF InfoOverrun, ReplyIsTheAnswer
  <1>3. CASE InfoFails \/ InfoOther \/ InfoExpired
    BY <1>3 DEF InfoFails, InfoOther, InfoExpired, InfoRefused, ReplyIsTheAnswer
  <1>4. CASE InfoLoggedIn \/ InfoLoginFails \/ InfoRespond
    BY <1>4 DEF InfoLoggedIn, InfoLoginFails, InfoRespond, ReplyIsTheAnswer
  <1>5. CASE UNCHANGED infoVars
    BY <1>5 DEF infoVars, ReplyIsTheAnswer
  <1> QED BY <1>1, <1>2, <1>3, <1>4, <1>5, <1>6 DEF InfoNext

\* A terminal told of success about its flow packages is shown the answer to its
\* command, whole; a whole history is stored, and the reply shows its last row when
\* it fills the table.
THEOREM SuccessShowsTheAnswer == InfoSpec => []ReplyIsTheAnswer
  <1>1. InfoInit => ReplyIsTheAnswer
    BY DEF InfoInit, ReplyIsTheAnswer
  <1> QED BY <1>1, ReplyStep, PTL DEF InfoSpec
-----------------------------------------------------------------------------
(* The blocks of MD5                                                       *)

\* Byte k of the padded message, before its length.
Padded(k) == IF k <= length THEN k ELSE IF k = length + 1 THEN Hex80 ELSE Zero

\* The whole blocks so far, and what the buffer holds of the next one.
Holds(bytes) ==
    /\ \A k \in 1 .. Len(blocks) : blocks[k] = Padded(k)
    /\ \A j \in 1 .. bytes : buffer[j] = Padded(Len(blocks) + j)

Room == Block - LenBytes

Md5Inv ==
    /\ length \in Nat /\ blocks \in Seq(Int) /\ buffer \in [1 .. Block -> Int]
    /\ step = "text" => count = 0 /\ blocks = <<>>
    /\ step = "padding" =>
           /\ count = length /\ Len(blocks) = length - (length % Block)
           /\ Holds(length % Block)
    /\ step = "bits" =>
           /\ count \in Nat /\ count % Block = Room /\ Len(blocks) % Block = 0
           /\ (Len(blocks) + Room) - (length + 1) \in 0 .. Block - 1
           /\ Holds(Room)
    /\ step = "done" => BlocksAreTheMessage

LEMMA BlockSize ==
    /\ Block \in Nat \ {0} /\ LenBytes \in 1 .. Block - 1
    /\ Room \in 1 .. Block - 1 /\ Room + LenBytes = Block
  BY Md5Assumption DEF Md5Assumption, Room

LEMMA WholeTurns ==
    ASSUME NEW b \in Nat \ {0}, NEW x \in Nat
    PROVE  /\ (x % b) \in 0 .. b - 1 /\ (x % b) <= x
           /\ b * (x \div b) = x - (x % b)
           /\ (x \div b) \in Nat
  <1>1. (x % b) \in 0 .. b - 1 /\ (x % b) <= x
    OBVIOUS
  <1>2. b * (x \div b) = x - (x % b)
    OBVIOUS
  <1>3. (x \div b) \in Nat
    OBVIOUS
  <1> QED BY <1>1, <1>2, <1>3

LEMMA TurnRest ==
    ASSUME NEW b \in Nat \ {0}, NEW q \in Int, NEW y \in 0 .. b - 1
    PROVE  ((b * q) + y) % b = y
  OBVIOUS

\* The two parts of a concatenation.
LEMMA Joined ==
    ASSUME NEW f \in Seq(Int), NEW g \in Seq(Int), NEW s, s = f \o g
    PROVE  /\ s \in Seq(Int) /\ Len(s) = Len(f) + Len(g) /\ Len(f) \in Nat
           /\ \A k \in 1 .. Len(s) : s[k] = IF k <= Len(f) THEN f[k] ELSE g[k - Len(f)]
  BY ConcatProperties

\* The first m elements of a sequence.
LEMMA FrontPart ==
    ASSUME NEW f \in Seq(Int), NEW m \in 0 .. Len(f), NEW s, s = SubSeq(f, 1, m)
    PROVE  /\ s \in Seq(Int) /\ Len(s) = m /\ m \in Nat
           /\ \A k \in 1 .. m : s[k] = f[k]
  <1>1. Len(f) \in Nat /\ \A k \in 1 .. Len(f) : f[k] \in Int
    OBVIOUS
  <1>2. m \in Nat /\ \A k \in 1 .. m : f[k] \in Int
    BY <1>1
  <1>3. /\ SubSeq(f, 1, m) \in Seq(Int)
        /\ Len(SubSeq(f, 1, m)) = IF 1 <= m THEN m - 1 + 1 ELSE 0
        /\ \A k \in 1 .. m - 1 + 1 : SubSeq(f, 1, m)[k] = f[1 + k - 1]
    BY <1>2, SubSeqProperties
  <1> QED BY <1>2, <1>3

\* The same, element by element.
LEMMA JoinedParts ==
    ASSUME NEW f \in Seq(Int), NEW g \in Seq(Int)
    PROVE  /\ f \o g \in Seq(Int) /\ Len(f \o g) = Len(f) + Len(g)
           /\ \A k \in 1 .. Len(f) : (f \o g)[k] = f[k]
           /\ \A k \in 1 .. Len(g) : (f \o g)[Len(f) + k] = g[k]
  BY ConcatProperties

LEMMA ThreeParts ==
    ASSUME NEW a \in Seq(Int), NEW f \in Seq(Int), NEW g \in Seq(Int)
    PROVE  /\ a \o f \o g \in Seq(Int)
           /\ Len(a \o f \o g) = (Len(a) + Len(f)) + Len(g)
           /\ \A k \in 1 .. Len(a) : (a \o f \o g)[k] = a[k]
           /\ \A k \in 1 .. Len(f) : (a \o f \o g)[Len(a) + k] = f[k]
           /\ \A k \in 1 .. Len(g) : (a \o f \o g)[(Len(a) + Len(f)) + k] = g[k]
  <1>1. /\ a \o f \in Seq(Int) /\ Len(a \o f) = Len(a) + Len(f)
        /\ \A k \in 1 .. Len(a) : (a \o f)[k] = a[k]
        /\ \A k \in 1 .. Len(f) : (a \o f)[Len(a) + k] = f[k]
    BY JoinedParts, Zenon
  <1>2. PICK h \in Seq(Int) : h = a \o f
    BY <1>1
  <1>3. /\ h \o g \in Seq(Int) /\ Len(h \o g) = Len(h) + Len(g)
        /\ \A k \in 1 .. Len(h) : (h \o g)[k] = h[k]
        /\ \A k \in 1 .. Len(g) : (h \o g)[Len(h) + k] = g[k]
    BY JoinedParts, Zenon
  <1>4. PICK s : s = h \o g
    OBVIOUS
  <1>5. /\ s \in Seq(Int) /\ Len(s) = Len(h) + Len(g)
        /\ \A k \in 1 .. Len(h) : s[k] = h[k]
        /\ \A k \in 1 .. Len(g) : s[Len(h) + k] = g[k]
    BY <1>3, <1>4, Zenon
  <1>6. /\ Len(h) = Len(a) + Len(f)
        /\ \A k \in 1 .. Len(a) : h[k] = a[k]
        /\ \A k \in 1 .. Len(f) : h[Len(a) + k] = f[k]
    BY <1>1, <1>2, Zenon
  <1>7. Len(a) \in Nat /\ Len(f) \in Nat /\ Len(g) \in Nat
    OBVIOUS
  <1>8. ASSUME NEW k \in 1 .. Len(a) PROVE s[k] = a[k]
    BY <1>5, <1>6, <1>7
  <1>9. ASSUME NEW k \in 1 .. Len(f) PROVE s[Len(a) + k] = f[k]
    <2>1. Len(a) + k \in 1 .. Len(h)
      BY <1>6, <1>7
    <2> QED BY <1>5, <1>6, <2>1, Zenon
  <1>10. ASSUME NEW k \in 1 .. Len(g) PROVE s[(Len(a) + Len(f)) + k] = g[k]
    BY <1>5, <1>6, Zenon
  <1>11. s = a \o f \o g
    BY <1>2, <1>4, Zenon
  <1>12. Len(s) = (Len(a) + Len(f)) + Len(g)
    BY <1>5, <1>6, Zenon
  <1> QED BY <1>5, <1>8, <1>9, <1>10, <1>11, <1>12, Zenon

\* The three calls of MD5Update: what does not fill the block, ...
LEMMA UpdateKeeps ==
    ASSUME NEW input \in Seq(Int), MD5Update(input), Md5Inv, count \in Nat,
           Len(input) < Block - (count % Block)
    PROVE  /\ blocks' = blocks /\ buffer' \in [1 .. Block -> Int]
           /\ \A j \in 1 .. (count % Block) : buffer'[j] = buffer[j]
           /\ \A j \in 1 .. Len(input) : buffer'[(count % Block) + j] = input[j]
  <1> DEFINE index == count % Block
  <1>1. Block \in Nat \ {0} /\ Len(input) \in Nat /\ index \in 0 .. Block - 1
    <2>1. Block \in Nat \ {0}
      BY BlockSize
    <2>2. (count % Block) \in 0 .. Block - 1
      BY <2>1, WholeTurns
    <2> QED BY <2>1, <2>2
  <1>2. /\ blocks' = blocks
        /\ buffer' = [k \in 1 .. Block |->
                         IF k \in index + 1 .. index + (Len(input) - 0)
                         THEN input[(k - index) + 0] ELSE buffer[k]]
    <2>1. ~(Len(input) >= Block - (count % Block))
      BY <1>1
    <2> QED BY <2>1, SMTT(60) DEF MD5Update
  <1> HIDE DEF index
  <1>3. buffer' \in [1 .. Block -> Int]
    BY <1>1, <1>2 DEF Md5Inv
  <1>4. \A j \in 1 .. index : buffer'[j] = buffer[j]
    BY <1>1, <1>2
  <1>5. \A j \in 1 .. Len(input) : buffer'[index + j] = input[j]
    <2> TAKE j \in 1 .. Len(input)
    <2>1. index + j \in 1 .. Block /\ index + j \in index + 1 .. index + (Len(input) - 0)
          /\ ((index + j) - index) + 0 = j
      BY <1>1 DEF index
    <2> QED BY <1>2, <2>1
  <1> QED BY <1>2, <1>3, <1>4, <1>5 DEF index

\* ... and what fills it: i bytes of the input are compressed, after what the
\* buffer held, and the rest begins the buffer.
LEMMA UpdateFills ==
    ASSUME NEW input \in Seq(Int), MD5Update(input), Md5Inv, count \in Nat,
           Len(input) >= Block - (count % Block)
    PROVE  \E i \in 1 .. Len(input) :
           /\ i = Len(input) - ((Len(input) - (Block - (count % Block))) % Block)
           /\ blocks' \in Seq(Int) /\ Len(blocks') = Len(blocks) + (count % Block) + i
           /\ \A k \in 1 .. Len(blocks) : blocks'[k] = blocks[k]
           /\ \A k \in 1 .. (count % Block) : blocks'[Len(blocks) + k] = buffer[k]
           /\ \A k \in 1 .. i : blocks'[Len(blocks) + (count % Block) + k] = input[k]
           /\ buffer' \in [1 .. Block -> Int]
           /\ \A j \in 1 .. Len(input) - i : buffer'[j] = input[i + j]
  <1> DEFINE index == count % Block
             partlen == Block - index
             more == Len(input) - partlen
             i == partlen + Block * (more \div Block)
  <1>1. /\ Block \in Nat \ {0} /\ Len(input) \in Nat /\ index \in 0 .. Block - 1
        /\ partlen \in 1 .. Block /\ more \in Nat
    <2>1. Block \in Nat \ {0} /\ Len(input) \in Nat /\ index \in 0 .. Block - 1
      <3>1. Block \in Nat \ {0}
        BY BlockSize
      <3>2. (count % Block) \in 0 .. Block - 1
        BY <3>1, WholeTurns
      <3> QED BY <3>1, <3>2
    <2> QED BY <2>1
  <1>2. /\ (more % Block) \in 0 .. Block - 1 /\ (more % Block) <= more
        /\ Block * (more \div Block) = more - (more % Block)
    BY <1>1, WholeTurns
  <1>3. i = Len(input) - (more % Block) /\ i \in 1 .. Len(input)
    <2> DEFINE turns == Block * (more \div Block)
               rest  == more % Block
    <2>1. rest \in Nat /\ rest <= more /\ turns = more - rest
      BY <1>2
    <2>2. i = partlen + turns
      OBVIOUS
    <2> HIDE DEF turns, rest, i
    <2>3. i = Len(input) - rest /\ i \in 1 .. Len(input)
      BY <1>1, <2>1, <2>2
    <2> QED BY <2>3 DEF rest
  <1>4. /\ blocks' = blocks \o SubSeq(buffer, 1, index) \o SubSeq(input, 1, i)
        /\ buffer' \in [1 .. Block -> {input[j] : j \in 1 .. Len(input)}
                                          \cup {buffer[j] : j \in 1 .. Block}]
        /\ \A j \in 1 .. Len(input) - i : j <= Block => buffer'[j] = input[i + j]
    <2> DEFINE ii   == IF Len(input) >= partlen
                       THEN partlen + Block * ((Len(input) - partlen) \div Block) ELSE 0
               from == IF Len(input) >= partlen THEN 0 ELSE index
    <2>1. /\ blocks' = IF ii = 0 THEN blocks
                       ELSE blocks \o SubSeq(buffer, 1, index) \o SubSeq(input, 1, ii)
          /\ buffer' = [k \in 1 .. Block |->
                          IF k \in from + 1 .. from + (Len(input) - ii)
                          THEN input[(k - from) + ii] ELSE buffer[k]]
      BY Zenon DEF MD5Update
    <2>2. Len(input) >= partlen
      BY <1>1
    <2>3. ii = i /\ from = 0
      BY <2>2, Zenon
    <2> HIDE DEF ii, from
    <2>4. i # 0
      BY <1>3
    <2> HIDE DEF i, index, partlen, more
    <2>5. blocks' = blocks \o SubSeq(buffer, 1, index) \o SubSeq(input, 1, i)
      BY <2>1, <2>3, <2>4, Zenon
    <2>6. ASSUME NEW k \in 1 .. Block
          PROVE  buffer'[k] = IF k \in 0 + 1 .. 0 + (Len(input) - i)
                              THEN input[(k - 0) + i] ELSE buffer[k]
      BY <2>1, <2>3, Zenon
    <2>7. ASSUME NEW k \in 1 .. Block
          PROVE  buffer'[k] \in {input[j] : j \in 1 .. Len(input)}
                                  \cup {buffer[j] : j \in 1 .. Block}
      <3>1. CASE k \in 0 + 1 .. 0 + (Len(input) - i)
        <4>1. (k - 0) + i \in 1 .. Len(input)
          BY <1>1, <1>3, <3>1
        <4> QED BY <2>6, <3>1, <4>1
      <3> QED BY <2>6, <3>1
    <2>8. ASSUME NEW j \in 1 .. Len(input) - i, j <= Block
          PROVE  buffer'[j] = input[i + j]
      <3>1. j \in 1 .. Block /\ j \in 0 + 1 .. 0 + (Len(input) - i) /\ (j - 0) + i = i + j
        BY <1>1, <1>3, <2>8
      <3> QED BY <2>6, <3>1, Zenon
    <2>9. buffer' \in [1 .. Block -> {input[j] : j \in 1 .. Len(input)}
                                       \cup {buffer[j] : j \in 1 .. Block}]
      BY <2>1, <2>7
    <2> QED BY <2>5, <2>8, <2>9
  <1>5. buffer \in Seq(Int) /\ Len(buffer) = Block
    BY <1>1 DEF Md5Inv
  <1> HIDE DEF i, more, partlen, index
  <1>6. /\ blocks' \in Seq(Int) /\ Len(blocks') = Len(blocks) + index + i
        /\ \A k \in 1 .. Len(blocks) : blocks'[k] = blocks[k]
        /\ \A k \in 1 .. index : blocks'[Len(blocks) + k] = buffer[k]
        /\ \A k \in 1 .. i : blocks'[Len(blocks) + index + k] = input[k]
    <2>1. index \in 0 .. Len(buffer) /\ i \in 0 .. Len(input) /\ blocks \in Seq(Int)
      BY <1>1, <1>3, <1>5 DEF Md5Inv
    <2>2. PICK F : F = SubSeq(buffer, 1, index)
      OBVIOUS
    <2>3. PICK G : G = SubSeq(input, 1, i)
      OBVIOUS
    <2>4. F \in Seq(Int) /\ Len(F) = index /\ \A k \in 1 .. index : F[k] = buffer[k]
      BY <1>5, <2>1, <2>2, FrontPart
    <2>5. G \in Seq(Int) /\ Len(G) = i /\ \A k \in 1 .. i : G[k] = input[k]
      BY <2>1, <2>3, FrontPart
    <2>6. blocks' = blocks \o F \o G
      BY <1>4, <2>2, <2>3
    <2>7. /\ blocks \o F \o G \in Seq(Int)
          /\ Len(blocks \o F \o G) = (Len(blocks) + Len(F)) + Len(G)
          /\ \A k \in 1 .. Len(blocks) : (blocks \o F \o G)[k] = blocks[k]
          /\ \A k \in 1 .. Len(F) : (blocks \o F \o G)[Len(blocks) + k] = F[k]
          /\ \A k \in 1 .. Len(G) : (blocks \o F \o G)[(Len(blocks) + Len(F)) + k] = G[k]
      <3> HIDE <1>4, <1>5, <2>6
      <3> QED BY ONLY <2>1, <2>4, <2>5, ThreeParts
    <2> QED BY <2>4, <2>5, <2>6, <2>7, Zenon
  <1>7. Len(input) - i \in 0 .. Block - 1
    BY <1>1, <1>2, <1>3
  <1>8. \A j \in 1 .. Len(input) - i : buffer'[j] = input[i + j]
    BY <1>1, <1>4, <1>7
  <1>9. buffer' \in [1 .. Block -> Int]
    <2>1. {input[j] : j \in 1 .. Len(input)} \cup {buffer[j] : j \in 1 .. Block} \subseteq Int
      BY DEF Md5Inv
    <2> QED BY <1>4, <2>1
  <1>10. i = Len(input) - ((Len(input) - (Block - (count % Block))) % Block)
    BY <1>3 DEF more, partlen, index
  <1> QED BY <1>3, <1>6, <1>8, <1>9, <1>10 DEF index

LEMMA Turns ==
    ASSUME NEW b \in Nat \ {0}, NEW x \in Nat
    PROVE  /\ x < b => (x % b) = x
           /\ x >= b => ((x - b) % b) = (x % b)
           /\ ((x + b) % b) = (x % b)
           /\ \A y \in 0 .. b - 1 : (((x - (x % b)) + y) % b) = y
           /\ \A y \in 0 .. b - 1 : ((((x - (x % b)) + b) + y) % b) = y
<1> DEFINE q == x \div b
           r == x % b
<1>1. r \in 0 .. b - 1 /\ b * q = x - r /\ q \in Nat
  BY WholeTurns
<1> HIDE DEF q, r
<1>2. x = (b * q) + r
  BY <1>1
<1>3. /\ (b * q) - b = b * (q - 1) /\ (b * q) + b = b * (q + 1)
      /\ q - 1 \in Int /\ q + 1 \in Int /\ q \in Int /\ b * q \in Int
  BY <1>1
<1>4. x < b => (x % b) = x
  OBVIOUS
<1>5. ASSUME x >= b PROVE ((x - b) % b) = r
  <2>1. x - b = (b * (q - 1)) + r
    BY <1>1, <1>2, <1>3
  <2> QED BY <1>1, <1>3, <2>1, TurnRest
<1>6. ((x + b) % b) = r
  <2>1. x + b = (b * (q + 1)) + r
    BY <1>1, <1>2, <1>3
  <2> QED BY <1>1, <1>3, <2>1, TurnRest
<1>7. ASSUME NEW y \in 0 .. b - 1
      PROVE  (((x - r) + y) % b) = y /\ ((((x - r) + b) + y) % b) = y
  <2>1. (x - r) + y = (b * q) + y
    BY <1>1
  <2>2. ((x - r) + b) + y = (b * (q + 1)) + y
    BY <1>1, <1>3
  <2> QED BY <1>3, <2>1, <2>2, TurnRest
<1> QED BY <1>4, <1>5, <1>6, <1>7 DEF r

LEMMA TextStep == ASSUME Md5Inv, MD5Text PROVE Md5Inv'
<1> DEFINE input == [k \in 1 .. length |-> k]
<1>1. /\ length \in Nat /\ length' = length /\ step' = "padding" /\ count = 0
      /\ blocks = <<>> /\ Block \in Nat \ {0}
  BY BlockSize DEF Md5Inv, MD5Text, Then
<1>2. input \in Seq(Int) /\ Len(input) = length /\ \A k \in 1 .. length : input[k] = k
  BY <1>1
<1>3. MD5Update(input) /\ count' = length
  <2>1. MD5Update(input)
    BY DEF MD5Text
  <2>2. count' = count + Len(input)
    BY <2>1 DEF MD5Update
  <2> QED BY <1>1, <1>2, <2>1, <2>2
<1> HIDE DEF input
<1>4. (count % Block) = 0 /\ count \in Nat
  BY <1>1
<1>5. (length % Block) \in 0 .. Block - 1 /\ (length % Block) <= length
  BY <1>1, WholeTurns
<1>6. /\ blocks' \in Seq(Int) /\ buffer' \in [1 .. Block -> Int]
      /\ Len(blocks') = length - (length % Block)
      /\ \A k \in 1 .. Len(blocks') : blocks'[k] = k
      /\ \A j \in 1 .. (length % Block) : buffer'[j] = Len(blocks') + j
  <2>1. CASE length < Block
    <3>1. /\ blocks' = blocks /\ buffer' \in [1 .. Block -> Int]
          /\ \A j \in 1 .. Len(input) : buffer'[(count % Block) + j] = input[j]
      <4>1. Len(input) < Block - (count % Block)
        BY <1>1, <1>2, <1>4, <2>1
      <4> QED BY <1>2, <1>3, <1>4, <4>1, UpdateKeeps, Zenon
    <3>2. (length % Block) = length
      BY <1>1, <2>1, Turns
    <3>3. \A j \in 1 .. length : 0 + j = j
      BY <1>1
    <3> QED BY <1>1, <1>2, <1>4, <3>1, <3>2, <3>3
  <2>2. CASE length >= Block
    <3>1. PICK i \in 1 .. Len(input) :
           /\ i = Len(input) - ((Len(input) - (Block - (count % Block))) % Block)
           /\ blocks' \in Seq(Int) /\ Len(blocks') = Len(blocks) + (count % Block) + i
           /\ \A k \in 1 .. i : blocks'[Len(blocks) + (count % Block) + k] = input[k]
           /\ buffer' \in [1 .. Block -> Int]
           /\ \A j \in 1 .. Len(input) - i : buffer'[j] = input[i + j]
      <4>1. Len(input) >= Block - (count % Block)
        BY <1>1, <1>2, <1>4, <2>2
      <4> QED BY <1>2, <1>3, <1>4, <4>1, UpdateFills, Zenon
    <3>2. Len(blocks) = 0 /\ Block - (count % Block) = Block
      BY <1>1, <1>4
    <3>3. i = length - (length % Block)
      BY <1>1, <1>2, <2>2, <3>1, <3>2, Turns
    <3>4. Len(blocks') = i
      BY <1>1, <1>4, <3>1, <3>2
    <3>5. \A k \in 1 .. i : blocks'[k] = k
      BY <1>1, <1>2, <1>4, <3>1, <3>2
    <3>6. \A j \in 1 .. length % Block : buffer'[j] = i + j
      BY <1>1, <1>2, <1>5, <3>1, <3>3
    <3> QED BY <3>1, <3>3, <3>4, <3>5, <3>6
  <2> QED BY <1>1, <2>1, <2>2
<1>7. \A k \in 1 .. Len(blocks') : blocks'[k] = Padded(k)
  BY <1>1, <1>5, <1>6 DEF Padded
<1>8. \A j \in 1 .. (length % Block) : buffer'[j] = Padded(Len(blocks') + j)
  BY <1>1, <1>5, <1>6 DEF Padded
<1>9. \A k : Padded(k)' = Padded(k)
  BY <1>1 DEF Padded
<1> QED BY <1>1, <1>3, <1>6, <1>7, <1>8, <1>9 DEF Md5Inv, Holds

LEMMA PadStep == ASSUME Md5Inv, MD5Pad PROVE Md5Inv'
<1> DEFINE r == count % Block
           padlen == PadLen(r)
           input == PADDING(padlen)
<1>1. /\ length \in Nat /\ length' = length /\ step' = "bits" /\ count = length
      /\ Len(blocks) = length - r /\ Holds(r) /\ blocks \in Seq(Int)
      /\ Block \in Nat \ {0} /\ LenBytes \in Nat
      /\ Room \in 1 .. Block - 1 /\ Room + LenBytes = Block
  BY BlockSize DEF Md5Inv, MD5Pad, Then
<1>2. r \in 0 .. Block - 1 /\ r <= length
  BY <1>1, WholeTurns
<1>3. /\ r < Room => padlen = Room - r
      /\ r >= Room => padlen = (Block + Room) - r
  BY <1>1, <1>2 DEF PadLen, Room
<1>4. MD5Update(input)
  BY DEF MD5Pad
<1> HIDE DEF padlen
<1>5. padlen \in Nat /\ padlen >= 1
  BY <1>1, <1>2, <1>3
<1>6. /\ input \in Seq(Int) /\ Len(input) = padlen
      /\ \A k \in 1 .. padlen : input[k] = IF k = 1 THEN Hex80 ELSE Zero
  BY <1>5 DEF PADDING, Hex80, Zero
<1>7. count' = length + padlen
  <2>1. count' = count + Len(input)
    BY <1>4 DEF MD5Update
  <2> QED BY <1>1, <1>6, <2>1
<1> HIDE DEF input
<1> HIDE DEF r
<1>8. count \in Nat /\ r = count % Block
  BY <1>1 DEF r
<1>9. \A k \in 1 .. padlen : input[k] = Padded(length + k)
  BY <1>1, <1>5, <1>6 DEF Padded
<1>10. \A k : Padded(k)' = Padded(k)
  BY <1>1 DEF Padded
<1>11. CASE r < Room
  <2>1. padlen < Block - (count % Block) /\ padlen = Room - r
    BY <1>1, <1>2, <1>3, <1>8, <1>11
  <2>2. /\ blocks' = blocks /\ buffer' \in [1 .. Block -> Int]
        /\ \A j \in 1 .. r : buffer'[j] = buffer[j]
        /\ \A j \in 1 .. padlen : buffer'[r + j] = input[j]
    BY <1>4, <1>6, <1>8, <2>1, UpdateKeeps
  <2>3. \A j \in 1 .. Room : buffer'[j] = Padded(Len(blocks) + j)
    <3> TAKE j \in 1 .. Room
    <3>1. CASE j <= r
      BY <1>1, <1>2, <2>2, <3>1 DEF Holds
    <3>2. CASE j > r
      <4>1. j - r \in 1 .. padlen /\ r + (j - r) = j /\ length + (j - r) = Len(blocks) + j
        BY <1>1, <1>2, <2>1, <3>2
      <4>2. buffer'[r + (j - r)] = input[j - r] /\ input[j - r] = Padded(length + (j - r))
        BY <1>9, <2>2, <4>1
      <4> QED BY <4>1, <4>2
    <3> QED BY <1>1, <1>2, <3>1, <3>2
  <2>4. count' = (length - r) + Room /\ count' \in Nat
    BY <1>1, <1>2, <1>7, <2>1
  <2>5. (count' % Block) = Room /\ (Len(blocks) % Block) = 0
    <3>1. Room \in 0 .. Block - 1 /\ 0 \in 0 .. Block - 1 /\ (length - r) + 0 = length - r
      BY <1>1, <1>2
    <3>2. \A y \in 0 .. Block - 1 : (((length - (length % Block)) + y) % Block) = y
      BY <1>1, Turns
    <3> QED BY <1>1, <1>8, <2>4, <3>1, <3>2
  <2>6. (Len(blocks) + Room) - (length + 1) \in 0 .. Block - 1
    BY <1>1, <1>2, <1>11
  <2>7. \A k \in 1 .. Len(blocks) : blocks[k] = Padded(k)
    BY <1>1 DEF Holds
  <2>8. Holds(Room)'
    BY <1>10, <2>2, <2>3, <2>7 DEF Holds, Room
  <2>9. /\ blocks' \in Seq(Int) /\ (Len(blocks') % Block) = 0
        /\ (Len(blocks') + Room) - (length + 1) \in 0 .. Block - 1
    BY <1>1, <2>2, <2>5, <2>6, Zenon
  <2> QED BY <1>1, <2>2, <2>4, <2>5, <2>8, <2>9 DEF Md5Inv, Room
<1>12. CASE r >= Room
  <2>1. padlen >= Block - (count % Block) /\ padlen = (Block + Room) - r
    BY <1>1, <1>2, <1>3, <1>8, <1>12
  <2>2. PICK i \in 1 .. Len(input) :
           /\ i = Len(input) - ((Len(input) - (Block - (count % Block))) % Block)
           /\ blocks' \in Seq(Int) /\ Len(blocks') = Len(blocks) + (count % Block) + i
           /\ \A k \in 1 .. Len(blocks) : blocks'[k] = blocks[k]
           /\ \A k \in 1 .. (count % Block) : blocks'[Len(blocks) + k] = buffer[k]
           /\ \A k \in 1 .. i : blocks'[Len(blocks) + (count % Block) + k] = input[k]
           /\ buffer' \in [1 .. Block -> Int]
           /\ \A j \in 1 .. Len(input) - i : buffer'[j] = input[i + j]
    BY <1>4, <1>6, <1>8, <2>1, UpdateFills
  <2>3. i = Block - r
    <3>1. (Len(input) - (Block - (count % Block))) = Room
      BY <1>1, <1>2, <1>6, <1>8, <2>1
    <3>2. (Room % Block) = Room
      <4>1. Room \in Nat /\ Room < Block /\ Block \in Nat \ {0}
        BY <1>1
      <4> QED BY ONLY <4>1, Turns
    <3>3. i = padlen - Room
      BY <1>6, <2>2, <3>1, <3>2, Zenon
    <3> QED BY <1>1, <1>2, <2>1, <3>3
  <2>4. Len(blocks') = (length - r) + Block
    <3>1. Len(blocks') = ((length - r) + r) + (Block - r)
      BY <1>1, <1>8, <2>2, <2>3, Zenon
    <3> QED BY <1>1, <1>2, <3>1
  <2>5. \A k \in 1 .. Len(blocks') : blocks'[k] = Padded(k)
    <3> TAKE k \in 1 .. Len(blocks')
    <3>1. CASE k <= Len(blocks)
      <4>1. k \in 1 .. Len(blocks)
        BY <1>1, <1>2, <2>4, <3>1
      <4> QED BY <1>1, <2>2, <4>1 DEF Holds
    <3>2. CASE k > Len(blocks) /\ k <= length
      <4>1. k - Len(blocks) \in 1 .. r /\ Len(blocks) + (k - Len(blocks)) = k
        BY <1>1, <1>2, <3>2
      <4>2. blocks'[Len(blocks) + (k - Len(blocks))] = buffer[k - Len(blocks)]
        BY <1>8, <2>2, <4>1
      <4>3. buffer[k - Len(blocks)] = Padded(Len(blocks) + (k - Len(blocks)))
        BY <1>1, <4>1 DEF Holds
      <4> QED BY <4>1, <4>2, <4>3
    <3>3. CASE k > length
      <4>1. k \in Nat /\ k <= (length - r) + Block
        BY <1>1, <1>2, <2>4
      <4>2. k - length \in 1 .. Block - r /\ k - length \in 1 .. padlen
        BY <1>1, <1>2, <2>1, <3>3, <4>1
      <4>3. ((length - r) + r) + (k - length) = k /\ length + (k - length) = k
        BY <1>1, <1>2, <4>1
      <4>4. blocks'[((length - r) + r) + (k - length)] = input[k - length]
        BY <1>1, <1>8, <2>2, <2>3, <4>2, Zenon
      <4> QED BY <1>9, <4>2, <4>3, <4>4, Zenon
    <3> QED BY <1>1, <1>2, <2>4, <3>1, <3>2, <3>3
  <2>6. \A j \in 1 .. Room : buffer'[j] = Padded(Len(blocks') + j)
    <3> TAKE j \in 1 .. Room
    <3>1. /\ j \in 1 .. Len(input) - i /\ i + j \in 1 .. padlen
          /\ length + (i + j) = Len(blocks') + j
      BY <1>1, <1>2, <1>6, <2>1, <2>3, <2>4
    <3> QED BY <1>9, <2>2, <3>1
  <2>7. count' = ((length - r) + Block) + Room /\ count' \in Nat
    BY <1>1, <1>2, <1>7, <2>1
  <2>8. (count' % Block) = Room /\ (Len(blocks') % Block) = 0
    <3>1. Room \in 0 .. Block - 1 /\ 0 \in 0 .. Block - 1
          /\ ((length - r) + Block) + 0 = (length - r) + Block
      BY <1>1, <1>2
    <3>2. \A y \in 0 .. Block - 1 : ((((length - (length % Block)) + Block) + y) % Block) = y
      BY <1>1, Turns
    <3> QED BY <1>1, <1>8, <2>4, <2>7, <3>1, <3>2
  <2>9. (Len(blocks') + Room) - (length + 1) \in 0 .. Block - 1
    BY <1>1, <1>2, <1>12, <2>4
  <2> QED BY <1>1, <1>10, <2>2, <2>5, <2>6, <2>7, <2>8, <2>9 DEF Md5Inv, Holds, Room
<1> QED BY <1>1, <1>2, <1>11, <1>12

LEMMA BitsStep == ASSUME Md5Inv, MD5Bits PROVE Md5Inv'
<1> DEFINE input == [k \in 1 .. LenBytes |-> Length]
<1>1. /\ length \in Nat /\ length' = length /\ step' = "done" /\ count \in Nat
      /\ (count % Block) = Room /\ (Len(blocks) % Block) = 0 /\ blocks \in Seq(Int)
      /\ (Len(blocks) + Room) - (length + 1) \in 0 .. Block - 1
      /\ Holds(Room)
      /\ Block \in Nat \ {0} /\ LenBytes \in 1 .. Block - 1
      /\ Room \in 1 .. Block - 1 /\ Room + LenBytes = Block
  BY BlockSize DEF Md5Inv, MD5Bits, Then
<1>2. /\ input \in Seq(Int) /\ Len(input) = LenBytes
      /\ \A k \in 1 .. LenBytes : input[k] = Length
  BY <1>1 DEF Length
<1>3. MD5Update(input)
  BY DEF MD5Bits
<1> HIDE DEF input
<1>4. PICK i \in 1 .. Len(input) :
         /\ i = Len(input) - ((Len(input) - (Block - (count % Block))) % Block)
         /\ blocks' \in Seq(Int) /\ Len(blocks') = Len(blocks) + (count % Block) + i
         /\ \A k \in 1 .. Len(blocks) : blocks'[k] = blocks[k]
         /\ \A k \in 1 .. (count % Block) : blocks'[Len(blocks) + k] = buffer[k]
         /\ \A k \in 1 .. i : blocks'[Len(blocks) + (count % Block) + k] = input[k]
         /\ buffer' \in [1 .. Block -> Int]
  <2>1. Len(input) >= Block - (count % Block)
    BY <1>1, <1>2
  <2> QED BY <1>1, <1>2, <1>3, <2>1, UpdateFills
<1>5. i = LenBytes
  <2>1. Len(input) - (Block - (count % Block)) = 0 /\ (0 % Block) = 0
    BY <1>1, <1>2
  <2>2. i = LenBytes - 0
    BY <1>2, <1>4, <2>1, Zenon
  <2> QED BY <1>1, <2>2
<1>6. PICK L \in Nat : L = Len(blocks)
  BY <1>1
<1>7. Len(blocks') = (L + Room) + LenBytes /\ (Len(blocks') % Block) = 0
  <2>1. Len(blocks') = (L + Room) + LenBytes /\ (L + Room) + LenBytes = L + Block
    <3>1. Len(blocks') = (L + Room) + LenBytes
      BY <1>1, <1>4, <1>5, <1>6, Zenon
    <3> QED BY <1>1, <3>1
  <2>2. ((L + Block) % Block) = 0
    BY <1>1, <1>6, Turns
  <2> QED BY <2>1, <2>2
<1>8. ASSUME NEW k \in 1 .. (L + Room) PROVE blocks'[k] = Padded(k)
  <2>1. CASE k <= L
    <3>1. k \in 1 .. Len(blocks)
      BY <1>1, <1>6, <2>1
    <3> QED BY <1>1, <1>4, <3>1 DEF Holds
  <2>2. CASE k > L
    <3>1. k - L \in 1 .. Room /\ L + (k - L) = k
      BY <1>1, <2>2
    <3>2. blocks'[L + (k - L)] = buffer[k - L]
      BY <1>1, <1>4, <1>6, <3>1
    <3>3. buffer[k - L] = Padded(L + (k - L))
      BY <1>1, <1>6, <3>1 DEF Holds
    <3> QED BY <3>1, <3>2, <3>3
  <2> QED BY <1>1, <2>1, <2>2
<1>9. ASSUME NEW k \in 1 .. ((L + Room) + LenBytes), k > L + Room
      PROVE  blocks'[k] = Length
  <2>1. k - (L + Room) \in 1 .. LenBytes /\ L + Room + (k - (L + Room)) = k
    BY <1>1, <1>9
  <2> QED BY <1>1, <1>2, <1>4, <1>5, <1>6, <2>1
<1>10. BlocksAreTheMessage'
  <2> DEFINE zeros == ((Len(blocks') - length) - 1) - LenBytes
  <2>1. zeros = (L + Room) - (length + 1) /\ zeros \in 0 .. Block - 1
    <3>1. zeros = ((((L + Room) + LenBytes) - length) - 1) - LenBytes
      BY <1>7, Zenon
    <3>2. (L + Room) - (length + 1) \in 0 .. Block - 1
      BY <1>1, <1>6, Zenon
    <3> HIDE DEF zeros
    <3> QED BY <1>1, <3>1, <3>2
  <2> HIDE DEF zeros
  <2>2. ASSUME NEW k \in 1 .. Len(blocks')
        PROVE  blocks'[k] = IF k <= length THEN k
                            ELSE IF k = length + 1 THEN Hex80
                            ELSE IF k <= (length + 1) + zeros THEN Zero ELSE Length
    <3>1. (length + 1) + zeros = L + Room
      BY <1>1, <2>1
    <3>2. CASE k <= L + Room
      BY <1>7, <1>8, <3>1, <3>2 DEF Padded
    <3>3. CASE k > L + Room
      <4>1. k \in 1 .. (L + Room) + LenBytes
        BY <1>7
      <4>2. ~(k <= length) /\ k # length + 1 /\ ~(k <= L + Room)
        BY <1>1, <2>1, <3>1, <3>3, <4>1
      <4> QED BY <1>9, <3>1, <3>3, <4>1, <4>2
    <3> QED BY <1>1, <3>2, <3>3
  <2> QED BY <1>1, <1>7, <2>1, <2>2 DEF BlocksAreTheMessage, zeros
<1> QED BY <1>1, <1>4, <1>10 DEF Md5Inv

LEMMA Md5Inductive ==
    /\ Md5Init => Md5Inv
    /\ Md5Inv /\ [Md5Next]_md5Vars => Md5Inv'
<1>1. Md5Init => Md5Inv
  BY Md5Assumption, BlockSize DEF Md5Init, Md5Inv, Stale
<1>2. ASSUME Md5Inv, [Md5Next]_md5Vars PROVE Md5Inv'
  <2>1. CASE UNCHANGED md5Vars
    BY <1>2, <2>1 DEF md5Vars, Md5Inv, Holds, Padded, BlocksAreTheMessage, Room
  <2>2. CASE Md5Next
    BY <1>2, <2>2, TextStep, PadStep, BitsStep DEF Md5Next
  <2> QED BY <1>2, <2>1, <2>2
<1> QED BY <1>1, <1>2

\* For every message, every size of a block and of the length: what is compressed
\* is the message, its padding and its length, in whole blocks.
THEOREM DigestIsOfTheMessage == Md5Spec => []BlocksAreTheMessage
<1>1. Md5Inv => BlocksAreTheMessage
  BY DEF Md5Inv, BlocksAreTheMessage
<1> QED BY <1>1, Md5Inductive, PTL DEF Md5Spec

-----------------------------------------------------------------------------
(* The texts of the notices: where the characters are                       *)

Longs(t, k) == {j \in 1 .. k - 1 : Len(t[j]) = 2}

LEMMA BytesAndUnits ==
    /\ \A x \in GBBytes : x \in Nat /\ 1 <= x /\ x <= 254
    /\ \A x \in Nat : 1 <= x /\ x <= 127 => x \in CodeUnits
<1>1. ASSUME NEW x \in GBBytes PROVE x \in Nat /\ 1 <= x /\ x <= 254
  BY DEF GBBytes
<1>2. ASSUME NEW x \in Nat, 1 <= x, x <= 127 PROVE x \in CodeUnits
  BY <1>2 DEF CodeUnits
<1> QED BY <1>1, <1>2

LEMMA CharacterIs ==
    ASSUME NEW c \in Alphabet
    PROVE  /\ c \in Seq(GBBytes) /\ Len(c) \in {1, 2}
           /\ Len(c) = 1 => c[1] <= 127
           /\ Len(c) = 2 => /\ c[1] >= 129 /\ c[2] >= 64
                            /\ __twobyte_to_ucs[TwoByteIndex(c[1], c[2])] \in CodeUnits
  BY AlphabetAssumption

LEMMA LongsAreFinite ==
    ASSUME NEW t, NEW k \in Nat
    PROVE  IsFiniteSet(Longs(t, k)) /\ Cardinality(Longs(t, k)) \in Nat
<1>1. Longs(t, k) \in SUBSET (1 .. k - 1)
  BY DEF Longs
<1>2. IsFiniteSet(1 .. k - 1)
  BY FS_Interval
<1> QED BY <1>1, <1>2, FS_Subset, FS_CardinalityType

LEMMA AtNext ==
    ASSUME NEW t \in Seq(Alphabet), NEW k \in 1 .. Len(t)
    PROVE  At(t, k) \in Nat \ {0} /\ At(t, k + 1) = At(t, k) + Len(t[k])
<1>1. At(t, k) = k + Cardinality(Longs(t, k)) /\ At(t, k + 1) = (k + 1) + Cardinality(Longs(t, k + 1))
  BY DEF At, Longs
<1>2. IsFiniteSet(Longs(t, k)) /\ Cardinality(Longs(t, k)) \in Nat
  BY LongsAreFinite
<1>3. t[k] \in Alphabet
  OBVIOUS
<1>0. Len(t[k]) \in {1, 2}
  BY <1>3, CharacterIs
<1>4. CASE Len(t[k]) = 1
  <2>1. Longs(t, k + 1) = Longs(t, k)
    <3>1. ASSUME NEW j \in 1 .. (k + 1) - 1, Len(t[j]) = 2 PROVE j \in 1 .. k - 1
      <4>1. ASSUME j = k PROVE FALSE
        <5>1. Len(t[k]) = 2
          BY <3>1, <4>1, Zenon
        <5> QED BY <1>4, <5>1
      <4> QED BY <4>1
    <3> QED BY <3>1 DEF Longs
  <2> QED BY <1>1, <1>2, <1>4, <2>1
<1>5. CASE Len(t[k]) = 2
  <2>1. Longs(t, k + 1) = Longs(t, k) \cup {k} /\ k \notin Longs(t, k)
    BY <1>5 DEF Longs
  <2>2. Cardinality(Longs(t, k + 1)) = Cardinality(Longs(t, k)) + 1
    BY <1>2, <2>1, FS_AddElement
  <2> QED BY <1>1, <1>2, <1>5, <2>2
<1> QED BY <1>0, <1>4, <1>5

LEMMA AtGrows ==
    ASSUME NEW t, NEW j \in Nat, NEW k \in Nat, j <= k
    PROVE  At(t, j) \in Nat /\ At(t, k) \in Nat /\ At(t, j) + (k - j) <= At(t, k)
<1>1. At(t, j) = j + Cardinality(Longs(t, j)) /\ At(t, k) = k + Cardinality(Longs(t, k))
  BY DEF At, Longs
<1>2. /\ IsFiniteSet(Longs(t, k)) /\ Cardinality(Longs(t, k)) \in Nat
      /\ Cardinality(Longs(t, j)) \in Nat
  BY LongsAreFinite
<1>3. Longs(t, j) \in SUBSET Longs(t, k)
  BY DEF Longs
<1>4. Cardinality(Longs(t, j)) <= Cardinality(Longs(t, k))
  BY <1>2, <1>3, FS_Subset
<1> HIDE DEF Longs
<1> QED BY <1>1, <1>2, <1>4

LEMMA BytesLength ==
    ASSUME NEW t \in Seq(Alphabet)
    PROVE  Len(BytesOf(t)) = At(t, Len(t) + 1) - 1 /\ Len(BytesOf(t)) \in Nat /\ Len(t) <= Len(BytesOf(t))
<1>1. At(t, 1) \in Nat /\ At(t, Len(t) + 1) \in Nat /\ At(t, 1) + ((Len(t) + 1) - 1) <= At(t, Len(t) + 1)
  BY AtGrows
<1>2. At(t, 1) >= 1
  <2>1. At(t, 1) = 1 + Cardinality(Longs(t, 1)) /\ Cardinality(Longs(t, 1)) \in Nat
    BY LongsAreFinite DEF At, Longs
  <2> QED BY <2>1
<1>3. PICK m : m = At(t, Len(t) + 1)
  OBVIOUS
<1>4. DOMAIN BytesOf(t) = 1 .. m - 1
  BY <1>3 DEF BytesOf
<1>5. m \in Nat /\ m >= 1 /\ Len(t) <= m - 1
  BY <1>1, <1>2, <1>3
<1>6. Len(BytesOf(t)) = m - 1
  BY ONLY <1>4, <1>5
<1> QED BY <1>3, <1>5, <1>6

LEMMA BytesOfACharacter ==
    ASSUME NEW t \in Seq(Alphabet), NEW k \in 1 .. Len(t), NEW i \in 1 .. Len(t[k])
    PROVE  BytesOf(t)[At(t, k) + (i - 1)] = t[k][i]
<1> DEFINE p == At(t, k) + (i - 1)
           Inside(j) == At(t, j) <= p /\ p < At(t, j + 1)
           c == CHOOSE j \in 1 .. Len(t) : Inside(j)
<1>0. t[k] \in Alphabet
  OBVIOUS
<1>1. At(t, k) \in Nat \ {0} /\ At(t, k + 1) = At(t, k) + Len(t[k]) /\ Len(t[k]) \in Nat
  BY <1>0, AtNext, CharacterIs
<1>2. Inside(k) /\ p \in Nat \ {0}
  BY <1>1
<1>3. ASSUME NEW j \in 1 .. Len(t), Inside(j) PROVE j = k
  <2>1. CASE j < k
    <3>1. At(t, j + 1) \in Nat /\ At(t, j + 1) + (k - (j + 1)) <= At(t, k)
      BY <2>1, AtGrows
    <3> QED BY <1>1, <1>2, <1>3, <2>1, <3>1
  <2>2. CASE j > k
    <3>1. At(t, j) \in Nat /\ At(t, k + 1) + (j - (k + 1)) <= At(t, j)
      BY <2>2, AtGrows
    <3> QED BY <1>1, <1>2, <1>3, <2>2, <3>1
  <2> QED BY <2>1, <2>2
<1>4. c = k
  <2> HIDE DEF Inside
  <2> QED BY <1>2, <1>3
<1>5. p \in 1 .. At(t, Len(t) + 1) - 1
  <2>1. At(t, Len(t) + 1) \in Nat /\ At(t, k + 1) + ((Len(t) + 1) - (k + 1)) <= At(t, Len(t) + 1)
    BY AtGrows
  <2> QED BY <1>1, <1>2, <2>1
<1>6. BytesOf(t)[p] = t[c][(p - At(t, c)) + 1]
  BY <1>5 DEF BytesOf
<1>7. (p - At(t, k)) + 1 = i
  BY <1>1
<1> QED BY <1>4, <1>6, <1>7

-----------------------------------------------------------------------------
(* The bytes of a unit, and what a reader makes of them                     *)

\* The bytes of one unit as its reader expects them.
LEMMA UnitBytes ==
    ASSUME NEW l \in CodeUnits
    PROVE  /\ utf8_wctomb(l) \in Seq(Nat) /\ Len(utf8_wctomb(l)) \in 1 .. 3
           /\ utf8_wctomb(l)[1] \notin 128 .. 191
           /\ SizeOf(utf8_wctomb(l)[1]) = Len(utf8_wctomb(l))
           /\ \A i \in 2 .. Len(utf8_wctomb(l)) : utf8_wctomb(l)[i] \in 128 .. 191
           /\ Value(utf8_wctomb(l), 1) = l
<1> DEFINE nc == RowOf(l)
           b == utf8_wctomb(l)
           tail(k) == 128 + ((l \div shift[(nc - k) + 1]) % 64)
           Reads == /\ b[1] \notin 128 .. 191 /\ b[1] \in Nat /\ SizeOf(b[1]) = nc
                    /\ nc >= 2 => b[2] \in 128 .. 191
                    /\ nc = 3 => b[3] \in 128 .. 191
                    /\ Value(b, 1) = l
<1>0. l \in Nat /\ 1 <= l /\ l <= 65535
  BY DEF CodeUnits
<1>1. nc \in 1 .. 3 /\ nc \in Nat
  BY DEF RowOf
<1>2. b = [k \in 1 .. nc |-> IF k = 1 THEN cval[nc] + (l \div shift[nc]) ELSE tail(k)]
  BY Zenon DEF utf8_wctomb
<1>3. lmask[1] = 127 /\ lmask[2] = 2047
  BY DEF lmask
<1>4. /\ DOMAIN b = 1 .. nc
      /\ b[1] = cval[nc] + (l \div shift[nc])
      /\ nc >= 2 => b[2] = tail(2)
      /\ nc = 3 => b[3] = tail(3)
  <2> HIDE DEF b, tail
  <2> QED BY <1>1, <1>2
<1>5. shift[1] = 1 /\ shift[2] = 64 /\ shift[3] = 4096 /\ cval[1] = 0 /\ cval[2] = 192 /\ cval[3] = 224
  BY DEF shift, cval
<1> HIDE DEF b
<1>6. ASSUME nc = 1 PROVE Reads
  <2>1. l <= 127
    BY <1>3, <1>6 DEF RowOf
  <2>2. b[1] = l
    <3>1. b[1] = 0 + (l \div 1)
      BY <1>4, <1>5, <1>6
    <3> QED BY <1>0, <3>1
  <2>3. SizeOf(b[1]) = 1
    BY <1>0, <2>1, <2>2 DEF SizeOf
  <2>4. Value(b, 1) = l
    BY <2>2, <2>3 DEF Value
  <2> QED BY <1>0, <1>6, <2>1, <2>2, <2>3, <2>4
<1>7. ASSUME nc = 2 PROVE Reads
  <2>1. l > 127 /\ l <= 2047
    BY <1>0, <1>3, <1>7 DEF RowOf
  <2>2. b[1] = 192 + (l \div 64)
    BY <1>4, <1>5, <1>7
  <2>3. b[2] = 128 + ((l \div 1) % 64)
    <3>1. tail(2) = 128 + ((l \div shift[1]) % 64)
      BY <1>7
    <3> QED BY <1>4, <1>5, <1>7, <3>1
  <2>4. b[1] \in 194 .. 223 /\ b[2] \in 128 .. 191
    BY <1>0, <2>1, <2>2, <2>3
  <2>5. SizeOf(b[1]) = 2
    BY <2>4 DEF SizeOf
  <2>6. Value(b, 1) = l
    <3>1. Value(b, 1) = ((b[1] % 32) * 64) + Low(b[1 + 1])
      BY <2>5 DEF Value
    <3>2. Low(b[1 + 1]) = b[2] % 64
      BY DEF Low
    <3>3. ((192 + (l \div 64)) % 32) * 64 + ((128 + ((l \div 1) % 64)) % 64) = l
      BY <1>0, <2>1
    <3> QED BY <2>2, <2>3, <3>1, <3>2, <3>3
  <2> QED BY <1>7, <2>4, <2>5, <2>6
<1>8. ASSUME nc = 3 PROVE Reads
  <2>1. l > 2047
    BY <1>0, <1>3, <1>8 DEF RowOf
  <2>2. b[1] = 224 + (l \div 4096)
    BY <1>4, <1>5, <1>8
  <2>3. b[2] = 128 + ((l \div 64) % 64) /\ b[3] = 128 + ((l \div 1) % 64)
    <3>1. tail(2) = 128 + ((l \div shift[2]) % 64) /\ tail(3) = 128 + ((l \div shift[1]) % 64)
      BY <1>8
    <3> QED BY <1>4, <1>5, <1>8, <3>1
  <2>4. b[1] \in 224 .. 239 /\ b[2] \in 128 .. 191 /\ b[3] \in 128 .. 191
    BY <1>0, <2>1, <2>2, <2>3
  <2>5. SizeOf(b[1]) = 3
    BY <2>4 DEF SizeOf
  <2>6. Value(b, 1) = l
    <3>1. Value(b, 1) = (((b[1] % 16) * 4096) + (Low(b[1 + 1]) * 64)) + Low(b[1 + 2])
      BY <2>5 DEF Value
    <3>2. Low(b[1 + 1]) = b[2] % 64 /\ Low(b[1 + 2]) = b[3] % 64
      BY DEF Low
    <3>3. ((((224 + (l \div 4096)) % 16) * 4096) + (((128 + ((l \div 64) % 64)) % 64) * 64))
             + ((128 + ((l \div 1) % 64)) % 64) = l
      BY <1>0
    <3> QED BY <2>2, <2>3, <3>1, <3>2, <3>3
  <2> QED BY <1>8, <2>4, <2>5, <2>6
<1>9. Reads
  BY <1>1, <1>6, <1>7, <1>8
<1>10. b \in Seq(Nat)
  <2>1. \A k \in 1 .. nc : b[k] \in Nat
    BY <1>1, <1>9
  <2>2. b \in [1 .. nc -> Nat]
    BY <1>2, <1>4, <2>1
  <2> QED BY <1>1, <2>2, SeqDef
<1>11. Len(b) = nc
  BY <1>1, <1>4, <1>10
<1>12. ASSUME NEW i \in 2 .. Len(b) PROVE b[i] \in 128 .. 191
  <2>1. (i = 2 /\ nc >= 2) \/ (i = 3 /\ nc = 3)
    BY <1>1, <1>11, <1>12
  <2> QED BY <1>9, <2>1
<1> QED BY <1>1, <1>9, <1>10, <1>11, <1>12 DEF b

\* t is s with b after it.
Joins(t, s, b) ==
    /\ Len(t) = Len(s) + Len(b)
    /\ \A i \in 1 .. Len(s) : t[i] = s[i]
    /\ \A i \in 1 .. Len(b) : t[Len(s) + i] = b[i]

LEMMA ConcatJoins ==
    ASSUME NEW s \in Seq(Nat), NEW b \in Seq(Nat)
    PROVE  s \o b \in Seq(Nat) /\ Joins(s \o b, s, b)
  BY DEF Joins

\* What the reader finds when a unit is written after s: one character more.
LEMMA OneMoreLead ==
    ASSUME NEW s \in Seq(Nat), NEW b \in Seq(Nat), NEW t \in Seq(Nat), Joins(t, s, b),
           Len(b) \in 1 .. 3, b[1] \notin 128 .. 191,
           \A i \in 2 .. Len(b) : b[i] \in 128 .. 191
    PROVE  Leads(t) = Leads(s) \cup {Len(s) + 1}
<1>1. PICK n \in Nat : n = Len(s)
  OBVIOUS
<1>2. PICK m \in 1 .. 3 : m = Len(b)
  OBVIOUS
<1>3. /\ m >= 1 /\ Len(t) = n + m
      /\ \A i \in 1 .. n : t[i] = s[i]
      /\ \A i \in 1 .. m : t[n + i] = b[i]
  <2>1. m >= 1
    OBVIOUS
  <2>2. /\ Len(t) = n + m
        /\ \A i \in 1 .. n : t[i] = s[i]
        /\ \A i \in 1 .. m : t[n + i] = b[i]
    BY <1>1, <1>2, Zenon DEF Joins
  <2> QED BY <2>1, <2>2
<1>4. Leads(t) = {p \in 1 .. n + m : t[p] \notin 128 .. 191}
  BY <1>3 DEF Leads
<1>5. Leads(s) = {p \in 1 .. n : s[p] \notin 128 .. 191}
  BY <1>1 DEF Leads
<1>6. ASSUME NEW p \in 1 .. n + m, p > n + 1 PROVE t[p] \in 128 .. 191
  <2>1. PICK i \in Int : i = p - n
    OBVIOUS
  <2>2. i \in 2 .. m /\ i \in 1 .. m /\ p = n + i
    BY <1>6, <2>1
  <2>3. t[p] = b[i]
    BY <1>3, <2>2
  <2>4. b[i] \in 128 .. 191
    BY <1>2, <2>2
  <2> QED BY <2>3, <2>4
<1>7. t[n + 1] = b[1]
  BY <1>3
<1>8. ASSUME NEW p \in 1 .. n + m
      PROVE  t[p] \notin 128 .. 191 <=> p \in Leads(s) \/ p = n + 1
  <2>1. CASE p \in 1 .. n
    <3>1. t[p] = s[p]
      BY <1>3, <2>1
    <3>2. p # n + 1
      BY <2>1
    <3> QED BY <1>5, <2>1, <3>1, <3>2
  <2>2. CASE p = n + 1
    BY <1>7, <2>2
  <2>3. CASE p > n + 1
    <3>1. p \notin Leads(s) /\ p # n + 1
      BY <1>5, <2>3
    <3> QED BY <1>6, <2>3, <3>1
  <2> QED BY <2>1, <2>2, <2>3
<1>9. Leads(s) \cup {n + 1} \subseteq 1 .. n + m
  <2>1. Leads(s) \subseteq 1 .. n
    BY <1>5
  <2>2. 1 .. n \subseteq 1 .. n + m /\ n + 1 \in 1 .. n + m
    BY <1>3
  <2> QED BY <2>1, <2>2
<1>10. Leads(t) = Leads(s) \cup {n + 1}
  BY <1>4, <1>8, <1>9
<1> QED BY <1>1, <1>10

LEMMA LeadsAreFinite ==
    ASSUME NEW s \in Seq(Nat)
    PROVE  /\ Leads(s) \subseteq 1 .. Len(s) /\ IsFiniteSet(Leads(s))
           /\ Cardinality(Leads(s)) \in Nat
           /\ \A p \in Leads(s) : Rank(s, p) \in 1 .. Cardinality(Leads(s))
<1>1. Leads(s) \in SUBSET (1 .. Len(s))
  BY DEF Leads
<1>2. IsFiniteSet(Leads(s)) /\ Cardinality(Leads(s)) \in Nat
  <2>1. IsFiniteSet(1 .. Len(s))
    BY FS_Interval
  <2> QED BY <1>1, <2>1, FS_Subset, FS_CardinalityType
<1>3. ASSUME NEW p \in Leads(s) PROVE Rank(s, p) \in 1 .. Cardinality(Leads(s))
  <2>1. PICK Q : Q = {q \in Leads(s) : q <= p}
    OBVIOUS
  <2>2. Q \in SUBSET Leads(s) /\ p \in Q
    <3>1. p \in Int
      BY <1>1, <1>3
    <3> QED BY <2>1, <3>1
  <2>3. IsFiniteSet(Q) /\ Cardinality(Q) \in Nat /\ Cardinality(Q) <= Cardinality(Leads(s))
    BY <1>2, <2>2, FS_Subset, FS_CardinalityType
  <2>4. Cardinality(Q) # 0
    BY <2>2, <2>3, FS_EmptySet
  <2>5. Rank(s, p) = Cardinality(Q)
    BY <2>1 DEF Rank
  <2> QED BY <1>2, <2>3, <2>4, <2>5
<1> QED BY <1>1, <1>2, <1>3

\* The characters before keep their ranks, and the new one is the last.
LEMMA RanksWithOneMore ==
    ASSUME NEW s \in Seq(Nat), NEW t \in Seq(Nat), Leads(t) = Leads(s) \cup {Len(s) + 1}
    PROVE  /\ Cardinality(Leads(t)) = Cardinality(Leads(s)) + 1
           /\ \A p \in Leads(s) : Rank(t, p) = Rank(s, p)
           /\ Rank(t, Len(s) + 1) = Cardinality(Leads(s)) + 1
<1>1. PICK n \in Nat : n = Len(s)
  OBVIOUS
<1>2. Leads(s) \subseteq 1 .. n /\ IsFiniteSet(Leads(s)) /\ Leads(t) = Leads(s) \cup {n + 1}
  BY <1>1, LeadsAreFinite
<1>3. Cardinality(Leads(t)) = Cardinality(Leads(s)) + 1
  <2>1. n + 1 \notin Leads(s)
    BY <1>2
  <2> QED BY <1>2, <2>1, FS_AddElement
<1>4. ASSUME NEW p \in Leads(s) PROVE Rank(t, p) = Rank(s, p)
  <2>1. ~(n + 1 <= p)
    BY <1>2, <1>4
  <2>2. {q \in Leads(t) : q <= p} = {q \in Leads(s) : q <= p}
    BY <1>2, <2>1
  <2> QED BY <2>2 DEF Rank
<1>5. Rank(t, n + 1) = Cardinality(Leads(t))
  <2>1. \A q \in Leads(t) : q <= n + 1
    BY <1>2
  <2>2. {q \in Leads(t) : q <= n + 1} = Leads(t)
    BY <2>1
  <2> QED BY <2>2 DEF Rank
<1> QED BY <1>1, <1>3, <1>4, <1>5

\* A character is read alike in every longer string.
LEMMA ReadsTheSame ==
    ASSUME NEW s \in Seq(Nat), NEW b \in Seq(Nat), NEW t \in Seq(Nat), Joins(t, s, b),
           Len(b) \in 1 .. 3, SizeOf(b[1]) = Len(b)
    PROVE  /\ Value(t, Len(s) + 1) = Value(b, 1) /\ t[Len(s) + 1] = b[1]
           /\ \A p \in 1 .. Len(s) :
                 p + SizeOf(s[p]) <= Len(s) + 1 => Value(t, p) = Value(s, p) /\ t[p] = s[p]
<1>1. PICK n \in Nat : n = Len(s)
  OBVIOUS
<1>2. PICK m \in 1 .. 3 : m = Len(b)
  OBVIOUS
<1>3. /\ \A i \in 1 .. n : t[i] = s[i]
      /\ \A i \in 1 .. m : t[n + i] = b[i]
      /\ SizeOf(b[1]) = m
  BY <1>1, <1>2 DEF Joins
<1>4. /\ t[n + 1] = b[1]
      /\ m >= 2 => t[(n + 1) + 1] = b[1 + 1]
      /\ m >= 3 => t[(n + 1) + 2] = b[1 + 2]
  <2>0. m \in 1 .. 3 /\ \A i \in 1 .. m : t[n + i] = b[i]
    BY <1>2, <1>3
  <2>1. t[n + 1] = b[1]
    <3>1. 1 \in 1 .. m
      BY ONLY <2>0
    <3> QED BY ONLY <2>0, <3>1
  <2>2. ASSUME m >= 2 PROVE t[n + 2] = b[2]
    <3>1. 2 \in 1 .. m
      BY ONLY <2>0, <2>2
    <3> QED BY ONLY <2>0, <3>1
  <2>3. ASSUME m >= 3 PROVE t[n + 3] = b[3]
    <3>1. 3 \in 1 .. m
      BY ONLY <2>0, <2>3
    <3> QED BY ONLY <2>0, <3>1
  <2>4. (n + 1) + 1 = n + 2 /\ (n + 1) + 2 = n + 3 /\ 1 + 1 = 2 /\ 1 + 2 = 3
    OBVIOUS
  <2> QED BY ONLY <2>1, <2>2, <2>3, <2>4
<1>5. Value(t, n + 1) = Value(b, 1)
  <2>1. CASE m = 1
    BY <1>3, <1>4, <2>1 DEF Value
  <2>2. CASE m = 2
    BY <1>3, <1>4, <2>2 DEF Value
  <2>3. CASE m = 3
    <3>1. t[n + 1] = b[1] /\ t[(n + 1) + 1] = b[1 + 1] /\ t[(n + 1) + 2] = b[1 + 2]
      BY <1>4, <2>3
    <3>2. SizeOf(b[1]) = 3
      BY <1>3, <2>3
    <3> DEFINE three(x, y, z) == (((x % 16) * 4096) + (Low(y) * 64)) + Low(z)
    <3>3. Value(b, 1) = three(b[1], b[1 + 1], b[1 + 2])
      BY <3>2 DEF Value
    <3>4. SizeOf(t[n + 1]) = 3
      BY <3>1, <3>2, Zenon
    <3>5. Value(t, n + 1) = three(t[n + 1], t[(n + 1) + 1], t[(n + 1) + 2])
      BY <3>4 DEF Value
    <3> HIDE DEF three
    <3> QED BY <3>1, <3>3, <3>5, Zenon
  <2> QED BY <2>1, <2>2, <2>3
<1>6. ASSUME NEW p \in 1 .. n, p + SizeOf(s[p]) <= n + 1
      PROVE  Value(t, p) = Value(s, p) /\ t[p] = s[p]
  <2>1. t[p] = s[p]
    BY <1>3
  <2>2. PICK k \in 1 .. 3 : k = SizeOf(s[p])
    BY DEF SizeOf
  <2>3. p + k <= n + 1 /\ p \in Nat
    BY <1>6, <2>2
  <2>4. CASE k = 1
    BY <2>1, <2>2, <2>4 DEF Value
  <2>5. CASE k = 2
    <3>1. p + 1 \in 1 .. n
      BY <2>3, <2>5
    <3>2. t[p + 1] = s[p + 1]
      BY <1>3, <3>1
    <3> QED BY <2>1, <2>2, <2>5, <3>2 DEF Value
  <2>6. CASE k = 3
    <3>1. p + 1 \in 1 .. n /\ p + 2 \in 1 .. n
      BY <2>3, <2>6
    <3>2. t[p + 1] = s[p + 1] /\ t[p + 2] = s[p + 2]
      BY <1>3, <3>1
    <3> QED BY <2>1, <2>2, <2>6, <3>2 DEF Value
  <2> QED BY <2>1, <2>2, <2>4, <2>5, <2>6
<1> QED BY <1>1, <1>5, <1>4, <1>6

\* What has been converted so far is what the source has: the units are those of
\* the characters passed, and no byte is written before the last character is read.
UnitsInv ==
    /\ text \in Seq(Alphabet) /\ Len(text) >= 1 /\ mbcs = BytesOf(text)
    /\ unis \in Seq(CodeUnits) /\ Len(unis) <= Len(text)
    /\ pos = At(text, Len(unis) + 1)
    /\ \A k \in 1 .. Len(unis) : unis[k] = char2uni(text[k], 1).uni
    /\ done \in 0 .. Len(unis) /\ (done > 0 => Len(unis) = Len(text))

\* The character that begins at p ends where the next begins, and is its unit.
IsRead(s, p) ==
    /\ p + SizeOf(s[p]) \in Leads(s) \cup {Len(s) + 1}
    /\ \A i \in p + 1 .. p + SizeOf(s[p]) - 1 : i \notin Leads(s)
    /\ Value(s, p) = unis[Rank(s, p)]

\* The reader finds the units written so far, and what is left of maxlen is enough
\* for three bytes of every other one.
WrittenInv ==
    /\ utf8 \in Seq(Nat) /\ Len(utf8) <= 3 * done
    /\ maxlen \in Int /\ maxlen >= 4 * Len(mbcs) - 3 * done
    /\ Cardinality(Leads(utf8)) = done
    /\ Len(utf8) >= 1 => utf8[1] \notin 128 .. 191
    /\ \A p \in Leads(utf8) : IsRead(utf8, p)

TextInv == UnitsInv /\ WrittenInv

\* Every character has been read exactly when the position is past the text.
LEMMA ReadToTheEnd ==
    ASSUME UnitsInv
    PROVE  /\ Len(mbcs) \in Nat /\ Len(text) <= Len(mbcs) /\ pos \in Nat
           /\ pos > Len(mbcs) <=> Len(unis) = Len(text)
<1>1. /\ Len(mbcs) = At(text, Len(text) + 1) - 1 /\ Len(mbcs) \in Nat /\ Len(text) <= Len(mbcs)
  BY BytesLength DEF UnitsInv
<1>2. /\ text \in Seq(Alphabet) /\ Len(unis) \in Nat /\ Len(unis) <= Len(text)
      /\ pos = At(text, Len(unis) + 1)
  BY DEF UnitsInv
<1>3. PICK n \in Nat : n = Len(text)
  BY <1>2
<1>4. PICK u \in Nat : u = Len(unis)
  BY <1>2
<1>5. /\ At(text, u + 1) \in Nat /\ At(text, n + 1) \in Nat
      /\ At(text, u + 1) + ((n + 1) - (u + 1)) <= At(text, n + 1)
  BY <1>2, <1>3, <1>4, AtGrows
<1>6. Len(mbcs) = At(text, n + 1) - 1 /\ pos = At(text, u + 1) /\ u <= n
  BY <1>1, <1>2, <1>3, <1>4
<1>7. pos > Len(mbcs) <=> u = n
  BY <1>1, <1>5, <1>6
<1> QED BY <1>1, <1>3, <1>4, <1>5, <1>6, <1>7

\* char2uni reads the character that begins at the position.
LEMMA ReadsOneCharacter ==
    ASSUME UnitsInv, pos <= Len(mbcs)
    PROVE  /\ Len(unis) + 1 \in 1 .. Len(text)
           /\ char2uni(mbcs, pos).n = Len(text[Len(unis) + 1])
           /\ char2uni(mbcs, pos).uni = char2uni(text[Len(unis) + 1], 1).uni
           /\ char2uni(mbcs, pos).uni \in CodeUnits
<1>1. /\ text \in Seq(Alphabet) /\ Len(unis) \in Nat /\ Len(unis) <= Len(text)
      /\ pos = At(text, Len(unis) + 1) /\ mbcs = BytesOf(text)
  BY DEF UnitsInv
<1>2. Len(unis) # Len(text)
  BY ReadToTheEnd
<1>3. PICK k \in 1 .. Len(text) : k = Len(unis) + 1
  BY <1>1, <1>2
<1>4. PICK c \in Alphabet : c = text[k]
  BY <1>1
<1>5. /\ c \in Seq(GBBytes) /\ Len(c) \in {1, 2}
      /\ Len(c) = 1 => c[1] <= 127
      /\ Len(c) = 2 => /\ c[1] >= 129 /\ c[2] >= 64
                       /\ __twobyte_to_ucs[TwoByteIndex(c[1], c[2])] \in CodeUnits
  BY CharacterIs
<1>6. \A i \in 1 .. Len(text[k]) : BytesOf(text)[At(text, k) + (i - 1)] = text[k][i]
  BY <1>1, BytesOfACharacter
<1>7. \A i \in 1 .. Len(c) : mbcs[pos + (i - 1)] = c[i]
  BY <1>1, <1>3, <1>4, <1>6, Zenon
<1>8. pos \in Nat
  BY ReadToTheEnd
<1>9. mbcs[pos] = c[1] /\ (Len(c) = 2 => mbcs[pos + 1] = c[1 + 1])
  <2>1. mbcs[pos + (1 - 1)] = c[1]
    BY <1>5, <1>7
  <2>2. Len(c) = 2 => mbcs[pos + (2 - 1)] = c[2]
    BY <1>5, <1>7
  <2>3. pos + (1 - 1) = pos /\ pos + (2 - 1) = pos + 1 /\ 1 + 1 = 2
    BY <1>8
  <2> QED BY ONLY <2>1, <2>2, <2>3
<1>10. CASE Len(c) = 1
  <2>1. c[1] <= 127 /\ c[1] \in GBBytes
    BY <1>5, <1>10
  <2>2. c[1] \in CodeUnits
    BY <2>1, BytesAndUnits
  <2>3. char2uni(c, 1) = [n |-> 1, uni |-> c[1]]
    BY <2>1 DEF char2uni
  <2>4. char2uni(mbcs, pos) = [n |-> 1, uni |-> c[1]]
    BY <1>9, <2>1 DEF char2uni
  <2> QED BY <1>3, <1>4, <1>10, <2>2, <2>3, <2>4
<1>11. CASE Len(c) = 2
  <2>1. c[1] >= 129 /\ c[1] \in GBBytes
    <3>1. 1 \in 1 .. Len(c)
      BY <1>11
    <3>2. c[1] \in GBBytes
      BY <1>5, <3>1
    <3> QED BY <1>5, <1>11, <3>2
  <2>2. ~(c[1] <= 127)
    BY <2>1, BytesAndUnits
  <2>3. char2uni(c, 1) = [n |-> 2, uni |-> __twobyte_to_ucs[TwoByteIndex(c[1], c[1 + 1])]]
    BY <2>2, Zenon DEF char2uni
  <2>4. char2uni(mbcs, pos) = [n |-> 2, uni |-> __twobyte_to_ucs[TwoByteIndex(c[1], c[1 + 1])]]
    <3>1. ~(mbcs[pos] <= 127)
      BY <1>9, <2>2, Zenon
    <3>2. char2uni(mbcs, pos) = [n |-> 2, uni |-> __twobyte_to_ucs[TwoByteIndex(mbcs[pos], mbcs[pos + 1])]]
      BY <3>1, Zenon DEF char2uni
    <3> QED BY <1>9, <1>11, <3>2, Zenon
  <2>5. __twobyte_to_ucs[TwoByteIndex(c[1], c[1 + 1])] \in CodeUnits
    <3>1. 1 + 1 = 2
      OBVIOUS
    <3> QED BY <1>5, <1>11, <3>1, Zenon
  <2>6. char2uni(c, 1).uni = char2uni(mbcs, pos).uni /\ char2uni(mbcs, pos).n = 2
    BY <2>3, <2>4
  <2>7. char2uni(mbcs, pos).uni \in CodeUnits
    BY <2>4, <2>5
  <2> QED BY <1>3, <1>4, <1>11, <2>6, <2>7
<1> QED BY <1>5, <1>10, <1>11

LEMMA TextInitially == TextInit => TextInv
<1> SUFFICES ASSUME TextInit PROVE TextInv
  OBVIOUS
<1>1. text \in Seq(Alphabet) /\ Len(text) >= 1
  <2>1. PICK n \in 1 .. MaxChars : text \in [1 .. n -> Alphabet]
    BY DEF TextInit
  <2>2. n \in Nat /\ n >= 1
    BY TextAssumption
  <2>3. text \in Seq(Alphabet)
    BY <2>1, <2>2, SeqDef
  <2>4. DOMAIN text = 1 .. n
    BY <2>1
  <2>5. Len(text) = n
    BY ONLY <2>2, <2>3, <2>4
  <2> QED BY <2>2, <2>3, <2>5
<1>2. UnitsInv
  <2>1. At(text, 1) = 1
    <3>1. {j \in 1 .. 1 - 1 : Len(text[j]) = 2} = {}
      OBVIOUS
    <3> QED BY <3>1, FS_EmptySet DEF At
  <2>2. unis = <<>> /\ Len(unis) = 0 /\ pos = 1 /\ mbcs = BytesOf(text) /\ done = 0 /\ unis \in Seq(CodeUnits)
    BY DEF TextInit
  <2> QED BY <1>1, <2>1, <2>2 DEF UnitsInv
<1>3. WrittenInv
  <2>1. utf8 = <<>> /\ utf8 \in Seq(Nat) /\ Len(utf8) = 0 /\ done = 0 /\ maxlen = 4 * Len(mbcs)
    BY DEF TextInit, iOutputLen
  <2>2. Len(mbcs) \in Nat
    BY <1>2, ReadToTheEnd
  <2>3. Leads(utf8) = {}
    BY <2>1 DEF Leads
  <2>4. Cardinality(Leads(utf8)) = 0
    BY <2>3, FS_EmptySet
  <2> QED BY <2>1, <2>2, <2>3, <2>4 DEF WrittenInv
<1> QED BY <1>2, <1>3 DEF TextInv

\* Reading a character: nothing is written yet.
LEMMA UnitStep == ASSUME TextInv, ToUnit PROVE TextInv'
<1>1. UnitsInv /\ WrittenInv
  BY DEF TextInv
<1>2. PICK u \in Nat : u = Len(unis)
  BY <1>1 DEF UnitsInv
<1>3. PICK c : c = char2uni(mbcs, pos)
  OBVIOUS
<1>4. /\ pos <= Len(mbcs) /\ pos' = pos + c.n /\ unis' = Append(unis, c.uni)
      /\ text' = text /\ mbcs' = mbcs /\ done' = done /\ utf8' = utf8 /\ maxlen' = maxlen
  BY <1>3 DEF ToUnit
<1>5. /\ u + 1 \in 1 .. Len(text) /\ c.n = Len(text[u + 1])
      /\ c.uni = char2uni(text[u + 1], 1).uni /\ c.uni \in CodeUnits
  BY <1>1, <1>2, <1>3, <1>4, ReadsOneCharacter
<1>6. /\ text \in Seq(Alphabet) /\ unis \in Seq(CodeUnits) /\ u <= Len(text)
      /\ pos = At(text, u + 1) /\ done \in 0 .. u /\ (done > 0 => u = Len(text))
      /\ \A k \in 1 .. u : unis[k] = char2uni(text[k], 1).uni
  BY <1>1, <1>2, Zenon DEF UnitsInv
<1>7. done = 0
  BY <1>5, <1>6
<1>8. /\ unis' \in Seq(CodeUnits) /\ Len(unis') = u + 1
      /\ \A k \in 1 .. u : unis'[k] = unis[k]
      /\ unis'[u + 1] = c.uni
  <2>1. /\ Append(unis, c.uni) \in Seq(CodeUnits) /\ Len(Append(unis, c.uni)) = Len(unis) + 1
        /\ \A k \in 1 .. Len(unis) : Append(unis, c.uni)[k] = unis[k]
        /\ Append(unis, c.uni)[Len(unis) + 1] = c.uni
    BY <1>5, <1>6, AppendProperties
  <2> QED BY <1>2, <1>4, <2>1, Zenon
<1>9. pos' = At(text', Len(unis') + 1)
  <2>1. At(text, (u + 1) + 1) = At(text, u + 1) + Len(text[u + 1])
    BY <1>5, <1>6, AtNext
  <2> QED BY <1>4, <1>5, <1>6, <1>8, <2>1
<1>10. ASSUME NEW k \in 1 .. u + 1 PROVE unis'[k] = char2uni(text[k], 1).uni
  <2>1. CASE k \in 1 .. u
    BY <1>6, <1>8, <2>1
  <2>2. CASE k = u + 1
    BY <1>5, <1>8, <2>2
  <2> QED BY <2>1, <2>2
<1>11. UnitsInv'
  <2>1. (u + 1) <= Len(text) /\ Len(text) >= 1 /\ done \in 0 .. u + 1
    BY <1>5, <1>7
  <2>2. mbcs = BytesOf(text)
    BY <1>1 DEF UnitsInv
  <2>4. \A k \in 1 .. Len(unis') : unis'[k] = char2uni(text'[k], 1).uni
    BY <1>4, <1>8, <1>10, Zenon
  <2>5. done' \in 0 .. Len(unis') /\ (done' > 0 => Len(unis') = Len(text'))
    BY <1>4, <1>7, <1>8, <2>1
  <2>6. text' \in Seq(Alphabet) /\ Len(text') >= 1 /\ mbcs' = BytesOf(text') /\ Len(unis') <= Len(text')
    BY <1>4, <1>6, <1>8, <2>1, <2>2
  <2> QED BY <1>8, <1>9, <2>4, <2>5, <2>6 DEF UnitsInv
<1>12. WrittenInv'
  <2>1. utf8 \in Seq(Nat) /\ Cardinality(Leads(utf8)) = 0
    BY <1>1, <1>7 DEF WrittenInv
  <2>2. Leads(utf8) = {}
    BY <2>1, LeadsAreFinite, FS_EmptySet
  <2>3. Leads(utf8') = {}
    BY <1>4, <2>2
  <2> QED BY <1>1, <1>4, <2>3 DEF WrittenInv
<1> QED BY <1>11, <1>12 DEF TextInv

\* A unit never needs more than what is left of maxlen.
LEMMA RoomIsLeft ==
    ASSUME TextInv, pos > Len(mbcs), done < Len(unis)
    PROVE  unis[done + 1] \in CodeUnits /\ Len(utf8_wctomb(unis[done + 1])) <= maxlen /\ maxlen >= 4
<1>1. UnitsInv /\ WrittenInv
  BY DEF TextInv
<1>2. PICK n \in Nat : n = Len(text)
  BY <1>1 DEF UnitsInv
<1>3. PICK m \in Nat : m = Len(mbcs)
  BY <1>1, ReadToTheEnd
<1>4. n <= m /\ Len(unis) = n /\ n >= 1 /\ unis \in Seq(CodeUnits) /\ done \in 0 .. n
  BY <1>1, <1>2, <1>3, ReadToTheEnd DEF UnitsInv
<1>5. maxlen \in Int /\ maxlen >= 4 * m - 3 * done
  BY <1>1, <1>3 DEF WrittenInv
<1>6. done + 1 \in 1 .. Len(unis) /\ done \in Nat /\ done < n
  BY <1>4
<1>7. maxlen >= 4
  BY <1>2, <1>3, <1>4, <1>5, <1>6
<1>8. unis[done + 1] \in CodeUnits
  BY <1>4, <1>6
<1>9. PICK w \in 1 .. 3 : w = Len(utf8_wctomb(unis[done + 1]))
  BY <1>8, UnitBytes
<1>10. w <= maxlen
  BY <1>5, <1>7
<1> QED BY <1>7, <1>8, <1>9, <1>10

\* Writing a unit: the reader finds one character more, and that unit.
LEMMA ByteStep == ASSUME TextInv, ToBytes PROVE TextInv'
<1>1. UnitsInv /\ WrittenInv
  BY DEF TextInv
<1>2. PICK b : b = utf8_wctomb(unis[done + 1])
  OBVIOUS
<1>3. pos > Len(mbcs) /\ done < Len(unis)
  BY DEF ToBytes
<1>4. unis[done + 1] \in CodeUnits /\ Len(b) <= maxlen /\ maxlen >= 4
  BY <1>2, <1>3, RoomIsLeft
<1>5. /\ b \in Seq(Nat) /\ Len(b) \in 1 .. 3
      /\ b[1] \notin 128 .. 191 /\ SizeOf(b[1]) = Len(b)
      /\ \A i \in 2 .. Len(b) : b[i] \in 128 .. 191
      /\ Value(b, 1) = unis[done + 1]
  BY <1>2, <1>4, UnitBytes, Zenon
<1>6. /\ utf8' = utf8 \o b /\ done' = done + 1
      /\ text' = text /\ mbcs' = mbcs /\ pos' = pos /\ unis' = unis
      /\ maxlen' = maxlen \/ maxlen' = maxlen - Len(b)
  <2>1. /\ utf8' = IF Len(b) = 1 \/ Len(b) <= maxlen THEN utf8 \o b ELSE utf8
        /\ maxlen' = CASE Len(b) = 1 -> maxlen
                     [] Len(b) > 1 /\ (Len(b) = 1 \/ Len(b) <= maxlen) -> maxlen - Len(b)
                     [] OTHER -> maxlen - 1
    BY <1>2, Zenon DEF ToBytes
  <2>2. maxlen' = maxlen \/ maxlen' = maxlen - Len(b)
    <3>1. CASE Len(b) = 1
      BY <2>1, <3>1
    <3>2. CASE Len(b) > 1
      BY <1>4, <2>1, <3>2
    <3>3. Len(b) = 1 \/ Len(b) > 1
      <4>1. PICK k \in 1 .. 3 : k = Len(b)
        BY <1>5
      <4>2. k = 1 \/ k > 1
        OBVIOUS
      <4> QED BY <4>1, <4>2
    <3> QED BY <3>1, <3>2, <3>3
  <2>3. utf8' = utf8 \o b
    BY <1>4, <2>1
  <2> QED BY <2>2, <2>3 DEF ToBytes
<1>7. done \in 0 .. Len(unis) /\ Len(unis) \in Nat /\ done \in Nat /\ Len(unis) = Len(text)
  BY <1>1, <1>3, ReadToTheEnd DEF UnitsInv
<1>8. UnitsInv'
  <2>1. done' \in 0 .. Len(unis)
    BY <1>3, <1>6, <1>7
  <2> QED BY <1>1, <1>6, <1>7, <2>1 DEF UnitsInv
<1>9. PICK t : t = utf8'
  OBVIOUS
<1>10. utf8 \in Seq(Nat) /\ Len(utf8) \in Nat
  BY <1>1 DEF WrittenInv
<1>11. t \in Seq(Nat) /\ Joins(t, utf8, b) /\ Len(t) = Len(utf8) + Len(b)
  <2>1. utf8 \o b \in Seq(Nat) /\ Joins(utf8 \o b, utf8, b)
    BY <1>5, <1>10, ConcatJoins
  <2> QED BY <1>6, <1>9, <2>1 DEF Joins
<1>12. Leads(t) = Leads(utf8) \cup {Len(utf8) + 1}
  BY <1>5, <1>10, <1>11, OneMoreLead
<1>13. /\ Cardinality(Leads(t)) = Cardinality(Leads(utf8)) + 1
       /\ \A p \in Leads(utf8) : Rank(t, p) = Rank(utf8, p)
       /\ Rank(t, Len(utf8) + 1) = Cardinality(Leads(utf8)) + 1
  BY <1>10, <1>11, <1>12, RanksWithOneMore
<1>14. /\ Value(t, Len(utf8) + 1) = Value(b, 1) /\ t[Len(utf8) + 1] = b[1]
       /\ \A p \in 1 .. Len(utf8) :
             p + SizeOf(utf8[p]) <= Len(utf8) + 1 => Value(t, p) = Value(utf8, p) /\ t[p] = utf8[p]
  BY <1>5, <1>10, <1>11, ReadsTheSame
<1>15. Cardinality(Leads(utf8)) = done /\ Leads(utf8) \subseteq 1 .. Len(utf8)
  BY <1>1, <1>10, LeadsAreFinite DEF WrittenInv
<1>16. ASSUME NEW p \in Leads(t) PROVE IsRead(t, p)
  <2>1. CASE p \in Leads(utf8)
    <3>1. IsRead(utf8, p) /\ p \in 1 .. Len(utf8)
      BY <1>1, <1>15, <2>1 DEF WrittenInv
    <3>2. PICK k \in 1 .. 3 : k = SizeOf(utf8[p])
      BY DEF SizeOf
    <3>3. /\ p + k \in Leads(utf8) \cup {Len(utf8) + 1}
          /\ \A i \in p + 1 .. (p + k) - 1 : i \notin Leads(utf8)
          /\ Value(utf8, p) = unis[Rank(utf8, p)]
      <4>1. (p + k) - 1 = p + k - 1
        BY <3>1
      <4> QED BY <3>1, <3>2, <4>1, Zenon DEF IsRead
    <3>4. p + k <= Len(utf8) + 1
      BY <1>10, <1>15, <3>1, <3>3
    <3>5. Value(t, p) = Value(utf8, p) /\ t[p] = utf8[p]
      BY <1>14, <3>1, <3>2, <3>4
    <3>6. Rank(t, p) = Rank(utf8, p)
      BY <1>13, <2>1
    <3>7. ASSUME NEW i \in p + 1 .. p + k - 1 PROVE i \notin Leads(t)
      <4>1. i \in p + 1 .. (p + k) - 1 /\ i # Len(utf8) + 1
        BY <1>10, <3>1, <3>4, <3>7
      <4> QED BY <1>12, <3>3, <4>1
    <3>8. p + k \in Leads(t) \cup {Len(t) + 1}
      BY <1>12, <3>3
    <3>9. SizeOf(t[p]) = k
      BY <3>2, <3>5, Zenon
    <3> QED BY <3>3, <3>5, <3>6, <3>7, <3>8, <3>9, Zenon DEF IsRead
  <2>2. CASE p = Len(utf8) + 1
    <3>1. PICK k \in 1 .. 3 : k = Len(b)
      BY <1>5
    <3>2. SizeOf(t[p]) = k
      BY <1>5, <1>14, <2>2, <3>1, Zenon
    <3>3. p + k = Len(t) + 1
      BY <1>10, <1>11, <2>2, <3>1
    <3>4. ASSUME NEW i \in p + 1 .. p + k - 1 PROVE i \notin Leads(t)
      BY <1>10, <1>12, <1>15, <2>2, <3>4
    <3>5. Value(t, p) = unis[done + 1]
      BY <1>5, <1>14, <2>2, Zenon
    <3>6. Rank(t, p) = done + 1
      BY <1>13, <1>15, <2>2, Zenon
    <3> QED BY <3>2, <3>3, <3>4, <3>5, <3>6, Zenon DEF IsRead
  <2> QED BY <1>12, <2>1, <2>2
<1>17. t[1] \notin 128 .. 191
  <2>1. CASE Len(utf8) = 0
    BY <1>5, <1>14, <2>1
  <2>2. CASE Len(utf8) >= 1
    <3>1. t[1] = utf8[1]
      BY <1>10, <1>11, <2>2 DEF Joins
    <3> QED BY <1>1, <2>2, <3>1 DEF WrittenInv
  <2> QED BY <1>10, <2>1, <2>2
<1>18. WrittenInv'
  <2>1. Len(utf8') <= 3 * done'
    <3>1. Len(utf8) <= 3 * done
      BY <1>1 DEF WrittenInv
    <3>2. PICK n \in Nat : n = Len(utf8)
      BY <1>10
    <3>3. PICK k \in 1 .. 3 : k = Len(b)
      BY <1>5
    <3>4. Len(utf8') = n + k
      BY <1>9, <1>11, <3>2, <3>3, Zenon
    <3>5. n <= 3 * done
      BY <3>1, <3>2
    <3>6. n + k <= 3 * (done + 1)
      BY <1>7, <3>5
    <3> QED BY <1>6, <3>4, <3>6, Zenon
  <2>2. maxlen' \in Int /\ maxlen' >= 4 * Len(mbcs') - 3 * done'
    <3>1. maxlen \in Int /\ maxlen >= 4 * Len(mbcs) - 3 * done /\ Len(mbcs) \in Nat
      BY <1>1, ReadToTheEnd DEF WrittenInv
    <3>2. PICK k \in 1 .. 3 : k = Len(b)
      BY <1>5
    <3>3. PICK m \in Nat : m = Len(mbcs)
      BY <3>1
    <3>4. maxlen' = maxlen \/ maxlen' = maxlen - k
      BY <1>6, <3>2, Zenon
    <3>5. maxlen >= 4 * m - 3 * done
      BY <3>1, <3>3, Zenon
    <3>6. maxlen' \in Int /\ maxlen' >= 4 * m - 3 * (done + 1)
      BY <1>7, <3>1, <3>4, <3>5
    <3> QED BY <1>6, <3>3, <3>6, Zenon
  <2>3. Cardinality(Leads(utf8')) = done'
    BY <1>6, <1>9, <1>13, <1>15
  <2>4. \A p \in Leads(utf8') : IsRead(utf8, p)'
    <3>1. \A p : IsRead(t, p) => IsRead(utf8, p)'
      BY <1>6, <1>9 DEF IsRead
    <3> QED BY <1>9, <1>16, <3>1
  <2>5. utf8' \in Seq(Nat) /\ utf8'[1] \notin 128 .. 191
    BY <1>9, <1>11, <1>17
  <2> QED BY <2>1, <2>2, <2>3, <2>4, <2>5 DEF WrittenInv
<1> QED BY <1>8, <1>18 DEF TextInv

LEMMA ConversionStep == TextInv /\ [TextNext]_textVars => TextInv'
<1> SUFFICES ASSUME TextInv, [TextNext]_textVars PROVE TextInv'
  OBVIOUS
<1>1. CASE ToUnit
  BY <1>1, UnitStep
<1>2. CASE ToBytes
  BY <1>2, ByteStep
<1>3. CASE UNCHANGED textVars
  <2>1. UnitsInv'
    BY <1>3 DEF TextInv, UnitsInv, textVars
  <2>2. WrittenInv'
    BY <1>3 DEF TextInv, WrittenInv, IsRead, textVars
  <2> QED BY <2>1, <2>2 DEF TextInv
<1> QED BY <1>1, <1>2, <1>3 DEF TextNext

LEMMA TextInductive == TextSpec => []TextInv
  BY TextInitially, ConversionStep, PTL DEF TextSpec

\* For every alphabet of characters of one and of two bytes and every text: the
\* UTF-8 of a notice reads back as its characters.
THEOREM NoticesReadBack == TextSpec => []TextReadsBack
<1>1. ASSUME TextInv, Finished PROVE TextReadsBack
  <2>1. UnitsInv /\ WrittenInv
    BY <1>1 DEF TextInv
  <2>2. done = Len(unis) /\ Len(unis) = Len(text) /\ Len(text) >= 1 /\ done \in Nat
    BY <1>1, <2>1, ReadToTheEnd DEF Finished, UnitsInv
  <2>3. /\ utf8 \in Seq(Nat) /\ Cardinality(Leads(utf8)) = done
        /\ Len(utf8) >= 1 => utf8[1] \notin 128 .. 191
        /\ \A p \in Leads(utf8) : IsRead(utf8, p)
    BY <2>1 DEF WrittenInv
  <2>4. Leads(utf8) \subseteq 1 .. Len(utf8) /\ \A p \in Leads(utf8) : Rank(utf8, p) \in 1 .. Cardinality(Leads(utf8))
    BY <2>3, LeadsAreFinite
  <2>5. Len(utf8) >= 1
    <3>1. Leads(utf8) # {}
      <4>1. ASSUME Leads(utf8) = {} PROVE FALSE
        <5>1. done = 0
          BY <2>3, <4>1, FS_EmptySet
        <5> QED BY <2>2, <5>1
      <4> QED BY <4>1
    <3> QED BY <2>3, <2>4, <3>1
  <2>6. ASSUME NEW p \in Leads(utf8) PROVE Value(utf8, p) = char2uni(text[Rank(utf8, p)], 1).uni
    <3>1. Value(utf8, p) = unis[Rank(utf8, p)] /\ Rank(utf8, p) \in 1 .. Len(unis)
      BY <2>2, <2>3, <2>4 DEF IsRead
    <3>2. \A k \in 1 .. Len(unis) : unis[k] = char2uni(text[k], 1).uni
      BY <2>1 DEF UnitsInv
    <3> QED BY <3>1, <3>2
  <2>7. ASSUME NEW p \in Leads(utf8)
        PROVE  /\ p + SizeOf(utf8[p]) \in Leads(utf8) \cup {Len(utf8) + 1}
               /\ \A i \in p + 1 .. p + SizeOf(utf8[p]) - 1 : i \notin Leads(utf8)
    BY <2>3, Zenon DEF IsRead
  <2>8. Cardinality(Leads(utf8)) = Len(text) /\ utf8[1] \notin 128 .. 191
    BY <2>2, <2>3, <2>5
  <2> QED BY <2>6, <2>7, <2>8, Zenon DEF TextReadsBack
<1>2. TextInv => TextReadsBack
  BY <1>1 DEF TextReadsBack
<1> QED BY <1>2, TextInductive, PTL

\* For every such text the buffers are large enough, and maxlen drops no unit.
THEOREM NoticesFit == TextSpec => []LengthFits
<1>1. ASSUME TextInv PROVE LengthFits
  <2>1. UnitsInv /\ WrittenInv
    BY <1>1 DEF TextInv
  <2>2. ASSUME pos > Len(mbcs), done < Len(unis)
        PROVE  maxlen >= Len(utf8_wctomb(unis[done + 1]))
    <3>1. unis[done + 1] \in CodeUnits /\ Len(utf8_wctomb(unis[done + 1])) <= maxlen
      BY <1>1, <2>2, RoomIsLeft
    <3>2. Len(utf8_wctomb(unis[done + 1])) \in 1 .. 3 /\ maxlen \in Int
      BY <2>1, <3>1, UnitBytes DEF WrittenInv
    <3> QED BY <3>1, <3>2
  <2>3. /\ Len(utf8) \in Nat /\ Len(unis) \in Nat /\ Len(text) \in Nat /\ Len(mbcs) \in Nat
        /\ Len(utf8) <= 3 * done /\ done <= Len(unis) /\ done \in Nat
        /\ Len(unis) <= Len(text) /\ 1 <= Len(text) /\ Len(text) <= Len(mbcs)
    BY <2>1, ReadToTheEnd DEF UnitsInv, WrittenInv
  <2>4. Len(utf8) < 4 * Len(mbcs) /\ Len(unis) < 2 * Len(mbcs)
    BY <2>3
  <2> QED BY <2>2, <2>4 DEF LengthFits
<1> QED BY <1>1, TextInductive, PTL
=============================================================================
