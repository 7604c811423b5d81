------------------------------ MODULE HttpClient ------------------------------
(***************************************************************************)
(* The requests of im_acc to the cloud and to the push server: each one        *)
(* initializes libcurl for the whole process, sends, collects the body that    *)
(* arrives in chunks, and cleans libcurl up again, while other threads and     *)
(* handlers are in the middle of theirs.  libcurl counts the initializations   *)
(* and is torn down with the last; its counting is taken to be atomic.         *)
(*                                                                         *)
(* The body's bytes are numbered; 0 is any other byte.  libcurl does not        *)
(* terminate a chunk: strlen finds its end there, or at a zero byte inside, or   *)
(* in the bytes that happen to follow.  The caller's buffer has RespSize bytes   *)
(* and nothing looks at its size: a body that does not fit is written past it,    *)
(* and what the program does from then on is undefined.                        *)
(***************************************************************************)
EXTENDS Integers, Sequences, FiniteSets

CONSTANTS
    Requesters,  \* threads and handlers that make requests
    RespSize,    \* sizeof(httpresp) in every caller (1024)
    MaxBody,     \* bound: bytes of a body
    MaxPast,     \* bound: bytes after a chunk that strlen takes for its own
    MaxLeaks     \* bound: handles that cannot be made

ASSUME HttpAssumption ==
    /\ IsFiniteSet(Requesters) /\ RespSize \in Nat \ {0}
    /\ MaxBody \in Nat /\ MaxPast \in Nat /\ MaxLeaks \in Nat

VARIABLES
    hpc,         \* where each im_http_sendmsg is
    curlhandle,  \* it has a handle (not NULL)
    httpresp,    \* the text in its buffer, without the terminating zero
    overrun,     \* a text has been written past the end of its buffer
    res,         \* what it is about to return
    inits,       \* libcurl: initializations not cleaned up
    sent,        \* the server: the length of its body
    status,      \* the server: the status is 200
    leaked       \* history: how often curl_easy_init has failed

httpVars == <<hpc, curlhandle, httpresp, overrun, res, inits, sent, status, leaked>>

\* "easy": libcurl is initialized, the handle not made; "perform": in
\* curl_easy_perform; "clean": at err; "return": about to return.
HttpLabels == {"idle", "easy", "perform", "clean", "return"}

HttpGoto(c, from, to) == hpc[c] = from /\ hpc' = [hpc EXCEPT ![c] = to]

Fails(c) == res' = [res EXCEPT ![c] = -1]

-----------------------------------------------------------------------------
(* im_curl_init                                                            *)

\* A request begins with an empty buffer; a push request has none, and no body
\* that counts.
GlobalInit(c) ==
    /\ HttpGoto(c, "idle", "easy")
    /\ inits' = inits + 1
    /\ httpresp' = [httpresp EXCEPT ![c] = <<>>]
    /\ \E body \in 0 .. MaxBody : sent' = [sent EXCEPT ![c] = body]
    /\ \E ok \in BOOLEAN : status' = [status EXCEPT ![c] = ok]
    /\ UNCHANGED <<curlhandle, overrun, res, leaked>>

GlobalInitFails(c) ==
    /\ HttpGoto(c, "idle", "clean")
    /\ Fails(c)
    /\ UNCHANGED <<curlhandle, httpresp, overrun, inits, sent, status, leaked>>

EasyInit(c) ==
    /\ HttpGoto(c, "easy", "perform")
    /\ curlhandle' = [curlhandle EXCEPT ![c] = TRUE]
    /\ UNCHANGED <<httpresp, overrun, res, inits, sent, status, leaked>>

EasyInitFails(c) ==
    /\ HttpGoto(c, "easy", "clean")
    /\ Fails(c)
    /\ leaked < MaxLeaks /\ leaked' = leaked + 1
    /\ UNCHANGED <<curlhandle, httpresp, overrun, inits, sent, status>>

-----------------------------------------------------------------------------
(* im_curl_send_msg, im_curl_perform                                        *)

\* Mutant: every chunk is acknowledged as a whole.
Whatever(len, found) == TRUE

\* im_get_respone returns what strlen found; libcurl gives the transfer up when
\* that is not the length that it handed over.
Acknowledged(len, found) == found = len

\* strcat of a chunk of len bytes in which, or after which, strlen has found its
\* end; the terminating zero needs room too.
Receive(c, len, found) ==
    /\ Len(httpresp[c]) + len <= sent[c]
    /\ httpresp' = [httpresp EXCEPT ![c] =
           @ \o [i \in 1 .. found |-> IF i <= len THEN Len(@) + i ELSE 0]]
    /\ overrun' = (Len(httpresp[c]) + found >= RespSize)
    /\ IF Acknowledged(len, found)
       THEN hpc[c] = "perform" /\ UNCHANGED <<hpc, res>>
       ELSE HttpGoto(c, "perform", "clean") /\ Fails(c)
    /\ UNCHANGED <<curlhandle, inits, sent, status, leaked>>

Performed(c) ==
    /\ HttpGoto(c, "perform", "clean")
    /\ Len(httpresp[c]) = sent[c]
    /\ res' = [res EXCEPT ![c] = IF status[c] THEN 0 ELSE -1]
    /\ UNCHANGED <<curlhandle, httpresp, overrun, inits, sent, status, leaked>>

\* No connection, or CURLOPT_TIMEOUT.
PerformFails(c) ==
    /\ HttpGoto(c, "perform", "clean")
    /\ Fails(c)
    /\ UNCHANGED <<curlhandle, httpresp, overrun, inits, sent, status, leaked>>

-----------------------------------------------------------------------------
(* im_curl_clean                                                           *)

\* Mutant: libcurl is cleaned up with or without a handle.
AlwaysCleaned(c) == TRUE

Cleaned(c) == curlhandle[c]

\* Without a handle nothing is cleaned up.  libcurl ignores a cleanup too many.
im_curl_clean(c) ==
    /\ HttpGoto(c, "clean", "return")
    /\ IF Cleaned(c)
       THEN /\ inits' = IF inits = 0 THEN 0 ELSE inits - 1
            /\ UNCHANGED res
       ELSE Fails(c) /\ UNCHANGED inits
    /\ curlhandle' = [curlhandle EXCEPT ![c] = FALSE]
    /\ UNCHANGED <<httpresp, overrun, sent, status, leaked>>

Return(c) ==
    /\ HttpGoto(c, "return", "idle")
    /\ res' = [res EXCEPT ![c] = 0]
    /\ httpresp' = [httpresp EXCEPT ![c] = <<>>]
    /\ sent' = [sent EXCEPT ![c] = 0] /\ status' = [status EXCEPT ![c] = FALSE]
    /\ UNCHANGED <<curlhandle, overrun, inits, leaked>>

-----------------------------------------------------------------------------

HttpInit ==
    /\ hpc = [c \in Requesters |-> "idle"]
    /\ curlhandle = [c \in Requesters |-> FALSE]
    /\ httpresp = [c \in Requesters |-> <<>>] /\ overrun = FALSE
    /\ res = [c \in Requesters |-> 0]
    /\ inits = 0 /\ leaked = 0
    /\ sent = [c \in Requesters |-> 0] /\ status = [c \in Requesters |-> FALSE]

Request(c) ==
    \/ GlobalInit(c) \/ GlobalInitFails(c) \/ EasyInit(c) \/ EasyInitFails(c)
    \/ \E len \in 1 .. MaxBody : \E found \in 0 .. len + MaxPast : Receive(c, len, found)
    \/ Performed(c) \/ PerformFails(c) \/ im_curl_clean(c) \/ Return(c)

HttpNext == ~overrun /\ \E c \in Requesters : Request(c)

HttpSpec == HttpInit /\ [][HttpNext]_httpVars

-----------------------------------------------------------------------------
(* Properties                                                              *)

Users == {c \in Requesters : hpc[c] = "easy" \/ curlhandle[c]}

\* Whatever fails in one request, libcurl stays up for every other that is in
\* the middle of one: no path cleans up what it did not set up, and the only thing
\* ever left behind is the initialization of a request whose handle failed.
LibraryIsUp == inits = Cardinality(Users) + leaked

\* As long as no body was too long for its buffer, a request is successful only
\* with the whole body, byte by byte as it was sent, under the status 200,
\* although it is collected by strlen and strcat.
ReplyIsWhole ==
    \A c \in Requesters :
        hpc[c] = "return" /\ res[c] = 0 =>
            /\ status[c] /\ httpresp[c] = [i \in 1 .. sent[c] |-> i]
            /\ sent[c] < RespSize
=============================================================================
