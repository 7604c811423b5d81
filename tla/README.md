# im_acc in TLA+

`im_acc` is a daemon of a home router. It asks an operator's cloud to speed up the broadband
line, keeps that session alive, and tells the terminals in the house (by UDP broadcast, and iOS
devices by a push server) what becomes of it. It is about 5,600 lines of C (and a table of
character codes), without a lock or a signal mask: a main thread, detached polling threads, and
timers whose callbacks run inside the `SIGALRM` handler on whatever thread the kernel picks, all
on the same global variables. This directory models all of it that keeps state, and the
algorithms whose results others depend on.

Line numbers are those of the files under `src/src/`. `PROJECT.json` maps every definition to
the lines it stands for, and lists the hazards with the properties aimed at them.

## 1. Inventory

| component | state | operations | talks to |
|---|---|---|---|
| alarm engine (`timer.c`) | list `thealarms`, `regnum`, `start_alarms`, ITIMER_REAL | `snmp_alarm_register`, `_unregister`, `init_alarm_post_config`, `set_an_alarm`, `alarm_handler`, `run_alarms` | called by everybody, calls the callbacks |
| acceleration session (`im_msg_handle.c`) | `im_acc_state`, `cnt_time`, `timer_hearbeat`, `timer_flowcount`, `im_is_keepacc`, locals of the rollers | start, stop, state and keepacc commands, `im_auto_query_isacc`, `im_rollquery_thread`, `im_start_heartbeat_cloud` | the cloud by HTTP, the alarm engine, the notices |
| terminal notices (`im_msg_handle.c`, `timer.c`, `im_udpclient.c`) | `udpbrocast_timer.func_arg`, `handle_t[0]`, static `udp_time` | `im_brocast_to_terminal`, `im_udpbrocast_timer_start`, `_proc`, `im_udp_sendmsg` | the alarm engine, the LAN, the push server |
| cloud login (`im_msg_handle.c`, `im_json_parse.c`, `im_wideband_speedup.c`) | `s_im_login_resp`, four copies of the session, `s_im_heartbeat_resp.im_ip`, the address in uci | `im_cloud_login`, `im_init_session`, `im_cloud_heartbeat`, `im_check_isnet_change`, the retries of every command | the cloud, uci |
| acceleration information (`config_prase.c`, `im_json_parse.c`, `im_msg_handle.c`) | figures of the line in four structures and in uci, peak flow, task id | `config_read_im_acc`, `config_write_im_acc`, the parsers of the answers | uci, the session |
| terminal protocol, main loop, start-up (`im_wideband_speedup.c`, `im_msg_handle.c`) | global header, socket | `main`, accept, receive, `im_handle_msg`, `im_handle_cmd_terminal`, `im_json_make_respone_send` | libmsg, the cloud |
| flow count (`im_msg_handle.c`) | `flow_count`, `s_im_countflow_cmd`, the handles | `im_start_flow_count`, `im_stop_flow_count`, `im_get_if_dbytes` | the kernel's counters, the alarm engine, the cloud |
| iOS push registry (`im_json_parse.c`) | `s_im_iosinfo[20]` | `im_json_parse_data_iosinfo`, `im_json_make_cmd_brocast_IOS` | the push server |
| message codec (`im_json_parse.c`) | the structures of the last answers | parse and build JSON | json-c |
| HTTP client (`im_httpclient.c`) | libcurl's count of initializations, the body of a reply | `im_http_sendmsg` | libcurl |
| MD5 (`im_md5c.c`), GB18030 to UTF-8 (`UTF8Utils.c`, `nls_*.c`) | a context, buffers | `MD5Update`, `MD5Final`, `EncodeToUTF8` | |

What makes it hard, and what correctness means:

- **Alarm engine.** Handlers preempt registrations half-way; other threads register while a
  handler runs the list, and all share one timer. Correct: the engine never stops while it has
  alarms, none is served later than it is due unless a delay computed without it replaced its
  own, and the list holds exactly the allocated entries.
- **Session.** A start command may be answered at once, or "delayed", in which case a thread
  polls for the result for 180 s while the main thread serves other commands; meanwhile
  heartbeats count the session down. Correct: one owner of the state at a time, the alarms run
  exactly in an open session, only a stop ends it, its end is announced, and pending states come
  to an end.
- **Notices.** One static buffer, counter and handle for all of them. Correct: each notice is
  sent whole, four times, and then no more.
- **Login.** Every thread logs in when its own request was rejected, and the copies of the
  session must follow; the heartbeat and the login write the same address. Correct: retries
  present a new session, and the network check says the truth.
- **Information.** Live figures and saved figures overwrite each other; saving is seven
  commands; an answer may lack a figure. Correct: an open session is shown with its own figures,
  the peak flow is computed from them, and what is saved is what is shown, from one write.
- **Main loop.** One thread for all terminals, calls that are interrupted, sessions that expire
  in the middle of a command. Correct: one reply per command that was understood, one close per
  connection, the error code tells the outcome, everybody is served.
- **Flow count.** A 32-bit counter that wraps, a zero baseline, a request structure shared by
  callbacks. Correct: what is reported is what flowed since the session began.
- **Registry.** A full table; a notice walks it while a token is copied, and puts one object into
  the message for each. Correct: no device twice, none lost but to a full table, an entry for each
  row in every push message (which of them are named is another matter: the last one).
- **HTTP, MD5, texts, replies.** Libcurl is set up and torn down around each of several
  concurrent requests; bodies arrive in chunks, messages of every length are cut into blocks,
  answers are stored over older ones. Correct: nobody loses libcurl, a success is a whole body,
  the digest is of the message, the text is readable, the reply is the answer.

## 2. Modules

| module | what it is |
|---|---|
| `AlarmService` | abstract: what the alarm engine promises its clients |
| `AlarmClock` | the alarm engine, at the granularity at which a handler or a thread can come in; implements `AlarmService` |
| `AccService` | abstract: what the acceleration service promises a terminal |
| `AccSession` | the threads and the handler around `im_acc_state`; implements `AccService` |
| `UdpNotice` | abstract: one notice at a time, whole, `Sends` times |
| `Broadcast` | buffer, counter, handle and alarms of the notices; implements `UdpNotice` |
| `CloudLogin` | session, copies and addresses over logins, retries and heartbeats |
| `AccInfo` | the figures of line and session, what is shown, what is saved, the task id; implements `AccService` with the clock left out |
| `TerminalService` | abstract: what a terminal on the local socket is promised |
| `TerminalLoop` | start-up, main loop and every command as the main thread sees it; implements `TerminalService` |
| `FlowCount` | counter, baseline, report, and the handles of all alarms |
| `IosPush` | the table of devices and the push messages |
| `HttpClient` | one request, many times at once |
| `InfoReply` | the answers about flow packages and histories, and the replies built from them |
| `Md5Buffer` | how MD5 cuts, pads and ends a message |
| `NoticeText` | the conversion of the notices' texts |
| `MC...` | the same for TLC: symmetry sets, and modules that share nothing side by side in one run (`MCParts`, `MCServing`) |
| `..._proofs` | theorems and TLAPS proofs; `Outgoing_proofs` is about `IosPush`, `HttpClient`, `InfoReply`, `Md5Buffer` and `NoticeText` |

Components meet at narrow places, and each module has the other side as what it promises. The
alarm engine appears in `AccSession`, `Broadcast` and `FlowCount` as registered alarms with
handles of their own that may be called while they are listed. That is what `AlarmService`
promises and `AlarmClock` is shown to keep until contexts overlap; that the call comes, and in
time, is `EngineAlive` and `NoOversleep`, and the way in which it does not, a delay of zero, is a
finding. That finding is set aside in the other modules: at the end of a handler, `Broadcast`'s
`HandlerEnd` arms the timer without condition, so `NoticeEnds` is about an engine that keeps its
promise. One thing the promise leaves open, because the code does: handlers on two threads may be
calling the same alarm at once. A broadcast inside the session is the registration of an alarm.
`TerminalLoop` knows a command by how it may end; `AccSession`, `CloudLogin` and `AccInfo` say
what it does to the state, the login and the figures. An HTTP request is a choice among the
outcomes that `HttpClient` produces.

### Plan

Done, in this order: `AlarmService` with `AlarmClock`; `AccService` with `AccSession`; `UdpNotice`
with `Broadcast`; `CloudLogin`; `AccInfo`; `TerminalService` with `TerminalLoop`; `FlowCount`;
`IosPush`; `HttpClient`; `InfoReply`; `Md5Buffer` and `NoticeText`; the theorems of section 6.
What would come next:

1. The compression of MD5 (`MD5Transform`) against RFC 1321, on words of a few bits.
2. One module that has the session and its figures together. `AccInfo` keeps a copy of the moves
   of the state; it is shown to keep `AccService`'s promise, as `AccSession` is.
3. The tables of `nls_cp54936.c` against the standard, which is a matter for a script, not for a
   model.

## 3. How the modules correspond to the code

**AlarmClock.** `mem` and `thealarms` are the heap and the list, `itimer`/`pending` the kernel's
timer and signal. `pc` holds, for each thread and for the handler it hosts, where it is:
`RegisterWalk` (find the tail), `RegisterLink` (calloc and link), `RegisterNumber`, `RegisterFill`
are `snmp_alarm_register`; `ScheduleNext` and `SetItimer` are the two halves of `set_an_alarm`;
`Deliver`, `RunDue`, `CallbackReturn`, `Reschedule`, `RunDone` are `alarm_handler` and
`run_alarms`. A callback may call anything a thread may. `crashed` is the call through the null
callback of an entry that is not filled yet (or a null pointer): the model reaches it, when a
handler comes in inside a registration. A registration fills `*sa_pptr`, which the code reads anew
for each field: `Target` is what it points to then, another entry than the new one, or nothing
(`RegisterNowhere`), if another context has changed the list since. `overlap` records that a
context used the list while another was inside a registration, that is, had a pointer into it or a
number. A context that has computed its delay and not yet called `setitimer` is not inside: others
register and serve alarms then, and its delay, which knows nothing of theirs, replaces theirs
(`timer.c:266`). `missed` keeps for each such context the alarms that were registered or given a
new due time behind its back, `armed` what the last `setitimer` had missed. `disarmed` says that
the last `set_an_alarm` armed nothing: for a zero delay, or because it found an entry that nobody
numbers any more. Seconds and microseconds are one number.

Of `AlarmService`, `alarms` are the listed entries that have their number (`Registered`), `given`
the numbers given out, `calls` the locals of `run_alarms`. A registration takes place when the
entry gets its number and its due time (`RegisterFill`), a call when `run_alarms` has chosen its
entry (`RunDue`), its return when the entry is due again or removed (`Reschedule`); the linking
of an entry, the computing of a delay and the arming of the timer are no steps to a client.

Abstractions: `snmp_alarm_unregister` is one step, and so is each traversal of the list; a
handler inside one of them would find the list as it was before or after, or (two unlinks at
once) damage it in a way not modelled.

**AccSession.** `acc_state` is `im_acc_state`; `mpc` is where the main thread waits (for the
cloud, in the re-login, in the broadcast before the alarms are registered), `rpc` where each
roller is. A step is what lies between two blocking calls; where a thread acts on a state it
read before, reading and acting are two steps (`RollBranch`, `RollHeartbeat`, `RollOpened`).
`heart` and `flow` are the two alarms with their handles: `named` says that the handle names a
listed alarm, `lost` counts alarms whose handle was overwritten. `hnd` is the heartbeat callback
on a thread's stack; the thread under it stands still. The cloud may answer anything at any
time, or not at all. `im_code` starts with garbage, as the uninitialized header does. `overlap`
is history: a stop command took effect while a roller was alive. That case is not excluded: the
model goes on, the type invariant and `RollerEnds` hold in it, and the findings show what goes
wrong in it. The properties that say `~overlap` hold up to it.

**Broadcast.** `func_arg` has two halves because `strcpy` takes time; `handle` is `handle_t[0]`,
`alarms` the listed alarms, `udp_time` the static counter. `Announce`, `Register`, `StoreHandle`
are `im_udpbrocast_timer_start`, called from a thread or from the heartbeat callback; `Call`,
`Send`, `Reset` are `im_udpbrocast_timer_proc`. An alarm may be due whenever a handler looks,
but not for the fifth time (2.5 s) before the thread that registered it has stored its handle.

**CloudLogin.** `login` is `s_im_login_resp`, `copy` the session in the four request structures
(written by one function, one after the other: one variable here), `uci_ip` the saved address. A
login is `LoginServed`, `LoginParsed`, `LoginSaved`, `im_init_session`, with other threads and
handlers in between; any part of an answer may be missing, an unreadable answer may count as
success (`LoginEmpty`). `Presented` says which session a request carries. Sessions are numbered
as the cloud issues them.

**AccInfo.** Each figure is named by the answer that brought it, 0 by none: `isacc`, `start`,
`speed` are `s_im_isacc_resp`, `s_im_startacc_resp`, `s_im_speedupinfo_resp`; `peak` is the
figure the peak flow was computed from; `staged` and `saved` are the package in RAM and in
flash. `write[t]` is where a thread is in `config_write_im_acc`: `SetStep` and `CommitStep` are
steps, so that a login (`LoginCommit`), an `Exit` or a `PowerCut` comes between them. Any answer
may lack any of its figures. `direct`, `unsaved`, `kept`, `left` and `mixed` are history: the
session was opened by an immediate answer, figures are not saved yet, what the last whole write
wrote, a write was left half done, or committed half. The main thread and the rollers move the
state as in `AccSession`: `StateSpec` says that these moves, too, are those of `AccService`,
restarts included, with the session clock standing still.

**TerminalLoop.** `pc` is where the main thread is, `cur` the accepted terminal, `backlog` those
that wait in the socket. `form` says what the message was good for, `cmd` the command by how it
may end, `errcode` the error code of the header, `last` how the last exchange with the cloud
ended, `got` the replies the terminal had. Accept, receive and every exchange may fail; an
`accept` interrupted by a signal ends the program (line 247).

**FlowCount.** `rx` is the counter of the interface, `flow_count` the baseline, `im_use_flow`
the field of the shared request; `at[t]` is where the callback on thread `t` is. `alarms`,
`regnum` and the two handles are those of the engine: notices use up numbers, a stop unregisters
whatever the handle names. `since` and `seen` count the true bytes; `disturbed` says that
callbacks or a stop crossed or the interface was gone.

**IosPush, HttpClient, InfoReply.** `copying` is the `strcpy` of a token into a row, which a
notice's walk (`PushBegins`, `PushRow`, `PushSent`) may meet. `entries` are the rows that got an
entry, `device` the token in the one object all entries are. `hpc` is where a request is in
`im_http_sendmsg`, `inits` how often libcurl is initialized, `httpresp` the caller's buffer of
`RespSize` bytes: `Receive` appends a chunk as far as `strlen` goes. `InfoAnswered` stores an
answer figure by figure, up to the length the cloud's list has, and builds the reply, cutting each
figure to an `int`; `im_json_make_termres_acclist` shows the last row of the table in the place of
every row. Three buffers are written without a look at their size. The models go up to that
write and stop: what the program does after it is undefined (`overrun` and `HttpNext`,
`InfoOverrun`, `PushSpills`).

**Md5Buffer, NoticeText.** `MD5Update` is one step, `blocks` what `MD5Transform` was given. A
character of a text is its bytes; `char2uni` looks it up in the table, a constant of which the
run gives the entries it needs. `At` says where a character begins in the string of the text
(`BytesOf`). `ToUnit` and `ToBytes` are one round each of the two loops; a unit for which
`maxlen` leaves no room is dropped. The reference is a reader that knows nothing of the writer:
`Leads` are the places of the result at which a character begins, by their upper bits alone,
`SizeOf` and `Value` its length and code there.

Places where the code does something odd that no document of the repository disputes, which the
models follow: every entry of a push message names the last device (`im_json_parse.c:1466`);
every row of a told history is the last row of the table (`im_json_parse.c:2084-2092`); an immediate
answer to a query is stored but not shown (`im_msg_handle.c:1002`, `1205`).

## 4. Runs

| run | question | bounds |
|---|---|---|
| `alarm` | is the engine alive, the list sound, is an alarm late only if the last `setitimer` missed it, and by one period at most, and does it implement `AlarmService`? | 3 blocks (so that an entry in the middle can go), 3 registrations, periods 1 and 2, clock to 3, in one of three scopes: the main thread and its handler alone with all of that (no third registration once they overlapped); two threads and two handlers with two alarms, none inside the list with another, so that all they race for is the timer; two threads and two handlers, of which none begins a registration after the first is complete, though several may be under way |
| `alarm_future` | is a delay that is "still in the future" positive? **No** | one period |
| `session_owner` | do main thread, rollers and handlers keep the session consistent, and implement `AccService`? | 2 rollers (a second one is what must not happen), 1 wait, notice at the 2nd heartbeat, 1 lost alarm per kind |
| `session_pending` | is somebody at work on a pending state? **No** | 1 roller |
| `session_stopped` | does a stopped session stay closed? **No** | 1 roller |
| `session_announced` | is a session that was announced to end closed when its timers are stopped? **No** | 1 roller |
| `serving` | is every terminal served, told the outcome, and does every roller end, under fair scheduling? | `TerminalLoop` with 3 terminals, or `AccSession` with 1 roller |
| `notice_safe` | does a notice go out whole and exactly 4 times, and leave things ready? | 2 threads and their handlers, 2 notices, 2 texts, 4 datagrams |
| `notice_fair` | does a notice end? | 2 threads, 2 notices, 2 datagrams |
| `notice_sent` | is every announced text sent before the next replaces it? **No** | 2 texts |
| `cloud_login` | do copies, retries and network check stay right? | main and 1 roller with handlers, 3 sessions, 2 addresses |
| `parts` | seven modules that share nothing, one question each, below | |

The parts of `parts`:

| part | question | bounds |
|---|---|---|
| `AccInfo` | are the figures that are shown, saved and computed with those of the open session, and does the state move as `AccService` promises? | main and 2 rollers, 3 answers with figures |
| `FlowCount` | is the reported flow exact, does a stop unregister its own alarms? | a counter of 4 values, units of 2 bytes, 2 threads, 4 handles, the initial one (2) among those given out |
| `IosPush` | is no device lost or twice, has each an entry, and which one is named? | 4 tokens for 3 rows, main and 2 other givers, room for 2 entries in a message |
| `HttpClient` | is libcurl up for whom uses it, is a success a whole body? | 2 requests at once, a buffer of 3 bytes, bodies of up to 3 bytes in any chunks, 1 stray byte behind a chunk, 2 lost initializations |
| `InfoReply` | is a reply of success the answer to its command, and what of a history is shown? | figures missing, 1 or 3, an `int` of 4 values, a history of 2 rows, answers of up to 3 |
| `Md5Buffer` | is what is compressed the padded message? | the real 64 and 8, every length to 200 |
| `NoticeText` | does the text read back, and fit its buffer? | texts of up to 4 characters of 4 kinds |

Why these bounds: the counters (9 waits, 24 heartbeats, 4 datagrams) only matter at their limit,
so a limit of 1 or 2 has every case; two rollers, threads or texts are needed for every
interleaving the properties speak of, and a third adds no new relation. A third session lets a
login of each thread succeed and one more overtake them; a third terminal waits behind one that
waits; a fourth token meets a full table; three answers are one of the query, one of the session
and one of another session; a counter of 4 values wraps within a few steps; a body of 2 bytes fits
its buffer and one of 3 does not, as 1023 and 1024 do; a third row is one the table does not have.
One case needs more registrations than TLC can follow and is met by the proofs alone: that
`set_an_alarm` finds an entry which registrations that crossed have left without its number
(`disarmed`). The theorems of section 6 hold for all values. `alarm`, `alarm_future`, `parts` and
`serving` do not check for deadlock: the clock and the numbers of answers, handles and lost
initializations stop at their bounds, the pure algorithms end, a process that died or ended takes
no step. The others do.

### Findings

- `StillInTheFuture` (`timer.c:225`): an alarm due exactly now gives `setitimer` a zero delay,
  which disarms it. No alarm runs until the next registration.
- `PendingIsAtWork` (`im_msg_handle.c:999`): a query answered at once, or a request answered
  with an unhandled code, leaves QUERYING or OPENING for good; start commands are then refused.
- `StoppedStaysClosed` (`im_msg_handle.c:928`): a roller that has read OPENING reopens the
  session which a stop has closed.
- `AnnouncedIsClosed` (`im_msg_handle.c:876`): the automatic stop ends the alarms and leaves the
  state OPENED.
- `AnnouncedIsSent` (`timer.c:382`): a notice within 500 ms of another replaces its text before
  it was sent.

## 5. Fairness

`AccSession`: strong fairness of each roller's steps (a thread gets to run, however often a
handler preempts it) and weak fairness of the end of a callback (an HTTP exchange ends:
`CURLOPT_TIMEOUT` is 5 s). Nothing is assumed of terminals or of what the cloud answers.
`RollerEnds` therefore excepts the roller that is told to log in for ever, which the code
allows.

`Broadcast`: strong fairness of announcing threads, weak fairness of delivery of an armed timer
and of the handler's own steps, and strong fairness of the call of a due alarm: time passes, so
a listed repeating alarm is due again and again. `NoticeEnds` excepts notices that overlap, in
which case one of the alarms goes on for ever.

`TerminalLoop`: weak fairness of the main thread's next step, whichever it is: it is never
blocked but for a terminal, and an exchange with the cloud ends by `CURLOPT_TIMEOUT`. No
terminal owes a connection, and the cloud may answer what it likes. So `TerminalIsServed` has
two exceptions, both in the code: a cloud that goes on rejecting sessions it has just given
keeps the main thread in its retry loop, and a terminal that connects and says nothing keeps it
in its receive.

## 6. Proofs

All are for every value of the constants, under the named assumptions of the module: the main
thread is not among the other threads, heap blocks, rollers and requesters are finite sets,
`NULL`, `NoAddr`, `None`, `NoToken`, `Torn`, `NoClient` and `Missing` are no members of their
sets, bounds are natural numbers, and periods, datagrams per notice, the announcing heartbeat,
units and sizes positive.

**AlarmClock_proofs**: `TypeCorrect`, `EngineStaysAlive`, `ListStaysSound`, `NoAlarmOversleeps`,
and `ImplementsEngine`. `EngineAlive` is not inductive: a context that is busy may still give up
(no memory). `EngineInv` counts only the contexts bound to reach `set_an_alarm`; `NumberInv` and
`ClockInv` say that numbers and times start at 1. These include interleavings that damage the
list: nothing is assumed about its shape. If `set_an_alarm` finds an entry without a number it
arms nothing, but whoever is filling that entry will; only if nobody is, because registrations
that crossed filled another entry in its place, the engine may stop (`disarmed`, as for a zero
delay). Until contexts overlap that cannot be: `OwnerInv` says that an entry without a number is
being filled. `ListSound` is about the shape. A walk along `next` is stated without recursion:
`Listed` is the least set that holds the head and that no step along `next` leaves. Linking at the
tail adds one block to it and unlinking takes one away (`LinkAppends`, `UnlinkRemoves`, from
`ListedIsLeast`), and `ListInv` says, until contexts overlap, that the tail a registration has
found is still the tail (`Place`), that what it linked is still unfilled (`Fills`) and that nobody
else is inside the list. `NoOversleep` rests on `DelayInv`, that a delay on its way to `setitimer`
suits every listed alarm but those its context has missed, among them each that is still being
filled, and on `WakeInv`, that the timer covers every alarm the last `setitimer` has not missed,
or a context is about to arm it again. Its bound needs no `~overlap`: no due time is further ahead
than one of the periods (`TimesInv`), so no delay is longer (`LimitInv`), whatever has raced. The
refinement of `AlarmService` needs all of that and two invariants more: `FreshInv`, that an entry
that is being filled was never called, has no number and a proper period, so that filling it
registers one new alarm that is due a period from now; and `CallInv`, that a handler holds the
alarm it called from the call to the rescheduling, through whatever its callback registers, and
holds none before, so that a call begins on an idle handler and a return has a call. That what is
called is registered is `OwnerInv` (nobody inside, so no entry without a number), that a handle
names one alarm is `ListInv`. From the refinement follows `HandlesAreNotReused`: the handle of an
alarm that is gone never names another, which is what lets the session and the notices keep
handles of alarms long ended.

**AccSession_proofs**: `TypeCorrect`, `SessionHasOneOwner`, `TimersAreTheSessions`,
`OnlyStopEndsSession`, `EndIsAnnounced`, and `ImplementsService`. The invariant adds to the
types, until a stop overtakes a roller: `Ownership` (what each thread's place says about the
state), `AlarmsInv` (an alarm is listed only in a running session or by the roller about to open
one, and only the main thread can be hosting its callback then: rollers have ended), `CountInv`
(the count is that of this session). `WaitInv` (a waiting roller has a wait left) bounds
`roll_time` without exception.

**Broadcast_proofs**: `TypeCorrect`, `BetweenNotices`, `ImplementsNotice`. Until notices
overlap: whoever announces is alone, nothing is sent while the text is half copied, the one
listed alarm is the one that is named or about to be, and one callback at a time counts and
resets.

**CloudLogin_proofs**: `TypeCorrect`, `CopiesFollow`, `RetriesAreNew`, `NetworkCheckIsExact`.
`CopyFollowsLogin` is inductive. A retry is new because the session of an answer is known to
nobody until it is stored (`Unknown`), and storing it removes the rejected one from where the
retry looks (`Replaced`). The network check is exact because one answer is in hand at a time
until answers cross (`InTurn`).

**AccInfo_proofs**: `InfoTypeCorrect`, `ReloadChangesNothing`, `SessionIsShownWhole`,
`PeakBelongsToSession`, `RollersAskForTheirTask`, `FlashHoldsOneWrite`, and
`StateImplementsService`. None is inductive without the discipline of the state: a roller lives
only while the state is pending and the main thread idle (`ControlInv`), so one thread at a time
writes, and what it writes is what is shown (`WriteInv`). `ShownInv` and `DirectInv` carry the
figures from the roller's answer to the open session, `KeptInv` what is staged to the flash. The
refinement needs `ControlInv` again (a request that fails or is answered was pending; a stop
beside a roller overtakes a pending request) and that the first login finds nothing open
(`LoginInv`).

**TerminalLoop_proofs**: `LoopTypeCorrect`, `ReplyTellsOutcome`, `ImplementsTerminalService`.
The invariant says where a connection is held (`SocketInv`), that what is left over from a
rejected session is there to be replaced (`CommandInv`), and that the outcome is settled once
nothing is left but to reply (`OutcomeInv`).

**FlowCount_proofs**: `FlowTypeCorrect`, `StopsUnregisterTheirOwn`, `FlowIsReportedExactly`.
`HandleInv`: what a handle keeps was given out or is the initial value. `CountInv`, until
something is disturbed: one callback at a time, and the counter is ahead of the baseline by the
bytes that flowed, or by those less one turn (`Ahead`); `MinusIsExact` says that the unsigned
difference is then the bytes.

**Outgoing_proofs**: `RegistryStaysExact` and `MessagesNameTheLast` (`CopyInv`: a torn row is the
one being copied to; `EntryInv`: the rows passed so far are in the message if they were filled
when it began, and the object holds the token of the last of them, or as much as was copied of
it); `NoRequestLosesLibcurl` (the initializations are as many as the requests that use libcurl and
those that lost it: a cardinality that each step changes by one) and `SuccessIsTheWholeReply`
(`RequestInv`: what was collected is what was sent, byte by byte, until something failed or a
buffer overran); `SuccessShowsTheAnswer`, inductive as it stands; and `DigestIsOfTheMessage`, for
every message and every size of a block: before each call the whole blocks and the buffer hold a
prefix of the padded message (`Holds`), and the padding ends where the length fits. Last,
`NoticesReadBack` and `NoticesFit`, for every table and every alphabet of one- and two-byte
characters that have a code (`AlphabetAssumption`: `char2uni` refuses all others,
`nls_cp54936.c:25859-25973`), and texts of any length. An induction over the text is out of the
prover's reach, but each character is a step, and `TextInv` speaks of the part converted so far:
the units are those of the characters passed and `pos` is where the next one begins (`UnitsInv`),
a reader of the bytes written finds exactly the units written, and `maxlen` is enough for three
bytes of each of the others (`WrittenInv`). The step is that of appending two or three bytes to a
string that reads well.

Only model-checked: liveness (`RollerEnds`, `NoticeEnds`, `TerminalIsServed`), which is out of
the prover's reach. Only proved: the types of `Broadcast` and of
`FlowCount`, and `HandlesAreNotReused`.

## 7. Not modelled

- The tables of `nls_cp54936.c`: some 25,600 of the repository's 32,300 lines. The two look-ups
  that the notices' texts reach are modelled over a table that is a constant; what is in the
  table is data. In the same files: characters of four bytes and illegal ones, which no notice
  has, and the direction back, which nothing calls.
- `MD5Transform`, `MD5Encode` and `MD5Decode`: 64 rounds of 32-bit arithmetic without state of
  their own.
- The text of messages and logs: what an answer stores and under which conditions is modelled, not
  how it is spelled.
- json-c's reference counts, also where they may go wrong: one object is added to an array many
  times, though each addition takes over a reference (`im_json_parse.c:1466`, `2091`).
- What follows a write past the end of a buffer: a body of 1024 bytes and more in the
  `httpresp[1024]` of every request (`im_httpclient.c:98`, `im_msg_handle.c:193`), a history of
  more rows than `acc_list` has (`im_json_parse.c:817`), a push message of more than 1023 bytes in
  `msg[1024]` (`im_json_parse.c:1472`). The models reach these writes and end there, so
  `ReplyIsWhole`, `ReplyIsTheAnswer` and `PushNamesTheLast` say what holds before.
- What `snmp_alarm_register` returns if the entry is gone once the timer is set: it reads
  `(*sa_pptr)->clientreg` once more (`timer.c:319`). The number returned is taken to be the one it
  stored.
- What is outside the source: locks inside the C library and libcurl (interrupted inside
  `malloc`, a handler that calls `malloc` waits for itself), libmsg, uci and the kernel beyond
  what the code expects of them.
- The length of waits (a `sleep` that a signal ends early), and a clock that is set back.
- Tearing of a string while it is copied, other than the notice's buffer and a device's token.
- In `AlarmClock`, a context in the middle of a single traversal or of an unlink: both are one
  step.
- Functions nothing calls: `snmp_alarm_unregister_all`, `snmp_alarm_register_hr`, the
  `query_server_timer` family, `im_cloud_logout`, `im_stop_rollquery_result_cloud`,
  `im_cloud_getaacflow`, `im_cloud_getflowinfo`, `im_cloud_getaccinfo`, `MD5File`.
