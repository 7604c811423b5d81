--------------------------- MODULE FlowCount_proofs ---------------------------
(***************************************************************************)
(* For counters of any width, any number of threads and of registrations:      *)
(* typing, what a stop unregisters, and that what is reported is exact.        *)
(***************************************************************************)
EXTENDS FlowCount, TLAPS

\* A handle that is kept was given out, or is the initial one.
HandleInv ==
    /\ \A a \in alarms : a.id < regnum
    /\ timer_hearbeat = Initial \/ timer_hearbeat < regnum
    /\ timer_flowcount = Initial \/ timer_flowcount < regnum

\* b is the counter n bytes after it was a: it may have wrapped once.
Ahead(a, n, b) == b = a + n \/ b = a + n - Modulus

\* Until something is disturbed: one callback at a time, ...
OneFlight == \A t, u \in Hosts : at[t] # "none" /\ at[u] # "none" => t = u

\* ... which finds the baseline as it was when it began, ...
FirstOrNext(t) ==
    /\ at[t] \in {"first", "base"} => flow_count = 0
    /\ at[t] \in {"next", "diff"} => flow_count # 0

\* ... and the counter is "since" bytes ahead of what was read for the baseline,
\* "seen" of them at the last reading.
BaselineInv == flow_count # 0 /\ since < Modulus => Ahead(flow_count, since, rx)

FlightInv(t) ==
    /\ at[t] = "base" /\ since < Modulus => Ahead(im_use_flow, since, rx)
    /\ at[t] = "diff" /\ seen < Modulus => Ahead(flow_count, seen, im_use_flow)
    /\ at[t] = "report" /\ seen < Modulus => im_use_flow = seen \div Unit

CountInv ==
    ~disturbed =>
        /\ OneFlight /\ BaselineInv
        /\ \A t \in Hosts : FirstOrNext(t) /\ FlightInv(t)

FlowInv == FlowTypeOK /\ HandleInv /\ HandlesAreOwn /\ CountInv
-----------------------------------------------------------------------------
(* Arithmetic                                                              *)

\* What is left of a number after as many whole turns of the counter.
LEMMA TurnLow ==
    ASSUME NEW m \in Nat \ {0}, NEW x \in 0 .. m - 1 PROVE x % m = x
  OBVIOUS

LEMMA TurnHigh ==
    ASSUME NEW m \in Nat \ {0}, NEW x \in m .. 2 * m - 1 PROVE x % m = x - m
  OBVIOUS

LEMMA TurnBack ==
    ASSUME NEW m \in Nat \ {0}, NEW x \in -m .. -1 PROVE x % m = x + m
  OBVIOUS

\* Kilobytes are no more than bytes.
LEMMA Kilobytes ==
    ASSUME NEW u \in Nat \ {0}, NEW x \in Nat PROVE x \div u \in 0 .. x
  OBVIOUS

\* The unsigned difference of two readings, also across a wrap.
LEMMA MinusIsExact ==
    ASSUME NEW a \in Bytes, NEW b \in Bytes, NEW n \in 0 .. Modulus - 1, Ahead(a, n, b)
    PROVE  Minus(b, a) = n
<1>1. b - a = n \/ b - a = n - Modulus
  BY NumbersAssumption DEF Ahead, Bytes
<1>2. n % Modulus = n
  BY TurnLow, NumbersAssumption
<1>3. n # 0 => (n - Modulus) % Modulus = n
  <2>1. n # 0 => n - Modulus \in -Modulus .. -1
    BY NumbersAssumption
  <2>2. n # 0 => (n - Modulus) % Modulus = (n - Modulus) + Modulus
    BY <2>1, TurnBack, NumbersAssumption
  <2> QED
    BY <2>2, NumbersAssumption
<1>4. n = 0 => b - a = n
  BY <1>1, NumbersAssumption DEF Bytes
<1> QED
  BY <1>1, <1>2, <1>3, <1>4 DEF Minus

\* A difference is a reading again.
LEMMA MinusIsBytes ==
    ASSUME NEW a \in Bytes, NEW b \in Bytes
    PROVE  Minus(b, a) \in Bytes /\ Minus(b, a) \div Unit \in Bytes
<1>1. b - a \in 0 .. Modulus - 1 \/ b - a \in -Modulus .. -1
  BY NumbersAssumption DEF Bytes
<1>2. Minus(b, a) \in Bytes
  BY <1>1, TurnLow, TurnBack, NumbersAssumption DEF Minus, Bytes
<1>3. Minus(b, a) \div Unit \in 0 .. Minus(b, a)
  BY <1>2, Kilobytes, NumbersAssumption DEF Bytes
<1> QED
  BY <1>2, <1>3, NumbersAssumption DEF Bytes
-----------------------------------------------------------------------------
(* The invariant                                                           *)

LEMMA FlowInitially == FlowInit => FlowInv
<1> SUFFICES ASSUME FlowInit PROVE FlowInv
  OBVIOUS
<1> USE NumbersAssumption DEF FlowInit
<1>1. FlowTypeOK
  <2>1. 0 \in Bytes /\ 0 \in 0 .. Modulus /\ 1 \in 1 .. MaxAlarms + 1
    BY DEF Bytes
  <2>2. at \in [Hosts -> Labels]
    BY DEF Labels
  <2> QED
    BY <2>1, <2>2 DEF FlowTypeOK
<1>2. HandleInv /\ HandlesAreOwn
  BY DEF HandleInv, HandlesAreOwn
<1>3. CountInv
  BY DEF CountInv, OneFlight, BaselineInv, FirstOrNext, FlightInv
<1> QED
  BY <1>1, <1>2, <1>3 DEF FlowInv

LEMMA TrafficStep == FlowInv /\ Traffic => FlowInv'
<1> SUFFICES ASSUME FlowInv, Traffic PROVE FlowInv'
  OBVIOUS
<1> USE DEF FlowInv, Traffic, counts, handles
<1>1. rx' = rx + 1 \/ rx' = rx + 1 - Modulus
  <2>1. rx + 1 \in 0 .. Modulus - 1 \/ rx + 1 \in Modulus .. 2 * Modulus - 1
    BY NumbersAssumption DEF FlowTypeOK, Bytes
  <2>2. CASE rx + 1 \in 0 .. Modulus - 1
    BY <2>2, TurnLow, NumbersAssumption
  <2>3. CASE rx + 1 \in Modulus .. 2 * Modulus - 1
    <3>1. (rx + 1) % Modulus = (rx + 1) - Modulus
      BY <2>3, TurnHigh, NumbersAssumption
    <3> QED
      BY <3>1, NumbersAssumption DEF FlowTypeOK, Bytes
  <2> QED
    BY <2>1, <2>2, <2>3
<1>2. rx' \in Bytes
  <2>1. rx + 1 \in 0 .. Modulus - 1 \/ rx + 1 = Modulus
    BY NumbersAssumption DEF FlowTypeOK, Bytes
  <2>2. CASE rx + 1 \in 0 .. Modulus - 1
    BY <2>2, TurnLow, NumbersAssumption DEF Bytes
  <2>3. CASE rx + 1 = Modulus
    BY <2>3, TurnHigh, NumbersAssumption DEF Bytes
  <2> QED
    BY <2>1, <2>2, <2>3
<1>3. FlowTypeOK'
  BY <1>2, NumbersAssumption DEF FlowTypeOK
<1>4. HandleInv' /\ HandlesAreOwn'
  BY DEF HandleInv, HandlesAreOwn
<1>5. \A a \in Bytes : since' < Modulus /\ Ahead(a, since, rx) => Ahead(a, since', rx')
  BY <1>1, <1>2, NumbersAssumption DEF FlowTypeOK, Bytes, Ahead
<1>6. CountInv'
  BY <1>5, NumbersAssumption
  DEF CountInv, OneFlight, BaselineInv, FirstOrNext, FlightInv, FlowTypeOK, Ahead, Bytes
<1> QED
  BY <1>3, <1>4, <1>6

LEMMA ResetStep == FlowInv /\ Reset => FlowInv'
  BY NumbersAssumption
  DEF FlowInv, Reset, counts, handles, FlowTypeOK, Bytes, HandleInv, HandlesAreOwn, CountInv

\* Nothing but a thread's place is needed to see where the others are.
LEMMA TickStep == ASSUME NEW t \in Hosts, FlowInv, Tick(t) PROVE FlowInv'
<1> USE DEF FlowInv, Tick, Goto, counts, handles
<1>1. FlowTypeOK'
  BY DEF FlowTypeOK, Labels
<1>2. HandleInv' /\ HandlesAreOwn'
  BY DEF HandleInv, HandlesAreOwn
<1>3. CountInv'
  <2> SUFFICES ASSUME ~disturbed' PROVE CountInv'
    BY DEF CountInv
  <2>1. Quiet /\ ~disturbed
    OBVIOUS
  <2>2. \A u \in Hosts : u # t => at'[u] = "none"
    BY <2>1 DEF Quiet, FlowTypeOK
  <2>3. at'[t] = IF flow_count = 0 THEN "first" ELSE "next"
    BY DEF FlowTypeOK
  <2> QED
    BY <2>1, <2>2, <2>3
    DEF CountInv, OneFlight, BaselineInv, FirstOrNext, FlightInv
<1> QED
  BY <1>1, <1>2, <1>3

\* The callback of t goes on: of the others, what matters is that they are idle.
LEMMA OthersIdle ==
    ASSUME NEW t \in Hosts, FlowInv, ~disturbed, at[t] # "none",
           \A u \in Hosts : u # t => at'[u] = at[u]
    PROVE  \A u \in Hosts : u # t => at'[u] = "none"
  BY DEF FlowInv, CountInv, OneFlight

LEMMA ReadCounterStep == ASSUME NEW t \in Hosts, FlowInv, ReadCounter(t) PROVE FlowInv'
<1> USE DEF FlowInv, ReadCounter, Read, Goto, handles
<1>1. FlowTypeOK'
  BY NumbersAssumption DEF FlowTypeOK, Labels
<1>2. HandleInv' /\ HandlesAreOwn'
  BY DEF HandleInv, HandlesAreOwn
<1>3. CountInv'
  <2> SUFFICES ASSUME ~disturbed' PROVE CountInv'
    BY DEF CountInv
  <2>1. ~disturbed /\ at[t] # "none"
    OBVIOUS
  <2>2. \A u \in Hosts : u # t => at'[u] = "none"
    BY <2>1, OthersIdle DEF FlowTypeOK
  <2>3. CASE at[t] = "first"
    <3>1. at'[t] = "base" /\ since' = 0 /\ seen' = 0 /\ flow_count = 0
      BY <2>1, <2>3 DEF CountInv, FirstOrNext, FlowTypeOK
    <3> QED
      BY <2>2, <3>1, NumbersAssumption
      DEF CountInv, OneFlight, BaselineInv, FirstOrNext, FlightInv, Ahead, FlowTypeOK, Bytes
  <2>4. CASE at[t] = "next"
    <3>1. at'[t] = "diff" /\ since' = since /\ seen' = since /\ flow_count # 0
      BY <2>1, <2>4 DEF CountInv, FirstOrNext, FlowTypeOK
    <3> QED
      BY <2>1, <2>2, <3>1, NumbersAssumption
      DEF CountInv, OneFlight, BaselineInv, FirstOrNext, FlightInv, Ahead, FlowTypeOK, Bytes
  <2> QED
    BY <2>3, <2>4
<1> QED
  BY <1>1, <1>2, <1>3

LEMMA ReadNothingStep == ASSUME NEW t \in Hosts, FlowInv, ReadNothing(t) PROVE FlowInv'
  BY DEF FlowInv, ReadNothing, Read, Goto, counts, handles, FlowTypeOK, Labels,
         HandleInv, HandlesAreOwn, CountInv

\* Giving up and having reported both lead back to idleness.
LEMMA BackStep ==
    ASSUME NEW t \in Hosts, FlowInv, ReadFails(t) \/ Report(t) PROVE FlowInv'
<1> USE DEF FlowInv, ReadFails, Report, Goto, counts, handles, flowGhosts
<1>1. FlowTypeOK'
  BY DEF FlowTypeOK, Labels
<1>2. HandleInv' /\ HandlesAreOwn'
  BY DEF HandleInv, HandlesAreOwn
<1>3. CountInv'
  <2> SUFFICES ASSUME ~disturbed' PROVE CountInv'
    BY DEF CountInv
  <2>1. \A u \in Hosts : at'[u] = "none"
    BY OthersIdle DEF FlowTypeOK
  <2> QED
    BY <2>1 DEF CountInv, OneFlight, BaselineInv, FirstOrNext, FlightInv
<1> QED
  BY <1>1, <1>2, <1>3

LEMMA BaselineStep == ASSUME NEW t \in Hosts, FlowInv, Baseline(t) PROVE FlowInv'
<1> USE DEF FlowInv, Baseline, Goto, handles, flowGhosts
<1>1. FlowTypeOK'
  BY DEF FlowTypeOK, Labels
<1>2. HandleInv' /\ HandlesAreOwn'
  BY DEF HandleInv, HandlesAreOwn
<1>3. CountInv'
  <2> SUFFICES ASSUME ~disturbed' PROVE CountInv'
    BY DEF CountInv
  <2>1. \A u \in Hosts : at'[u] = "none"
    BY OthersIdle DEF FlowTypeOK
  <2>2. since < Modulus => Ahead(im_use_flow, since, rx)
    BY DEF CountInv, FlightInv
  <2> QED
    BY <2>1, <2>2 DEF CountInv, OneFlight, BaselineInv, FirstOrNext, FlightInv, Ahead
<1> QED
  BY <1>1, <1>2, <1>3

LEMMA DifferenceStep == ASSUME NEW t \in Hosts, FlowInv, Difference(t) PROVE FlowInv'
<1> USE DEF FlowInv, Difference, Goto, handles, flowGhosts
<1>0. im_use_flow \in Bytes /\ flow_count \in Bytes
  BY DEF FlowTypeOK
<1>1. FlowTypeOK'
  BY <1>0, MinusIsBytes DEF FlowTypeOK, Labels
<1>2. HandleInv' /\ HandlesAreOwn'
  BY DEF HandleInv, HandlesAreOwn
<1>3. CountInv'
  <2> SUFFICES ASSUME ~disturbed' PROVE CountInv'
    BY DEF CountInv
  <2>1. \A u \in Hosts : u # t => at'[u] = "none"
    BY OthersIdle DEF FlowTypeOK
  <2>2. at'[t] = "report"
    BY DEF FlowTypeOK
  <2>3. seen < Modulus => Minus(im_use_flow, flow_count) = seen
    <3>1. seen < Modulus => Ahead(flow_count, seen, im_use_flow)
      BY DEF CountInv, FlightInv
    <3>2. seen < Modulus => seen \in 0 .. Modulus - 1
      BY NumbersAssumption DEF FlowTypeOK
    <3> QED
      BY <1>0, <3>1, <3>2, MinusIsExact
  <2>4. BaselineInv'
    BY DEF CountInv, BaselineInv
  <2> QED
    BY <2>1, <2>2, <2>3, <2>4 DEF CountInv, OneFlight, FirstOrNext, FlightInv
<1> QED
  BY <1>1, <1>2, <1>3

\* Registrations and the end of a notice.
LEMMA HandleStep ==
    ASSUME FlowInv, Open \/ Notice \/ NoticeEnds
    PROVE  FlowInv'
<1> USE NumbersAssumption DEF FlowInv
<1>1. CountInv'
  BY DEF Open, Notice, NoticeEnds, counts, flowGhosts, CountInv, OneFlight, BaselineInv,
         FirstOrNext, FlightInv, Ahead
<1>2. FlowTypeOK'
  <2> USE DEF FlowTypeOK, counts, flowGhosts
  <2>1. CASE Open
    BY <2>1 DEF Open, NextHandle, Alarm, Kinds
  <2>2. CASE Notice
    BY <2>2 DEF Notice, NextHandle, Alarm, Kinds
  <2>3. CASE NoticeEnds
    BY <2>3 DEF NoticeEnds
  <2> QED
    BY <2>1, <2>2, <2>3
<1>3. HandleInv'
  BY DEF Open, Notice, NoticeEnds, FlowTypeOK, HandleInv, NextHandle, Alarm
<1>4. HandlesAreOwn'
  <2>1. CASE Open
    BY <2>1 DEF Open, FlowTypeOK, HandleInv, HandlesAreOwn, NextHandle, Alarm
  <2>2. CASE Notice
    BY <2>2 DEF Notice, FlowTypeOK, HandleInv, HandlesAreOwn, NextHandle, Alarm
  <2>3. CASE NoticeEnds
    BY <2>3 DEF NoticeEnds, HandlesAreOwn
  <2> QED
    BY <2>1, <2>2, <2>3
<1> QED
  BY <1>1, <1>2, <1>3, <1>4

LEMMA StopStep ==
    ASSUME NEW t \in Hosts, FlowInv, StopTimers(t), open' \in BOOLEAN
    PROVE  FlowInv'
<1> USE DEF FlowInv, StopTimers, Unregistered
<1>1. FlowTypeOK'
  BY NumbersAssumption DEF FlowTypeOK, Bytes
<1>2. HandleInv' /\ HandlesAreOwn'
  BY DEF HandleInv, HandlesAreOwn
<1>3. CountInv'
  BY DEF Quiet, CountInv, OneFlight, BaselineInv, FirstOrNext, FlightInv
<1> QED
  BY <1>1, <1>2, <1>3

LEMMA FlowInductive == FlowSpec => []FlowInv
<1>1. FlowInv /\ [FlowNext]_flowVars => FlowInv'
  <2> SUFFICES ASSUME FlowInv, [FlowNext]_flowVars PROVE FlowInv'
    OBVIOUS
  <2>1. CASE StopCommand
    BY <2>1, StopStep DEF StopCommand, Hosts
  <2>2. ASSUME NEW t \in Hosts, Expire(t) PROVE FlowInv'
    BY <2>2, StopStep DEF Expire, FlowInv, FlowTypeOK
  <2>3. ASSUME NEW t \in Hosts, Callback(t) PROVE FlowInv'
    BY <2>3, TickStep, ReadCounterStep, ReadNothingStep, BackStep, BaselineStep,
       DifferenceStep DEF Callback
  <2>4. CASE UNCHANGED flowVars
    BY <2>4 DEF flowVars, counts, handles, flowGhosts, FlowInv, FlowTypeOK, HandleInv,
                HandlesAreOwn, CountInv, OneFlight, BaselineInv, FirstOrNext, FlightInv, Ahead
  <2> QED
    BY <2>1, <2>2, <2>3, <2>4, TrafficStep, ResetStep, HandleStep DEF FlowNext
<1> QED
  BY <1>1, FlowInitially, PTL DEF FlowSpec
-----------------------------------------------------------------------------
(* The theorems                                                            *)

\* The flow count keeps its variables typed; above all, what is computed from the
\* counters fits them.
THEOREM FlowTypeCorrect == FlowSpec => []FlowTypeOK
<1>1. FlowInv => FlowTypeOK
  BY DEF FlowInv
<1> QED
  BY <1>1, FlowInductive, PTL

\* What im_stop_heartbeat_cloud and im_stop_flow_count unregister is an alarm of a
\* session or nothing, however often registrations and ends alternate.
THEOREM StopsUnregisterTheirOwn == FlowSpec => []HandlesAreOwn
<1>1. FlowInv => HandlesAreOwn
  BY DEF FlowInv
<1> QED
  BY <1>1, FlowInductive, PTL

\* im_start_flow_count reports the bytes since the baseline, for a counter of any
\* width, wherever it wraps, until something is disturbed.
THEOREM FlowIsReportedExactly == FlowSpec => []ReportIsExact
<1>1. FlowInv => ReportIsExact
  BY DEF FlowInv, CountInv, FlightInv, ReportIsExact
<1> QED
  BY <1>1, FlowInductive, PTL
=============================================================================
