---------------------------- MODULE MCAlarmClock ----------------------------
(***************************************************************************)
(* AlarmClock for TLC: interchangeable heap blocks, and three scopes a run      *)
(* begins in.  "alone": the main thread and its handler, with up to MaxReg        *)
(* alarms (two, once one was inside the list with the other).  "apart": every      *)
(* thread, with two alarms that are not removed, none inside the list with         *)
(* another, while they share the timer.  "crossing": every thread, where no       *)
(* registration begins once an alarm has its number, although several may be      *)
(* under way before.                                                            *)
(***************************************************************************)
EXTENDS AlarmClock, TLC

VARIABLE scope

BlockSymmetry == Permutations(Nodes)

MainNext ==
    \/ InitAlarmPostConfig \/ Tick \/ HandlerStep(Main)
    \/ \E c \in {App(Main), Sig(Main)} : CtxStep(c)

NoneBegins == \A c \in Ctx : pc'[c] = "walked" => pc[c] = "walked"

\* No client removes an alarm: of all steps that keep every context where it
\* is, only snmp_alarm_unregister frees a block.
NoneRemoved == pc' = pc => allocated' = allocated

ScopedInit == Init /\ scope \in {"alone", "apart", "crossing"}

ScopedNext ==
    /\ UNCHANGED scope
    /\ \/ scope = "alone" /\ MainNext /\ (overlap /\ regnum > 2 => NoneBegins)
       \/ scope = "apart" /\ Next /\ ~overlap' /\ NoneRemoved /\ (regnum > 2 => NoneBegins)
       \/ scope = "crossing" /\ Next /\ (regnum > 1 => NoneBegins)

ScopedSpec == ScopedInit /\ [][ScopedNext]_<<vars, scope>>
=============================================================================
