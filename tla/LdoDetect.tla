----------------------------- MODULE LdoDetect -----------------------------
(***************************************************************************)
(* Detection of the charger plug, cpu/br36/charge.c.                       *)
(*                                                                         *)
(* Two comparators are folded into one level: "in" (LDOIN above VBAT),     *)
(* "keep" (LDOIN between the pull-out voltage and VBAT) and "off".  A 2 ms *)
(* usr timer, started by the LDOIN/VBTCH wakeup interrupt, samples the     *)
(* level, counts the samples of each kind and, when a counter reaches its  *)
(* filter, reports the verdict once and stops itself.                      *)
(*                                                                         *)
(* The wakeup interrupt is behind the 16 ms port filter of the board file: *)
(* edgeLevel is the filter's output, and the interrupt is raised when it   *)
(* catches up with the level, so a change that is undone sooner raises no  *)
(* interrupt.  Both callbacks run in interrupt context and are atomic.     *)
(***************************************************************************)
EXTENDS Naturals

CONSTANTS
    OnFilter,      \* ldo5v_on_filter
    KeepFilter,    \* ldo5v_keep_filter
    OffFilter,     \* ldo5v_off_filter
    OffMargin,     \* the 20 ticks added to ldo5v_off_filter
    GlitchFree     \* TRUE: the level never changes twice within the port filter

ASSUME FilterAssumption ==
    /\ OnFilter \in Nat
    /\ KeepFilter \in Nat
    /\ OffFilter \in Nat
    /\ OffMargin \in Nat

ASSUME GlitchAssumption == GlitchFree \in BOOLEAN

VARIABLES
    level,         \* what LVCMP_DET_GET and LDO5V_DET_GET read now
    edgeLevel,     \* output of the wakeup port filter
    initOk,        \* init_ok
    online,        \* charge_online_flag
    chargeFlag,    \* charge_flag: last status decided, "none" before the first
    detectStop,    \* detect_stop
    ldoTimer,      \* ldo5v_timer # 0
    cnt,           \* ldo5v_on_cnt, ldo5v_keep_cnt, ldo5v_off_cnt
    ldoWake,       \* wakeup of IO_LDOIN_DET and IO_VBTCH_DET enabled
    posted         \* the event given to charge_event_to_user in the last step

hw   == <<level, edgeLevel>>
drv  == <<initOk, online, chargeFlag, detectStop, ldoTimer, cnt, ldoWake>>
vars == <<hw, drv, posted>>

Levels == {"in", "keep", "off"}

Events == {"LDO5V_IN", "LDO5V_KEEP", "LDO5V_OFF"}

ZeroCnt == [l \in Levels |-> 0]

\* Samples of a level that are only counted; the next one is the verdict.
Filter(l) == CASE l = "in"   -> OnFilter
               [] l = "keep" -> KeepFilter
               [] l = "off"  -> OffFilter + OffMargin

\* The event a verdict posts.  KEEP is reported only by boards with an off
\* filter; the flag remembers the verdict all the same.
EventOf(l) == CASE l = "in"   -> "LDO5V_IN"
                [] l = "keep" -> IF OffFilter # 0 THEN "LDO5V_KEEP" ELSE "none"
                [] l = "off"  -> "LDO5V_OFF"

\* Types.  No counter of ldo5v_detect ever passes its filter: it grows below it
\* only, and a verdict clears all three.
TypeOK ==
    /\ level \in Levels
    /\ edgeLevel \in Levels
    /\ initOk \in BOOLEAN
    /\ online \in BOOLEAN
    /\ chargeFlag \in Levels \cup {"none"}
    /\ detectStop \in BOOLEAN
    /\ ldoTimer \in BOOLEAN
    /\ cnt \in [Levels -> Nat]
    /\ \A l \in Levels : cnt[l] <= Filter(l)
    /\ ldoWake \in BOOLEAN
    /\ posted \in Events \cup {"none"}

-----------------------------------------------------------------------------
\* Reset: the statics are zero and the wakeup ports are on (board_power_init
\* runs before devices_init).
Init ==
    /\ level \in Levels
    /\ edgeLevel = level
    /\ initOk = FALSE
    /\ online = FALSE
    /\ chargeFlag = "none"
    /\ detectStop = FALSE
    /\ ldoTimer = FALSE
    /\ cnt = ZeroCnt
    /\ ldoWake = TRUE
    /\ posted = "none"

\* The voltage on the charging pin moves.
SetLevel(l) ==
    /\ l # level
    /\ GlitchFree => edgeLevel = level
    /\ level' = l
    /\ posted' = "none"
    /\ UNCHANGED <<edgeLevel, drv>>

\* Mutation of ChargeInit: a boot off the charger leaves charge_flag empty.
ChargeInitNoFlag(on) ==
    /\ ~initOk
    /\ \/ on = (level # "off")
       \/ on = (edgeLevel # "off")
    /\ initOk' = TRUE
    /\ online' = on
    /\ ldoTimer' = (ldoTimer \/ on)
    /\ posted' = "none"
    /\ UNCHANGED <<hw, chargeFlag, detectStop, cnt, ldoWake>>

\* charge_init: check_charge_state takes 20 samples; while the level is
\* changing either majority can come out.
ChargeInit(on) ==
    /\ ~initOk
    /\ \/ on = (level # "off")
       \/ on = (edgeLevel # "off")
    /\ initOk' = TRUE
    /\ online' = on
    /\ ldoTimer' = (ldoTimer \/ on)
    /\ chargeFlag' = IF on THEN chargeFlag ELSE "off"
    /\ posted' = "none"
    /\ UNCHANGED <<hw, detectStop, cnt, ldoWake>>

\* ldoin_wakeup_isr.  Without init_ok, or with the wakeup port disabled, the
\* edge is gone.
LdoinWakeupIsr ==
    /\ edgeLevel # level
    /\ edgeLevel' = level
    /\ ldoTimer' = (ldoTimer \/ (initOk /\ ldoWake))
    /\ posted' = "none"
    /\ UNCHANGED <<level, initOk, online, chargeFlag, detectStop, cnt, ldoWake>>

\* Mutation of CountSample: one sample too many is counted.
CountSampleOneMore ==
    /\ ldoTimer
    /\ ~detectStop
    /\ cnt[level] <= Filter(level)
    /\ cnt' = [cnt EXCEPT ![level] = @ + 1]
    /\ posted' = "none"
    /\ UNCHANGED <<hw, initOk, online, chargeFlag, detectStop, ldoTimer, ldoWake>>

\* ldo5v_detect below the filter: only the counter of the level read moves.
CountSample ==
    /\ ldoTimer
    /\ ~detectStop
    /\ cnt[level] < Filter(level)
    /\ cnt' = [cnt EXCEPT ![level] = @ + 1]
    /\ posted' = "none"
    /\ UNCHANGED <<hw, initOk, online, chargeFlag, detectStop, ldoTimer, ldoWake>>

\* Mutation of Verdict: the test of the one-shot bit is lost.
VerdictAlwaysPosts ==
    /\ ldoTimer
    /\ ~detectStop
    /\ cnt[level] >= Filter(level)
    /\ online' = (level # "off")
    /\ cnt' = ZeroCnt
    /\ ldoTimer' = FALSE
    /\ chargeFlag' = level
    /\ posted' = EventOf(level)
    /\ UNCHANGED <<hw, initOk, detectStop, ldoWake>>

\* ldo5v_detect at the filter: verdict, all counters cleared, timer deleted,
\* event posted if the verdict is not the one already reported.
Verdict ==
    /\ ldoTimer
    /\ ~detectStop
    /\ cnt[level] >= Filter(level)
    /\ online' = (level # "off")
    /\ cnt' = ZeroCnt
    /\ ldoTimer' = FALSE
    /\ chargeFlag' = level
    /\ posted' = IF chargeFlag # level THEN EventOf(level) ELSE "none"
    /\ UNCHANGED <<hw, initOk, detectStop, ldoWake>>

\* charge_set_ldo5v_detect_stop, around a transmission on the charging pin.
SetDetectStop(b) ==
    /\ detectStop' = b
    /\ posted' = "none"
    /\ UNCHANGED <<hw, initOk, online, chargeFlag, ldoTimer, cnt, ldoWake>>

\* charge_module_stop, after its charge_close.
ModuleStop ==
    /\ initOk
    /\ ldoWake' = FALSE
    /\ ldoTimer' = FALSE
    /\ posted' = "none"
    /\ UNCHANGED <<hw, initOk, online, chargeFlag, detectStop, cnt>>

\* Mutation of ModuleRestart: the ports are enabled, the timer is not started.
ModuleRestartNoTimer ==
    /\ initOk
    /\ ldoWake' = TRUE
    /\ posted' = "none"
    /\ UNCHANGED <<hw, initOk, online, chargeFlag, detectStop, ldoTimer, cnt>>

\* charge_module_restart: the timer first, then the wakeup ports.
ModuleRestart ==
    /\ initOk
    /\ ldoTimer' = TRUE
    /\ ldoWake' = TRUE
    /\ posted' = "none"
    /\ UNCHANGED <<hw, initOk, online, chargeFlag, detectStop, cnt>>

Next ==
    \/ \E l \in Levels : SetLevel(l)
    \/ \E on \in BOOLEAN : ChargeInit(on)
    \/ LdoinWakeupIsr
    \/ CountSample
    \/ Verdict
    \/ \E b \in BOOLEAN : SetDetectStop(b)
    \/ ModuleStop
    \/ ModuleRestart

Spec == Init /\ [][Next]_vars

\* The 2 ms tick and a pending interrupt are always served.
Fairness ==
    /\ WF_vars(CountSample \/ Verdict)
    /\ WF_vars(LdoinWakeupIsr)

FairSpec == Spec /\ Fairness

-----------------------------------------------------------------------------
\* Detection never rests on a wrong verdict: when the timer has stopped and no
\* edge is on its way through the port filter, the status kept, and the online
\* flag the rest of the firmware reads, are those of the pin.  It needs levels
\* that outlast the port filter: the counters of ldo5v_detect are cleared by a
\* verdict only, so a spike shorter than the filter can complete one.
Settled ==
    (initOk /\ ldoWake /\ ~ldoTimer /\ edgeLevel = level)
        => (chargeFlag = level /\ online = (level # "off"))

\* The online flag and the status agree at every moment: the flag is up from
\* a boot on the charger, before any verdict, until the verdict is "off".
OnlineMatchesFlag ==
    IF initOk THEN online <=> (chargeFlag # "off")
              ELSE ~online /\ chargeFlag = "none"

\* What detection promises to its users; see PlugReport.
Plug == INSTANCE PlugReport WITH
            KeepIsReported <- OffFilter # 0,
            level    <- level,
            status   <- chargeFlag,
            watching <- initOk /\ ldoWake /\ ~detectStop,
            event    <- CASE posted = "LDO5V_IN"   -> "in"
                          [] posted = "LDO5V_KEEP" -> "keep"
                          [] posted = "LDO5V_OFF"  -> "off"
                          [] posted = "none"       -> "none"

\* Every posted event is a change of status to the level on the pin, posted
\* once, and none is withheld for ever: LdoDetect implements PlugReport.
ImplementsPlugReport == Plug!Spec

=============================================================================
