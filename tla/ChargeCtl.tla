----------------------------- MODULE ChargeCtl -----------------------------
(***************************************************************************)
(* Control of the charging circuit, cpu/br36/charge.c: charge_start and    *)
(* charge_close run in the application task, step by step, and can be      *)
(* preempted between two steps by the callbacks that run in interrupt      *)
(* context: the constant-current check, the full detection and the wakeup  *)
(* interrupt of the full flag (IO_CHGFL_DET).                              *)
(*                                                                         *)
(* A usr timer whose handle is overwritten can no longer be deleted, but   *)
(* its callback still runs every 2 ms: orphans counts those.               *)
(***************************************************************************)
EXTENDS Naturals

CONSTANTS
    FullThreshold,   \* full samples before the verdict, 10 in the code
    MaxOrphans,      \* bound on the timers whose handle was lost
    ChargeMA         \* charge_mA of the board, an index of current_table

ASSUME FullAssumption == FullThreshold \in Nat

ASSUME OrphanAssumption == MaxOrphans \in Nat

\* Index 0 is CHARGE_mA_20, the trickle current; 255 is the cache's "never".
ASSUME CurrentAssumption == ChargeMA \in 0 .. 15

VARIABLES
    pc,          \* next step of the task: "idle" outside the two functions
    checkFull,   \* check_full: charge_start found the battery above CHARGE_CCVOL_V
    sawNoTimer,  \* charge_wakeup_isr, called by the task, read charge_timer = 0
    chgEn,       \* CHARGE_EN and CHGGO_EN
    mA,          \* the current selected in hardware
    mAOld,       \* charge_mA_old, the cache of set_charge_mA
    fullWake,    \* wakeup of IO_CHGFL_DET enabled
    fullTimer,   \* charge_timer # 0
    orphans,     \* full detection timers that nobody can delete any more
    fullCnt,     \* charge_full_cnt
    ccTimer,     \* cc_timer # 0
    fullSent,    \* history: CHARGE_FULL posted since the last charge_close
    restarted,   \* history: some charge_start found cc_timer armed
    posted       \* the event given to charge_event_to_user in the last step

task == <<pc, checkFull, sawNoTimer>>
chip == <<chgEn, mA, mAOld, fullWake>>
tmrs == <<fullTimer, orphans, fullCnt, ccTimer>>
hist == <<fullSent, restarted>>
vars == <<task, chip, tmrs, hist, posted>>

Trickle == 0
NoCurrent == 255

Events == {"CHARGE_START", "CHARGE_CLOSE", "CHARGE_FULL"}

Steps == {"idle", "start_select", "start_test", "start_cache", "start_register",
          "start_arm", "start_enable", "start_check", "start_timer",
          "close_full_timer", "close_cc_timer"}

\* Types.  The current is one of current_table, and charge_full_cnt, which two
\* timers may advance and charge_close does not clear, never passes the
\* threshold.
TypeOK ==
    /\ pc \in Steps
    /\ checkFull \in BOOLEAN
    /\ sawNoTimer \in BOOLEAN
    /\ chgEn \in BOOLEAN
    /\ mA \in 0 .. 15
    /\ mAOld \in 0 .. 15 \cup {NoCurrent}
    /\ fullWake \in BOOLEAN
    /\ fullTimer \in BOOLEAN
    /\ orphans \in 0 .. MaxOrphans
    /\ fullCnt \in 0 .. FullThreshold
    /\ ccTimer \in BOOLEAN
    /\ fullSent \in BOOLEAN
    /\ restarted \in BOOLEAN
    /\ posted \in Events \cup {"none"}

-----------------------------------------------------------------------------
\* Mutation of Init: the cache of set_charge_mA starts at the board's current.
InitCacheConfigured ==
    /\ pc = "idle"
    /\ checkFull = FALSE
    /\ sawNoTimer = FALSE
    /\ chgEn = FALSE
    /\ mA = Trickle
    /\ mAOld = ChargeMA
    /\ fullWake = FALSE
    /\ fullTimer = FALSE
    /\ orphans = 0
    /\ fullCnt = 0
    /\ ccTimer = FALSE
    /\ fullSent = FALSE
    /\ restarted = FALSE
    /\ posted = "none"

\* After charge_init: charging off, the trickle current selected behind the
\* back of set_charge_mA's cache (charge_config).
Init ==
    /\ pc = "idle"
    /\ checkFull = FALSE
    /\ sawNoTimer = FALSE
    /\ chgEn = FALSE
    /\ mA = Trickle
    /\ mAOld = NoCurrent
    /\ fullWake = FALSE
    /\ fullTimer = FALSE
    /\ orphans = 0
    /\ fullCnt = 0
    /\ ccTimer = FALSE
    /\ fullSent = FALSE
    /\ restarted = FALSE
    /\ posted = "none"

-----------------------------------------------------------------------------
(* charge_start *)

\* The full detection of an earlier charge is stopped first.
ChargeStart ==
    /\ pc = "idle"
    /\ pc' = "start_select"
    /\ checkFull' = FALSE
    /\ fullTimer' = FALSE
    /\ restarted' = (restarted \/ ccTimer)
    /\ posted' = "none"
    /\ UNCHANGED <<sawNoTimer, chip, orphans, fullCnt, ccTimer, fullSent>>

\* The battery voltage decides between the board's current and the trickle
\* current.
StartSelect(ccVoltage) ==
    /\ pc = "start_select"
    /\ pc' = "start_test"
    /\ checkFull' = ccVoltage
    /\ posted' = "none"
    /\ UNCHANGED <<sawNoTimer, chip, tmrs, hist>>

Wanted == IF checkFull THEN ChargeMA ELSE Trickle

\* set_charge_mA, called by charge_start: the test of the cache, the cache and
\* the register are three accesses, and charge_cc_check, which calls
\* set_charge_mA too, may run between them.
StartTest ==
    /\ pc = "start_test"
    /\ pc' = IF mAOld # Wanted THEN "start_cache" ELSE "start_arm"
    /\ posted' = "none"
    /\ UNCHANGED <<checkFull, sawNoTimer, chip, tmrs, hist>>

StartCache ==
    /\ pc = "start_cache"
    /\ pc' = "start_register"
    /\ mAOld' = Wanted
    /\ posted' = "none"
    /\ UNCHANGED <<checkFull, sawNoTimer, chgEn, mA, fullWake, tmrs, hist>>

StartRegister ==
    /\ pc = "start_register"
    /\ pc' = "start_arm"
    /\ mA' = Wanted
    /\ posted' = "none"
    /\ UNCHANGED <<checkFull, sawNoTimer, chgEn, mAOld, fullWake, tmrs, hist>>

\* Mutation of StartArm: the trickle branch relies on a timer already there.
StartArmNoTimer ==
    /\ pc = "start_arm"
    /\ pc' = "start_enable"
    /\ fullWake' = (fullWake \/ checkFull)
    /\ posted' = "none"
    /\ UNCHANGED <<checkFull, sawNoTimer, chgEn, mA, mAOld, tmrs, hist>>

\* At the board's current full detection is armed, at the trickle current a
\* timer that waits for the voltage, unless it runs already.
StartArm ==
    /\ pc = "start_arm"
    /\ pc' = "start_enable"
    /\ fullWake' = (fullWake \/ checkFull)
    /\ ccTimer' = (ccTimer \/ ~checkFull)
    /\ posted' = "none"
    /\ UNCHANGED <<checkFull, sawNoTimer, chgEn, mA, mAOld, fullTimer, orphans, fullCnt,
                   hist>>

StartEnable ==
    /\ pc = "start_enable"
    /\ chgEn' = TRUE
    /\ posted' = "CHARGE_START"
    /\ pc' = IF checkFull THEN "start_check" ELSE "idle"
    /\ UNCHANGED <<checkFull, sawNoTimer, mA, mAOld, fullWake, tmrs, hist>>

\* If the full flag is already up, charge_wakeup_isr is called by hand: here
\* it reads charge_timer ...
StartCheck(fullFlag) ==
    /\ pc = "start_check"
    /\ pc' = IF fullFlag THEN "start_timer" ELSE "idle"
    /\ sawNoTimer' = (fullFlag /\ ~fullTimer)
    /\ posted' = "none"
    /\ UNCHANGED <<checkFull, chip, tmrs, hist>>

\* ... and here stores the new timer over whatever the handle is now.
StartTimer ==
    /\ pc = "start_timer"
    /\ sawNoTimer /\ fullTimer => orphans < MaxOrphans
    /\ pc' = "idle"
    /\ orphans' = IF sawNoTimer /\ fullTimer THEN orphans + 1 ELSE orphans
    /\ fullTimer' = (fullTimer \/ sawNoTimer)
    /\ sawNoTimer' = FALSE
    /\ posted' = "none"
    /\ UNCHANGED <<checkFull, chip, fullCnt, ccTimer, hist>>

-----------------------------------------------------------------------------
(* charge_close *)

ChargeClose ==
    /\ pc = "idle"
    /\ pc' = "close_full_timer"
    /\ chgEn' = FALSE
    /\ fullWake' = FALSE
    /\ fullSent' = FALSE
    /\ posted' = "CHARGE_CLOSE"
    /\ UNCHANGED <<checkFull, sawNoTimer, mA, mAOld, tmrs, restarted>>

CloseFullTimer ==
    /\ pc = "close_full_timer"
    /\ pc' = "close_cc_timer"
    /\ fullTimer' = FALSE
    /\ posted' = "none"
    /\ UNCHANGED <<checkFull, sawNoTimer, chip, orphans, fullCnt, ccTimer, hist>>

\* Mutation of CloseCcTimer: the constant-current check is left running.
CloseKeepsCcTimer ==
    /\ pc = "close_cc_timer"
    /\ pc' = "idle"
    /\ posted' = "none"
    /\ UNCHANGED <<checkFull, sawNoTimer, chip, tmrs, hist>>

CloseCcTimer ==
    /\ pc = "close_cc_timer"
    /\ pc' = "idle"
    /\ ccTimer' = FALSE
    /\ posted' = "none"
    /\ UNCHANGED <<checkFull, sawNoTimer, chip, fullTimer, orphans, fullCnt, hist>>

-----------------------------------------------------------------------------
(* Interrupt context *)

\* charge_wakeup_isr on a rising edge of the full flag.
ChargeWakeupIsr ==
    /\ fullWake
    /\ fullTimer' = TRUE
    /\ posted' = "none"
    /\ UNCHANGED <<task, chip, orphans, fullCnt, ccTimer, hist>>

\* charge_cc_check with the battery above CHARGE_CCVOL_V.  Its set_charge_mA is
\* not interrupted: the register follows only if the cache differs.
ChargeCcCheck ==
    /\ ccTimer
    /\ mAOld' = ChargeMA
    /\ mA' = IF mAOld # ChargeMA THEN ChargeMA ELSE mA
    /\ ccTimer' = FALSE
    /\ fullWake' = TRUE
    /\ fullTimer' = TRUE
    /\ posted' = "none"
    /\ UNCHANGED <<task, chgEn, orphans, fullCnt, hist>>

\* Some full detection timer fires, the one of the handle or an orphan.
FullTick == fullTimer \/ orphans > 0

\* charge_full_detect, flag filtered away: the count starts again and the
\* timer stops until the next edge.
FullGone ==
    /\ FullTick
    /\ fullCnt' = 0
    /\ fullTimer' = FALSE
    /\ posted' = "none"
    /\ UNCHANGED <<task, chip, orphans, ccTimer, hist>>

\* Flag seen by the filter but not, or not with LVCMP, right now.
FullNotYet ==
    /\ FullTick
    /\ fullCnt' = 0
    /\ posted' = "none"
    /\ UNCHANGED <<task, chip, fullTimer, orphans, ccTimer, hist>>

\* Mutation of FullCount: one full sample too many is counted.
FullCountOneMore ==
    /\ FullTick
    /\ fullCnt <= FullThreshold
    /\ fullCnt' = fullCnt + 1
    /\ posted' = "none"
    /\ UNCHANGED <<task, chip, fullTimer, orphans, ccTimer, hist>>

FullCount ==
    /\ FullTick
    /\ fullCnt < FullThreshold
    /\ fullCnt' = fullCnt + 1
    /\ posted' = "none"
    /\ UNCHANGED <<task, chip, fullTimer, orphans, ccTimer, hist>>

\* Full for long enough: the event, with the wakeup and the timer off.
FullVerdict ==
    /\ FullTick
    /\ fullCnt >= FullThreshold
    /\ fullCnt' = 0
    /\ fullWake' = FALSE
    /\ fullTimer' = FALSE
    /\ fullSent' = TRUE
    /\ posted' = "CHARGE_FULL"
    /\ UNCHANGED <<task, chgEn, mA, mAOld, orphans, ccTimer, restarted>>

ChargeFullDetect == FullGone \/ FullNotYet \/ FullCount \/ FullVerdict

Task ==
    \/ ChargeStart
    \/ \E ccVoltage \in BOOLEAN : StartSelect(ccVoltage)
    \/ StartTest
    \/ StartCache
    \/ StartRegister
    \/ StartArm
    \/ StartEnable
    \/ \E fullFlag \in BOOLEAN : StartCheck(fullFlag)
    \/ StartTimer
    \/ ChargeClose
    \/ CloseFullTimer
    \/ CloseCcTimer

Interrupt == ChargeWakeupIsr \/ ChargeCcCheck \/ ChargeFullDetect

Next == Task \/ Interrupt

Spec == Init /\ [][Next]_vars

-----------------------------------------------------------------------------
\* The charger is never on without someone watching for the end of the charge:
\* the wakeup of the full flag, the constant-current check that will enable
\* it, or a CHARGE_FULL on its way to the application, whose answer is a
\* charge_close.
Supervised == chgEn => (fullWake \/ ccTimer \/ fullSent)

\* A charge does not stay at the trickle current: while the current is below
\* the board's, the check that raises it is running, whatever the cache of
\* set_charge_mA believes.  Only a charge_start that finds cc_timer armed may
\* lose this, for good: charge_cc_check then comes between the cache and the
\* register of the trickle current and leaves the cache at the board's.  The
\* application starts a charge only from a closed charger (StartsFromClosed
\* of AppCharge), whose cc_timer is gone (CloseStopsCcCheck).
TrickleEnds == (chgEn /\ pc = "idle" /\ mA # ChargeMA) => (ccTimer \/ restarted)

\* No charge, no current switching: after charge_close nothing is left that
\* could select the board's current.
CloseStopsCcCheck == (~chgEn /\ pc = "idle") => ~ccTimer

\* timer.h asks for every usr_timer_add to be paired with a usr_timer_del: no
\* full detection timer loses its handle.
EveryTimerHasItsHandle == orphans = 0

=============================================================================
