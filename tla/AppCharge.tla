----------------------------- MODULE AppCharge -----------------------------
(***************************************************************************)
(* The charge handling of the application, power_manage/app_charge.c, with *)
(* the paths that switch the device off (idle.c, earphone.c, app_main.c),  *)
(* composed with the plug detection of the driver (LdoDetect).             *)
(*                                                                         *)
(* The application task runs one event handler or sys timer callback at a  *)
(* time; the interrupt callbacks run between its steps and post events.    *)
(* The driver's filters are as short as they can be: only the order of     *)
(* verdicts and handlers matters here.  Of the charging circuit only what  *)
(* the application can see is kept: whether charging is on, and whether    *)
(* full detection may still report (ChargeCtl shows that a charge_close    *)
(* does not always stop it).                                               *)
(***************************************************************************)
EXTENDS Naturals, Sequences

CONSTANTS
    MaxQueue,   \* bound on the events waiting for the application
    MaxDelay,   \* ticks of ldo5v_in_reset_delay, 30 in the code
    MaxWait,    \* ticks a power off waits for audio to stop, 200 in the code
    TestBox     \* TRUE: a test box may talk over the charging pin

ASSUME BoundAssumption ==
    /\ MaxQueue \in Nat \ {0}
    /\ MaxDelay \in Nat \ {0}
    /\ MaxWait \in Nat

ASSUME TestBoxAssumption == TestBox \in BOOLEAN

VARIABLES
    power,      \* "on", "boot" from a reset to charge_init, "off" soft off
    level, edgeLevel, online, chargeFlag, ldoTimer, cnt,   \* see LdoDetect
    posted,     \* the event given to charge_event_to_user in the last step
    chgOn,      \* CHARGE_EN
    armed,      \* full detection may still report
    q,          \* charge events waiting for the application task
    app,        \* current app: "none", "idle", "bt"
    step,       \* what the application task does, "ready" between events
    goOff,      \* app_var.goto_poweroff_flag
    exitTimer,  \* which callback wait_exit_timer runs
    exitCnt,    \* app_var.goto_poweroff_cnt
    tone,       \* the power off tone is playing or about to
    full,       \* charge_full_flag; in "off", its value when power went off
    keepTimer,  \* ldo5v_keep_timer # 0
    resetTimer, \* ldo5v_in_reset_timer # 0
    delay,      \* delay_timeout
    testbox,    \* chargestore_get_testbox_status()
    mode,       \* what the test box asked for: "normal", "dut", "storage"
    pwrMode     \* power_set_mode: "ldo15", or "sel" for TCFG_LOWPOWER_POWER_SEL

pin   == <<level, edgeLevel>>
plug  == <<online, chargeFlag, ldoTimer, cnt>>
chg   == <<chgOn, armed>>
off   == <<goOff, exitTimer, exitCnt, tone>>
timer == <<keepTimer, resetTimer, delay>>
box   == <<testbox, mode>>
vars  == <<power, pin, plug, posted, chg, q, app, step, off, full, timer, box, pwrMode>>

Powers == {"on", "boot", "off"}

\* Nobody in the application stops detection or its wakeup.
Ldo == INSTANCE LdoDetect WITH
           OnFilter <- 0, KeepFilter <- 0, OffFilter <- 1, OffMargin <- 0,
           GlitchFree <- TRUE,
           initOk <- power = "on",
           detectStop <- power \notin Powers, ldoWake <- power \in Powers

PlugEvents == Ldo!Events

Events == PlugEvents \cup {"CHARGE_START", "CHARGE_CLOSE", "CHARGE_FULL"}

\* get_lvcmp_det and get_ldo5v_online_hw
Lvcmp == level = "in"
LdoOnlineHw == level # "off"

\* Types.  The queue holds MaxQueue events, and the counts of the two waiting
\* timers, which several callbacks share, stay within their limits.
TypeOK ==
    /\ power \in Powers
    /\ level \in Ldo!Levels /\ edgeLevel \in Ldo!Levels
    /\ online \in BOOLEAN
    /\ chargeFlag \in Ldo!Levels \cup {"none"}
    /\ ldoTimer \in BOOLEAN
    /\ cnt \in [Ldo!Levels -> 0 .. 1]
    /\ posted \in Events \cup {"none"}
    /\ chgOn \in BOOLEAN /\ armed \in BOOLEAN
    /\ q \in Seq(Events) /\ Len(q) <= MaxQueue
    /\ app \in {"none", "idle", "bt"}
    /\ step \in {"board", "main", "vbat", "ready", "keep"}
    /\ goOff \in BOOLEAN
    /\ exitTimer \in {"none", "to_idle", "to_reset", "nothing", "together"}
    /\ exitCnt \in 0 .. MaxWait
    /\ tone \in BOOLEAN
    /\ full \in BOOLEAN
    /\ keepTimer \in BOOLEAN /\ resetTimer \in BOOLEAN
    /\ delay \in 0 .. MaxDelay
    /\ testbox \in BOOLEAN
    /\ mode \in {"normal", "dut", "storage"}
    /\ pwrMode \in {"ldo15", "sel"}

-----------------------------------------------------------------------------
(* Reset and power off *)

\* Everything the program keeps in RAM, as after a reset.
RamCleared ==
    /\ online' = FALSE
    /\ chargeFlag' = "none"
    /\ ldoTimer' = FALSE
    /\ cnt' = Ldo!ZeroCnt
    /\ posted' = "none"
    /\ chgOn' = FALSE
    /\ armed' = FALSE
    /\ q' = <<>>
    /\ app' = "none"
    /\ step' = "board"
    /\ goOff' = FALSE
    /\ exitTimer' = "none"
    /\ exitCnt' = 0
    /\ tone' = FALSE
    /\ keepTimer' = FALSE
    /\ resetTimer' = FALSE
    /\ delay' = 0
    /\ testbox' = FALSE
    /\ mode' = "normal"
    /\ pwrMode' = "sel"

\* cpu_reset; it does not return.
CpuReset == power' = "boot" /\ full' = FALSE /\ RamCleared /\ UNCHANGED pin

\* power_set_soft_poweroff; it does not return.
SoftOff(wasFull) == power' = "off" /\ full' = wasFull /\ RamCleared /\ UNCHANGED pin

\* app_idle_enter_softoff: a device being charged resets instead.
IdleSoftoff == IF Lvcmp /\ ~full THEN CpuReset ELSE SoftOff(full)

Init ==
    /\ power = "boot"
    /\ level \in Ldo!Levels
    /\ edgeLevel = level
    /\ online = FALSE /\ chargeFlag = "none" /\ ldoTimer = FALSE
    /\ cnt = Ldo!ZeroCnt
    /\ posted = "none"
    /\ chgOn = FALSE /\ armed = FALSE
    /\ q = <<>>
    /\ app = "none" /\ step = "board"
    /\ goOff = FALSE /\ exitTimer = "none" /\ exitCnt = 0 /\ tone = FALSE
    /\ full = FALSE
    /\ keepTimer = FALSE /\ resetTimer = FALSE /\ delay = 0
    /\ testbox = FALSE /\ mode = "normal"
    /\ pwrMode = "sel"

-----------------------------------------------------------------------------
(* The pin, and the interrupt context *)

SetLevel(l) ==
    /\ UNCHANGED <<power, chg, q, app, step, off, full, timer, box, pwrMode>>
    /\ Ldo!SetLevel(l)

\* In soft off the edge of the pin is what starts the device again.
LdoinWakeup ==
    /\ UNCHANGED <<chg, q, app, step, off, timer, box, pwrMode>>
    /\ power' = IF power = "off" THEN "boot" ELSE power
    /\ full' = (full /\ power # "off")
    /\ edgeLevel # level
    /\ edgeLevel' = level
    /\ ldoTimer' = (ldoTimer \/ power = "on")
    /\ posted' = "none"
    /\ UNCHANGED <<level, online, chargeFlag, cnt>>

PlugTick ==
    /\ power = "on"
    /\ UNCHANGED <<power, chg, app, step, off, full, timer, box, pwrMode>>
    /\ Ldo!CountSample \/ Ldo!Verdict
    /\ q' = IF posted' = "none" THEN q ELSE Append(q, posted')
    /\ Len(q') <= MaxQueue

\* charge_full_detect reports; it takes a charger, not a running charge.
ChargeFull ==
    /\ power = "on"
    /\ armed
    /\ Lvcmp
    /\ Len(q) < MaxQueue
    /\ armed' \in BOOLEAN
    /\ posted' = "CHARGE_FULL"
    /\ q' = Append(q, "CHARGE_FULL")
    /\ UNCHANGED <<power, pin, plug, chgOn, app, step, off, full, timer, box, pwrMode>>

\* The test box talks over the charging pin: a command that marks it online
\* (cmd "normal"), or one that asks for the DUT or the storage mode.
BoxCommand(cmd) ==
    /\ TestBox
    /\ power = "on"
    /\ LdoOnlineHw
    /\ testbox' = (testbox \/ cmd = "normal")
    /\ mode' = IF cmd = "normal" \/ mode = "storage" THEN mode ELSE cmd
    /\ posted' = "none"
    /\ UNCHANGED <<power, pin, plug, chg, q, app, step, off, full, timer, pwrMode>>

-----------------------------------------------------------------------------
(* Start of the program *)

KeyWakeup ==
    /\ power = "off"
    /\ power' = "boot"
    /\ full' = FALSE
    /\ posted' = "none"
    /\ UNCHANGED <<pin, plug, chg, q, app, step, off, timer, box, pwrMode>>

ChargeInit(on) ==
    /\ power = "boot"
    /\ power' = "on"
    /\ UNCHANGED <<chg, q, app, step, off, full, timer, box, pwrMode>>
    /\ Ldo!ChargeInit(on)

\* The end of board_init, after charge_init: a device that starts on the charger
\* has the supply's charging mode before any event says so.
BoardInit ==
    /\ power = "on"
    /\ step = "board"
    /\ step' = "main"
    /\ pwrMode' = IF online THEN "ldo15" ELSE "sel"
    /\ posted' = "none"
    /\ UNCHANGED <<power, pin, plug, chg, q, app, off, full, timer, box>>

AppMain ==
    /\ power = "on"
    /\ step = "main"
    /\ IF online THEN app' = "idle" /\ step' = "ready"
                 ELSE app' = app /\ step' = "vbat"
    /\ posted' = "none"
    /\ UNCHANGED <<power, pin, plug, chg, q, off, full, timer, box, pwrMode>>

\* check_power_on_voltage; on a low battery it shows the LED for a second and
\* switches off.
PowerOnVoltage ==
    /\ power = "on"
    /\ step = "vbat"
    /\ app' = "bt"
    /\ step' = "ready"
    /\ posted' = "none"
    /\ UNCHANGED <<power, pin, plug, chg, q, off, full, timer, box, pwrMode>>

PowerOnLow == power = "on" /\ step = "vbat" /\ SoftOff(FALSE)

Ready == power = "on" /\ step = "ready"

-----------------------------------------------------------------------------
(* Powering off: earphone.c and idle.c *)

\* Mutation of EnterSoftPoweroff: no timer is added.
EnterSoftPoweroffNoTimer(priv) ==
    /\ goOff' = TRUE
    /\ UNCHANGED <<exitTimer, exitCnt>>

\* sys_enter_soft_poweroff(priv).  The flag is never cleared again.
EnterSoftPoweroff(priv) ==
    IF goOff
      THEN UNCHANGED <<goOff, exitTimer, exitCnt>>
      ELSE /\ goOff' = TRUE
           /\ exitCnt' = 0
           /\ exitTimer' = priv

\* A key, the auto shutdown, a low battery or the hall switch; in idle only
\* the hall switch, which is blocked on the charger.
UserPoweroff(priv) ==
    /\ Ready
    /\ app = "bt" \/ (~online /\ priv = "to_idle")
    /\ ~goOff
    /\ EnterSoftPoweroff(priv)
    /\ posted' = "none"
    /\ UNCHANGED <<power, pin, plug, chg, q, app, step, tone, full, timer, box, pwrMode>>

\* Mutation of WaitAudio: one tick too many is waited.
WaitAudioOneMore ==
    /\ Ready
    /\ exitTimer # "none"
    /\ exitCnt' = exitCnt + 1
    /\ posted' = "none"
    /\ UNCHANGED <<power, pin, plug, chg, q, app, step, goOff, exitTimer,
                   tone, full, timer, box, pwrMode>>

\* Audio still running: wait_exit_btstack_flag and power_off_at_same_time
\* count, and give up with a reset.
WaitAudio ==
    /\ Ready
    /\ exitTimer # "none"
    /\ \/ /\ exitCnt < MaxWait
          /\ exitCnt' = exitCnt + 1
          /\ posted' = "none"
          /\ UNCHANGED <<power, pin, plug, chg, q, app, step, goOff, exitTimer,
                         tone, full, timer, box, pwrMode>>
       \/ exitCnt = MaxWait /\ CpuReset

\* task_switch("idle", ...) with the flag set: the queue may be flushed and
\* the power off tone is played.
SwitchToIdle ==
    /\ app' = "idle"
    /\ exitTimer' = "none"
    /\ tone' = TRUE
    /\ q' \in {q, <<>>}
    /\ posted' = "none"
    /\ UNCHANGED <<power, pin, plug, chg, step, goOff, exitCnt, full, timer, box, pwrMode>>

WaitExitBtstack ==
    /\ Ready
    /\ \/ exitTimer = "to_idle" /\ (SwitchToIdle \/ IdleSoftoff)
       \/ exitTimer = "to_reset" /\ CpuReset

\* The phone is gone; until then the callback resets the link and comes back.
PowerOffAtSameTime ==
    /\ Ready
    /\ exitTimer = "together"
    /\ SwitchToIdle \/ IdleSoftoff

ToneEnd == Ready /\ app = "idle" /\ tone /\ IdleSoftoff

\* eSystemConfirmStopStatus: nothing left to do and the battery is full.
FullStop == Ready /\ full /\ q = <<>> /\ ~ldoTimer /\ SoftOff(TRUE)

-----------------------------------------------------------------------------
(* Charge events *)

Handling(e) == Ready /\ app # "none" /\ q # <<>> /\ Head(q) = e

Consume == posted' = "none" /\ q' = Tail(q)

\* charge_close: detection may survive it.
ChargeClose ==
    /\ chgOn' = FALSE
    /\ armed' \in {armed, FALSE}
    /\ posted' = "CHARGE_CLOSE"
    /\ q' = Append(Tail(q), "CHARGE_CLOSE")

ChargeStart ==
    /\ chgOn' = TRUE
    /\ armed' = TRUE
    /\ posted' = "CHARGE_START"
    /\ q' = Append(Tail(q), "CHARGE_START")

ChargeStartDeal ==
    /\ Handling("CHARGE_START")
    /\ pwrMode' = "ldo15"
    /\ Consume
    /\ UNCHANGED <<power, pin, plug, chg, app, step, off, full, timer, box>>

\* Mutation of ChargeCloseDeal: the power mode of charging stays.
ChargeCloseDealKeepsMode ==
    /\ Handling("CHARGE_CLOSE")
    /\ Consume
    /\ UNCHANGED <<power, pin, plug, chg, app, step, off, full, timer, box, pwrMode>>

ChargeCloseDeal ==
    /\ Handling("CHARGE_CLOSE")
    /\ pwrMode' = "sel"
    /\ Consume
    /\ UNCHANGED <<power, pin, plug, chg, app, step, off, full, timer, box>>

ChargeFullDeal ==
    /\ Handling("CHARGE_FULL")
    /\ full' = TRUE
    /\ ChargeClose
    /\ UNCHANGED <<power, pin, plug, app, step, off, timer, box, pwrMode>>

\* In idle: charge, unless the device is already switching itself off, which
\* a reset undoes.
LdoInIdle ==
    /\ app = "idle"
    /\ \/ /\ ~goOff
          /\ full' = FALSE
          /\ keepTimer' = FALSE
          /\ testbox' = FALSE
          /\ ChargeStart
          /\ UNCHANGED <<power, pin, plug, app, step, off, resetTimer, delay, mode, pwrMode>>
       \/ goOff /\ CpuReset

\* In another app: restart into idle, now or, while the other ear still needs
\* this one, when ldo5v_in_reset_delay says so.
LdoInBt ==
    /\ app = "bt"
    /\ full' = FALSE
    /\ keepTimer' = FALSE
    /\ testbox' = FALSE
    /\ \/ /\ resetTimer' = TRUE
          /\ delay' = IF resetTimer THEN delay ELSE MaxDelay
          /\ UNCHANGED <<goOff, exitTimer, exitCnt>>
       \/ /\ resetTimer' = FALSE
          /\ delay' = delay
          /\ EnterSoftPoweroff("to_reset")
    /\ Consume
    /\ UNCHANGED <<power, pin, plug, chg, app, step, tone, mode, pwrMode>>

ChargeLdo5vInDeal == Handling("LDO5V_IN") /\ (LdoInIdle \/ LdoInBt)

\* Mutation of ResetDelay: the timer ends without a power off.
ResetDelayForgets ==
    /\ Ready
    /\ resetTimer
    /\ resetTimer' = FALSE
    /\ posted' = "none"
    /\ UNCHANGED <<power, pin, plug, chg, q, app, step, off, full, keepTimer, delay, box, pwrMode>>

\* ldo5v_in_reset_delay
ResetDelay ==
    /\ Ready
    /\ resetTimer
    /\ \/ /\ delay > 1
          /\ delay' = delay - 1
          /\ UNCHANGED <<resetTimer, goOff, exitTimer, exitCnt>>
       \/ /\ delay' = IF delay > 0 THEN delay - 1 ELSE 0
          /\ resetTimer' = FALSE
          /\ EnterSoftPoweroff("to_reset")
    /\ posted' = "none"
    /\ UNCHANGED <<power, pin, plug, chg, q, app, step, tone, full, keepTimer, box, pwrMode>>

\* Mutation of Ldo5vKeepDeal: no charge_close.
Ldo5vKeepDealStillCharges ==
    /\ Handling("LDO5V_KEEP")
    /\ Consume
    /\ keepTimer' = (keepTimer \/ mode = "normal")
    /\ UNCHANGED <<power, pin, plug, chg, app, step, off, full, resetTimer, delay, box, pwrMode>>

Ldo5vKeepDeal ==
    /\ Handling("LDO5V_KEEP")
    /\ ChargeClose
    /\ keepTimer' = (keepTimer \/ mode = "normal")
    /\ UNCHANGED <<power, pin, plug, app, step, off, full, resetTimer, delay, box, pwrMode>>

\* ldo5v_keep_delay_deal, up to its delays ...
KeepDelay ==
    /\ Ready
    /\ app # "none"
    /\ keepTimer
    /\ keepTimer' = FALSE
    /\ \/ /\ testbox
          /\ UNCHANGED <<step, goOff, exitTimer, exitCnt>>
       \/ /\ ~testbox
          /\ step' = "keep"
          /\ IF app = "idle" THEN UNCHANGED <<goOff, exitTimer, exitCnt>>
                             ELSE EnterSoftPoweroff("nothing")
    /\ posted' = "none"
    /\ UNCHANGED <<power, pin, plug, chg, q, app, tone, full, resetTimer, delay, box, pwrMode>>

\* ... and after them.
KeepEnd ==
    /\ power = "on"
    /\ step = "keep"
    /\ IF Lvcmp \/ ~(LdoOnlineHw /\ online) THEN CpuReset ELSE SoftOff(full)

\* Mutation of OffRest: no charge_close.
OffRestStillCharges(leaving) ==
    LET going == goOff \/ leaving IN
    \/ mode = "storage" /\ SoftOff(FALSE)
    \/ app # "bt" /\ ~going /\ SoftOff(FALSE)
    \/ /\ mode # "storage"
       /\ IF leaving THEN EnterSoftPoweroff("to_idle")
                     ELSE UNCHANGED <<goOff, exitTimer, exitCnt>>
       /\ app' = IF going THEN app ELSE "bt"
       /\ full' = FALSE
       /\ testbox' = FALSE
       /\ keepTimer' = FALSE
       /\ Consume
       /\ UNCHANGED chg
       /\ UNCHANGED <<power, pin, plug, step, tone, resetTimer, delay, mode, pwrMode>>

\* Mutation of OffRest: no switch to the bluetooth app.
OffRestStaysIdle(leaving) ==
    LET going == goOff \/ leaving IN
    \/ mode = "storage" /\ SoftOff(FALSE)
    \/ app # "bt" /\ ~going /\ SoftOff(FALSE)
    \/ /\ mode # "storage"
       /\ IF leaving THEN EnterSoftPoweroff("to_idle")
                     ELSE UNCHANGED <<goOff, exitTimer, exitCnt>>
       /\ app' = app
       /\ full' = FALSE
       /\ testbox' = FALSE
       /\ keepTimer' = FALSE
       /\ ChargeClose
       /\ UNCHANGED <<power, pin, plug, step, tone, resetTimer, delay, mode, pwrMode>>

\* charge_ldo5v_off_deal after its test box part, which may have asked for a
\* power off (leaving).
OffRest(leaving) ==
    LET going == goOff \/ leaving IN
    \/ mode = "storage" /\ SoftOff(FALSE)
    \/ app # "bt" /\ ~going /\ SoftOff(FALSE)
    \/ /\ mode # "storage"
       /\ IF leaving THEN EnterSoftPoweroff("to_idle")
                     ELSE UNCHANGED <<goOff, exitTimer, exitCnt>>
       /\ app' = IF going THEN app ELSE "bt"
       /\ full' = FALSE
       /\ testbox' = FALSE
       /\ keepTimer' = FALSE
       /\ ChargeClose
       /\ UNCHANGED <<power, pin, plug, step, tone, resetTimer, delay, mode, pwrMode>>

ChargeLdo5vOffDeal ==
    /\ Handling("LDO5V_OFF")
    /\ \/ testbox /\ CpuReset
       \/ \E leaving \in {FALSE, testbox} : OffRest(leaving)

-----------------------------------------------------------------------------
Interrupt == LdoinWakeup \/ PlugTick \/ ChargeFull

Boot == (\E on \in BOOLEAN : ChargeInit(on)) \/ BoardInit \/ AppMain \/ PowerOnVoltage \/ PowerOnLow

PowerDown == WaitAudio \/ WaitExitBtstack \/ PowerOffAtSameTime \/ ToneEnd \/ FullStop

ChargeEvent ==
    \/ ChargeStartDeal
    \/ ChargeCloseDeal
    \/ ChargeFullDeal
    \/ ChargeLdo5vInDeal
    \/ Ldo5vKeepDeal
    \/ ChargeLdo5vOffDeal

ChargeTimer == ResetDelay \/ KeepDelay \/ KeepEnd

Environment ==
    \/ \E l \in Ldo!Levels : SetLevel(l)
    \/ \E cmd \in {"normal", "dut", "storage"} : BoxCommand(cmd)
    \/ KeyWakeup
    \/ \E priv \in {"to_idle", "together"} : UserPoweroff(priv)

Next == Environment \/ Interrupt \/ Boot \/ PowerDown \/ ChargeEvent \/ ChargeTimer

Spec == Init /\ [][Next]_vars

\* Interrupts and the 2 ms tick are served, the program starts, and the
\* application task handles its events, its timers and the end of the tone.
\* For a power off, audio eventually stops, and a phone link reset by
\* power_off_at_same_time goes down.
Fairness ==
    /\ WF_vars(LdoinWakeup)
    /\ WF_vars(PlugTick)
    /\ WF_vars(Boot)
    /\ WF_vars(WaitExitBtstack)
    /\ WF_vars(PowerOffAtSameTime)
    /\ WF_vars(ToneEnd)
    /\ WF_vars(ChargeEvent)
    /\ WF_vars(ResetDelay)
    /\ WF_vars(KeepDelay)
    /\ WF_vars(KeepEnd)

FairSpec == Spec /\ Fairness

-----------------------------------------------------------------------------
\* Nothing about the plug is under way: the detection has settled and the
\* application has handled every verdict.
PlugSettled ==
    /\ Ready
    /\ ~ldoTimer
    /\ edgeLevel = level
    /\ \A i \in DOMAIN q : q[i] \notin PlugEvents

\* Once every verdict has been handled the charger follows the plug: it is
\* never left on without one, whatever order the events of the driver and of
\* the handlers' own calls took, and on the charger an idle device charges,
\* unless it is full.
ChargeFollowsPlug ==
    (PlugSettled /\ ~goOff) =>
        /\ chgOn => level = "in"
        /\ app = "idle" /\ level = "in" => chgOn \/ full

\* The supply is in its charging mode while the charger is on, and in no other
\* case but one, although the mode is switched by events and the charger by
\* calls: after a start on the charger, until the first verdict is handled.
PowerModeFollowsCharge ==
    (Ready /\ ~goOff /\ \A i \in DOMAIN q : q[i] \notin {"CHARGE_START", "CHARGE_CLOSE"}) =>
        /\ chgOn => pwrMode = "ldo15"
        /\ pwrMode = "ldo15" =>
              chgOn \/ chargeFlag = "none" \/ \E i \in DOMAIN q : q[i] \in PlugEvents

\* A charge is started only while the charger is closed: between two plugs that
\* are handled in the idle app there is a handler that closes it, whatever the
\* verdicts in between.  TrickleEnds of ChargeCtl rests on it.
StartsFromClosed == [][posted' = "CHARGE_START" => ~chgOn]_vars

\* A power off that has begun ends, in a soft off or in a reset.
PoweroffCompletes == goOff ~> ~goOff

\* Off the charger the device does not sit in the idle app for ever.
UnpluggedLeavesIdle ==
    <>[](level = "off") => []<>~(power = "on" /\ app = "idle")

\* On the charger for good, the device charges, is full, or is off: no chain
\* of pending timers and restarts keeps it from that.
PluggedEndsCharging ==
    <>[](level = "in") => []<>(chgOn \/ full \/ power = "off")

=============================================================================
