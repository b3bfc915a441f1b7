----------------------------- MODULE PowerManage -----------------------------
(***************************************************************************)
(* Supervision of the battery, apps/earphone/power_manage/                 *)
(* app_power_manage.c: a slow timer of the application starts a fast timer *)
(* in interrupt context, which takes a window of samples, decides from     *)
(* their majority, posts power events to the application and stops itself  *)
(* unless the battery is low.  The application warns, switches off and     *)
(* tells the phone; the handlers of the charger's events start and stop    *)
(* the supervision (app_charge.c, as far as it concerns the battery; the   *)
(* whole of it is in AppCharge).  Full detection reads a comparator of its *)
(* own and may outlive the charge: a full charge may be reported at any    *)
(* time after a charge_start, also behind the unplug.                      *)
(*                                                                         *)
(* A sample is the battery's class, which may change from one sample to    *)
(* the next: that covers the load, the averaging of bat_val and the noise. *)
(* Classes that differ only in the level shown to the phone are "full" and *)
(* "normal"; the levels of "warn" and "low" are both 0, as computed by     *)
(* battery_value_to_phone_level for 330 and 340.                           *)
(***************************************************************************)
EXTENDS Naturals, Sequences

CONSTANTS
    DetectCnt,     \* VBAT_DETECT_CNT
    LowLimit,      \* low windows that do not switch off yet, 6
    WarnFirst,     \* warning windows before the first warning but one, 1
    WarnAgain,     \* warning windows before a later warning, 5
    NormalLimit,   \* normal windows that do not end a low state yet, 2
    Batteries,     \* the classes of battery voltage that occur
    MaxQueue       \* bound on the event queue of the application

ASSUME CountsAssumption ==
    /\ DetectCnt \in Nat \ {0} /\ WarnAgain \in Nat \ {0}
    /\ LowLimit \in Nat /\ WarnFirst \in Nat /\ NormalLimit \in Nat
    /\ WarnFirst <= WarnAgain
    /\ MaxQueue \in Nat \ {0}
    /\ Batteries \subseteq {"full", "normal", "warn", "low"}

VARIABLES
    batt,          \* what a sample of the battery is now
    online,        \* get_charge_online_flag()
    app,           \* "off", the app that runs, or "leaving": goto_poweroff_flag
    delayed,       \* ldo5v_in_reset_timer
    armed,         \* full detection may still report, see ChargeCtl
    full,          \* charge_full_flag
    slow,          \* vbat_slow_timer
    fast,          \* vbat_fast_timer
    warning,       \* lowpower_timer
    mon,           \* the statics of vbat_check, and cur_battery_level
    q              \* events posted to the application

env    == <<batt, online>>
device == <<app, delayed, armed, full>>
timers == <<slow, fast, warning>>
vars   == <<env, device, timers, mon, q>>

\* battery_value_to_phone_level
Level(b) == CASE b = "full" -> 2 [] b = "normal" -> 1 [] OTHER -> 0

PowerEvents  == {"NORMAL", "WARNING", "LOW", "CHANGE", "CHARGE"}
ChargeEvents == {"IN", "OFF", "FULL"}

Fresh == [unit |-> 0, lowOff |-> 0, lowWarn |-> 0, lowPower |-> 0, lowVoice |-> 0,
          normal |-> 0, first |-> TRUE, st |-> "normal",
          cur |-> 0, old |-> Level("full"), flag |-> FALSE]

MonType ==
    [unit     : 0..DetectCnt,         \* unit_cnt
     lowOff   : 0..DetectCnt,         \* low_off_cnt
     lowWarn  : 0..DetectCnt,         \* low_warn_cnt
     lowPower : 0..LowLimit,          \* low_power_cnt
     lowVoice : 0..WarnAgain,         \* low_voice_cnt
     normal   : 0..(NormalLimit + 1), \* power_normal_cnt: more make no difference
     first    : BOOLEAN,              \* low_voice_first_flag
     st       : {"normal", "warn", "low"},  \* cur_bat_st
     cur      : 0..2,                 \* cur_battery_level
     old      : 0..2,                 \* old_battery_level
     flag     : BOOLEAN]              \* charge_online_flag of vbat_check

On == app # "off"

-----------------------------------------------------------------------------
(* vbat_check, in interrupt context *)

Sampled(m) ==
    [m EXCEPT !.unit = @ + 1,
              !.cur = Level(batt),
              !.lowOff = IF batt = "low" THEN @ + 1 ELSE @,
              !.lowWarn = IF batt \in {"warn", "low"} THEN @ + 1 ELSE @]

Most(n) == n > DetectCnt \div 2

\* Mutant: every low window starts the count again.
LowWindowNoCount(m) ==
    [m |-> [m EXCEPT !.lowVoice = 0, !.normal = 0, !.st = "low", !.lowPower = 1],
     es |-> <<>>]

\* What a window of each kind makes of the statics, and the event it posts.
LowWindow(m) ==
    LET n == m.lowPower + 1
        z == [m EXCEPT !.lowVoice = 0, !.normal = 0, !.st = "low"]
    IN IF n > LowLimit THEN [m |-> [z EXCEPT !.lowPower = 0], es |-> <<"LOW">>]
       ELSE [m |-> [z EXCEPT !.lowPower = n], es |-> <<>>]

\* Mutant: the count of warning windows is not started again.
WarnWindowKeepsCount(m) ==
    LET n   == m.lowVoice + 1
        due == IF m.first THEN n > WarnFirst ELSE n >= WarnAgain
        z   == [m EXCEPT !.lowPower = 0, !.normal = 0, !.st = "warn",
                         !.lowVoice = n, !.first = @ /\ ~due]
    IN [m |-> z, es |-> IF due /\ ~warning THEN <<"WARNING">> ELSE <<>>]

\* Mutant: the test of lowpower_timer is the wrong way round.
WarnWindowSilent(m) ==
    LET n   == m.lowVoice + 1
        due == IF m.first THEN n > WarnFirst ELSE n >= WarnAgain
        z   == [m EXCEPT !.lowPower = 0, !.normal = 0, !.st = "warn",
                         !.lowVoice = IF due THEN 0 ELSE n,
                         !.first = @ /\ ~due]
    IN [m |-> z, es |-> IF due /\ warning THEN <<"WARNING">> ELSE <<>>]

WarnWindow(m) ==
    LET n   == m.lowVoice + 1
        due == IF m.first THEN n > WarnFirst ELSE n >= WarnAgain
        z   == [m EXCEPT !.lowPower = 0, !.normal = 0, !.st = "warn",
                         !.lowVoice = IF due THEN 0 ELSE n,
                         !.first = @ /\ ~due]
    IN [m |-> z, es |-> IF due /\ ~warning THEN <<"WARNING">> ELSE <<>>]

\* Mutant: a battery that was low stays low.
NormalWindowStaysLow(m) ==
    [m |-> [m EXCEPT !.lowVoice = 0, !.lowPower = 0], es |-> <<>>]

NormalWindow(m) ==
    LET n == IF m.normal > NormalLimit THEN m.normal ELSE m.normal + 1
        z == [m EXCEPT !.lowVoice = 0, !.lowPower = 0, !.normal = n]
    IN IF n > NormalLimit /\ m.st # "normal"
       THEN [m |-> [z EXCEPT !.st = "normal"], es |-> <<"NORMAL">>]
       ELSE [m |-> z, es |-> <<>>]

Window(m) ==
    IF online THEN [m |-> m, es |-> <<"CHARGE">>]
    ELSE IF Most(m.lowOff) THEN LowWindow(m)
    ELSE IF Most(m.lowWarn) THEN WarnWindow(m)
    ELSE NormalWindow(m)

\* The level and the plug are compared with those of the last window.
Report(m) ==
    [m |-> [m EXCEPT !.old = m.cur, !.flag = online],
     es |-> IF m.cur # m.old \/ m.flag # online THEN <<"CHANGE">> ELSE <<>>]

\* A sample within a window ...
VbatSample ==
    /\ fast
    /\ mon.unit + 1 < DetectCnt
    /\ mon' = Sampled(mon)
    /\ UNCHANGED <<env, device, timers, q>>

\* ... and the one that ends it.  The fast timer goes on for a low battery
\* that has not been reported.
VbatWindow ==
    /\ fast
    /\ mon.unit + 1 >= DetectCnt
    /\ Len(q) < MaxQueue
    /\ LET w == Window(Sampled(mon))
           z == [w.m EXCEPT !.unit = 0, !.lowOff = 0, !.lowWarn = 0]
       IN IF z.st = "low"
          THEN /\ mon' = z
               /\ q' = q \o w.es
               /\ fast' = (w.es # <<"LOW">>)
          ELSE /\ mon' = Report(z).m
               /\ q' = q \o w.es \o Report(z).es
               /\ fast' = FALSE
    /\ UNCHANGED <<env, device, slow, warning>>

-----------------------------------------------------------------------------
(* The timers of the application *)

\* vbat_check_slow, every 10 s, on the charger every 60 s
VbatCheckSlow ==
    /\ slow
    /\ ~fast
    /\ fast' = TRUE
    /\ UNCHANGED <<env, device, slow, warning, mon, q>>

\* lowpower_timer repeats the warning every minute.
WarnTimer ==
    /\ warning
    /\ Len(q) < MaxQueue
    /\ q' = Append(q, "WARNING")
    /\ UNCHANGED <<env, device, timers, mon>>

VbatCheckInit   == slow' = TRUE /\ fast' = TRUE
VbatTimerDelete == slow' = FALSE /\ fast' = FALSE

-----------------------------------------------------------------------------
(* The application: app_power_event_handler and the charge events *)

Handling(e) == On /\ q # <<>> /\ Head(q) = e

\* POWER_EVENT_POWER_NORMAL: the LED.
Normal ==
    /\ Handling("NORMAL")
    /\ q' = Tail(q)
    /\ UNCHANGED <<env, device, timers, mon>>

Warning ==
    /\ Handling("WARNING")
    /\ q' = Tail(q)
    /\ warning' = TRUE
    /\ UNCHANGED <<env, device, slow, fast, mon>>

\* sys_enter_soft_poweroff, from the application or the idle app.
Leaves == app' = "leaving"

Low ==
    /\ Handling("LOW")
    /\ q' = Tail(q)
    /\ VbatTimerDelete
    /\ warning' = FALSE
    /\ Leaves
    /\ UNCHANGED <<env, delayed, armed, full, mon>>

\* POWER_EVENT_POWER_CHANGE: the level goes to the phone and the sibling.
Change ==
    /\ Handling("CHANGE")
    /\ q' = Tail(q)
    /\ UNCHANGED <<env, device, timers, mon>>

Charge ==
    /\ Handling("CHARGE")
    /\ q' = Tail(q)
    /\ warning' = FALSE
    /\ UNCHANGED <<env, device, slow, fast, mon>>

\* charge_ldo5v_in_deal: charge in the idle app; restart from another one, at
\* once or when ldo5v_in_reset_delay finds the sibling can do without.
Ldo5vIn ==
    /\ Handling("IN")
    /\ q' = Append(Tail(q), "CHANGE")
    /\ full' = FALSE
    /\ \/ app = "idle" /\ armed' = TRUE /\ UNCHANGED <<app, delayed>>
       \/ app # "idle" /\ delayed' = FALSE /\ Leaves /\ UNCHANGED armed
       \/ app # "idle" /\ delayed' = TRUE /\ UNCHANGED <<app, armed>>
    /\ UNCHANGED <<env, timers, mon>>

\* charge_close: full detection may survive it.
CloseCharge == armed' \in {armed, FALSE}

\* Mutant: the supervision is not started again.
Ldo5vOffUnsupervised ==
    /\ Handling("OFF")
    /\ q' = Append(Tail(q), "CHANGE")
    /\ CloseCharge
    /\ full' = FALSE
    /\ app' = IF app = "idle" THEN "bt" ELSE app
    /\ UNCHANGED <<env, delayed, timers, mon>>

\* charge_ldo5v_off_deal: supervise again, and from the idle app start the
\* bluetooth app ...
Ldo5vOff ==
    /\ Handling("OFF")
    /\ q' = Append(Tail(q), "CHANGE")
    /\ CloseCharge
    /\ full' = FALSE
    /\ VbatCheckInit
    /\ app' = IF app = "idle" THEN "bt" ELSE app
    /\ UNCHANGED <<env, delayed, warning, mon>>

\* The chip is off or starts again: nothing in memory is left.
SoftPoweroff ==
    /\ app' = "off" /\ delayed' = FALSE /\ armed' = FALSE /\ full' = FALSE
    /\ VbatTimerDelete /\ warning' = FALSE
    /\ mon' = Fresh /\ q' = <<>>
    /\ UNCHANGED env

\* ... unless the battery is too low even for that (get_vbat_need_shutdown).
Ldo5vOffDead == Handling("OFF") /\ app = "idle" /\ batt = "low" /\ SoftPoweroff

\* charge_full_deal
ChargeFullDeal ==
    /\ Handling("FULL")
    /\ q' = Tail(q)
    /\ CloseCharge
    /\ full' = TRUE
    /\ VbatTimerDelete
    /\ UNCHANGED <<env, app, delayed, warning, mon>>

Handle == Normal \/ Warning \/ Low \/ Change \/ Charge
          \/ Ldo5vIn \/ Ldo5vOff \/ Ldo5vOffDead \/ ChargeFullDeal

-----------------------------------------------------------------------------
(* Starting and ending *)

\* app_main: with the charger into the idle app, where the plug is reported;
\* else check_power_on_voltage, which does not let a low battery pass.
Boot ==
    /\ app = "off"
    /\ \/ online /\ app' = "idle" /\ q' = <<"IN">>
       \/ ~online /\ batt # "low" /\ app' = "bt" /\ q' = <<>>
    /\ VbatCheckInit
    /\ UNCHANGED <<env, delayed, armed, full, warning, mon>>

\* ldo5v_in_reset_delay ends, or the user switches off.
ResetDelay ==
    /\ delayed
    /\ delayed' = FALSE
    /\ Leaves
    /\ UNCHANGED <<env, armed, full, timers, mon, q>>

PowerKey ==
    /\ app = "bt"
    /\ Leaves
    /\ UNCHANGED <<env, delayed, armed, full, timers, mon, q>>

\* The end of a power off, see AppCharge.
PowerDown == app = "leaving" /\ SoftPoweroff

\* eSystemConfirmStopStatus: with charge_full_flag set, a system that would
\* sleep switches off, whatever app runs and with or without the charger.
FullStop == On /\ full /\ q = <<>> /\ SoftPoweroff

-----------------------------------------------------------------------------
(* The battery and the charger *)

BatteryChanges ==
    /\ On
    /\ \E b \in Batteries \ {batt} : batt' = b
    /\ UNCHANGED <<online, device, timers, mon, q>>

\* ldo5v_detect has decided; a device that is off starts instead.
Plug ==
    /\ Len(q) < MaxQueue
    /\ online' = ~online
    /\ q' = IF On THEN Append(q, IF online THEN "OFF" ELSE "IN") ELSE q
    /\ UNCHANGED <<batt, device, timers, mon>>

\* charge_full_detect: the comparator is read, not the plug's status, and a
\* timer whose handle was lost may report again.
ChargeFull ==
    /\ armed
    /\ Len(q) < MaxQueue
    /\ q' = Append(q, "FULL")
    /\ armed' \in BOOLEAN
    /\ UNCHANGED <<env, app, delayed, full, timers, mon>>

-----------------------------------------------------------------------------

Init ==
    /\ batt \in Batteries /\ online \in BOOLEAN
    /\ app = "off" /\ delayed = FALSE /\ armed = FALSE /\ full = FALSE
    /\ slow = FALSE /\ fast = FALSE /\ warning = FALSE
    /\ mon = Fresh /\ q = <<>>

Next == \/ VbatSample \/ VbatWindow \/ VbatCheckSlow \/ WarnTimer
        \/ Handle \/ ResetDelay \/ PowerDown
        \/ Boot \/ PowerKey \/ FullStop
        \/ BatteryChanges \/ Plug \/ ChargeFull

Spec == Init /\ [][Next]_vars

\* Timers that are armed expire, the application handles its events and ends
\* what it has begun.  SF for what the bound of the queue may disable.
Fairness ==
    /\ WF_vars(VbatSample) /\ SF_vars(VbatWindow) /\ WF_vars(VbatCheckSlow)
    /\ WF_vars(Handle) /\ WF_vars(ResetDelay) /\ WF_vars(PowerDown)

FairSpec == Spec /\ Fairness

\* The types; the counters of vbat_check stay within their limits.
TypeOK ==
    /\ batt \in Batteries /\ online \in BOOLEAN
    /\ app \in {"off", "bt", "idle", "leaving"}
    /\ delayed \in BOOLEAN /\ armed \in BOOLEAN /\ full \in BOOLEAN
    /\ slow \in BOOLEAN /\ fast \in BOOLEAN /\ warning \in BOOLEAN
    /\ mon \in MonType
    /\ q \in Seq(PowerEvents \cup ChargeEvents) /\ Len(q) <= MaxQueue + 1

\* A device that runs off the charger is supervised once it has handled its
\* events, in whatever order plug and full charge report.  The exception is a
\* full charge handled behind the unplug, which stops the supervision: the
\* flag it sets is still there, and with it the device switches off as soon as
\* it would sleep.
Supervised ==
    app \in {"bt", "idle"} /\ ~online /\ q = <<>> => slow \/ full

\* A battery that stays low off the charger switches the device off: no reset
\* of low_power_cnt and no stop of a timer keeps POWER_LOW away, but for that
\* full charge.
LowPowersOff ==
    ~<>[](app = "bt" /\ ~online /\ batt = "low" /\ ~full)

\* A battery that stays at the warning voltage is warned of, again and again,
\* also when it was low, normal or charged before.
Warned ==
    <>[](app = "bt" /\ ~online /\ batt = "warn" /\ ~full) => <>[]warning

\* The fast timer, which runs in interrupt context every 10 ms, ends for a
\* battery that recovers: cur_bat_st does not stay VBAT_LOWPOWER.
FastStops ==
    <>[](app = "bt" /\ ~online /\ batt # "low") => []<>~fast

=============================================================================
