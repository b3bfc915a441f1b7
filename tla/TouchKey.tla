------------------------------- MODULE TouchKey -------------------------------
(***************************************************************************)
(* The touch key of each earbud and what its user can switch with it:      *)
(* recognition of clicks, long presses and holds in interrupt context      *)
(* (cpu/br36/lp_touch_key.c), the power off by holding and the reset of    *)
(* the pairings by repeated clicks (apps/earphone/key_event_deal.c), and   *)
(* the half second poll of the board that reboots after a reset and        *)
(* switches off by the hall switch (board_ac700n_demo.c).                  *)
(*                                                                         *)
(* The link between the buds delivers each key event to both of them; the  *)
(* handlers tell by KEY_EVENT_FROM_TWS whose it is.  How a bud's own events *)
(* and those of its sibling interleave differs from bud to bud: each bud   *)
(* has one place for an event of its own and one for the sibling's, and    *)
(* takes them in any order.                                                *)
(*                                                                         *)
(* Other keys only give commands to the stack, the player or the lights    *)
(* (volume, next track, pause, assistant, language) and are not queued.    *)
(* What a reset erases is not modelled, only that it ends in a reboot.     *)
(* Assumed: the sensor reports LONG 1000 ms after a touch began, so a click *)
(* timer of 400 ms has fired by then; the touch coprocessor, when told to  *)
(* reset its algorithm, forgets the touch; a synchronised call reaches     *)
(* both buds or neither.                                                   *)
(***************************************************************************)
EXTENDS Naturals

CONSTANTS
    Buds,          \* the two earbuds
    None,          \* no event
    PowerOffCnt,   \* POWER_OFF_CNT, 10
    CntMod,        \* goto_poweroff_cnt is a u8: 256
    ResetTaps,     \* clicks that mean KEY_RESET in key_table, 4
    MaxTaps,       \* bound on the clicks of one gesture
    RebootPolls,   \* polls until the reboot, 3
    Plans,         \* what the users may do in one behaviour, see plan
    MaxResets      \* bound on reset gestures

ASSUME BudsAssumption == \E x, y \in Buds : x # y /\ Buds = {x, y}
ASSUME CountsAssumption ==
    /\ PowerOffCnt \in Nat /\ CntMod \in Nat /\ 0 < PowerOffCnt /\ PowerOffCnt < CntMod
    /\ ResetTaps \in Nat /\ MaxTaps \in Nat /\ 0 < ResetTaps /\ ResetTaps <= MaxTaps
    /\ RebootPolls \in Nat \ {0} /\ MaxResets \in Nat
    /\ Plans \subseteq SUBSET {"hold", "reset", "lose", "meet"}
    /\ None \notin {"LONG", "HOLD", "RESET"}

VARIABLES
    key,       \* each bud's touch and the driver's record of it
    box,       \* key events each application has still to handle
    app,       \* each bud's application
    linked,    \* the stack's link between the buds
    syncOff,   \* a synchronised call of SYNC_CMD_POWER_OFF_TOGETHER under way
    resets,    \* reset gestures so far
    plan       \* bound: "hold" when the buds are touched for long, "reset" when
               \* they are clicked and the phone leaves, "lose" when the
               \* link may be lost, "meet" when it is yet to form, or form again

vars == <<key, box, app, linked, syncOff, resets, plan>>

Sibling(b) == CHOOSE o \in Buds : o # b

Events == {"LONG", "HOLD", "RESET"}
Sources == {"key", "tws"}

KeyType ==
    [touch  : {"up", "down", "long"},            \* the sensor
     last   : {"null", "short", "held"},          \* last_key; held: LONG or HOLD
     clicks : 0..MaxTaps,                        \* click_cnt
     timer  : BOOLEAN]                           \* short_timer

AppType ==
    [run    : {"on", "leaving", "rebooted"},     \* leaving: app_var.goto_poweroff_flag
     sib    : BOOLEAN,                           \* BT_TWS_SIBLING_CONNECTED
     flag   : BOOLEAN,                           \* goto_poweroff_flag of the keys
     cnt    : 0..(CntMod - 1),                   \* goto_poweroff_cnt of the keys
     wait   : BOOLEAN,                           \* the 2 s timer of KEY_RESET
     reset  : BOOLEAN,                           \* goto_reset_flag
     phone  : {"none", "up", "closing", "status"}, \* see PhoneStatus
     reboot : 0..RebootPolls]                    \* goto_reboot_flag, 1 + reboot_cnt

On(b) == app[b].run = "on"

-----------------------------------------------------------------------------
(* The touch driver, in interrupt context *)

\* __ctmu_notify_key_event: to the own application and, over the link, to the
\* sibling's.  A bud that switches off has disabled its keys, so that it no
\* longer matters how it is touched.
Room(b) == box[b]["key"] = None /\ box[Sibling(b)]["tws"] = None

Notify(b, e) ==
    LET o == Sibling(b)
    IN box' = [box EXCEPT ![b]["key"] = e,
                          ![o]["tws"] = IF linked /\ On(o) THEN e ELSE @]

Falling(b) ==
    /\ On(b) /\ key[b].touch = "up"
    /\ key' = [key EXCEPT ![b].touch = "down"]
    /\ UNCHANGED <<box, app, linked, syncOff, resets, plan>>

\* lp_touch_key_check_long_click_by_ctmu_res: readings that hardly differ from
\* those before the touch are no touch; the event is dropped.
NoTouch(b) ==
    /\ key' = [key EXCEPT ![b].touch = "up"]
    /\ UNCHANGED box

LongKey(b) ==
    /\ "hold" \in plan
    /\ On(b) /\ key[b].touch = "down" /\ ~key[b].timer
    /\ \/ /\ Room(b)
          /\ key' = [key EXCEPT ![b].touch = "long", ![b].last = "held"]
          /\ Notify(b, "LONG")
       \/ NoTouch(b)
    /\ UNCHANGED <<app, linked, syncOff, resets, plan>>

HoldReport(b) ==
    /\ On(b) /\ key[b].touch = "long" /\ Room(b)
    /\ key' = [key EXCEPT ![b].last = "held"]
    /\ Notify(b, "HOLD")
    /\ UNCHANGED <<app, linked, syncOff, resets, plan>>

HoldKey(b) ==
    \/ HoldReport(b)
    \/ /\ On(b) /\ key[b].touch = "long"
       /\ NoTouch(b)
       /\ UNCHANGED <<app, linked, syncOff, resets, plan>>

\* ctmu_short_click_handle
ShortClick(k) ==
    [k EXCEPT !.touch = "up", !.last = "short", !.timer = TRUE,
              !.clicks = IF k.timer THEN @ + 1 ELSE 1]

\* ctmu_raise_click_handle; the UP event has no handler with a state.
RaiseClick(k) ==
    IF k.last = "held"
    THEN [k EXCEPT !.touch = "up", !.last = "null"]
    ELSE ShortClick(k)

Raising(b) ==
    /\ On(b) /\ key[b].touch # "up"
    /\ key[b].last = "held" \/ (key[b].clicks < MaxTaps /\ "reset" \in plan)
    /\ key' = [key EXCEPT ![b] = RaiseClick(@)]
    /\ UNCHANGED <<box, app, linked, syncOff, resets, plan>>

\* Mutant: the count of clicks survives its gesture.
AfterClicksKeepsCount(k) == [k EXCEPT !.timer = FALSE, !.last = "null"]

AfterClicks(k) == [k EXCEPT !.timer = FALSE, !.last = "null", !.clicks = 0]

\* __ctmu_short_click_time_out_handle
ClickTimeout(b) ==
    /\ On(b) /\ key[b].timer
    /\ key' = [key EXCEPT ![b] = AfterClicks(@)]
    /\ IF key[b].clicks = ResetTaps
       THEN /\ Room(b) /\ resets < MaxResets
            /\ resets' = resets + 1
            /\ Notify(b, "RESET")
       ELSE UNCHANGED <<box, resets>>
    /\ UNCHANGED <<app, linked, syncOff, plan>>

-----------------------------------------------------------------------------
(* The application's handlers of key events *)

NoTouchYet == [touch |-> "up", last |-> "null", clicks |-> 0, timer |-> FALSE]
NoEvents   == [s \in Sources |-> None]
Fresh      == [run |-> "on", sib |-> FALSE, flag |-> FALSE, cnt |-> 0, wait |-> FALSE,
               reset |-> FALSE, phone |-> "none", reboot |-> 0]

\* The buds of S end as "leaving" or "rebooted"; the rest does not matter then.
End(S, run) ==
    /\ app' = [b \in Buds |-> IF b \in S /\ On(b) THEN [Fresh EXCEPT !.run = run] ELSE app[b]]
    /\ box' = [b \in Buds |-> IF b \in S THEN NoEvents ELSE box[b]]
    /\ key' = [b \in Buds |-> IF b \in S THEN NoTouchYet ELSE key[b]]

\* sys_enter_soft_poweroff: keys are disabled, their events cleared.
Leave(S) == End(S, "leaving")

Taken(b, s) == box' = [box EXCEPT ![b][s] = None]

\* KEY_POWEROFF: a long press rejects or ends a call, or begins a power off.
KeyPoweroff(b) ==
    \E call \in BOOLEAN : app' = [app EXCEPT ![b].cnt = 0, ![b].flag = ~call]

\* Mutant: the sibling's hold counts although only an own one can switch off.
CountAfterTwsCounts(n) == n

\* What remains of the count when the sibling's hold has completed it.
CountAfterTws(n) == n - 1

\* KEY_POWEROFF_HOLD when it does not switch off at once.
KeyPoweroffHold(b, s) ==
    LET n    == (app[b].cnt + 1) % CntMod
        full == n = PowerOffCnt
    IN /\ app' = [app EXCEPT ![b].cnt =
                    IF full /\ s = "tws" THEN CountAfterTws(n) ELSE n]
       /\ syncOff' = (syncOff \/ (full /\ s = "key" /\ linked))

OffAlone(b) == app[b].flag /\ app[b].cnt + 1 = PowerOffCnt /\ ~app[b].sib

HandleLong(b, s) ==
    /\ On(b) /\ box[b][s] = "LONG"
    /\ KeyPoweroff(b)
    /\ Taken(b, s)
    /\ UNCHANGED <<key, linked, syncOff, resets, plan>>

HandleHold(b, s) ==
    /\ On(b) /\ box[b][s] = "HOLD"
    /\ \/ /\ OffAlone(b)
          /\ Leave({b})
          /\ UNCHANGED syncOff
       \/ /\ app[b].flag /\ ~OffAlone(b)
          /\ KeyPoweroffHold(b, s)
          /\ Taken(b, s)
          /\ UNCHANGED key
       \/ /\ ~app[b].flag
          /\ Taken(b, s)
          /\ UNCHANGED <<key, app, syncOff>>
    /\ UNCHANGED <<linked, resets, plan>>

\* KEY_RESET: a tone, and a timer for as long as it should play.
HandleReset(b, s) ==
    /\ On(b) /\ box[b][s] = "RESET"
    /\ app' = [app EXCEPT ![b].wait = TRUE]
    /\ Taken(b, s)
    /\ UNCHANGED <<key, linked, syncOff, resets, plan>>

HandleKey(b, s) == HandleLong(b, s) \/ HandleHold(b, s) \/ HandleReset(b, s)

\* SYNC_CMD_POWER_OFF_TOGETHER arrives at both buds.
PowerOffTogether ==
    /\ syncOff
    /\ syncOff' = FALSE
    /\ Leave(Buds)
    /\ UNCHANGED <<linked, resets, plan>>

-----------------------------------------------------------------------------
(* The reset of the pairings *)

Reboot(a) == [a EXCEPT !.reboot = IF @ = 0 THEN 1 ELSE @]

Closing(a) == [a EXCEPT !.phone = IF @ = "up" THEN "closing" ELSE @]

\* key_reset_tone_play_end_callback: with a phone the rest waits for its
\* disconnection; BT_TWS_PHONE_CONNECTED is set until PhoneHci.
ResetTimer(b) ==
    /\ On(b) /\ app[b].wait
    /\ LET a == [app[b] EXCEPT !.wait = FALSE]
           o == Sibling(b)
       IN app' = IF a.phone = "none"
                 THEN [app EXCEPT ![b] = Reboot(a)]
                 ELSE [app EXCEPT ![b] = Closing([a EXCEPT !.reset = TRUE]),
                                  ![o] = IF linked THEN Closing(@) ELSE @]
    /\ UNCHANGED <<key, box, linked, syncOff, resets, plan>>

\* Mutant: the reset's disconnection is taken for any other.
ResetAtStatusSkipped(a) == [a EXCEPT !.reset = FALSE]

\* What the application does with the disconnection if a reset waits for it.
ResetAtStatus(a) == IF a.reset THEN Reboot([a EXCEPT !.reset = FALSE]) ELSE a

\* The phone's link ends in two events: BT_STATUS_FIRST_DISCONNECT, then the
\* disconnection of the host controller interface.
PhoneStatus(b) ==
    /\ On(b) /\ app[b].phone = "closing"
    /\ app' = [app EXCEPT ![b] = ResetAtStatus([@ EXCEPT !.phone = "status"])]
    /\ UNCHANGED <<key, box, linked, syncOff, resets, plan>>

PhoneHci(b) ==
    /\ On(b) /\ app[b].phone = "status"
    /\ app' = [app EXCEPT ![b].phone = "none"]
    /\ UNCHANGED <<key, box, linked, syncOff, resets, plan>>

-----------------------------------------------------------------------------
(* hall_switch_detect, every 500 ms *)

\* Mutant: the reboot waits for as long as polls come.
NextPollForgets(n) == 1

NextPoll(n) == n + 1

PollReboot(b) ==
    /\ On(b) /\ app[b].reboot > 0
    /\ IF app[b].reboot < RebootPolls
       THEN /\ app' = [app EXCEPT ![b].reboot = NextPoll(@)]
            /\ UNCHANGED <<key, box, linked, syncOff>>
       ELSE /\ End({b}, "rebooted")
            /\ linked' = FALSE
            /\ syncOff' = FALSE
    /\ UNCHANGED <<resets, plan>>

\* The hall switch is closed at two polls.
PollHall(b) ==
    /\ On(b) /\ app[b].reboot = 0
    /\ Leave({b})
    /\ UNCHANGED <<linked, syncOff, resets, plan>>

-----------------------------------------------------------------------------
(* The phone and the link *)

PhoneLeaves ==
    /\ "reset" \in plan
    /\ \E b \in Buds : app[b].phone = "up"
    /\ app' = [b \in Buds |-> Closing(app[b])]
    /\ UNCHANGED <<key, box, linked, syncOff, resets, plan>>

\* One bud keeps the phone; synchronised calls and events under way are lost.
LinkLost ==
    /\ "lose" \in plan /\ linked
    /\ linked' = FALSE /\ syncOff' = FALSE
    /\ \E b \in Buds : app' = [app EXCEPT ![b] = Closing(@)]
    /\ box' = [b \in Buds |-> [box[b] EXCEPT !["tws"] = None]]
    /\ UNCHANGED <<key, resets, plan>>

LinkForms ==
    /\ "meet" \in plan
    /\ ~linked /\ \A b \in Buds : On(b) /\ ~app[b].sib
    /\ linked' = TRUE
    /\ UNCHANGED <<key, box, app, syncOff, resets, plan>>

\* TWS_EVENT_CONNECTED and TWS_EVENT_CONNECTION_DETACH
LinkEvent(b) ==
    /\ On(b) /\ app[b].sib # linked
    /\ app' = [app EXCEPT ![b].sib = linked]
    /\ UNCHANGED <<key, box, linked, syncOff, resets, plan>>

-----------------------------------------------------------------------------

Init ==
    /\ key = [b \in Buds |-> NoTouchYet]
    /\ box = [b \in Buds |-> NoEvents]
    /\ plan \in Plans
    /\ linked = ("meet" \notin plan)
    /\ \E p \in {"none"} \cup (IF "reset" \in plan THEN {"up"} ELSE {}) :
          app = [b \in Buds |-> [Fresh EXCEPT !.sib = linked, !.phone = p]]
    /\ syncOff = FALSE /\ resets = 0

Touches(b) ==
    Falling(b) \/ LongKey(b) \/ HoldKey(b) \/ Raising(b) \/ ClickTimeout(b)

Next ==
    \/ \E b \in Buds :
          \/ Touches(b)
          \/ \E s \in Sources : HandleKey(b, s)
          \/ ResetTimer(b) \/ PhoneStatus(b) \/ PhoneHci(b)
          \/ PollReboot(b) \/ PollHall(b)
          \/ LinkEvent(b)
    \/ PowerOffTogether
    \/ PhoneLeaves \/ LinkLost \/ LinkForms

Spec == Init /\ [][Next]_vars

\* Timers, polls and handlers run, the stack reports what becomes of the link,
\* and a held touch is reported again and again.
\* Nothing is assumed of the user, the phone, the link or the hall switch.
Fairness ==
    /\ \A b \in Buds :
          /\ WF_vars(HoldReport(b)) /\ WF_vars(LinkEvent(b))
          /\ \A s \in Sources : WF_vars(HandleKey(b, s))
          /\ WF_vars(ResetTimer(b)) /\ WF_vars(PhoneStatus(b))
          /\ WF_vars(PollReboot(b))
    /\ WF_vars(PowerOffTogether)

FairSpec == Spec /\ Fairness

-----------------------------------------------------------------------------
(* Properties *)

\* Types, and what the driver's three notes of a gesture have to do with one
\* another: the timer runs while clicks are counted and the last key is short.
TypeOK ==
    /\ key \in [Buds -> KeyType]
    /\ \A b \in Buds : /\ key[b].timer <=> key[b].clicks > 0
                       /\ key[b].timer <=> key[b].last = "short"
    /\ box \in [Buds -> [Sources -> Events \cup {None}]]
    /\ app \in [Buds -> AppType]
    /\ linked \in BOOLEAN /\ syncOff \in BOOLEAN
    /\ resets \in 0..MaxResets
    /\ plan \in Plans

\* A bud held after a long press that was not for a call switches off, if it
\* is held on and the sibling is not touched anew: also when the sibling is
\* held as well and each bud's count is completed by the other's hold, and
\* when the link drops with the call to switch off together under way.
HeldPowersOff ==
    \A b \in Buds :
        (app[b].flag
         /\ [](key[b].touch = "long" /\ key[Sibling(b)].touch # "down"
                /\ (On(b) => app[b].flag)))
        ~> app[b].run # "on"

\* A reset the user has asked for ends in a reboot, with or without a phone,
\* unless the bud is switched off meanwhile, or the timer that carries it out
\* finds the phone's link between the two events of its end.
ResetReboots ==
    \A b \in Buds :
        (app[b].wait /\ [](app[b].reset => app[b].phone # "status")
                     /\ [](app[b].run # "leaving"))
        ~> app[b].run = "rebooted"
===============================================================================
