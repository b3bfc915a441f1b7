# Verification of the JL7006 earbud firmware

The repository is the SDK and product firmware of a true wireless earbud on a
Jieli AC700N (BR36) chip: an application in `apps/earphone`, code shared by
Jieli products in `apps/common`, chip drivers in `cpu/br36`, and headers of the
closed libraries (Bluetooth stack, link between the buds, dual bank updater,
operating system) in `include_lib`. Everything below is read in the
configuration of `board_ac700n_demo`: TWS on, charging on, charging case
protocol off, test box on, calibration and ANC off, a power on when the charger
is removed (`TCFG_CHARGE_OFF_POWERON_NE`), touch key, automatic power off
after 180 s. The exception is the pair update: `OTA_TWS_SAME_TIME_ENABLE` and
the phone protocols that use it are off on this board (`app_config.h:77`,
`92-93`), so its code is read with them switched on.

The modules here model the parts of that firmware where several actors meet:
interrupts and the application task around the charger, the battery and the
touch key, the power off that several callers may ask for, and the two buds:
how they find each other and a phone, switch off, are reset by their keys and
update their firmware together.

## The system

### How the code runs

* `usr_timer` callbacks and port wakeup callbacks run in interrupt context
  (`include_lib/system/timer.h:190-193`); they preempt the application task
  between any two of its steps and not each other.
* `sys_timer` callbacks run in the thread that added them (`timer.h:75-77`), so
  they never interleave with that thread's event handlers.
* Everything else reaches the application as an event in the queue of its task
  (`sys_event_notify`), handled in order.
* Soft power off keeps no RAM. The next edge on the charging pin, or a key,
  starts the program from reset.

### Components

| Component | State | Operations | Interacts with | Hard because |
|---|---|---|---|---|
| Plug detection, `cpu/br36/charge.c` | `init_ok`, `charge_online_flag`, `charge_flag`, `detect_stop`, `ldo5v_timer`, three counters, wakeup ports | `charge_init`, `ldoin_wakeup_isr`, `ldo5v_detect`, `charge_set_ldo5v_detect_stop`, `charge_module_stop/restart` | posts `LDO5V_IN/KEEP/OFF`; the online flag is read everywhere | debouncing with a timer that stops itself; edges before `init_ok`; one-shot reports |
| Charging circuit, `cpu/br36/charge.c` | `charge_timer`, `cc_timer`, `charge_full_cnt`, `charge_mA_old`, the charger's registers | `charge_start`, `charge_close`, `charge_cc_check`, `charge_full_detect`, `charge_wakeup_isr`, `set_charge_mA` | called by the application, posts `CHARGE_START/CLOSE/FULL` | interrupts between two statements; cached register; handles shared by both contexts |
| Charge handling, `app_charge.c`, `idle.c` | `charge_full_flag`, `ldo5v_keep_timer`, `ldo5v_in_reset_timer`, `delay_timeout` | one handler per charge event, two timers | driver, power off, applications | events that were true when posted; timers that outlive their cause |
| Start and power off, `app_main.c`, `earphone.c` | `app_var.goto_poweroff_flag`, `goto_poweroff_cnt`, `wait_exit_timer`, the current application | `app_main`, `sys_enter_soft_poweroff`, `wait_exit_btstack_flag`, `power_off_at_same_time` | every component that switches off | a flag that swallows all later requests; waiting for audio and for the link |
| Pair update, `update_tws_new.c`, `app_protocol_ota.c` | `tws_ota_sem`, `sync_update_first_packet`, `sync_update_sn`, `last_sync_update_sn`, `tws_ota_timeout_hdl`, the updater's session | requests of the phone, the receive callback, the updater's callbacks, the slave's timeout | the two buds, the phone, the dual bank updater | one semaphore for all answers, timeouts, duplicated callbacks, a link that drops, one bud failing |
| Battery supervision, `app_power_manage.c` | `vbat_slow_timer`, `vbat_fast_timer`, `lowpower_timer`, the statics of `vbat_check` (window, low, warning and normal counters, `cur_bat_st`, levels) | `vbat_check`, `vbat_check_slow`, the power events, start and stop by the charge events | charger, power off, phone and sibling | counters that reset one another and survive a charge; a fast timer in interrupt context that stops itself; a level read in mid-window |
| Connection of the pair, `bt_tws.c`, `earphone.c` | `gtws.state`, `pair_timer`, `auto_connection_counter`, `connect_time`, `auto_shut_down_timer` | a handler per TWS and phone event, `connect_and_connectable_switch`, automatic power off | two buds, the phone, the closed stack, power off | timers left out in some states; buds that search and listen by their own clocks; events of a link that has gone; synchronised calls over it |
| Touch key, `lp_touch_key.c` | `last_key`, `click_cnt`, `short_timer` | recognising clicks, long presses and holds, dropping false ones | posts key events to both buds | reports of the sensor against the click timer |
| Power off, reset and hall switch, `key_event_deal.c`, `board_ac700n_demo.c` | `goto_poweroff_flag`, `goto_poweroff_cnt`, `goto_reset_flag`, `goto_reboot_flag` | `KEY_POWEROFF`, `KEY_POWEROFF_HOLD`, `KEY_RESET`, the half second poll | keys of both buds, phone, power off | a count that two buds' keys advance; a reset handed from timer to event to poll by flags |

Not modelled, and why: calls, music and sniff mode of the Bluetooth application
(an event loop over a closed stack), the removal of a pairing and the noise
cancelling box in `bt_tws.c`, the other keys (commands to the closed stack), the
volume the buds exchange, the LED queue, tones, the case protocol and the
calibration (compiled out), `key_driver.c` (its keys are not on this board), the
other applications (switched off), the vendored phone protocols, the older
pair update `update_tws.c` (replaced by `update_tws_new.c`), register
programming of the drivers. `PROJECT.json` has one entry per part with its
reason, and the list of hazards with the line at which each one bites.

### What makes each component correct

* Detection: the status kept is the level of the pin whenever detection rests;
  each change is reported once; a level that stays is reported.
* Circuit: a charger that is on is watched by something; a charge that starts
  from a closed charger does not stay at the trickle current; a closed charger
  has no current check left; timers keep their handles.
* Charge handling: when all plug events are handled, the charger follows the
  plug and the supply's mode follows the charger; a charge starts only from a
  closed charger; an unplugged device does not stay in idle, a plugged one gets
  charged.
* Power off: once begun, it ends.
* Battery: a running device off the charger is supervised, or has the flag of a
  full charge, with which it switches off when it would sleep; a battery that
  stays low switches it off, one that stays at the warning voltage is warned of;
  the fast timer ends.
* Connection: no bud is left with nothing to do and not to be found; buds in
  reach of each other get linked; a pair without a phone switches off.
* Keys: a held bud switches off and a reset ends in a reboot, whatever the
  sibling, the link and the phone do meanwhile.
* Pair update: the update resets a bud only when both have the new version as
  the one to boot; boot info is written for a verified image only, the slave's
  first; neither side waits for ever.

## Modules

| Module | Code | Kind |
|---|---|---|
| `PlugReport` | none: what detection promises | abstract specification |
| `LdoDetect` | `charge.c`: plug detection | detailed specification, implements `PlugReport` |
| `LdoDetect_proofs` | | theorems |
| `ChargeCtl` | `charge.c`: charging circuit | detailed specification |
| `ChargeCtl_proofs` | | theorems |
| `AppCharge` | `app_charge.c`, `idle.c`, `app_main.c`, `earphone.c`, over `LdoDetect` | composition |
| `AppCharge_proofs` | | theorems |
| `PowerManage` | `app_power_manage.c`, with the parts of `app_charge.c` that start and stop it | detailed specification |
| `PowerManage_proofs` | | theorems |
| `BtTws` | `bt_tws.c`, the Bluetooth events and the automatic power off of `earphone.c`, for two buds | distributed protocol |
| `BtTws_proofs` | | theorems |
| `TouchKey` | `lp_touch_key.c`, `key_event_deal.c`, the poll of `board_ac700n_demo.c`, for two buds | distributed, driver and application |
| `TouchKey_proofs` | | theorem |
| `PairUpdate` | none: what the update promises for the pair | abstract specification |
| `TwsOta` | `update_tws_new.c`, `app_protocol_ota.c` | distributed protocol, implements `PairUpdate` |
| `TwsOta_proofs` | | theorems |

Each configuration `X.cfg` instantiates the module of the same name, or the one
whose name it starts with (`ChargeTimerRace` is for `ChargeCtl`). The constants
are numbers, Booleans, small sets and the two buds as model values, so the
specifications are checked as they stand and need no MC modules. The buds are
symmetric, but no symmetry set is declared: it would not be sound for liveness.

Definitions keep the source's names where they can, and `PROJECT.json` gives
the lines of every definition. An operator above another one whose comment
begins with "Mutant", "Mutation of" or "A bug in" is a plausible mistake in that
operation: substituting it must break the property paired with it.

### LdoDetect

The two comparators of the pin fold into `level`: "in", "keep" or "off".
`edgeLevel` is the output of the 16 ms wakeup port filter, and the wakeup
interrupt (`LdoinWakeupIsr`) is the step in which it catches up. One tick of
`ldo5v_detect` is `CountSample` below the filter and `Verdict` at it.
`ChargeInit` is atomic: `check_charge_state` takes 20 samples over 20 ms and
compares with a majority, so an edge that the interrupt drops just before
`init_ok` was already in most of the samples; while the level moves either
outcome is allowed. `posted` holds the event of the last step, so that
properties can speak of events.

`PlugReport` keeps the level, the status, whether detection is running and the
last event. Its steps: the level moves, detection comes up or pauses, a changed
status is reported. Fairness of `Report` says that a level that stays is
reported. The refinement maps `status` to `charge_flag` and "running" to
`init_ok`, enabled ports and no `detect_stop`.

`charge_module_stop` and `charge_module_restart` have no caller in the
application; they are driver operations and are modelled as such.
`charge_set_ldo5v_detect_stop` is called around transmissions on the pin.

### ChargeCtl

The functions `charge_start` and `charge_close` run in the task, and `pc` says
where they stand. Interrupt callbacks may run at every value of `pc`. The
table of currents is its index range; `mA` is the register and `mAOld` the
cache that `set_charge_mA` compares with. Called by `charge_start`,
`set_charge_mA` takes three steps, the test of the cache (`StartTest`), its
assignment (`StartCache`) and the register (`StartRegister`), and
`charge_cc_check`, which calls it too, may run between any two of them. If it
comes between cache and register of the trickle current, the cache is left at
the board's current, the register at the trickle current, and the timer that
would raise it is gone. That takes a `charge_start` that finds `cc_timer` armed,
which `restarted` records: `TrickleEnds` holds of all other charges, and
`StartsFromClosed` of `AppCharge` shows that the application makes no such call.
`charge_wakeup_isr`, when `charge_start` calls it itself, takes two steps, a test
of the handle and its assignment, and the same function as an interrupt may run
in between.
`orphans` counts timers whose handle was overwritten; they keep firing.

### AppCharge

The application task has a queue `q` of charge events and a `step`. A handler or
a `sys_timer` callback is one action, except where it sleeps for long
(`ldo5v_keep_delay_deal` is `KeepDelay` and `KeepEnd`). Interrupts are actions
of `LdoDetect` taken over with `INSTANCE`, with filters as short as they can be:
their length is `LdoDetect`'s subject. `ChargeFull` is the only event of the
circuit that the circuit raises by itself; since `ChargeCtl` shows that full
detection can outlive a close, `ChargeClose` may leave it armed. `power` is "boot"
between a reset and `charge_init`, "off" in soft off. `CpuReset` and `SoftOff`
clear the RAM; they do not return. A start is `ChargeInit`, `BoardInit`, which
chooses the supply's mode by the online flag, and `AppMain`, which chooses the
application by it again; the interrupts may change it in between.

What the closed stack decides is nondeterministic: whether this bud is a master
with a sibling and a phone (so that a plug resets it later instead of now),
whether audio still plays, whether a task switch flushes the queue. Whether the
battery is low is nondeterministic as well.

### TwsOta

The phone's requests run in a thread of the master that blocks on one semaphore;
`pc` names the pend. The master's update task verifies and writes its own boot
info at the same time and blocks on the same semaphore in
`tws_ota_exit_verify`; `lib` says where it stands. `sem` counts posts. Messages
carry the sender's 8-bit number, and the receive callback may be called twice for
one of them. The slave's dual bank updater is a queue of jobs whose callbacks
answer. The link may drop, which empties both channels and posts an event to
each bud; the phone may disconnect whenever the thread of its requests is free,
since both run in it. After a success both buds are reset by a synchronised
call (`SyncOver`), which a bud out of reach does not execute.

Nothing in the code keeps the phone from asking at the wrong time, and the model
does not either: it may announce an image (`OtaCheck`) while answers, jobs or the
reset of an earlier update are still under way, and go on (`TransData`,
`CheckCrc`) while the update task works. The history variable `orderly` is true
as long as it has not, and the safety properties of the exchange have it as
hypothesis. What an answer of an earlier update does to the next one is the run
`tws_ota_late`.

The session starts with the sibling connected; otherwise the update is that of
a single bud, which is left out. So are the `INITIATIVE_OTA` branches, where the
phone is asked for the image and `app_protocol_ota.c:468` pends without a
timeout. The updater is external: it may find an image bad, refuse to start a
verification, fail to write, and drops its jobs when its session ends.

`PairUpdate` is the ordered commitment behind it, in terms of what each bud holds and
what the phone was told: a bud commits (`Commit`, boot info) only when both images
are good (`Check`), the slave before the master; the master's commit is the
reported success, which is final; the update resets a bud (`Leave`) only after it.
It is not atomic: an update may fail (`GiveUp`) after the slave has committed,
as the code does when the slave's answer comes after the timeout of
`tws_ota_exit_verify` (`ExitReturns`); nothing undoes the slave's boot info, and
the pair boots two versions at the next power cycle. The refinement mapping `Update` renames `verified`,
`burned`, `rebooted` and `result`; messages, jobs, timeouts and the semaphore are
steps that leave these alone.

### PowerManage

A sample is the class of the battery ("full", "normal", "warn", "low"); the
environment may change it at any time, which stands for load, averaging and
noise. `VbatSample` and `VbatWindow` are one call of `vbat_check` each, within
and at the end of a window; `Window` decides by majority and `LowWindow`,
`WarnWindow` and `NormalWindow` are its three branches on the statics in `mon`.
Events wait in `q` until the application handles them, so that a level, a timer
or a plug may have moved on. The handlers of the charger's events are here as
far as they start and stop the supervision or end the application; `AppCharge`
has them whole. Full detection reads its comparator and not the plug, and may
outlive `charge_close` (`ChargeCtl`): `armed` says that it may report, and
`ChargeFull` may put a FULL behind the OFF of an unplug. Its handler stops the
supervision of a device that is off the charger, and sets `charge_full_flag`
(`full`), with which the device switches off when it would sleep (`FullStop`).
`Supervised`, `LowPowersOff` and `Warned` therefore have the flag as their
exception; while it is set off the charger, a low battery is not noticed. A
power off or restart loses everything but the battery and the plug. What the
phone is told of the level is not checked: it also depends on resends in
`bt_tws.c` and on the closed stack.

### BtTws

`bud[b]` is a record of the flags, timers and the last requests to the stack of
bud `b`. A handler of the code is an operator from that record to the next one,
and `Handle` takes the first event of a bud's queue and applies the operator
for it. `PairTimer` is `connect_and_connectable_switch` called by its timer.
The closed stack is the set of actions of `Stack`: it makes and loses links
between buds that search and listen as they asked, connects phones to buds that
page or are discoverable, reports timeouts, changes roles, and executes
synchronised calls. Time for the phone is counted in page windows of a lone bud.
`phoneAt` and `master` are the stack's truth; the buds' flags follow as their
events are handled. The automatic power off (`shut`) keeps apart a handle that
is armed and one whose timer has fired, as the code does not zero it.

### TouchKey

`key[b]` is the sensor and the driver's record of the gesture; the actions
`Falling`, `LongKey`, `HoldKey`, `Raising` and `ClickTimeout` are the interrupts
of the touch coprocessor and the click timer. `NoTouch` is the comparison of
readings by which the driver drops a LONG or HOLD. A key event goes to the own
application and, over the link, to the sibling's; `box` has one place for each
source, taken in any order. `app[b]` holds the flags of `key_event_deal.c`, and
`sib` what the application believes of the link. A reset goes through the 2 s
timer (`ResetTimer`), the two events of the phone's disconnection
(`PhoneStatus`, `PhoneHci`) and the polls of the board (`PollReboot`). `End`
forgets all of a bud that switches off or reboots.

## Runs

Passing runs:

| Run | Distinct states | What it shows |
|---|---|---|
| `ldo_detect` | 2,649 | detection settles on the pin's level and implements `PlugReport` with liveness |
| `charge_ctl` | 4,829 | supervision, trickle and close, in every interleaving with the interrupts |
| `app_charge` | 2,109,903 | charger follows plug, power mode follows charger, charges start from a closed charger, with the test box |
| `app_charge_live` | 285,455 | power offs end, an unplugged device leaves idle, a plugged one gets charged |
| `tws_ota` | 457,515 | as long as requests meet nothing of earlier ones, buds are reset updated, burn what they verified and commit in order (`PairUpdate`); the slave leaves the update and every pend ends, late answers included |
| `bt_tws` | 353,493 | no bud is stranded, only the master drives a linked pair, a connected phone is left alone; buds get linked, are discoverable, switch off without a phone |
| `power_manage` | 610,008 | a device off the charger is supervised or has the full flag, a low battery switches it off, a warning comes and comes again, the fast timer ends |
| `touch_key` | 146,301 | a held bud switches off, also when both are held or the link drops; a reset reboots |

Runs that refute a statement of the repository's own text:

| Run | Statement | What the code does |
|---|---|---|
| `charge_timer_race` | `timer.h:238`: every `usr_timer_add` has its `usr_timer_del` | the wakeup interrupt starts the full detection timer between test and assignment of the task's own call; one handle is lost |
| `tws_ota_past_end` | `dual_bank_updata_api.h:44`: program the boot info after a successful verification | the refusal of a verification is sent without its status byte, and the byte behind the message is read instead |
| `tws_ota_late` | `dual_bank_updata_api.h:44`, as above | the late answer to an announcement that timed out is taken for that of the next, and each answer for the one after it; the slave programs an image it has not verified |
| `bt_tws_alone` | `board_ac700n_demo_cfg.h:768`: a bud without a Bluetooth connection is switched off after a time | a shut down timer that fires while the bud is linked leaves its handle set, and later enables do nothing |

What the models show besides, where no text of the repository promises
otherwise, is in the hazards without a property in `PROJECT.json`: among it
that a low battery check may switch off a device that is being plugged, that
attempts to reach a phone are forgotten after the loss of the sibling, and that a
reset that meets the end of the phone's link waits for an event that has passed.

### Bounds

* `LdoDetect`: filters 1, 2 and 1 (+1). Three different relations of counter and
  filter occur (verdict on the second, third and third sample), and counters of
  all three levels can be nonzero at once. The theorems cover all values.
* `ChargeCtl`: threshold 2 in place of 10, one orphan, some current that is not
  the trickle current. The theorems cover all values.
* `AppCharge`: `MaxQueue` 2: an event and one posted while it waits; one
  waiting event is enough for every stale-event hazard listed, and handlers that
  post take their own slot first. In the code the queue is longer; the bound
  only delays interrupts. `MaxDelay` 1 and 2 in place of 30, `MaxWait` 1 and 0 in
  place of 200: the count reaches its end and, in one run each, does not at
  first. The safety run includes the test box, the liveness run leaves it out,
  since a test box that keeps talking may keep a device from charging.
* `TwsOta`: two packets (first and not first), two updates (late answers and jobs
  of one meet the next), one verification, one loss of the link. With two
  verifications (1,445,184 states) the types and the safety properties hold too.
  The number of a message is taken modulo 256 as in the code, though no run
  wraps. `PastEndReads` says whether the byte
  behind a short message can look like a success; only `tws_ota_past_end` has it. In
  all runs the phone asks at any time. The types and the liveness properties also
  hold where the exchange is not orderly; `tws_ota_late` shows what does not.
* `PowerManage`: the limits of windows are 2, 1, 2 and 1 in place of 6, 1, 5 and 2:
  a count passes its limit, and is reset below it, by each other kind of window.
  With the real limits (1,243,872 states) the types and `Supervised` hold too. A
  window has 2 samples in place of 6, which gives each majority and its failure. `MaxQueue` 2 (a window posts up
  to two events at once). "full", which differs from "normal" in the level shown
  alone, is left out of the batteries. The theorems cover all values.
* `BtTws`: one remembered phone; one window at power on, two after a supervision
  timeout, one window of a linked bud: the counter passes through all its
  relations to zero, including below it. A phone leaves by the user or by a
  timeout; with the third way (`exists`, 525,782 states) all properties
  hold too. `MaxBacklog` 0: the stack reports the next thing to a bud that has
  handled the last, but a thing it reports may bring up to three events, and
  timers run between them.
* `TouchKey`: 2 holds in place of 10 switch off and the count wraps at 3 in place
  of 256, 2 clicks in place of 4 reset; the polls are the real 3. One reset. `Plans`
  splits the behaviours: buds that are held while the link may be lost, buds
  that are held while it forms, and buds that are clicked while the phone
  leaves. With a loss of the link in the last as well (207,095 states) all
  properties hold too.
* Deadlock is checked in all but `TwsOta` and `TouchKey`, where the phone or the
  user may simply stop and both buds may be off.

### Fairness

* `LdoDetect`: the 2 ms tick and a pending edge are served. Both are interrupts.
* `AppCharge`: interrupts and ticks, the start of the program, the task's handling
  of events and of its own timers. Two assumptions concern closed
  code: audio eventually stops while a power off waits for it (else the count
  ends the wait with a reset, which the model allows as well), and
  a phone link that `power_off_at_same_time` resets goes down. Nothing is
  assumed of the plug, of the user or of the test box: the two plug properties
  have the plug's rest as their hypothesis.
* `PowerManage`: timers that run expire, the application handles its events, a
  power off that has begun ends (`AppCharge`). `VbatWindow` has strong fairness
  because the bound of the queue may disable it now and then; the code's queue
  does not.
* `BtTws`: events are handled, armed timers expire, the stack ends a search that
  has a timeout and executes synchronised calls (strongly, as a link lost again
  and again disables them). That buds in reach of each other find one another,
  if they search and listen at the same time again and again, is a hypothesis
  of `Reunion` and not assumed elsewhere. Nothing is assumed of the phone, of
  the user or of the roles.
* `TouchKey`: events are handled, the timer of the reset and the polls run, the
  stack reports what becomes of the link and executes a synchronised call, and
  a held touch is reported again and again. Nothing is assumed of the user, the phone,
  the link or the hall switch.
* `TwsOta`: a pend ends, by post or timeout (every pend of the passive update has one);
  the updater finishes or abandons a job; the slave's 8 s timeout fires. Nothing
  is assumed of the phone, of the link or of the other bud.

## Proofs

Constants are arbitrary within the named assumptions of the modules: filters,
thresholds and bounds are natural numbers, the board's current is an index of
the table, and there are two buds. Every invariant that a run checks is a theorem,
and so are the action properties `BurnAfterVerify` and `StartsFromClosed` and the
refinement `ImplementsPairUpdate`. TLC checked each strengthening
below as an invariant of the run before it was proved.

`LdoDetect_proofs`:
* `TypeCorrect`: types, and no counter passes its filter.
* `Inductive`: the strengthening `IInv`. `Settled` is not inductive by itself:
  a timer that runs after detection was stopped could deliver a verdict with the
  ports off, and a boot could leave the flag and the online flag apart. `IInv` adds
  that the timer runs only with `init_ok` and the ports enabled, that the ports
  are enabled until `init_ok`, and the agreement of flag and status.
* `OnlineAgrees`, with any pulses on the pin; `SettledHolds`, under `GlitchFree`
  (no two changes within the port filter). Without it `Settled` is false: the
  2 ms samples can see a pulse that raises no interrupt and
  complete a verdict with it. The assumption is about the pin and justified by
  detection filters that are longer than the 16 ms of the port.
* `PlugReportSafety`: every initial state and step of `LdoDetect` is one of
  `PlugReport`, or a stutter. That reports eventually come is left to TLC.

`ChargeCtl_proofs`:
* `TypeCorrect`.
* `Inductive`: what holds at each value of `pc`. `Supervised`, `TrickleEnds` and
  `CloseStopsCcCheck` speak of the charger, and are false as inductive invariants
  because `charge_start` enables the charger some steps after it has chosen the
  current and armed the supervision. `WatchInv` states who watches from
  `start_enable` on (`InCharge`), and that no current check exists before the
  supervision is armed. `CurrentInv` adds which current: that cache and register
  agree once the cache was written, except between the two writes. It holds
  until a `charge_start` finds `cc_timer` armed (`~restarted => CurrentInv`).
* `SupervisedHolds`, `TrickleEndsHolds`, `CloseStopsHolds` follow.

`PowerManage_proofs`:
* `SupervisedHolds`. `Supervised` speaks of an empty queue, and whether it holds
  then is decided by what is queued before: `charge_full_deal` stops the
  supervision and sets the flag, `charge_ldo5v_in_deal` clears the flag,
  `charge_ldo5v_off_deal` clears it and brings the supervision back. The invariant
  `SInv` says that behind every IN in the queue there is an OFF unless the charger
  is there, that an unsupervised device has the flag, is on the charger or has
  an OFF to come, and that a device that is off has nothing running. Nothing is
  assumed of when a full charge is reported.
* `TypeCorrect`. A counter of the window leaves its range unless it counts no more
  samples than were taken, and unless the window ends with the last of them:
  `WindowOpen` adds both. That the first limit of the warning windows is
  no greater than the later one (1 and 5 in the code) is an assumption, and needed:
  the count goes on from one to the other. The bound of the queue holds for what a
  window posts at once, at most a power event and a change of level.

`AppCharge_proofs`:
* `TypeCorrect`: types and limits, the two timers that several callbacks share
  among them.
* `PowerModeFollows`, `ChargeFollows`, `StartsClosed`. The charger is switched by a call, the mode
  by the event that the call posts; the status of the plug is decided by a timer,
  and the charger follows when the event is handled. What the properties say of a
  state with no such event waiting depends on what was waiting before. `ModeInv`
  and `PlugInv` say that the last waiting event of the kind tells the truth, and
  that the state does when none waits. `PlugInv` adds what makes events and status
  agree: that every change of status is posted, and that nothing is queued in a
  device that is off. `ModeInv` adds the devices that started on the charger
  (`StartedOnCharger`), whose mode is ahead of the charger until a verdict is
  handled. Both except a power off under way, which flushes the queue. For
  `StartsClosed` what matters is the order of the plug events that wait: a plug
  has an event that closes the charger between itself and the plug before it.

`TwsOta_proofs`. The invariants of the exchange are conditional, like the
properties: `orderly =>` each of them. They are still inductive, because `orderly`
once false stays false (`OnceDisorderly`); `TypeOK` and `Queued`, the types of what
is on its way, hold without the condition.
* `TypeCorrect`, with the semaphore never above 1 in an orderly exchange, and
  `RebootTogether`: the update resets no bud before both have written their boot
  info. An orderly exchange has one token: an unread request, a job of the slave, an
  unread answer or an unclaimed post, one of them at most (`OneToken`), and the
  master sends only when there is none. `MessageInv` says that behind duplicates only
  the newest message of a direction can be unread, `Requested` what the token can be
  for each place the master waits at, `BurnInv` what an answer to the last request
  means.
* `BurnVerified`: a bud writes boot info only for an image that it has itself
  verified. It needs `~PastEndReads` too: with a status read past the end of an answer
  it is false, see `tws_ota_past_end`. `VerifyInv` follows the verified image of the slave
  from the answer to the post to the master's own verification.
* `CommitsInOrder`, under the same hypotheses: `Spec => ImplementsPairUpdate`, every
  step of an orderly exchange is one of `PairUpdate` or a stutter. `CommitInv` adds that
  the slave's image is still good when the master commits, that boot info is asked
  for only with the master's image good as well, and that nothing is on its way
  once success was reported.

`BtTws_proofs`:
* `TypeCorrect`, `OnlyMasterDrives`, `PhoneIsLeftAlone`, `NoneStranded`. What a bud
  knows lags behind the stack by the events it has not handled, so the properties,
  which speak of a bud with none left, are far from inductive. The invariant
  `BudInv` is one of each bud. Its parts have the form `Settles`: the last waiting
  event that matters puts the bud right, or none waits and it is right.
  `CalmInv` says so of a bud that shares the phone and its timer (events that are
  `Noisy`, those that are `Quieting`), `SlaveInv` of a slave's timer,
  `LostInv` of a bud without a link: that it knows (`Links`, `Detaches`), and that
  it is at work if it has no phone either (`Waking`, `Reviving`). They rest on
  `StackInv`, what the stack does for a bud and the link it has, and on
  `PairedInv`, because the handlers behave differently towards a bud that was
  never paired.
* The proof has two halves. Lemmas about the operators say what each does to one
  bud's record and what it posts (`Same`, `Tame`, `HandledRight` and the
  lemmas about the timers); the steps of the stack then need only the kinds of
  events they post. The type of a record needed an assumption on the model's
  constant `None`, that it is not one of the timer's arguments 0 and 1.
* TLC checked `BtInv` with the run's constants, with a phone link that may
  also end because it exists already ("exists" in `PhoneEnds`), and with `MaxBacklog` 1.

`TouchKey_proofs`:
* `TypeCorrect`: types, the agreement of the driver's three notes of a gesture, and
  the range of the count of holds, which wraps as a u8 and which the sibling's
  hold decrements. The agreement is not inductive: the report of a hold
  writes `last_key` without a look at the timer. `KeyRight` adds that a touch that is
  reported as held was noted as held before.

Only model-checked: all liveness, which is out of this prover's reach with
fairness and `ENABLED`: `Reunion`, `PairSwitchesOff`, `Discoverable`,
`PoweroffCompletes`, `UnpluggedLeavesIdle`, `PluggedEndsCharging`,
`SlaveLeavesUpdate`, `RequestAnswered`, `LowPowersOff`, `Warned`, `FastStops`,
`HeldPowersOff`, `ResetReboots`, and the part of `ImplementsPlugReport` that a
lasting level is reported. The four findings are counterexamples and need no
proof. Induction over data and RECURSIVE operators are out of reach as well; the
modules use no recursion.

## Plan

The order follows the weight of the behaviour.

1. Done: detection, circuit, charge handling and power off, pair update, battery,
   connection of the pair, touch key, with their runs; theorems of every invariant.
2. Proofs: safety facts that the liveness properties rest on, such as what
   keeps `LowPowersOff` (a window of a low battery adds to `low_power_cnt` or posts
   LOW) and `RequestAnswered` (a request that waits has a timeout), as invariants of
   the runs and theorems.
3. Extensions: a bud that resets in mid-update and whose message numbers start
   again; the update of a single bud; calls and the removal of a pairing in `BtTws`;
   the levels two buds exchange; the volume they agree on.
