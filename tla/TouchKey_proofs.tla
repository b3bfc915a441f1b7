--------------------------- MODULE TouchKey_proofs ---------------------------
(***************************************************************************)
(* Theorem of TouchKey: the types, among them what the touch driver's      *)
(* three notes of a gesture have to do with one another, and the range of  *)
(* the count of holds, which the sibling's holds decrement.                *)
(*                                                                         *)
(* The relation of the notes is not inductive: the report of a hold writes *)
(* last_key, and would leave the timer of the clicks running.  That it     *)
(* never finds it running is because a touch that is being reported was    *)
(* taken for long before, and that waits for the timer.                    *)
(***************************************************************************)
EXTENDS TouchKey, TLAPS

\* A record of a gesture that agrees with itself and with the sensor.
KeyRight(k) ==
    /\ k \in KeyType
    /\ k.timer <=> k.clicks > 0
    /\ k.timer <=> k.last = "short"
    /\ k.touch = "long" => k.last = "held"

BoxType == [Sources -> Events \cup {None}]

TInv ==
    /\ key \in [Buds -> KeyType] /\ \A b \in Buds : KeyRight(key[b])
    /\ box \in [Buds -> BoxType]
    /\ app \in [Buds -> AppType]
    /\ linked \in BOOLEAN /\ syncOff \in BOOLEAN
    /\ resets \in 0..MaxResets
    /\ plan \in Plans

-----------------------------------------------------------------------------
(* The driver's record of a gesture *)

\* What a record holds, in the form the provers use.
LEMMA KeyFields ==
    ASSUME NEW k \in KeyType
    PROVE  /\ k.touch \in {"up", "down", "long"} /\ k.last \in {"null", "short", "held"}
           /\ k.clicks \in 0..MaxTaps /\ k.timer \in BOOLEAN
BY DEF KeyType

\* A touch begins.
LEMMA FallingRight ==
    ASSUME NEW k, KeyRight(k), NEW t \in {"up", "down"}
    PROVE  KeyRight([k EXCEPT !.touch = t])
<1> DEFINE n == [k EXCEPT !.touch = t]
<1>1. /\ n \in KeyType /\ n.touch = t
      /\ n.clicks = k.clicks /\ n.timer = k.timer /\ n.last = k.last
  BY DEF KeyRight, KeyType
<1> HIDE DEF n
<1>2. KeyRight(n)
  BY <1>1 DEF KeyRight
<1> QED
  BY <1>2 DEF n

\* A long press is noted with no click timer running ...
LEMMA LongRight ==
    ASSUME NEW k, KeyRight(k), ~k.timer
    PROVE  KeyRight([k EXCEPT !.touch = "long", !.last = "held"])
<1> DEFINE n == [k EXCEPT !.touch = "long", !.last = "held"]
<1>1. /\ n \in KeyType /\ n.touch = "long" /\ n.last = "held"
      /\ n.clicks = k.clicks /\ n.timer = k.timer
  BY DEF KeyRight, KeyType
<1> HIDE DEF n
<1>2. KeyRight(n)
  BY <1>1 DEF KeyRight
<1> QED
  BY <1>2 DEF n

\* ... and a hold changes nothing that the long press has not.
LEMMA HoldRight ==
    ASSUME NEW k, KeyRight(k), k.touch = "long"
    PROVE  KeyRight([k EXCEPT !.last = "held"])
<1> DEFINE n == [k EXCEPT !.last = "held"]
<1>1. /\ n \in KeyType /\ n.touch = k.touch /\ n.last = k.last
      /\ n.clicks = k.clicks /\ n.timer = k.timer
  BY DEF KeyRight, KeyType
<1> HIDE DEF n
<1>2. KeyRight(n)
  BY <1>1 DEF KeyRight
<1> QED
  BY <1>2 DEF n

\* ctmu_raise_click_handle: a click counts on while the timer runs.
LEMMA RaiseRight ==
    ASSUME NEW k, KeyRight(k), k.last = "held" \/ k.clicks < MaxTaps
    PROVE  KeyRight(RaiseClick(k))
<1>1. CASE k.last = "held"
  <2> DEFINE n == [k EXCEPT !.touch = "up", !.last = "null"]
  <2>1. /\ n \in KeyType /\ n.touch = "up" /\ n.last = "null"
        /\ n.clicks = k.clicks /\ n.timer = k.timer
    BY DEF KeyRight, KeyType
  <2>2. RaiseClick(k) = n
    BY <1>1 DEF RaiseClick
  <2> HIDE DEF n
  <2>3. KeyRight(n)
    BY <1>1, <2>1 DEF KeyRight
  <2> QED
    BY <2>2, <2>3
<1>2. CASE k.last # "held"
  <2> DEFINE c == IF k.timer THEN k.clicks + 1 ELSE 1
             n == [k EXCEPT !.touch = "up", !.last = "short", !.timer = TRUE, !.clicks = c]
  <2>1. k.clicks \in 0..MaxTaps /\ k.clicks < MaxTaps /\ k \in KeyType
    BY <1>2, KeyFields DEF KeyRight
  <2>2. c \in 0..MaxTaps /\ c > 0
    BY <2>1, CountsAssumption
  <2>3. RaiseClick(k) = n
    BY <1>2, <2>1 DEF RaiseClick, ShortClick, KeyType
  <2> HIDE DEF c
  <2>4. n \in KeyType /\ n.touch = "up" /\ n.last = "short" /\ n.clicks = c /\ n.timer
    BY <2>1, <2>2 DEF KeyType
  <2> HIDE DEF n
  <2>5. KeyRight(n)
    BY <2>2, <2>4 DEF KeyRight
  <2> QED
    BY <2>3, <2>5
<1> QED
  BY <1>1, <1>2

\* __ctmu_short_click_time_out_handle ends the gesture.  No touch is long then.
LEMMA AfterRight ==
    ASSUME NEW k, KeyRight(k), k.timer
    PROVE  KeyRight(AfterClicks(k))
<1> DEFINE n == [k EXCEPT !.timer = FALSE, !.last = "null", !.clicks = 0]
<1>1. 0 \in 0..MaxTaps /\ ~(0 > 0)
  BY CountsAssumption
<1>2. /\ n \in KeyType /\ n.touch = k.touch /\ n.last = "null"
      /\ n.clicks = 0 /\ n.timer = FALSE
  BY <1>1 DEF KeyRight, KeyType
<1>3. k.touch # "long"
  BY DEF KeyRight
<1> HIDE DEF n
<1>4. KeyRight(n)
  BY <1>1, <1>2, <1>3 DEF KeyRight
<1> QED
  BY <1>4 DEF n, AfterClicks

\* A bud whose keys are disabled.
LEMMA NoTouchRight == KeyRight(NoTouchYet)
<1>1. 0 \in 0..MaxTaps /\ ~(0 > 0)
  BY CountsAssumption
<1> QED
  BY <1>1 DEF KeyRight, KeyType, NoTouchYet

KeysRight(f) == f \in [Buds -> KeyType] /\ \A b \in Buds : KeyRight(f[b])

\* One bud's record is set.
LEMMA KeySet ==
    ASSUME NEW f, KeysRight(f), NEW b \in Buds, NEW k, KeyRight(k)
    PROVE  KeysRight([f EXCEPT ![b] = k])
BY DEF KeysRight, KeyRight

-----------------------------------------------------------------------------
(* The places for events, and the application *)

\* There are two buds, and each is the other's sibling.
LEMMA SiblingIsBud == \A b \in Buds : Sibling(b) \in Buds /\ Sibling(b) # b
BY BudsAssumption DEF Sibling

\* A bud with nothing to handle.
LEMMA NoEventsTyped == NoEvents \in BoxType
BY DEF NoEvents, BoxType

\* An event is put in one place of one bud, or taken out.
LEMMA PlaceSet ==
    ASSUME NEW f \in [Buds -> BoxType], NEW b \in Buds, NEW s \in Sources,
           NEW e \in Events \cup {None}
    PROVE  [f EXCEPT ![b][s] = e] \in [Buds -> BoxType]
BY DEF BoxType

\* __ctmu_notify_key_event puts an event in both buds' places, or in one.
LEMMA NotifyTyped ==
    ASSUME box \in [Buds -> BoxType], NEW b \in Buds, NEW e \in Events, Notify(b, e)
    PROVE  box' \in [Buds -> BoxType]
<1> DEFINE o == Sibling(b)
           f == [box EXCEPT ![b]["key"] = e]
           x == IF linked /\ On(o) THEN e ELSE box[o]["tws"]
<1>1. o \in Buds /\ o # b
  BY SiblingIsBud
<1>2. f \in [Buds -> BoxType]
  BY PlaceSet DEF Sources
<1>3. box[o]["tws"] \in Events \cup {None}
  BY <1>1 DEF BoxType, Sources
<1>4. x \in Events \cup {None}
  BY <1>3
<1>5. box' = [f EXCEPT ![o]["tws"] = x]
  BY <1>1 DEF Notify
<1> HIDE DEF f, x, o
<1>6. [f EXCEPT ![o]["tws"] = x] \in [Buds -> BoxType]
  BY <1>1, <1>2, <1>4, PlaceSet DEF Sources
<1> QED
  BY <1>5, <1>6

\* What an application holds, in the form the provers use.
LEMMA AppFields ==
    ASSUME NEW a \in AppType
    PROVE  /\ a.cnt \in 0..(CntMod - 1) /\ a.reboot \in 0..RebootPolls
           /\ a.phone \in {"none", "up", "closing", "status"}
BY DEF AppType

\* The ranges of the two counters.
LEMMA Ranges ==
    /\ 0 \in 0..(CntMod - 1) /\ 0 \in 0..RebootPolls /\ 1 \in 0..RebootPolls
    /\ \A n \in Nat : n % CntMod \in 0..(CntMod - 1)
    /\ PowerOffCnt - 1 \in 0..(CntMod - 1)
BY CountsAssumption

\* An application as it starts, and one that has ended.
LEMMA FreshTyped ==
    ASSUME NEW r \in {"on", "leaving", "rebooted"}
    PROVE  Fresh \in AppType /\ [Fresh EXCEPT !.run = r] \in AppType
BY Ranges DEF Fresh, AppType

\* One bud's application is set.
LEMMA AppSet ==
    ASSUME NEW f \in [Buds -> AppType], NEW b \in Buds, NEW a \in AppType
    PROVE  [f EXCEPT ![b] = a] \in [Buds -> AppType]
OBVIOUS

\* The steps of a reset.
LEMMA ResetTyped ==
    ASSUME NEW a \in AppType
    PROVE  Reboot(a) \in AppType /\ Closing(a) \in AppType /\ ResetAtStatus(a) \in AppType
<1>1. ASSUME NEW c \in AppType PROVE Reboot(c) \in AppType
  <2> DEFINE n == IF c.reboot = 0 THEN 1 ELSE c.reboot
  <2>1. n \in 0..RebootPolls
    BY AppFields, Ranges
  <2>2. Reboot(c) = [c EXCEPT !.reboot = n]
    BY DEF Reboot, AppType
  <2> HIDE DEF n
  <2> QED
    BY <2>1, <2>2 DEF AppType
<1>2. Closing(a) \in AppType
  <2> DEFINE p == IF a.phone = "up" THEN "closing" ELSE a.phone
  <2>1. p \in {"none", "up", "closing", "status"}
    BY AppFields
  <2>2. Closing(a) = [a EXCEPT !.phone = p]
    BY DEF Closing, AppType
  <2> HIDE DEF p
  <2> QED
    BY <2>1, <2>2 DEF AppType
<1>3. [a EXCEPT !.reset = FALSE] \in AppType
  BY DEF AppType
<1> QED
  BY <1>1, <1>2, <1>3 DEF ResetAtStatus

\* What the sibling's hold leaves of the count is in its range.
LEMMA HoldTyped ==
    ASSUME app \in [Buds -> AppType], NEW b \in Buds, NEW s, KeyPoweroffHold(b, s)
    PROVE  app' \in [Buds -> AppType]
<1> DEFINE n == (app[b].cnt + 1) % CntMod
           c == IF n = PowerOffCnt /\ s = "tws" THEN CountAfterTws(n) ELSE n
<1>1. app[b] \in AppType /\ app[b].cnt \in 0..(CntMod - 1)
  BY AppFields
<1>2. app[b].cnt + 1 \in Nat
  BY <1>1, CountsAssumption
<1>3. n \in 0..(CntMod - 1)
  BY <1>2, Ranges
<1>4. c \in 0..(CntMod - 1)
  BY <1>3, Ranges DEF CountAfterTws
<1>5. app' = [app EXCEPT ![b] = [app[b] EXCEPT !.cnt = c]]
  BY DEF KeyPoweroffHold
<1> HIDE DEF n, c
<1>6. [app[b] EXCEPT !.cnt = c] \in AppType
  BY <1>1, <1>4 DEF AppType
<1> QED
  BY <1>5, <1>6, AppSet

\* Buds that switch off or start again.
LEMMA EndTyped ==
    ASSUME TInv, NEW S, NEW r \in {"leaving", "rebooted"}, End(S, r)
    PROVE  /\ app' \in [Buds -> AppType] /\ box' \in [Buds -> BoxType]
           /\ KeysRight(key')
<1>1. [Fresh EXCEPT !.run = r] \in AppType
  BY FreshTyped
<1>2. app' \in [Buds -> AppType]
  BY <1>1 DEF TInv, End
<1>3. box' \in [Buds -> BoxType]
  BY NoEventsTyped DEF TInv, End
<1>4. NoTouchYet \in KeyType
  BY NoTouchRight DEF KeyRight
<1>5. key' = [b \in Buds |-> IF b \in S THEN NoTouchYet ELSE key[b]]
  BY DEF End
<1>6. key' \in [Buds -> KeyType]
  BY <1>4, <1>5 DEF TInv
<1>7. \A b \in Buds : KeyRight(key'[b])
  BY <1>5, NoTouchRight DEF TInv
<1> QED
  BY <1>2, <1>3, <1>6, <1>7 DEF KeysRight

-----------------------------------------------------------------------------
(* Each step keeps the invariant *)

\* The invariant holds at first.
LEMMA TInvInit == Init => TInv
<1> SUFFICES ASSUME Init PROVE TInv
  OBVIOUS
<1>1. KeysRight(key)
  <2>1. NoTouchYet \in KeyType
    BY NoTouchRight DEF KeyRight
  <2> QED
    BY <2>1, NoTouchRight DEF Init, KeysRight
<1>2. box \in [Buds -> BoxType]
  BY NoEventsTyped DEF Init
<1>3. linked \in BOOLEAN
  BY DEF Init
<1>4. app \in [Buds -> AppType]
  <2>1. PICK p \in {"none", "up"} :
           app = [b \in Buds |-> [Fresh EXCEPT !.sib = linked, !.phone = p]]
    BY DEF Init
  <2>2. [Fresh EXCEPT !.sib = linked, !.phone = p] \in AppType
    BY <1>3, Ranges DEF Fresh, AppType
  <2> QED
    BY <2>1, <2>2
<1>5. resets \in 0..MaxResets
  BY CountsAssumption DEF Init
<1> QED
  BY <1>1, <1>2, <1>3, <1>4, <1>5 DEF TInv, Init, KeysRight

\* What a touch and the driver's handling of it leave.
LEMMA TouchStep ==
    ASSUME TInv, NEW b \in Buds, Touches(b)
    PROVE  TInv'
<1> USE DEF TInv
<1>1. KeysRight(key) /\ KeyRight(key[b]) /\ key[b] \in KeyType
  BY DEF KeysRight
<1>2. SUFFICES /\ KeysRight(key') /\ box' \in [Buds -> BoxType]
               /\ resets' \in 0..MaxResets
               /\ UNCHANGED <<app, linked, syncOff, plan>>
  BY DEF KeysRight, BoxType, AppType, KeyType, Events
<1>3. CASE Falling(b)
  <2>1. key' = [key EXCEPT ![b] = [key[b] EXCEPT !.touch = "down"]]
    BY <1>3 DEF Falling
  <2>2. KeysRight(key')
    BY <1>1, <2>1, FallingRight, KeySet
  <2> QED
    BY <1>3, <2>2 DEF Falling
<1>4. ASSUME NoTouch(b) PROVE KeysRight(key') /\ box' = box
  <2>1. key' = [key EXCEPT ![b] = [key[b] EXCEPT !.touch = "up"]]
    BY <1>4 DEF NoTouch
  <2>2. KeyRight([key[b] EXCEPT !.touch = "up"])
    BY <1>1, FallingRight
  <2>3. KeysRight(key')
    BY <1>1, <2>1, <2>2, KeySet
  <2> QED
    BY <1>4, <2>3 DEF NoTouch
<1>5. CASE LongKey(b)
  <2>1. CASE NoTouch(b)
    BY <1>4, <1>5, <2>1 DEF LongKey
  <2>2. CASE ~NoTouch(b)
    <3>1. /\ key' = [key EXCEPT ![b] = [key[b] EXCEPT !.touch = "long", !.last = "held"]]
          /\ ~key[b].timer /\ Notify(b, "LONG")
      BY <1>5, <2>2 DEF LongKey
    <3>2. KeysRight(key')
      BY <1>1, <3>1, LongRight, KeySet
    <3>3. box' \in [Buds -> BoxType]
      BY <3>1, NotifyTyped DEF Events
    <3> QED
      BY <1>5, <3>2, <3>3 DEF LongKey
  <2> QED
    BY <2>1, <2>2
<1>6. CASE HoldKey(b)
  <2>1. CASE HoldReport(b)
    <3>1. /\ key' = [key EXCEPT ![b] = [key[b] EXCEPT !.last = "held"]]
          /\ key[b].touch = "long" /\ Notify(b, "HOLD")
      BY <2>1 DEF HoldReport
    <3>2. KeysRight(key')
      BY <1>1, <3>1, HoldRight, KeySet
    <3>3. box' \in [Buds -> BoxType]
      BY <3>1, NotifyTyped DEF Events
    <3> QED
      BY <2>1, <3>2, <3>3 DEF HoldReport
  <2>2. CASE ~HoldReport(b)
    BY <1>4, <1>6, <2>2 DEF HoldKey
  <2> QED
    BY <2>1, <2>2
<1>7. CASE Raising(b)
  <2>1. /\ key' = [key EXCEPT ![b] = RaiseClick(key[b])]
        /\ key[b].last = "held" \/ key[b].clicks < MaxTaps
    BY <1>7 DEF Raising
  <2>2. KeysRight(key')
    BY <1>1, <2>1, RaiseRight, KeySet
  <2> QED
    BY <1>7, <2>2 DEF Raising
<1>8. CASE ClickTimeout(b)
  <2>1. key' = [key EXCEPT ![b] = AfterClicks(key[b])] /\ key[b].timer
    BY <1>8 DEF ClickTimeout
  <2>2. KeysRight(key')
    BY <1>1, <2>1, AfterRight, KeySet
  <2>3. CASE key[b].clicks = ResetTaps
    <3>1. resets < MaxResets /\ resets' = resets + 1 /\ Notify(b, "RESET")
      BY <1>8, <2>3 DEF ClickTimeout
    <3>2. resets' \in 0..MaxResets
      BY <3>1, CountsAssumption
    <3>3. box' \in [Buds -> BoxType]
      BY <3>1, NotifyTyped DEF Events
    <3> QED
      BY <1>8, <2>2, <3>2, <3>3 DEF ClickTimeout
  <2>4. CASE key[b].clicks # ResetTaps
    BY <1>8, <2>2, <2>4 DEF ClickTimeout
  <2> QED
    BY <2>3, <2>4
<1> QED
  BY <1>3, <1>5, <1>6, <1>7, <1>8 DEF Touches

\* What the application's handlers of key events leave.
LEMMA HandleStep ==
    ASSUME TInv, NEW b \in Buds, NEW s \in Sources, HandleKey(b, s)
    PROVE  TInv'
<1> USE DEF TInv
<1>1. SUFFICES /\ KeysRight(key') /\ box' \in [Buds -> BoxType]
               /\ app' \in [Buds -> AppType] /\ syncOff' \in BOOLEAN
               /\ UNCHANGED <<linked, resets, plan>>
  BY DEF KeysRight, BoxType, AppType, KeyType, Events
<1>2. KeysRight(key) /\ app[b] \in AppType
  BY DEF KeysRight
<1>3. Taken(b, s) => box' \in [Buds -> BoxType]
  <2>1. [box EXCEPT ![b][s] = None] \in [Buds -> BoxType]
    BY PlaceSet
  <2> QED
    BY <2>1 DEF Taken
<1>4. CASE HandleLong(b, s)
  <2>1. PICK x \in BOOLEAN :
           app' = [app EXCEPT ![b] = [app[b] EXCEPT !.cnt = 0, !.flag = x]]
    <3>1. PICK call \in BOOLEAN : app' = [app EXCEPT ![b].cnt = 0, ![b].flag = ~call]
      BY <1>4 DEF HandleLong, KeyPoweroff
    <3>2. (~call) \in BOOLEAN
      BY Zenon
    <3>3. app' = [app EXCEPT ![b] = [app[b] EXCEPT !.cnt = 0, !.flag = ~call]]
      BY <3>1
    <3> QED
      BY <3>2, <3>3
  <2>2. [app[b] EXCEPT !.cnt = 0, !.flag = x] \in AppType
    BY <1>2, Ranges DEF AppType
  <2>3. app' \in [Buds -> AppType]
    BY <2>1, <2>2, AppSet
  <2> QED
    BY <1>2, <1>3, <1>4, <2>3 DEF HandleLong, KeysRight
<1>5. CASE HandleHold(b, s)
  <2>1. CASE Leave({b})
    <3>1. End({b}, "leaving")
      BY <2>1 DEF Leave
    <3>2. KeysRight(key') /\ box' \in [Buds -> BoxType] /\ app' \in [Buds -> AppType]
      BY <3>1, EndTyped
    <3>3. CASE UNCHANGED syncOff
      BY <1>5, <3>2, <3>3 DEF HandleHold
    <3>4. CASE KeyPoweroffHold(b, s)
      BY <1>5, <3>2, <3>4 DEF HandleHold, KeyPoweroffHold
    <3> QED
      BY <1>5, <3>3, <3>4 DEF HandleHold
  <2>2. CASE ~Leave({b})
    <3>1. Taken(b, s) /\ UNCHANGED key
      BY <1>5, <2>2 DEF HandleHold
    <3>2. CASE KeyPoweroffHold(b, s)
      BY <1>2, <1>3, <1>5, <3>1, <3>2, HoldTyped DEF HandleHold, KeyPoweroffHold, KeysRight
    <3>3. CASE UNCHANGED <<app, syncOff>>
      BY <1>2, <1>3, <1>5, <3>1, <3>3 DEF HandleHold, KeysRight
    <3> QED
      BY <1>5, <2>2, <3>2, <3>3 DEF HandleHold
  <2> QED
    BY <2>1, <2>2
<1>6. CASE HandleReset(b, s)
  <2>1. app' = [app EXCEPT ![b] = [app[b] EXCEPT !.wait = TRUE]]
    BY <1>6 DEF HandleReset
  <2>2. [app[b] EXCEPT !.wait = TRUE] \in AppType
    BY <1>2 DEF AppType
  <2>3. app' \in [Buds -> AppType]
    BY <2>1, <2>2, AppSet
  <2> QED
    BY <1>2, <1>3, <1>6, <2>3 DEF HandleReset, KeysRight
<1> QED
  BY <1>4, <1>5, <1>6 DEF HandleKey

\* What the reset and the polls leave.
LEMMA ResetStep ==
    ASSUME TInv, NEW b \in Buds, ResetTimer(b) \/ PhoneStatus(b) \/ PhoneHci(b)
    PROVE  TInv'
<1> USE DEF TInv
<1>1. SUFFICES app' \in [Buds -> AppType]
  <2>1. UNCHANGED <<key, box, linked, syncOff, resets, plan>>
    BY DEF ResetTimer, PhoneStatus, PhoneHci
  <2> QED
    BY <1>1, <2>1 DEF KeyRight, BoxType, AppType, KeyType, Events
<1>2. app[b] \in AppType
  OBVIOUS
<1>3. CASE ResetTimer(b)
  <2> DEFINE a == [app[b] EXCEPT !.wait = FALSE]
             r == [a EXCEPT !.reset = TRUE]
             o == Sibling(b)
  <2>1. a \in AppType /\ r \in AppType
    BY <1>2 DEF AppType
  <2>2. o \in Buds /\ o # b
    BY SiblingIsBud
  <2>3. CASE a.phone = "none"
    <3>1. app' = [app EXCEPT ![b] = Reboot(a)]
      BY <1>3, <2>3 DEF ResetTimer
    <3>2. Reboot(a) \in AppType
      BY <2>1, ResetTyped
    <3> QED
      BY <3>1, <3>2, AppSet
  <2>4. CASE a.phone # "none"
    <3> DEFINE x == IF linked THEN Closing(app[o]) ELSE app[o]
    <3>1. app' = [[app EXCEPT ![b] = Closing(r)] EXCEPT ![o] = x]
      BY <1>3, <2>2, <2>4 DEF ResetTimer
    <3>2. Closing(r) \in AppType /\ x \in AppType
      BY <2>1, <2>2, ResetTyped
    <3> HIDE DEF a, r, o, x
    <3>3. [app EXCEPT ![b] = Closing(r)] \in [Buds -> AppType]
      BY <3>2, AppSet
    <3> QED
      BY <2>2, <3>1, <3>2, <3>3, AppSet
  <2> QED
    BY <2>3, <2>4
<1>4. CASE PhoneStatus(b)
  <2> DEFINE a == [app[b] EXCEPT !.phone = "status"]
  <2>1. a \in AppType
    BY <1>2 DEF AppType
  <2>2. app' = [app EXCEPT ![b] = ResetAtStatus(a)]
    BY <1>4 DEF PhoneStatus
  <2> HIDE DEF a
  <2>3. ResetAtStatus(a) \in AppType
    BY <2>1, ResetTyped
  <2> QED
    BY <2>2, <2>3, AppSet
<1>5. CASE PhoneHci(b)
  <2>1. app' = [app EXCEPT ![b] = [app[b] EXCEPT !.phone = "none"]]
    BY <1>5 DEF PhoneHci
  <2>2. [app[b] EXCEPT !.phone = "none"] \in AppType
    BY <1>2 DEF AppType
  <2> QED
    BY <2>1, <2>2, AppSet
<1> QED
  BY <1>3, <1>4, <1>5

\* What the half second poll leaves: a reboot, a power off, or one poll less to go.
LEMMA PollStep ==
    ASSUME TInv, NEW b \in Buds, PollReboot(b) \/ PollHall(b)
    PROVE  TInv'
<1> USE DEF TInv
<1>1. SUFFICES /\ KeysRight(key') /\ box' \in [Buds -> BoxType]
               /\ app' \in [Buds -> AppType]
               /\ linked' \in BOOLEAN /\ syncOff' \in BOOLEAN
               /\ UNCHANGED <<resets, plan>>
  BY DEF KeysRight, BoxType, AppType, KeyType, Events
<1>2. CASE PollReboot(b)
  <2>1. app[b] \in AppType /\ app[b].reboot \in 0..RebootPolls
    BY AppFields
  <2>2. CASE app[b].reboot < RebootPolls
    <3>1. /\ app' = [app EXCEPT ![b] = [app[b] EXCEPT !.reboot = NextPoll(app[b].reboot)]]
          /\ UNCHANGED <<key, box, linked, syncOff, resets, plan>>
      BY <1>2, <2>2 DEF PollReboot
    <3>2. NextPoll(app[b].reboot) \in 0..RebootPolls
      BY <2>1, <2>2, CountsAssumption DEF NextPoll
    <3>3. [app[b] EXCEPT !.reboot = NextPoll(app[b].reboot)] \in AppType
      BY <2>1, <3>2 DEF AppType
    <3>4. app' \in [Buds -> AppType]
      BY <3>1, <3>3, AppSet
    <3> QED
      BY <3>1, <3>4 DEF KeysRight
  <2>3. CASE ~(app[b].reboot < RebootPolls)
    <3>1. /\ End({b}, "rebooted") /\ linked' = FALSE /\ syncOff' = FALSE
          /\ UNCHANGED <<resets, plan>>
      BY <1>2, <2>3 DEF PollReboot
    <3> QED
      BY <3>1, EndTyped
  <2> QED
    BY <2>2, <2>3
<1>3. CASE PollHall(b)
  <2>1. End({b}, "leaving") /\ UNCHANGED <<linked, syncOff, resets, plan>>
    BY <1>3 DEF PollHall, Leave
  <2> QED
    BY <2>1, EndTyped
<1> QED
  BY <1>2, <1>3

\* What the link, the phone and a synchronised call leave.
LEMMA LinkStep ==
    ASSUME TInv, \/ \E b \in Buds : LinkEvent(b)
                 \/ PowerOffTogether \/ PhoneLeaves \/ LinkLost \/ LinkForms
    PROVE  TInv'
<1> USE DEF TInv
<1>1. SUFFICES /\ KeysRight(key') /\ box' \in [Buds -> BoxType]
               /\ app' \in [Buds -> AppType]
               /\ linked' \in BOOLEAN /\ syncOff' \in BOOLEAN
               /\ UNCHANGED <<resets, plan>>
  BY DEF KeysRight, BoxType, AppType, KeyType, Events
<1>2. ASSUME NEW b \in Buds, LinkEvent(b)
      PROVE /\ app' \in [Buds -> AppType]
            /\ UNCHANGED <<key, box, linked, syncOff, resets, plan>>
  <2>1. /\ app' = [app EXCEPT ![b] = [app[b] EXCEPT !.sib = linked]]
        /\ UNCHANGED <<key, box, linked, syncOff, resets, plan>>
    BY <1>2 DEF LinkEvent
  <2>2. [app[b] EXCEPT !.sib = linked] \in AppType
    BY DEF AppType
  <2> QED
    BY <2>1, <2>2, AppSet
<1>3. CASE \E b \in Buds : LinkEvent(b)
  BY <1>2, <1>3 DEF KeysRight
<1>4. CASE PowerOffTogether
  <2>1. /\ End(Buds, "leaving") /\ syncOff' = FALSE
        /\ UNCHANGED <<linked, resets, plan>>
    BY <1>4 DEF PowerOffTogether, Leave
  <2> QED
    BY <2>1, EndTyped
<1>5. CASE PhoneLeaves
  <2>1. /\ app' = [b \in Buds |-> Closing(app[b])]
        /\ UNCHANGED <<key, box, linked, syncOff, resets, plan>>
    BY <1>5 DEF PhoneLeaves
  <2>2. app' \in [Buds -> AppType]
    BY <2>1, ResetTyped
  <2> QED
    BY <2>1, <2>2 DEF KeysRight
<1>6. CASE LinkLost
  <2>1. PICK b \in Buds : app' = [app EXCEPT ![b] = Closing(app[b])]
    BY <1>6 DEF LinkLost
  <2>2. app' \in [Buds -> AppType]
    BY <2>1, ResetTyped, AppSet
  <2>3. box' \in [Buds -> BoxType]
    BY <1>6 DEF LinkLost, BoxType, Sources
  <2> QED
    BY <1>6, <2>2, <2>3 DEF LinkLost, KeysRight
<1>7. CASE LinkForms
  BY <1>7 DEF LinkForms, KeysRight
<1> QED
  BY <1>3, <1>4, <1>5, <1>6, <1>7

\* One step of TouchKey preserves the invariant.
LEMMA TInvStep == TInv /\ [Next]_vars => TInv'
<1> SUFFICES ASSUME TInv, [Next]_vars PROVE TInv'
  OBVIOUS
<1>1. ASSUME NEW b \in Buds, Touches(b) PROVE TInv'
  BY <1>1, TouchStep
<1>2. ASSUME NEW b \in Buds, NEW s \in Sources, HandleKey(b, s) PROVE TInv'
  BY <1>2, HandleStep
<1>3. ASSUME NEW b \in Buds, ResetTimer(b) \/ PhoneStatus(b) \/ PhoneHci(b) PROVE TInv'
  BY <1>3, ResetStep
<1>4. ASSUME NEW b \in Buds, PollReboot(b) \/ PollHall(b) PROVE TInv'
  BY <1>4, PollStep
<1>5. CASE (\E b \in Buds : LinkEvent(b)) \/ PowerOffTogether \/ PhoneLeaves
           \/ LinkLost \/ LinkForms
  BY <1>5, LinkStep
<1>6. CASE UNCHANGED vars
  BY <1>6 DEF vars, TInv, KeyRight, BoxType, AppType, KeyType, Events
<1> QED
  BY <1>1, <1>2, <1>3, <1>4, <1>5, <1>6 DEF Next

\* Types: a click timer runs exactly while clicks are counted and the last key
\* was short, and no wrap of goto_poweroff_cnt nor its decrement for a hold of
\* the sibling leaves the range of a u8, for all counts, polls and plans.
THEOREM TypeCorrect == Spec => []TypeOK
<1>1. TInv => TypeOK
  BY DEF TInv, TypeOK, KeyRight, BoxType
<1> QED
  BY <1>1, TInvInit, TInvStep, PTL DEF Spec
=============================================================================
