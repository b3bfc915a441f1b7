------------------------- MODULE PowerManage_proofs -------------------------
(***************************************************************************)
(* Theorems of PowerManage: a device running off the charger is supervised *)
(* whenever it has handled its events, unless charge_full_flag is set, and *)
(* the statics of vbat_check keep to their ranges.                         *)
(*                                                                         *)
(* What stops the supervision is the handling of a full charge, which sets *)
(* the flag, also when it comes behind the unplug; what clears the flag is *)
(* the handling of a plug event, and what brings the supervision back the  *)
(* handling of an unplug.  The invariant therefore looks into the queue:   *)
(* behind every IN there is an OFF, as long as the charger is gone, so     *)
(* that a device whose flag an IN has cleared has its OFF still to come.   *)
(***************************************************************************)
EXTENDS PowerManage, TLAPS

AllEvents == PowerEvents \cup ChargeEvents

\* An OFF is to come behind place i.
OffBehind(s, i) == \E j \in 1..Len(s) : j > i /\ s[j] = "OFF"

Covered(s, up) == \A i \in 1..Len(s) : s[i] = "IN" => up \/ OffBehind(s, i)

SInv ==
    /\ q \in Seq(AllEvents) /\ online \in BOOLEAN
    /\ Covered(q, online)
    /\ app \in {"bt", "idle"} /\ ~slow => full \/ online \/ OffBehind(q, 0)
    /\ app = "off" => /\ q = <<>> /\ ~slow /\ ~fast /\ ~warning /\ ~delayed
                      /\ ~armed /\ ~full

-----------------------------------------------------------------------------
(* Queues: what an event behind or the loss of the head leaves covered *)

\* An event behind a queue leaves it covered, if an IN comes with the charger there.
LEMMA Appended ==
    ASSUME NEW s \in Seq(AllEvents), NEW e \in AllEvents, NEW up \in BOOLEAN,
           Covered(s, up), e = "IN" => up
    PROVE  /\ Append(s, e) \in Seq(AllEvents)
           /\ Covered(Append(s, e), up)
           /\ OffBehind(s, 0) => OffBehind(Append(s, e), 0)
BY DEF Covered, OffBehind

\* The charger may go when an OFF is put behind everything, and come at any time.
LEMMA PlugAppended ==
    ASSUME NEW s \in Seq(AllEvents), NEW up \in BOOLEAN, Covered(s, up)
    PROVE  /\ Append(s, "OFF") \in Seq(AllEvents)
           /\ Covered(Append(s, "OFF"), FALSE)
           /\ OffBehind(Append(s, "OFF"), 0)
           /\ Append(s, "IN") \in Seq(AllEvents)
           /\ Covered(Append(s, "IN"), TRUE)
BY DEF Covered, OffBehind, AllEvents, ChargeEvents

\* What the head leaves: an IN taken off the charger has an OFF behind it.
LEMMA Taken ==
    ASSUME NEW s \in Seq(AllEvents), s # <<>>, NEW up \in BOOLEAN, Covered(s, up)
    PROVE  /\ Tail(s) \in Seq(AllEvents)
           /\ Covered(Tail(s), up)
           /\ Head(s) # "OFF" /\ OffBehind(s, 0) => OffBehind(Tail(s), 0)
           /\ Head(s) = "IN" => up \/ OffBehind(Tail(s), 0)
<1>1. /\ Tail(s) \in Seq(AllEvents) /\ Len(Tail(s)) = Len(s) - 1
      /\ \A i \in 1..(Len(s) - 1) : Tail(s)[i] = s[i + 1]
      /\ Head(s) = s[1] /\ Len(s) \in Nat \ {0}
  OBVIOUS
<1>2. ASSUME NEW i \in 0..(Len(s) - 1), OffBehind(s, i + 1)
      PROVE OffBehind(Tail(s), i)
  <2>1. PICK j \in 1..Len(s) : j > i + 1 /\ s[j] = "OFF"
    BY <1>2 DEF OffBehind
  <2>2. j - 1 \in 1..(Len(s) - 1) /\ j - 1 > i /\ Tail(s)[j - 1] = "OFF"
    BY <1>1, <2>1
  <2> QED
    BY <1>1, <2>2 DEF OffBehind
<1>3. Covered(Tail(s), up)
  BY <1>1, <1>2 DEF Covered
<1>4. Head(s) # "OFF" /\ OffBehind(s, 0) => OffBehind(s, 1)
  BY <1>1 DEF OffBehind
<1>5. Head(s) = "IN" => up \/ OffBehind(s, 1)
  BY <1>1 DEF Covered
<1> QED
  BY <1>1, <1>2, <1>3, <1>4, <1>5

\* A window posts at most one power event, and a change of level behind it.
LEMMA WindowPosts ==
    ASSUME NEW m
    PROVE /\ Window(m).es = <<>> \/ \E e \in PowerEvents : Window(m).es = <<e>>
          /\ Report(m).es = <<>> \/ \E e \in PowerEvents : Report(m).es = <<e>>
BY DEF Window, LowWindow, WarnWindow, NormalWindow, Report, PowerEvents

\* Power events, put behind a queue by a window, leave it covered.
LEMMA Posted ==
    ASSUME NEW s \in Seq(AllEvents), NEW up \in BOOLEAN, Covered(s, up), NEW es,
           es = <<>> \/ \E e \in PowerEvents : es = <<e>>
    PROVE  /\ s \o es \in Seq(AllEvents)
           /\ Covered(s \o es, up)
           /\ OffBehind(s, 0) => OffBehind(s \o es, 0)
<1>1. CASE es = <<>>
  <2>1. s \o es = s
    BY <1>1
  <2> QED
    BY <2>1
<1>2. ASSUME NEW e \in PowerEvents, es = <<e>>
      PROVE /\ s \o es \in Seq(AllEvents)
            /\ Covered(s \o es, up)
            /\ OffBehind(s, 0) => OffBehind(s \o es, 0)
  <2>1. s \o es = Append(s, e)
    BY <1>2
  <2>2. e \in AllEvents /\ e # "IN"
    BY DEF AllEvents, PowerEvents
  <2> QED
    BY <2>1, <2>2, Appended
<1> QED
  BY <1>1, <1>2

-----------------------------------------------------------------------------
(* Each step keeps the invariant *)

\* A device that is off has nothing queued.
LEMMA SInvInit == Init => SInv
BY DEF Init, SInv, Covered, AllEvents

\* One step of PowerManage preserves the invariant.
LEMMA SInvStep == SInv /\ [Next]_vars => SInv'
<1> SUFFICES ASSUME SInv, [Next]_vars PROVE SInv'
  OBVIOUS
<1> USE DEF SInv, Handling, On, env, device, timers
<1>1. CASE VbatSample
  BY <1>1 DEF VbatSample
<1>2. CASE VbatWindow
  <2> DEFINE w == Window(Sampled(mon))
             z == [w.m EXCEPT !.unit = 0, !.lowOff = 0, !.lowWarn = 0]
  <2>1. q' = q \o w.es \/ q' = q \o w.es \o Report(z).es
    BY <1>2 DEF VbatWindow
  <2>2. app # "off" /\ UNCHANGED <<online, app, slow, full>>
    BY <1>2 DEF VbatWindow
  <2>3. /\ q' \in Seq(AllEvents)
        /\ Covered(q', online)
        /\ OffBehind(q, 0) => OffBehind(q', 0)
    <3> HIDE DEF w, z
    <3>1. /\ w.es = <<>> \/ \E e \in PowerEvents : w.es = <<e>>
          /\ Report(z).es = <<>> \/ \E e \in PowerEvents : Report(z).es = <<e>>
      BY WindowPosts DEF w
    <3>2. /\ q \o w.es \in Seq(AllEvents) /\ Covered(q \o w.es, online)
          /\ OffBehind(q, 0) => OffBehind(q \o w.es, 0)
      BY <3>1, Posted
    <3>3. /\ q \o w.es \o Report(z).es \in Seq(AllEvents)
          /\ Covered(q \o w.es \o Report(z).es, online)
          /\ OffBehind(q \o w.es, 0) => OffBehind(q \o w.es \o Report(z).es, 0)
      BY <3>1, <3>2, Posted
    <3> QED
      BY <2>1, <3>2, <3>3
  <2> QED
    BY <2>2, <2>3
<1>3. CASE VbatCheckSlow
  BY <1>3 DEF VbatCheckSlow
<1>4. CASE WarnTimer
  BY <1>4, Appended DEF WarnTimer, AllEvents, PowerEvents
<1>5. CASE Handle
  <2>1. ASSUME q # <<>>
        PROVE  /\ Tail(q) \in Seq(AllEvents)
               /\ Covered(Tail(q), online)
               /\ Head(q) # "OFF" /\ OffBehind(q, 0) => OffBehind(Tail(q), 0)
               /\ Head(q) = "IN" => online \/ OffBehind(Tail(q), 0)
    BY <2>1, Taken
  <2>2. ASSUME q # <<>>
        PROVE  /\ Append(Tail(q), "CHANGE") \in Seq(AllEvents)
               /\ Covered(Append(Tail(q), "CHANGE"), online)
               /\ OffBehind(Tail(q), 0) => OffBehind(Append(Tail(q), "CHANGE"), 0)
    BY <2>1, <2>2, Appended DEF AllEvents, PowerEvents
  <2>3. CASE Normal
    BY <2>1, <2>3 DEF Normal
  <2>4. CASE Warning
    BY <2>1, <2>4 DEF Warning
  <2>5. CASE Low
    BY <2>1, <2>5 DEF Low, VbatTimerDelete, Leaves
  <2>6. CASE Change
    BY <2>1, <2>6 DEF Change
  <2>7. CASE Charge
    BY <2>1, <2>7 DEF Charge
  <2>8. CASE Ldo5vIn
    BY <2>1, <2>2, <2>8 DEF Ldo5vIn, Leaves
  <2>9. CASE Ldo5vOff
    BY <2>2, <2>9 DEF Ldo5vOff, VbatCheckInit
  <2>10. CASE Ldo5vOffDead
    BY <2>10 DEF Ldo5vOffDead, SoftPoweroff, VbatTimerDelete, Covered
  <2>11. CASE ChargeFullDeal
    BY <2>1, <2>11 DEF ChargeFullDeal, VbatTimerDelete
  <2> QED
    BY <1>5, <2>3, <2>4, <2>5, <2>6, <2>7, <2>8, <2>9, <2>10, <2>11 DEF Handle
<1>6. CASE ResetDelay
  BY <1>6 DEF ResetDelay, Leaves
<1>7. CASE PowerDown
  BY <1>7 DEF PowerDown, SoftPoweroff, VbatTimerDelete, Covered
<1>8. CASE Boot
  <2>1. slow' = TRUE /\ app' # "off" /\ online' = online
    BY <1>8 DEF Boot, VbatCheckInit
  <2>2. CASE q' = <<"IN">>
    <3>1. online /\ q' \in Seq(AllEvents)
      BY <1>8, <2>2 DEF Boot, AllEvents, ChargeEvents
    <3>2. Covered(q', online)
      BY <3>1 DEF Covered
    <3> QED
      BY <2>1, <3>1, <3>2
  <2>3. CASE q' = <<>>
    <3>1. q' \in Seq(AllEvents) /\ Covered(q', online)
      BY <2>3 DEF Covered
    <3> QED
      BY <2>1, <3>1
  <2> QED
    BY <1>8, <2>2, <2>3 DEF Boot
<1>9. CASE PowerKey
  BY <1>9 DEF PowerKey, Leaves
<1>10. CASE FullStop
  BY <1>10 DEF FullStop, SoftPoweroff, VbatTimerDelete, Covered
<1>11. CASE BatteryChanges
  BY <1>11 DEF BatteryChanges
<1>12. CASE Plug
  <2>1. CASE app = "off"
    BY <1>12, <2>1 DEF Plug, Covered
  <2>2. CASE app # "off"
    <3>1. CASE online
      <4>1. online' = FALSE /\ q' = Append(q, "OFF") /\ UNCHANGED <<app, slow>>
        BY <1>12, <2>2, <3>1 DEF Plug
      <4> QED
        BY <2>2, <4>1, PlugAppended
    <3>2. CASE ~online
      <4>1. online' = TRUE /\ q' = Append(q, "IN") /\ UNCHANGED <<app, slow>>
        BY <1>12, <2>2, <3>2 DEF Plug
      <4> QED
        BY <2>2, <4>1, PlugAppended
    <3> QED
      BY <3>1, <3>2
  <2> QED
    BY <2>1, <2>2
<1>13. CASE ChargeFull
  BY <1>13, Appended DEF ChargeFull, AllEvents, ChargeEvents
<1>14. CASE UNCHANGED vars
  BY <1>14 DEF vars
<1> QED
  BY <1>1, <1>2, <1>3, <1>4, <1>5, <1>6, <1>7, <1>8, <1>9, <1>10, <1>11, <1>12,
     <1>13, <1>14 DEF Next

\* A device that runs off the charger is supervised once it has handled its
\* events, or has charge_full_flag set and switches off when it next sleeps,
\* whatever the order in which plug, unplug and full charge are reported, a
\* full charge behind the unplug included: for all limits, lengths of the window and of the queue.
THEOREM SupervisedHolds == Spec => []Supervised
<1>1. SInv => Supervised
  BY DEF SInv, Supervised, OffBehind
<1> QED
  BY <1>1, SInvInit, SInvStep, PTL DEF Spec

-----------------------------------------------------------------------------
(* The types: what each step of vbat_check makes of its statics *)

\* Within a window no more samples are low than were taken, so that a counter
\* leaves its range no sooner than the window ends.
WindowOpen(m) == m.unit < DetectCnt /\ m.lowOff <= m.unit /\ m.lowWarn <= m.unit

TInv == TypeOK /\ WindowOpen(mon)

\* battery_value_to_phone_level gives one of the three levels.
LEMMA Levels == \A b : Level(b) \in 0..2
BY DEF Level

\* The statics of vbat_check as the program is loaded.
LEMMA FreshIsTyped == Fresh \in MonType /\ WindowOpen(Fresh)
<1>1. 0 \in 0..DetectCnt /\ 0 \in 0..LowLimit /\ 0 \in 0..WarnAgain
      /\ 0 \in 0..(NormalLimit + 1) /\ 0 \in 0..2 /\ 0 < DetectCnt
  BY CountsAssumption
<1> QED
  BY <1>1, Levels DEF Fresh, MonType, WindowOpen

\* A window begins with its counters at 0.
LEMMA WindowReset ==
    ASSUME NEW m \in MonType
    PROVE  /\ [m EXCEPT !.unit = 0, !.lowOff = 0, !.lowWarn = 0] \in MonType
           /\ WindowOpen([m EXCEPT !.unit = 0, !.lowOff = 0, !.lowWarn = 0])
<1>1. 0 \in 0..DetectCnt /\ 0 < DetectCnt
  BY CountsAssumption
<1> DEFINE z == [m EXCEPT !.unit = 0, !.lowOff = 0, !.lowWarn = 0]
<1>2. z \in MonType /\ z.unit = 0 /\ z.lowOff = 0 /\ z.lowWarn = 0
  BY <1>1 DEF MonType
<1> HIDE DEF z
<1>3. WindowOpen(z)
  BY <1>1, <1>2 DEF WindowOpen
<1> QED
  BY <1>2, <1>3 DEF z

\* A sample counts by one, in as many of the counters as its class says.
LEMMA SampledIsTyped ==
    ASSUME NEW m \in MonType, WindowOpen(m)
    PROVE  /\ Sampled(m) \in MonType /\ Sampled(m).unit = m.unit + 1
           /\ Sampled(m).lowOff <= m.unit + 1 /\ Sampled(m).lowWarn <= m.unit + 1
<1> DEFINE o == IF batt = "low" THEN m.lowOff + 1 ELSE m.lowOff
           w == IF batt \in {"warn", "low"} THEN m.lowWarn + 1 ELSE m.lowWarn
           c == Level(batt)
           u == m.unit + 1
<1>1. m.unit \in 0..DetectCnt /\ m.lowOff \in 0..DetectCnt /\ m.lowWarn \in 0..DetectCnt
  BY DEF MonType
<1>2. /\ u \in 0..DetectCnt /\ o \in 0..DetectCnt /\ w \in 0..DetectCnt
      /\ o <= u /\ w <= u
  BY <1>1, CountsAssumption DEF WindowOpen
<1>3. c \in 0..2
  BY Levels
<1>4. Sampled(m) = [m EXCEPT !.unit = u, !.cur = c, !.lowOff = o, !.lowWarn = w]
  BY DEF Sampled, MonType
<1> HIDE DEF u, o, w, c
<1>5. /\ Sampled(m) \in MonType /\ Sampled(m).unit = u
      /\ Sampled(m).lowOff = o /\ Sampled(m).lowWarn = w
  BY <1>2, <1>3, <1>4 DEF MonType
<1> QED
  BY <1>2, <1>5 DEF u

\* What a window decides, in the three fields and the state it may set.
LEMMA DecisionSet ==
    ASSUME NEW m \in MonType, NEW p \in 0..LowLimit, NEW v \in 0..WarnAgain,
           NEW n \in 0..(NormalLimit + 1), NEW f \in BOOLEAN,
           NEW s \in {"normal", "warn", "low"}
    PROVE  [m EXCEPT !.lowPower = p, !.lowVoice = v, !.normal = n, !.first = f,
                     !.st = s] \in MonType
BY DEF MonType

\* A window of a low battery: low_power_cnt stays within its limit.
LEMMA LowWindowIsTyped == ASSUME NEW m \in MonType PROVE LowWindow(m).m \in MonType
<1> DEFINE n == IF m.lowPower + 1 > LowLimit THEN 0 ELSE m.lowPower + 1
           z == [m EXCEPT !.lowPower = n, !.lowVoice = 0, !.normal = 0,
                          !.first = m.first, !.st = "low"]
<1>1. m.lowPower \in 0..LowLimit /\ m.first \in BOOLEAN
  BY DEF MonType
<1>2. n \in 0..LowLimit /\ 0 \in 0..WarnAgain /\ 0 \in 0..(NormalLimit + 1)
  BY <1>1, CountsAssumption
<1>3. LowWindow(m).m = z
  BY DEF LowWindow, MonType
<1> HIDE DEF n
<1>4. z \in MonType
  BY <1>1, <1>2, DecisionSet
<1> QED
  BY <1>3, <1>4

\* A warning window: low_voice_cnt starts again when it reaches either limit.
LEMMA WarnWindowIsTyped == ASSUME NEW m \in MonType PROVE WarnWindow(m).m \in MonType
<1> DEFINE k   == m.lowVoice + 1
           due == IF m.first THEN k > WarnFirst ELSE k >= WarnAgain
           n   == IF due THEN 0 ELSE k
           f   == m.first /\ ~due
           z   == [m EXCEPT !.lowPower = 0, !.lowVoice = n, !.normal = 0,
                            !.first = f, !.st = "warn"]
<1>1. m.lowVoice \in 0..WarnAgain /\ m.first \in BOOLEAN
  BY DEF MonType
<1>2. n \in 0..WarnAgain
  <2>1. k \in Nat /\ (due \/ k <= WarnAgain)
    <3>1. CASE m.first
      BY <1>1, <3>1, CountsAssumption
    <3>2. CASE ~m.first
      BY <1>1, <3>2, CountsAssumption
    <3> QED
      BY <3>1, <3>2
  <2> HIDE DEF due
  <2>2. CASE due
    BY <2>2, CountsAssumption
  <2>3. CASE ~due
    BY <2>1, <2>3, CountsAssumption
  <2> QED
    BY <2>2, <2>3
<1>3. 0 \in 0..LowLimit /\ 0 \in 0..(NormalLimit + 1)
  BY CountsAssumption
<1>4. WarnWindow(m).m = z
  BY DEF WarnWindow, MonType
<1>5. f \in BOOLEAN
  OBVIOUS
<1> HIDE DEF n, f
<1>6. z \in MonType
  BY <1>2, <1>3, <1>5, DecisionSet
<1> QED
  BY <1>4, <1>6

\* A normal window: power_normal_cnt stops one above its limit.
LEMMA NormalWindowIsTyped == ASSUME NEW m \in MonType PROVE NormalWindow(m).m \in MonType
<1> DEFINE n == IF m.normal > NormalLimit THEN m.normal ELSE m.normal + 1
           s == IF n > NormalLimit /\ m.st # "normal" THEN "normal" ELSE m.st
           z == [m EXCEPT !.lowPower = 0, !.lowVoice = 0, !.normal = n,
                          !.first = m.first, !.st = s]
<1>1. /\ m.normal \in 0..(NormalLimit + 1) /\ m.first \in BOOLEAN
      /\ m.st \in {"normal", "warn", "low"}
  BY DEF MonType
<1>2. n \in 0..(NormalLimit + 1) /\ 0 \in 0..LowLimit /\ 0 \in 0..WarnAgain
  BY <1>1, CountsAssumption
<1>3. s \in {"normal", "warn", "low"}
  BY <1>1
<1>4. NormalWindow(m).m = z
  BY DEF NormalWindow, MonType
<1> HIDE DEF n, s
<1>5. z \in MonType
  BY <1>1, <1>2, <1>3, DecisionSet
<1> QED
  BY <1>4, <1>5

\* Whatever a window decides.
LEMMA WindowIsTyped == ASSUME NEW m \in MonType PROVE Window(m).m \in MonType
BY LowWindowIsTyped, WarnWindowIsTyped, NormalWindowIsTyped DEF Window

\* The comparison of level and plug touches no counter.
LEMMA ReportIsTyped ==
    ASSUME NEW m \in MonType, online \in BOOLEAN
    PROVE  Report(m).m \in MonType /\ (WindowOpen(m) => WindowOpen(Report(m).m))
BY DEF Report, MonType, WindowOpen

\* What a window posts fits behind a queue that is not full.
LEMMA WindowFits ==
    ASSUME NEW s \in Seq(AllEvents), Len(s) < MaxQueue, NEW m1, NEW m2
    PROVE  /\ Len(s \o Window(m1).es) <= MaxQueue + 1
           /\ Len(s \o Window(m1).es \o Report(m2).es) <= MaxQueue + 1
<1> DEFINE a == Window(m1).es
           b == Report(m2).es
<1>1. a \in Seq(AllEvents) /\ Len(a) <= 1
  <2>1. CASE a = <<>>
    BY <2>1
  <2>2. ASSUME NEW e \in PowerEvents, a = <<e>> PROVE a \in Seq(AllEvents) /\ Len(a) <= 1
    BY <2>2 DEF AllEvents
  <2> QED
    BY <2>1, <2>2, WindowPosts
<1>2. b \in Seq(AllEvents) /\ Len(b) <= 1
  <2>1. CASE b = <<>>
    BY <2>1
  <2>2. ASSUME NEW e \in PowerEvents, b = <<e>> PROVE b \in Seq(AllEvents) /\ Len(b) <= 1
    BY <2>2 DEF AllEvents
  <2> QED
    BY <2>1, <2>2, WindowPosts
<1> HIDE DEF a, b
<1>3. /\ Len(s \o a) = Len(s) + Len(a) /\ s \o a \in Seq(AllEvents)
      /\ Len(s) \in Nat /\ Len(a) \in Nat /\ Len(b) \in Nat
  BY <1>1, <1>2
<1>4. Len(s \o a \o b) = Len(s \o a) + Len(b)
  BY <1>2, <1>3
<1> DEFINE n == Len(s)
           i == Len(a)
           j == Len(b)
<1>5. n \in Nat /\ i \in Nat /\ j \in Nat /\ n < MaxQueue /\ i <= 1 /\ j <= 1
  BY <1>1, <1>2, <1>3
<1>6. Len(s \o a) = n + i /\ Len(s \o a \o b) = (n + i) + j
  BY <1>3, <1>4
<1> HIDE DEF n, i, j
<1>7. n + i <= MaxQueue + 1 /\ (n + i) + j <= MaxQueue + 1
  BY <1>5, CountsAssumption
<1> QED
  BY <1>6, <1>7 DEF a, b

\* The types hold at first.
LEMMA TInvInit == Init => TInv
<1> SUFFICES ASSUME Init PROVE TInv
  OBVIOUS
<1>1. q \in Seq(PowerEvents \cup ChargeEvents) /\ Len(q) <= MaxQueue + 1
  BY CountsAssumption DEF Init
<1> QED
  BY <1>1, FreshIsTyped DEF Init, TInv, TypeOK

\* One step of PowerManage keeps the types.  SInv' says what the queue holds.
LEMMA TInvStep == TInv /\ SInv' /\ [Next]_vars => TInv'
<1> SUFFICES ASSUME TInv, SInv', [Next]_vars PROVE TInv'
  OBVIOUS
<1> USE DEF TInv, Handling, On, env, device, timers
<1>1. q' \in Seq(PowerEvents \cup ChargeEvents)
  BY DEF SInv, AllEvents
<1>2. SUFFICES /\ batt' \in Batteries /\ online' \in BOOLEAN
               /\ app' \in {"off", "bt", "idle", "leaving"}
               /\ delayed' \in BOOLEAN /\ armed' \in BOOLEAN /\ full' \in BOOLEAN
               /\ slow' \in BOOLEAN /\ fast' \in BOOLEAN /\ warning' \in BOOLEAN
               /\ mon' \in MonType /\ WindowOpen(mon')
               /\ Len(q') <= MaxQueue + 1
  BY <1>1 DEF TypeOK, WindowOpen
<1> USE DEF TypeOK
<1>3. Len(q) <= MaxQueue + 1 /\ Len(q) \in Nat /\ MaxQueue \in Nat \ {0}
  BY CountsAssumption
<1>4. Len(<<>>) <= MaxQueue + 1
  BY <1>3
<1>5. CloseCharge => armed' \in BOOLEAN
  BY DEF CloseCharge
<1>6. SoftPoweroff => /\ UNCHANGED <<batt, online>> /\ app' = "off"
                      /\ delayed' \in BOOLEAN /\ armed' \in BOOLEAN /\ full' \in BOOLEAN
                      /\ slow' \in BOOLEAN /\ fast' \in BOOLEAN /\ warning' \in BOOLEAN
                      /\ mon' \in MonType /\ WindowOpen(mon')
                      /\ Len(q') <= MaxQueue + 1
  BY <1>4, FreshIsTyped DEF SoftPoweroff, VbatTimerDelete
<1>7. CASE VbatSample
  <2>1. mon' = Sampled(mon) /\ mon.unit + 1 < DetectCnt
    BY <1>7 DEF VbatSample
  <2>2. /\ Sampled(mon) \in MonType /\ Sampled(mon).unit = mon.unit + 1
        /\ Sampled(mon).lowOff <= mon.unit + 1 /\ Sampled(mon).lowWarn <= mon.unit + 1
    BY SampledIsTyped
  <2>3. mon' \in MonType /\ WindowOpen(mon')
    BY <2>1, <2>2 DEF WindowOpen
  <2> QED
    BY <1>7, <2>3 DEF VbatSample
<1>8. CASE VbatWindow
  <2> DEFINE w == Window(Sampled(mon))
             z == [w.m EXCEPT !.unit = 0, !.lowOff = 0, !.lowWarn = 0]
  <2>1. /\ mon' = z \/ mon' = Report(z).m
        /\ q' = q \o w.es \/ q' = q \o w.es \o Report(z).es
        /\ fast' \in BOOLEAN /\ Len(q) < MaxQueue
        /\ UNCHANGED <<batt, online, app, delayed, armed, full, slow, warning>>
    BY <1>8 DEF VbatWindow
  <2>2. w.m \in MonType
    BY SampledIsTyped, WindowIsTyped
  <2>3. z \in MonType /\ WindowOpen(z)
    <3> HIDE DEF w
    <3> QED
      BY <2>2, WindowReset
  <2>4. Len(q \o w.es) <= MaxQueue + 1 /\ Len(q \o w.es \o Report(z).es) <= MaxQueue + 1
    BY <2>1, WindowFits DEF AllEvents
  <2> HIDE DEF w, z
  <2>5. mon' \in MonType /\ WindowOpen(mon')
    BY <2>1, <2>3, ReportIsTyped
  <2> QED
    BY <2>1, <2>4, <2>5
<1>9. CASE VbatCheckSlow
  BY <1>3, <1>9 DEF VbatCheckSlow, WindowOpen
<1>10. CASE WarnTimer
  <2>1. Len(q') <= MaxQueue + 1
    BY <1>3, <1>10 DEF WarnTimer
  <2> QED
    BY <1>10, <2>1 DEF WarnTimer
<1>11. CASE Handle
  <2>1. Handle => q # <<>>
    BY DEF Handle, Normal, Warning, Low, Change, Charge, Ldo5vIn, Ldo5vOff,
           Ldo5vOffDead, ChargeFullDeal
  <2>2. Len(Tail(q)) <= MaxQueue + 1 /\ Len(Append(Tail(q), "CHANGE")) <= MaxQueue + 1
    BY <1>3, <1>11, <2>1
  <2>3. CASE Normal
    BY <2>2, <2>3 DEF Normal
  <2>4. CASE Warning
    BY <2>2, <2>4 DEF Warning
  <2>5. CASE Low
    BY <2>2, <2>5 DEF Low, VbatTimerDelete, Leaves
  <2>6. CASE Change
    BY <2>2, <2>6 DEF Change
  <2>7. CASE Charge
    BY <2>2, <2>7 DEF Charge
  <2>8. CASE Ldo5vIn
    BY <2>2, <2>8 DEF Ldo5vIn, Leaves
  <2>9. CASE Ldo5vOff
    BY <1>5, <2>2, <2>9 DEF Ldo5vOff, VbatCheckInit
  <2>10. CASE Ldo5vOffDead
    BY <1>6, <2>10 DEF Ldo5vOffDead
  <2>11. CASE ChargeFullDeal
    BY <1>5, <2>2, <2>11 DEF ChargeFullDeal, VbatTimerDelete
  <2> QED
    BY <1>11, <2>3, <2>4, <2>5, <2>6, <2>7, <2>8, <2>9, <2>10, <2>11 DEF Handle
<1>12. CASE ResetDelay
  BY <1>3, <1>12 DEF ResetDelay, Leaves
<1>13. CASE PowerDown
  BY <1>6, <1>13 DEF PowerDown
<1>14. CASE Boot
  <2>1. q' = <<"IN">> \/ q' = <<>>
    BY <1>14 DEF Boot
  <2>2. Len(<<"IN">>) = 1 /\ 1 <= MaxQueue + 1
    BY CountsAssumption
  <2>3. Len(q') <= MaxQueue + 1
    <3>1. CASE q' = <<"IN">>
      BY <2>2, <3>1
    <3>2. CASE q' = <<>>
      BY <1>4, <3>2
    <3> QED
      BY <2>1, <3>1, <3>2
  <2> QED
    BY <1>14, <2>3 DEF Boot, VbatCheckInit
<1>15. CASE PowerKey
  BY <1>3, <1>15 DEF PowerKey, Leaves
<1>16. CASE FullStop
  BY <1>6, <1>16 DEF FullStop
<1>17. CASE BatteryChanges
  BY <1>3, <1>17 DEF BatteryChanges
<1>18. CASE Plug
  <2>1. Len(q') <= MaxQueue + 1
    BY <1>3, <1>18 DEF Plug
  <2> QED
    BY <1>18, <2>1 DEF Plug
<1>19. CASE ChargeFull
  <2>1. Len(q') <= MaxQueue + 1
    BY <1>3, <1>19 DEF ChargeFull
  <2> QED
    BY <1>19, <2>1 DEF ChargeFull
<1>20. CASE UNCHANGED vars
  BY <1>3, <1>20 DEF vars
<1> QED
  BY <1>7, <1>8, <1>9, <1>10, <1>11, <1>12, <1>13, <1>14, <1>15, <1>16, <1>17,
     <1>18, <1>19, <1>20 DEF Next

\* The statics of vbat_check keep to their ranges, and the queue to its bound,
\* for all limits, lengths of the window and of the queue: no counter of a
\* window passes VBAT_DETECT_CNT, and none of the limits is overrun.
THEOREM TypeCorrect == Spec => []TypeOK
<1>1. TInv => TypeOK
  BY DEF TInv
<1> QED
  BY <1>1, TInvInit, TInvStep, SInvInit, SInvStep, PTL DEF Spec
=============================================================================
