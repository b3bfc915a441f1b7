-------------------------- MODULE AppCharge_proofs --------------------------
(***************************************************************************)
(* Theorems of AppCharge: types and limits, the supply's mode follows the  *)
(* charger, and the charger follows the plug.                              *)
(*                                                                         *)
(* The last two relate what calls change to what events change, so their   *)
(* invariants look into the queue: the last event of a kind that waits     *)
(* tells the truth, and where none waits the state it is about does.       *)
(***************************************************************************)
EXTENDS AppCharge, TLAPS

ModeEvents == {"CHARGE_START", "CHARGE_CLOSE"}

\* No event of E waits in s; if one does, the last of them is e.
NoneOf(s, E)    == \A i \in 1..Len(s) : s[i] \notin E
LastIs(s, E, e) == \A i \in 1..Len(s) :
    s[i] \in E /\ (\A j \in (i + 1)..Len(s) : s[j] \notin E) => s[i] = e

-----------------------------------------------------------------------------
(* Queues: what one more event, or the handling of the first, leaves *)

\* An event put behind the others is the last one of its kind, and of no
\* other kind.
LEMMA Appended ==
    ASSUME NEW s \in Seq(Events), NEW e \in Events, NEW E
    PROVE  /\ Append(s, e) \in Seq(Events) /\ Len(Append(s, e)) = Len(s) + 1
           /\ e \in E => LastIs(Append(s, e), E, e) /\ ~NoneOf(Append(s, e), E)
           /\ e \notin E =>
                 /\ NoneOf(Append(s, e), E) <=> NoneOf(s, E)
                 /\ \A x : LastIs(s, E, x) => LastIs(Append(s, e), E, x)
<1> DEFINE t == Append(s, e)
           n == Len(s)
<1>1. /\ t \in Seq(Events) /\ n \in Nat /\ Len(t) = n + 1 /\ t[n + 1] = e
      /\ \A i \in 1..n : t[i] = s[i]
  OBVIOUS
<1> HIDE DEF t
<1>2. e \in E => LastIs(t, E, e) /\ ~NoneOf(t, E)
  BY <1>1 DEF LastIs, NoneOf
<1>3. e \notin E => (NoneOf(t, E) <=> NoneOf(s, E))
  BY <1>1 DEF NoneOf
<1>4. ASSUME e \notin E, NEW x, LastIs(s, E, x) PROVE LastIs(t, E, x)
  <2> SUFFICES ASSUME NEW i \in 1..(n + 1), t[i] \in E,
                      \A j \in (i + 1)..(n + 1) : t[j] \notin E
               PROVE  t[i] = x
    BY <1>1 DEF LastIs
  <2>1. i \in 1..n
    BY <1>1, <1>4
  <2>2. \A j \in (i + 1)..n : s[j] \notin E
    BY <1>1, <2>1
  <2> QED
    BY <1>1, <1>4, <2>1, <2>2 DEF LastIs
<1> QED
  BY <1>1, <1>2, <1>3, <1>4 DEF t

\* Without its first event the queue tells the same, unless that was the last
\* of its kind.
LEMMA Taken ==
    ASSUME NEW s \in Seq(Events), s # <<>>, NEW E
    PROVE  /\ Tail(s) \in Seq(Events) /\ Len(Tail(s)) = Len(s) - 1 /\ Head(s) \in Events
           /\ NoneOf(s, E) => NoneOf(Tail(s), E)
           /\ Head(s) \notin E => (NoneOf(Tail(s), E) <=> NoneOf(s, E))
           /\ \A x : LastIs(s, E, x) =>
                 /\ LastIs(Tail(s), E, x)
                 /\ NoneOf(Tail(s), E) /\ Head(s) \in E => Head(s) = x
<1> DEFINE t == Tail(s)
           n == Len(s)
<1>1. /\ t \in Seq(Events) /\ n \in Nat \ {0} /\ Len(t) = n - 1 /\ Head(s) = s[1]
      /\ \A i \in 1..(n - 1) : t[i] = s[i + 1]
      /\ \A i \in 2..n : i - 1 \in 1..(n - 1) /\ s[i] = t[i - 1]
  OBVIOUS
<1> HIDE DEF t
<1>2. /\ NoneOf(s, E) => NoneOf(t, E)
      /\ Head(s) \notin E => (NoneOf(t, E) <=> NoneOf(s, E))
  <2>1. NoneOf(s, E) => NoneOf(t, E)
    BY <1>1 DEF NoneOf
  <2>2. Head(s) \notin E /\ NoneOf(t, E) => NoneOf(s, E)
    BY <1>1 DEF NoneOf
  <2> QED
    BY <2>1, <2>2
<1>3. ASSUME NEW x, LastIs(s, E, x) PROVE LastIs(t, E, x)
  <2> SUFFICES ASSUME NEW i \in 1..(n - 1), t[i] \in E,
                      \A j \in (i + 1)..(n - 1) : t[j] \notin E
               PROVE  t[i] = x
    BY <1>1 DEF LastIs
  <2>1. i + 1 \in 1..n /\ s[i + 1] = t[i]
    BY <1>1
  <2>2. \A j \in (i + 2)..n : s[j] \notin E
    BY <1>1
  <2> QED
    BY <1>3, <2>1, <2>2 DEF LastIs
<1>4. ASSUME NEW x, LastIs(s, E, x), NoneOf(t, E), Head(s) \in E
      PROVE  Head(s) = x
  <2>1. \A j \in 2..n : s[j] \notin E
    BY <1>1, <1>4 DEF NoneOf
  <2> QED
    BY <1>1, <1>4, <2>1 DEF LastIs
<1> QED
  BY <1>1, <1>2, <1>3, <1>4 DEF t

-----------------------------------------------------------------------------
(* The plug detection, as the application sees it *)

\* The three events of the plug are the verdicts' own.
LEMMA VerdictEvent ==
    ASSUME NEW l \in Ldo!Levels
    PROVE  Ldo!EventOf(l) \in PlugEvents /\ Ldo!EventOf(l) # "none"
BY DEF Ldo!EventOf, Ldo!Levels, PlugEvents, Ldo!Events

\* A tick counts a sample, or decides: then the flags are those of the level
\* read, and an event is posted if that is a change.
LEMMA Ticked ==
    ASSUME PlugTick, level \in Ldo!Levels, cnt \in [Ldo!Levels -> 0..1]
    PROVE  /\ power = "on" /\ ldoTimer
           /\ UNCHANGED <<power, pin, chg, app, step, off, full, timer, box, pwrMode>>
           /\ cnt' \in [Ldo!Levels -> 0..1] /\ Len(q') <= MaxQueue
           /\ \/ /\ UNCHANGED <<online, chargeFlag, ldoTimer, q>>
                 /\ posted' = "none"
              \/ /\ chargeFlag' = level /\ online' = (level # "off") /\ ldoTimer' = FALSE
                 /\ \/ posted' = "none" /\ chargeFlag = level /\ q' = q
                    \/ posted' = Ldo!EventOf(level) /\ q' = Append(q, Ldo!EventOf(level))
<1> USE DEF PlugTick, Ldo!hw, pin
<1>1. /\ power = "on" /\ ldoTimer
      /\ UNCHANGED <<power, chg, app, step, off, full, timer, box, pwrMode>>
  BY DEF Ldo!CountSample, Ldo!Verdict
<1>2. CASE Ldo!CountSample
  <2>1. cnt' \in [Ldo!Levels -> 0..1]
    BY <1>2 DEF Ldo!CountSample, Ldo!Filter, Ldo!Levels
  <2> QED
    BY <1>1, <1>2, <2>1 DEF Ldo!CountSample
<1>3. CASE Ldo!Verdict
  <2>1. cnt' \in [Ldo!Levels -> 0..1]
    BY <1>3 DEF Ldo!Verdict, Ldo!ZeroCnt
  <2>2. Ldo!EventOf(level) # "none"
    BY VerdictEvent
  <2> QED
    BY <1>1, <1>3, <2>1, <2>2 DEF Ldo!Verdict
<1> QED
  BY <1>2, <1>3

-----------------------------------------------------------------------------
(* Types *)

\* What the limits allow at the start, and when a wait begins.
LEMMA Limits ==
    /\ 0 \in 0..MaxWait /\ 0 \in 0..MaxDelay /\ MaxDelay \in 0..MaxDelay
    /\ <<>> \in Seq(Events) /\ Len(<<>>) <= MaxQueue
    /\ Ldo!ZeroCnt \in [Ldo!Levels -> 0..1]
BY BoundAssumption DEF Ldo!ZeroCnt

\* A device that resets or goes off keeps nothing but the pin.
LEMMA ClearedType ==
    ASSUME TypeOK, power' \in {"boot", "off"}, full' \in BOOLEAN, RamCleared, UNCHANGED pin
    PROVE  TypeOK'
BY Limits DEF TypeOK, RamCleared, pin, Powers

LEMMA ResetType == TypeOK /\ CpuReset => TypeOK'
BY ClearedType DEF CpuReset

LEMMA SoftOffType == ASSUME TypeOK, NEW f \in BOOLEAN, SoftOff(f) PROVE TypeOK'
BY ClearedType DEF SoftOff

LEMMA IdleSoftoffType == TypeOK /\ IdleSoftoff => TypeOK'
BY ResetType, SoftOffType DEF IdleSoftoff, TypeOK

\* Handling an event frees its place for one of the handler's own.
LEMMA QueueType ==
    ASSUME TypeOK, q # <<>>
    PROVE  /\ Tail(q) \in Seq(Events) /\ Len(Tail(q)) <= MaxQueue
           /\ \A e \in Events : /\ Append(Tail(q), e) \in Seq(Events)
                                /\ Len(Append(Tail(q), e)) <= MaxQueue
<1>1. q \in Seq(Events) /\ Len(q) <= MaxQueue /\ MaxQueue \in Nat
  BY BoundAssumption DEF TypeOK
<1>2. Tail(q) \in Seq(Events) /\ Len(Tail(q)) = Len(q) - 1 /\ Len(q) \in Nat
  BY <1>1
<1>3. ASSUME NEW e \in Events
      PROVE  Append(Tail(q), e) \in Seq(Events) /\ Len(Append(Tail(q), e)) = Len(q)
  BY <1>2
<1> QED
  BY <1>1, <1>2, <1>3

\* What a handler's calls change of the charger and the queue.
LEMMA HandledType ==
    ASSUME TypeOK, q # <<>>, ChargeClose \/ ChargeStart \/ (Consume /\ UNCHANGED chg)
    PROVE  /\ chgOn' \in BOOLEAN /\ armed' \in BOOLEAN
           /\ posted' \in Events \cup {"none"}
           /\ q' \in Seq(Events) /\ Len(q') <= MaxQueue
<1>1. chgOn \in BOOLEAN /\ armed \in BOOLEAN
  BY DEF TypeOK
<1>2. "CHARGE_START" \in Events /\ "CHARGE_CLOSE" \in Events
  BY DEF Events
<1> QED
  BY <1>1, <1>2, QueueType DEF ChargeClose, ChargeStart, Consume, chg

\* What a power off that begins, or one that goes on, leaves.
LEMMA LeavingType ==
    ASSUME TypeOK, NEW priv \in {"to_idle", "to_reset", "nothing", "together"},
           EnterSoftPoweroff(priv) \/ UNCHANGED <<goOff, exitTimer, exitCnt>>
    PROVE  /\ goOff' \in BOOLEAN /\ exitCnt' \in 0..MaxWait
           /\ exitTimer' \in {"none", "to_idle", "to_reset", "nothing", "together"}
BY Limits DEF TypeOK, EnterSoftPoweroff

LEMMA TypeStep == TypeOK /\ [Next]_vars => TypeOK'
<1> SUFFICES ASSUME TypeOK, [Next]_vars PROVE TypeOK'
  OBVIOUS
<1> USE DEF pin, plug, chg, off, timer, box
<1>1. CASE Environment
  <2>1. ASSUME NEW l \in Ldo!Levels, SetLevel(l) PROVE TypeOK'
    BY <2>1 DEF SetLevel, Ldo!SetLevel, Ldo!drv, TypeOK
  <2>2. ASSUME NEW cmd \in {"normal", "dut", "storage"}, BoxCommand(cmd) PROVE TypeOK'
    BY <2>2 DEF BoxCommand, TypeOK
  <2>3. CASE KeyWakeup
    <3>1. power' \in Powers /\ full' \in BOOLEAN /\ posted' \in Events \cup {"none"}
      BY <2>3 DEF KeyWakeup, Powers
    <3>2. UNCHANGED <<pin, plug, chg, q, app, step, off, timer, box, pwrMode>>
      BY <2>3 DEF KeyWakeup
    <3> QED
      BY <3>1, <3>2 DEF TypeOK
  <2>4. ASSUME NEW priv \in {"to_idle", "together"}, UserPoweroff(priv) PROVE TypeOK'
    BY <2>4, BoundAssumption DEF UserPoweroff, EnterSoftPoweroff, TypeOK
  <2> QED
    BY <1>1, <2>1, <2>2, <2>3, <2>4 DEF Environment
<1>2. CASE Interrupt
  <2>1. CASE LdoinWakeup
    BY <2>1 DEF LdoinWakeup, TypeOK, Powers
  <2>2. CASE PlugTick
    <3>1. /\ UNCHANGED <<power, pin, chg, app, step, off, full, timer, box, pwrMode>>
          /\ cnt' \in [Ldo!Levels -> 0..1] /\ Len(q') <= MaxQueue
          /\ online' \in BOOLEAN /\ ldoTimer' \in BOOLEAN
          /\ chargeFlag' \in Ldo!Levels \cup {"none"}
      BY <2>2, Ticked DEF TypeOK
    <3>2. posted' \in Events \cup {"none"} /\ q' \in Seq(Events)
      <4>1. Ldo!EventOf(level) \in Events
        BY VerdictEvent DEF TypeOK, Events
      <4>2. q \in Seq(Events) /\ Append(q, Ldo!EventOf(level)) \in Seq(Events)
        BY <4>1 DEF TypeOK
      <4> QED
        BY <2>2, <4>1, <4>2, Ticked DEF TypeOK
    <3> QED
      BY <3>1, <3>2 DEF TypeOK
  <2>3. CASE ChargeFull
    <3>1. q' \in Seq(Events) /\ Len(q') <= MaxQueue
      BY <2>3, BoundAssumption DEF ChargeFull, TypeOK, Events
    <3> QED
      BY <2>3, <3>1 DEF ChargeFull, TypeOK, Events
  <2> QED
    BY <1>2, <2>1, <2>2, <2>3 DEF Interrupt
<1>3. CASE Boot
  <2>1. ASSUME NEW on \in BOOLEAN, ChargeInit(on) PROVE TypeOK'
    BY <2>1 DEF ChargeInit, Ldo!ChargeInit, Ldo!hw, TypeOK, Powers, Ldo!Levels
  <2>2. CASE AppMain
    BY <2>2 DEF AppMain, TypeOK
  <2>5. CASE BoardInit
    BY <2>5 DEF BoardInit, TypeOK
  <2>3. CASE PowerOnVoltage
    BY <2>3 DEF PowerOnVoltage, TypeOK
  <2>4. CASE PowerOnLow
    BY <2>4, SoftOffType DEF PowerOnLow
  <2> QED
    BY <1>3, <2>1, <2>2, <2>3, <2>4, <2>5 DEF Boot
<1>4. CASE PowerDown
  <2>1. CASE WaitAudio
    <3>1. CASE CpuReset
      BY <3>1, ResetType
    <3>2. CASE exitCnt < MaxWait /\ exitCnt' = exitCnt + 1 /\ posted' = "none"
               /\ UNCHANGED <<power, pin, plug, chg, q, app, step, goOff, exitTimer,
                              tone, full, timer, box, pwrMode>>
      BY <3>2, BoundAssumption DEF TypeOK
    <3> QED
      BY <2>1, <3>1, <3>2 DEF WaitAudio
  <2>2. ASSUME SwitchToIdle PROVE TypeOK'
    <3>1. q' \in Seq(Events) /\ Len(q') <= MaxQueue
      BY <2>2, Limits DEF SwitchToIdle, TypeOK
    <3> QED
      BY <2>2, <3>1 DEF SwitchToIdle, TypeOK
  <2>3. CASE WaitExitBtstack
    BY <2>2, <2>3, ResetType, IdleSoftoffType DEF WaitExitBtstack
  <2>4. CASE PowerOffAtSameTime
    BY <2>2, <2>4, IdleSoftoffType DEF PowerOffAtSameTime
  <2>5. CASE ToneEnd
    BY <2>5, IdleSoftoffType DEF ToneEnd
  <2>6. CASE FullStop
    BY <2>6, SoftOffType DEF FullStop
  <2> QED
    BY <1>4, <2>1, <2>3, <2>4, <2>5, <2>6 DEF PowerDown
<1>5. CASE ChargeEvent
  <2>1. ASSUME Handling("CHARGE_START") \/ Handling("CHARGE_CLOSE") \/ Handling("CHARGE_FULL")
                 \/ Handling("LDO5V_IN") \/ Handling("LDO5V_KEEP") \/ Handling("LDO5V_OFF"),
               ChargeClose \/ ChargeStart \/ (Consume /\ UNCHANGED chg),
               power' \in Powers, full' \in BOOLEAN, keepTimer' \in BOOLEAN,
               resetTimer' \in BOOLEAN, testbox' \in BOOLEAN, delay' \in 0..MaxDelay,
               app' \in {"none", "idle", "bt"}, pwrMode' \in {"ldo15", "sel"},
               goOff' \in BOOLEAN, exitCnt' \in 0..MaxWait,
               exitTimer' \in {"none", "to_idle", "to_reset", "nothing", "together"},
               UNCHANGED <<pin, plug, step, tone, mode>>
        PROVE  TypeOK'
    <3>1. /\ chgOn' \in BOOLEAN /\ armed' \in BOOLEAN
          /\ posted' \in Events \cup {"none"}
          /\ q' \in Seq(Events) /\ Len(q') <= MaxQueue
      BY <2>1, HandledType DEF Handling
    <3> QED
      BY <2>1, <3>1 DEF TypeOK
  <2>2. /\ power \in Powers /\ full \in BOOLEAN /\ keepTimer \in BOOLEAN
        /\ resetTimer \in BOOLEAN /\ testbox \in BOOLEAN /\ delay \in 0..MaxDelay
        /\ app \in {"none", "idle", "bt"} /\ pwrMode \in {"ldo15", "sel"}
        /\ goOff \in BOOLEAN /\ exitCnt \in 0..MaxWait
        /\ exitTimer \in {"none", "to_idle", "to_reset", "nothing", "together"}
    BY DEF TypeOK
  <2>3. CASE ChargeStartDeal
    BY <2>1, <2>2, <2>3 DEF ChargeStartDeal
  <2>4. CASE ChargeCloseDeal
    BY <2>1, <2>2, <2>4 DEF ChargeCloseDeal
  <2>5. CASE ChargeFullDeal
    BY <2>1, <2>2, <2>5 DEF ChargeFullDeal
  <2>6. CASE ChargeLdo5vInDeal
    <3>1. CASE CpuReset
      BY <3>1, ResetType
    <3>2. CASE LdoInIdle /\ ~CpuReset
      BY <2>1, <2>2, <2>6, <3>2 DEF ChargeLdo5vInDeal, LdoInIdle
    <3>3. CASE LdoInBt
      <4>1. delay' \in 0..MaxDelay /\ resetTimer' \in BOOLEAN
        BY <2>2, <3>3, Limits DEF LdoInBt
      <4>2. /\ goOff' \in BOOLEAN /\ exitCnt' \in 0..MaxWait
            /\ exitTimer' \in {"none", "to_idle", "to_reset", "nothing", "together"}
        BY <3>3, LeavingType DEF LdoInBt
      <4>3. /\ full' = FALSE /\ keepTimer' = FALSE /\ testbox' = FALSE
            /\ Consume
            /\ UNCHANGED <<power, pin, plug, chg, app, step, tone, mode, pwrMode>>
        BY <3>3 DEF LdoInBt
      <4> QED
        BY <2>1, <2>2, <2>6, <4>1, <4>2, <4>3 DEF ChargeLdo5vInDeal
    <3> QED
      BY <2>6, <3>1, <3>2, <3>3 DEF ChargeLdo5vInDeal
  <2>7. CASE Ldo5vKeepDeal
    BY <2>1, <2>2, <2>7 DEF Ldo5vKeepDeal
  <2>8. CASE ChargeLdo5vOffDeal
    <3>1. CASE CpuReset
      BY <3>1, ResetType
    <3>2. CASE SoftOff(FALSE)
      BY <3>2, SoftOffType
    <3>3. ASSUME NEW leaving \in {FALSE, testbox}, OffRest(leaving),
                 ~CpuReset, ~SoftOff(FALSE)
          PROVE  TypeOK'
      <4>1. /\ goOff' \in BOOLEAN /\ exitCnt' \in 0..MaxWait
            /\ exitTimer' \in {"none", "to_idle", "to_reset", "nothing", "together"}
        BY <3>3, LeavingType DEF OffRest
      <4>2. /\ app' \in {app, "bt"}
            /\ full' = FALSE /\ testbox' = FALSE /\ keepTimer' = FALSE
            /\ ChargeClose
            /\ UNCHANGED <<power, pin, plug, step, tone, resetTimer, delay, mode, pwrMode>>
        BY <3>3 DEF OffRest
      <4> QED
        BY <2>1, <2>2, <2>8, <4>1, <4>2 DEF ChargeLdo5vOffDeal
    <3> QED
      BY <2>8, <3>1, <3>2, <3>3 DEF ChargeLdo5vOffDeal
  <2> QED
    BY <1>5, <2>3, <2>4, <2>5, <2>6, <2>7, <2>8 DEF ChargeEvent
<1>6. CASE ChargeTimer
  <2>1. ASSUME delay' \in 0..MaxDelay, resetTimer' \in BOOLEAN, keepTimer' \in BOOLEAN,
               step' \in {step, "keep"}, posted' = "none",
               goOff' \in BOOLEAN, exitCnt' \in 0..MaxWait,
               exitTimer' \in {"none", "to_idle", "to_reset", "nothing", "together"},
               UNCHANGED <<power, pin, plug, chg, q, app, tone, full, box, pwrMode>>
        PROVE  TypeOK'
    BY <2>1 DEF TypeOK
  <2>2. /\ delay \in 0..MaxDelay /\ resetTimer \in BOOLEAN /\ keepTimer \in BOOLEAN
        /\ goOff \in BOOLEAN /\ exitCnt \in 0..MaxWait
        /\ exitTimer \in {"none", "to_idle", "to_reset", "nothing", "together"}
    BY DEF TypeOK
  <2>3. CASE ResetDelay
    <3>1. delay' \in 0..MaxDelay /\ resetTimer' \in BOOLEAN
      <4>1. \/ delay > 1 /\ delay' = delay - 1
            \/ delay' = IF delay > 0 THEN delay - 1 ELSE 0
        BY <2>3, Zenon DEF ResetDelay
      <4>2. delay \in 0..MaxDelay /\ MaxDelay \in Nat
        BY BoundAssumption DEF TypeOK
      <4>3. delay' \in 0..MaxDelay
        BY <4>1, <4>2
      <4>4. resetTimer' \in BOOLEAN
        BY <2>2, <2>3, Zenon DEF ResetDelay
      <4> QED
        BY <4>3, <4>4
    <3>2. /\ goOff' \in BOOLEAN /\ exitCnt' \in 0..MaxWait
          /\ exitTimer' \in {"none", "to_idle", "to_reset", "nothing", "together"}
      BY <2>3, LeavingType DEF ResetDelay
    <3> QED
      BY <2>1, <2>2, <2>3, <3>1, <3>2 DEF ResetDelay
  <2>4. CASE KeepDelay
    <3>1. /\ goOff' \in BOOLEAN /\ exitCnt' \in 0..MaxWait
          /\ exitTimer' \in {"none", "to_idle", "to_reset", "nothing", "together"}
      BY <2>4, LeavingType DEF KeepDelay
    <3> QED
      BY <2>1, <2>2, <2>4, <3>1 DEF KeepDelay
  <2>5. CASE KeepEnd
    BY <2>5, ResetType, SoftOffType DEF KeepEnd, TypeOK
  <2> QED
    BY <1>6, <2>3, <2>4, <2>5 DEF ChargeTimer
<1>7. CASE UNCHANGED vars
  BY <1>7 DEF vars, TypeOK
<1> QED
  BY <1>1, <1>2, <1>3, <1>4, <1>5, <1>6, <1>7 DEF Next

\* The types and the limits of the queue and of the two waiting timers, which
\* several callbacks share, hold for every size of the queue and every delay.
THEOREM TypeCorrect == Spec => []TypeOK
<1>1. Init => TypeOK
  BY Limits DEF Init, TypeOK, Powers
<1> QED
  BY <1>1, TypeStep, PTL DEF Spec

-----------------------------------------------------------------------------
(* The charger and the plug *)

\* Every change of status is posted, so the last plug event that waits is of the
\* status the driver holds, and a status is decided by the time detection
\* rests.  With no such event waiting, the charger is on for the status "in"
\* alone, and an idle device charges for it until it is full.
PlugInv ==
    /\ power # "on" => chargeFlag = "none" /\ ~chgOn /\ q = <<>> /\ app = "none"
    /\ power = "on" /\ ~ldoTimer /\ edgeLevel = level => chargeFlag = level
    /\ chargeFlag = "none" => NoneOf(q, PlugEvents)
    /\ \A l \in Ldo!Levels : chargeFlag = l => LastIs(q, PlugEvents, Ldo!EventOf(l))
    /\ step \in {"board", "main", "vbat"} => app = "none"
    /\ app = "none" /\ chargeFlag = "in" => ~NoneOf(q, PlugEvents)
    /\ exitTimer # "none" => goOff
    /\ ~goOff /\ NoneOf(q, PlugEvents) =>
          /\ chgOn => chargeFlag = "in"
          /\ app = "idle" /\ chargeFlag = "in" => chgOn \/ full

\* One step of AppCharge preserves it.
LEMMA PlugStep == TypeOK /\ PlugInv /\ [Next]_vars => PlugInv'
<1> SUFFICES ASSUME TypeOK, PlugInv, [Next]_vars PROVE PlugInv'
  OBVIOUS
<1> USE DEF pin, plug, chg, off, timer, box
<1>1. ASSUME RamCleared, power' # "on" PROVE PlugInv'
  BY <1>1 DEF RamCleared, PlugInv, LastIs, NoneOf, Ldo!Levels
<1>2. ASSUME UNCHANGED <<power, pin, plug, q, chgOn, app>>, full => full',
             goOff' \/ UNCHANGED <<goOff, exitTimer>>, step' \in {step, "keep"}
      PROVE  PlugInv'
  BY <1>2 DEF PlugInv
<1>3. /\ Ldo!EventOf("in") = "LDO5V_IN" /\ Ldo!EventOf("keep") = "LDO5V_KEEP"
      /\ Ldo!EventOf("off") = "LDO5V_OFF"
      /\ PlugEvents = {"LDO5V_IN", "LDO5V_KEEP", "LDO5V_OFF"}
  BY DEF Ldo!EventOf, PlugEvents, Ldo!Events
\* A handler takes an event of another kind, or one of the plug.
<1>4. ASSUME power = "on", app # "none", q # <<>>, q' = Tail(q) \/ \E e \in ModeEvents : q' = Append(Tail(q), e),
             UNCHANGED <<power, pin, plug, step>>, app' \in {app, "bt"},
             goOff' \/ UNCHANGED <<goOff, exitTimer>>,
             Head(q) \notin PlugEvents =>
                (chgOn' => chgOn) /\ (full' \/ (chgOn' = chgOn /\ (full => full'))),
             Head(q) = "LDO5V_IN" /\ app' = "idle" => chgOn',
             Head(q) = "LDO5V_KEEP" => ~chgOn',
             Head(q) = "LDO5V_OFF" => ~chgOn'
      PROVE  PlugInv'
  <2>1. /\ q \in Seq(Events) /\ Tail(q) \in Seq(Events)
        /\ NoneOf(q', PlugEvents) <=> NoneOf(Tail(q), PlugEvents)
        /\ \A x : LastIs(Tail(q), PlugEvents, x) => LastIs(q', PlugEvents, x)
    <3>1. q \in Seq(Events) /\ Tail(q) \in Seq(Events)
      BY <1>4, Taken DEF TypeOK
    <3>2. ASSUME NEW e \in ModeEvents, q' = Append(Tail(q), e)
          PROVE  /\ NoneOf(q', PlugEvents) <=> NoneOf(Tail(q), PlugEvents)
                 /\ \A x : LastIs(Tail(q), PlugEvents, x) => LastIs(q', PlugEvents, x)
      <4>1. e \in Events /\ e \notin PlugEvents
        BY <1>3 DEF Events, ModeEvents
      <4> QED
        BY <3>1, <3>2, <4>1, Appended
    <3> QED
      BY <1>4, <3>1, <3>2
  <2>2. /\ NoneOf(q, PlugEvents) => NoneOf(q', PlugEvents)
        /\ \A x : LastIs(q, PlugEvents, x) => LastIs(q', PlugEvents, x)
    BY <1>4, <2>1, Taken
  <2>3. Head(q) \notin PlugEvents /\ NoneOf(q', PlugEvents) => NoneOf(q, PlugEvents)
    BY <1>4, <2>1, Taken
  <2>4. ASSUME Head(q) \in PlugEvents, NoneOf(q', PlugEvents)
        PROVE  chargeFlag \in Ldo!Levels /\ Head(q) = Ldo!EventOf(chargeFlag)
    <3>1. ~NoneOf(q, PlugEvents)
      <4>1. Head(q) = q[1] /\ 1 \in 1..Len(q)
        BY <1>4, <2>1
      <4> QED
        BY <2>4, <4>1 DEF NoneOf
    <3>2. chargeFlag \in Ldo!Levels
      BY <3>1 DEF PlugInv, TypeOK
    <3>3. LastIs(q, PlugEvents, Ldo!EventOf(chargeFlag))
      BY <3>2 DEF PlugInv
    <3> QED
      BY <1>4, <2>1, <2>4, <3>2, <3>3, Taken
  <2>5. ASSUME ~goOff', NoneOf(q', PlugEvents)
        PROVE  /\ chgOn' => chargeFlag = "in"
               /\ app' = "idle" /\ chargeFlag = "in" => chgOn' \/ full'
    <3>1. CASE Head(q) \in PlugEvents
      BY <1>3, <1>4, <2>4, <2>5, <3>1 DEF Ldo!Levels
    <3>2. CASE Head(q) \notin PlugEvents
      BY <1>4, <2>3, <2>5, <3>2 DEF PlugInv
    <3> QED
      BY <3>1, <3>2
  <2> QED
    BY <1>4, <2>2, <2>5 DEF PlugInv
<1>5. CASE Environment
  <2>1. ASSUME NEW l \in Ldo!Levels, SetLevel(l) PROVE PlugInv'
    BY <2>1 DEF SetLevel, Ldo!SetLevel, Ldo!drv, PlugInv
  <2>2. ASSUME NEW cmd, BoxCommand(cmd) PROVE PlugInv'
    BY <1>2, <2>2 DEF BoxCommand
  <2>3. CASE KeyWakeup
    BY <2>3 DEF KeyWakeup, PlugInv
  <2>4. ASSUME NEW priv, UserPoweroff(priv) PROVE PlugInv'
    BY <1>2, <2>4 DEF UserPoweroff, EnterSoftPoweroff
  <2> QED
    BY <1>5, <2>1, <2>2, <2>3, <2>4 DEF Environment
<1>6. CASE Interrupt
  <2>1. CASE LdoinWakeup
    BY <2>1 DEF LdoinWakeup, PlugInv
  <2>2. CASE PlugTick
    <3>1. /\ power = "on" /\ ldoTimer /\ level \in Ldo!Levels /\ q \in Seq(Events)
          /\ UNCHANGED <<power, pin, chg, app, step, off, full>>
      BY <2>2, Ticked DEF TypeOK
    <3>2. CASE UNCHANGED <<chargeFlag, ldoTimer, q>>
      BY <3>1, <3>2 DEF PlugInv
    <3>3. CASE chargeFlag' = level /\ chargeFlag = level /\ q' = q
      BY <3>1, <3>3 DEF PlugInv
    <3>4. CASE chargeFlag' = level /\ q' = Append(q, Ldo!EventOf(level))
      <4>1. /\ LastIs(q', PlugEvents, Ldo!EventOf(level))
            /\ ~NoneOf(q', PlugEvents)
        BY <3>1, <3>4, Appended, VerdictEvent DEF Events
      <4> QED
        BY <3>1, <3>4, <4>1 DEF PlugInv, Ldo!Levels
    <3> QED
      BY <2>2, <3>2, <3>3, <3>4, Ticked DEF TypeOK
  <2>3. CASE ChargeFull
    <3>1. /\ NoneOf(q', PlugEvents) <=> NoneOf(q, PlugEvents)
          /\ \A x : LastIs(q, PlugEvents, x) => LastIs(q', PlugEvents, x)
      <4>1. q \in Seq(Events) /\ "CHARGE_FULL" \in Events /\ "CHARGE_FULL" \notin PlugEvents
        BY <1>3 DEF TypeOK, Events
      <4>2. q' = Append(q, "CHARGE_FULL")
        BY <2>3 DEF ChargeFull
      <4> QED
        BY <4>1, <4>2, Appended
    <3> QED
      BY <2>3, <3>1 DEF ChargeFull, PlugInv
  <2> QED
    BY <1>6, <2>1, <2>2, <2>3 DEF Interrupt
<1>7. CASE Boot
  <2>1. ASSUME NEW on \in BOOLEAN, ChargeInit(on) PROVE PlugInv'
    <3>1. NoneOf(<<>>, PlugEvents) /\ \A x : LastIs(<<>>, PlugEvents, x)
      BY DEF NoneOf, LastIs
    <3> QED
      BY <2>1, <3>1 DEF ChargeInit, Ldo!ChargeInit, Ldo!hw, PlugInv, Ldo!Levels, TypeOK
  <2>2. CASE AppMain
    BY <2>2 DEF AppMain, PlugInv
  <2>5. CASE BoardInit
    BY <2>5 DEF BoardInit, PlugInv
  <2>3. CASE PowerOnVoltage
    BY <2>3 DEF PowerOnVoltage, PlugInv
  <2>4. CASE PowerOnLow
    BY <1>1, <2>4 DEF PowerOnLow, SoftOff
  <2> QED
    BY <1>7, <2>1, <2>2, <2>3, <2>4, <2>5 DEF Boot
<1>8. CASE PowerDown
  <2>1. ASSUME SwitchToIdle, exitTimer # "none", Ready PROVE PlugInv'
    <3>1. NoneOf(<<>>, PlugEvents) /\ \A x : LastIs(<<>>, PlugEvents, x)
      BY DEF NoneOf, LastIs
    <3> QED
      BY <2>1, <3>1 DEF SwitchToIdle, Ready, PlugInv
  <2>2. ASSUME IdleSoftoff PROVE RamCleared /\ power' # "on"
    BY <2>2 DEF IdleSoftoff, CpuReset, SoftOff
  <2>3. CASE WaitAudio
    BY <1>1, <1>2, <2>3 DEF WaitAudio, CpuReset
  <2>4. CASE WaitExitBtstack
    BY <1>1, <2>1, <2>2, <2>4 DEF WaitExitBtstack, CpuReset
  <2>5. CASE PowerOffAtSameTime
    BY <1>1, <2>1, <2>2, <2>5 DEF PowerOffAtSameTime
  <2>6. CASE ToneEnd
    BY <1>1, <2>2, <2>6 DEF ToneEnd
  <2>7. CASE FullStop
    BY <1>1, <2>7 DEF FullStop, SoftOff
  <2> QED
    BY <1>8, <2>3, <2>4, <2>5, <2>6, <2>7 DEF PowerDown
<1>9. CASE ChargeEvent
  <2> USE <1>3 DEF Handling, Ready, ModeEvents
  <2>1. CASE ChargeStartDeal
    BY <1>4, <2>1 DEF ChargeStartDeal, Consume
  <2>2. CASE ChargeCloseDeal
    BY <1>4, <2>2 DEF ChargeCloseDeal, Consume
  <2>3. CASE ChargeFullDeal
    BY <1>4, <2>3 DEF ChargeFullDeal, ChargeClose
  <2>4. CASE ChargeLdo5vInDeal
    <3>1. CASE LdoInIdle
      BY <1>1, <1>4, <2>4, <3>1 DEF ChargeLdo5vInDeal, LdoInIdle, ChargeStart, CpuReset
    <3>2. CASE LdoInBt
      BY <1>4, <2>4, <3>2 DEF ChargeLdo5vInDeal, LdoInBt, Consume, EnterSoftPoweroff
    <3> QED
      BY <2>4, <3>1, <3>2 DEF ChargeLdo5vInDeal
  <2>5. CASE Ldo5vKeepDeal
    BY <1>4, <2>5 DEF Ldo5vKeepDeal, ChargeClose
  <2>6. CASE ChargeLdo5vOffDeal
    <3>1. ASSUME NEW leaving \in {FALSE, testbox}, OffRest(leaving), ~SoftOff(FALSE)
          PROVE  PlugInv'
      <4>1. goOff' \/ UNCHANGED <<goOff, exitTimer>>
        BY <3>1 DEF OffRest, EnterSoftPoweroff
      <4> QED
        BY <1>4, <2>6, <3>1, <4>1 DEF ChargeLdo5vOffDeal, OffRest, ChargeClose
    <3>2. ASSUME CpuReset \/ SoftOff(FALSE) PROVE PlugInv'
      BY <1>1, <3>2 DEF CpuReset, SoftOff
    <3> QED
      BY <2>6, <3>1, <3>2 DEF ChargeLdo5vOffDeal
  <2> QED
    BY <1>9, <2>1, <2>2, <2>3, <2>4, <2>5, <2>6 DEF ChargeEvent
<1>10. CASE ChargeTimer
  <2>1. CASE KeepEnd
    BY <1>1, <2>1 DEF KeepEnd, CpuReset, SoftOff
  <2>2. CASE ResetDelay
    BY <1>2, <2>2 DEF ResetDelay, EnterSoftPoweroff
  <2>3. CASE KeepDelay
    BY <1>2, <2>3 DEF KeepDelay, EnterSoftPoweroff
  <2> QED
    BY <1>10, <2>1, <2>2, <2>3 DEF ChargeTimer
<1>11. CASE UNCHANGED vars
  BY <1>11 DEF vars, PlugInv
<1> QED
  BY <1>5, <1>6, <1>7, <1>8, <1>9, <1>10, <1>11 DEF Next

\* The driver's status, the queue and the charger agree throughout.
THEOREM PlugAgrees == Spec => []PlugInv
<1>1. Init => PlugInv
  BY DEF Init, PlugInv, LastIs, NoneOf, Ldo!Levels
<1> QED
  BY <1>1, PlugStep, TypeCorrect, PTL DEF Spec

\* When detection rests and every verdict has been handled, the charger is never
\* on without a plug, and an idle device on the charger charges unless it is
\* full (app_charge_event_handler), unless the device is switching itself off.
THEOREM ChargeFollows == Spec => []ChargeFollowsPlug
<1>2. TypeOK /\ PlugInv => ChargeFollowsPlug
  <2> SUFFICES ASSUME TypeOK, PlugInv, PlugSettled, ~goOff
               PROVE  /\ chgOn => level = "in"
                      /\ app = "idle" /\ level = "in" => chgOn \/ full
    BY DEF ChargeFollowsPlug
  <2>1. NoneOf(q, PlugEvents)
    BY DEF TypeOK, NoneOf, PlugSettled
  <2>2. chargeFlag = level
    BY DEF PlugSettled, Ready, PlugInv
  <2> QED
    BY <2>1, <2>2 DEF PlugInv
<1> QED
  BY <1>2, PlugAgrees, TypeCorrect, PTL

-----------------------------------------------------------------------------
(* The supply's mode and the charger *)

\* The plug events whose handlers close the charger.
Closers == {"LDO5V_KEEP", "LDO5V_OFF"}

\* A device that has started on the charger has the mode of charging before it
\* charges: in the idle app until its first verdict is handled, in the other
\* one until the unplug that brought it there is.
StartedOnCharger ==
    \/ step = "main" /\ online
    \/ app = "idle" /\ (chargeFlag = "none" \/ ~NoneOf(q, PlugEvents))
    \/ ~NoneOf(q, Closers)

\* The mode is switched by an event, the charger by the call that posts it.
\* So the last such event that waits tells whether the charger is on, and the
\* mode does when none waits, but after a start on the charger.  Only a power
\* off flushes the queue.
ModeInv ==
    /\ exitTimer # "none" => goOff
    /\ chargeFlag # "none" => online = (chargeFlag # "off")
    /\ power # "on" => step = "board"
    /\ step = "board" => pwrMode = "sel"
    /\ app = "none" => ~chgOn
    /\ app = "none" /\ chargeFlag = "keep" => ~NoneOf(q, PlugEvents)
    /\ ~goOff =>
          /\ LastIs(q, ModeEvents, IF chgOn THEN "CHARGE_START" ELSE "CHARGE_CLOSE")
          /\ NoneOf(q, ModeEvents) =>
                /\ chgOn => pwrMode = "ldo15"
                /\ pwrMode = "ldo15" => chgOn \/ StartedOnCharger

\* One step of AppCharge preserves it.
LEMMA ModeStep == TypeOK /\ PlugInv /\ ModeInv /\ [Next]_vars => ModeInv'
<1> SUFFICES ASSUME TypeOK, PlugInv, ModeInv, [Next]_vars PROVE ModeInv'
  OBVIOUS
<1> USE DEF pin, plug, chg, off, timer, box
<1>1. ASSUME RamCleared PROVE ModeInv'
  BY <1>1 DEF RamCleared, ModeInv, LastIs, NoneOf
<1>2. ASSUME UNCHANGED <<q, chgOn, pwrMode, chargeFlag, online, app>>,
             goOff' \/ UNCHANGED <<goOff, exitTimer>>,
             UNCHANGED <<power, step>> \/ (step = "ready" /\ step' = "keep" /\ UNCHANGED power)
      PROVE  ModeInv'
  BY <1>2 DEF ModeInv, StartedOnCharger
<1>3. "LDO5V_KEEP" \in PlugEvents /\ "LDO5V_OFF" \in PlugEvents /\ PlugEvents \cap ModeEvents = {}
  BY DEF PlugEvents, Ldo!Events, ModeEvents
\* A handler that makes no call of the driver's.
<1>4. ASSUME q # <<>>, q' = Tail(q), app # "none", power = "on", chgOn' = chgOn,
             Head(q) \in ModeEvents => pwrMode' = IF Head(q) = "CHARGE_START" THEN "ldo15" ELSE "sel",
             Head(q) \notin ModeEvents => pwrMode' = pwrMode,
             Head(q) \notin Closers,
             Head(q) \in PlugEvents => app # "idle",
             goOff' \/ UNCHANGED <<goOff, exitTimer>>,
             UNCHANGED <<power, online, chargeFlag, app, step>>
      PROVE  ModeInv'
  <2>1. /\ step \notin {"board", "main"} /\ q \in Seq(Events)
    BY <1>4 DEF PlugInv, TypeOK
  <2>2. /\ NoneOf(q', Closers) => NoneOf(q, Closers)
        /\ app = "idle" /\ NoneOf(q', PlugEvents) => NoneOf(q, PlugEvents)
        /\ Head(q) \notin ModeEvents /\ NoneOf(q', ModeEvents) => NoneOf(q, ModeEvents)
    BY <1>4, <2>1, Taken
  <2>3. ASSUME ~goOff'
        PROVE  /\ LastIs(q', ModeEvents, IF chgOn THEN "CHARGE_START" ELSE "CHARGE_CLOSE")
               /\ Head(q) \in ModeEvents /\ NoneOf(q', ModeEvents)
                    => Head(q) = IF chgOn THEN "CHARGE_START" ELSE "CHARGE_CLOSE"
    <3> DEFINE e == IF chgOn THEN "CHARGE_START" ELSE "CHARGE_CLOSE"
    <3>1. LastIs(q, ModeEvents, e)
      BY <1>4, <2>3 DEF ModeInv
    <3> HIDE DEF e
    <3>2. LastIs(q', ModeEvents, e) /\ (Head(q) \in ModeEvents /\ NoneOf(q', ModeEvents) => Head(q) = e)
      BY <1>4, <2>1, <3>1, Taken
    <3> QED
      BY <3>2 DEF e
  <2>4. ASSUME ~goOff', NoneOf(q', ModeEvents)
        PROVE  /\ chgOn' => pwrMode' = "ldo15"
               /\ pwrMode' = "ldo15" => chgOn' \/ StartedOnCharger'
    <3>1. CASE Head(q) \in ModeEvents
      BY <1>4, <2>3, <2>4, <3>1
    <3>2. CASE Head(q) \notin ModeEvents
      BY <1>4, <2>1, <2>2, <2>4, <3>2 DEF ModeInv, StartedOnCharger
    <3> QED
      BY <3>1, <3>2
  <2> QED
    BY <1>4, <2>1, <2>3, <2>4 DEF ModeInv
\* One that calls charge_start or charge_close.
<1>5. ASSUME q # <<>>, NEW on \in BOOLEAN, chgOn' = on, app' # "none", power = "on",
             q' = Append(Tail(q), IF on THEN "CHARGE_START" ELSE "CHARGE_CLOSE"),
             goOff' \/ UNCHANGED <<goOff, exitTimer>>, app # "none",
             UNCHANGED <<power, online, chargeFlag, step>>
      PROVE  ModeInv'
  <2> DEFINE e == IF on THEN "CHARGE_START" ELSE "CHARGE_CLOSE"
  <2>1. Tail(q) \in Seq(Events) /\ e \in Events /\ e \in ModeEvents
    BY <1>5, Taken DEF TypeOK, Events, ModeEvents
  <2>2. LastIs(q', ModeEvents, e) /\ ~NoneOf(q', ModeEvents)
    BY <1>5, <2>1, Appended
  <2>3. step # "board"
    BY <1>5 DEF PlugInv
  <2> QED
    BY <1>5, <2>2, <2>3 DEF ModeInv
<1>6. CASE Environment
  <2>1. ASSUME NEW l \in Ldo!Levels, SetLevel(l) PROVE ModeInv'
    BY <1>2, <2>1 DEF SetLevel, Ldo!SetLevel, Ldo!drv
  <2>2. ASSUME NEW cmd, BoxCommand(cmd) PROVE ModeInv'
    BY <1>2, <2>2 DEF BoxCommand
  <2>3. CASE KeyWakeup
    BY <2>3 DEF KeyWakeup, ModeInv, StartedOnCharger
  <2>4. ASSUME NEW priv, UserPoweroff(priv) PROVE ModeInv'
    BY <1>2, <2>4 DEF UserPoweroff, EnterSoftPoweroff
  <2> QED
    BY <1>6, <2>1, <2>2, <2>3, <2>4 DEF Environment
<1>7. CASE Interrupt
  <2>1. CASE LdoinWakeup
    BY <2>1 DEF LdoinWakeup, ModeInv, StartedOnCharger
  <2>2. CASE PlugTick
    <3> DEFINE e == Ldo!EventOf(level)
    <3>1. /\ q \in Seq(Events) /\ e \in Events /\ e \in PlugEvents /\ e \notin ModeEvents
          /\ (level # "in" <=> e \in Closers)
          /\ level \in Ldo!Levels
      BY <1>3, VerdictEvent DEF TypeOK, Events, Ldo!EventOf, Ldo!Levels, Closers
    <3> HIDE DEF e
    <3>2. UNCHANGED <<power, chgOn, pwrMode, goOff, exitTimer, app, step>>
      BY <2>2 DEF PlugTick
    <3>3. CASE UNCHANGED <<online, chargeFlag, q>>
      BY <1>2, <3>2, <3>3
    <3>4. CASE chargeFlag' = level /\ chargeFlag = level /\ online' = (level # "off") /\ q' = q
      BY <3>1, <3>2, <3>4 DEF ModeInv, StartedOnCharger, Ldo!Levels
    <3>5. CASE chargeFlag' = level /\ online' = (level # "off") /\ q' = Append(q, e)
      <4>1. /\ NoneOf(q', ModeEvents) <=> NoneOf(q, ModeEvents)
            /\ \A x : LastIs(q, ModeEvents, x) => LastIs(q', ModeEvents, x)
            /\ ~NoneOf(q', PlugEvents)
            /\ level # "in" => ~NoneOf(q', Closers)
            /\ level = "in" => (NoneOf(q', Closers) <=> NoneOf(q, Closers))
        BY <3>1, <3>5, Appended
      <4> QED
        BY <3>1, <3>2, <3>5, <4>1 DEF ModeInv, StartedOnCharger
    <3> QED
      BY <2>2, <3>3, <3>4, <3>5, Ticked DEF TypeOK, e
  <2>3. CASE ChargeFull
    <3>1. /\ \A E \in {ModeEvents, PlugEvents, Closers} : NoneOf(q', E) <=> NoneOf(q, E)
          /\ \A x : LastIs(q, ModeEvents, x) => LastIs(q', ModeEvents, x)
      <4>1. q \in Seq(Events) /\ "CHARGE_FULL" \in Events
            /\ \A E \in {ModeEvents, PlugEvents, Closers} : "CHARGE_FULL" \notin E
        BY DEF TypeOK, Events, ModeEvents, PlugEvents, Ldo!Events, Closers
      <4>2. q' = Append(q, "CHARGE_FULL")
        BY <2>3 DEF ChargeFull
      <4> QED
        BY <4>1, <4>2, Appended
    <3> QED
      BY <2>3, <3>1 DEF ChargeFull, ModeInv, StartedOnCharger
  <2> QED
    BY <1>7, <2>1, <2>2, <2>3 DEF Interrupt
<1>8. CASE Boot
  <2>1. CASE PowerOnLow
    BY <1>1, <2>1 DEF PowerOnLow, SoftOff
  <2>2. ASSUME NEW on \in BOOLEAN, ChargeInit(on) PROVE ModeInv'
    BY <2>2 DEF ChargeInit, Ldo!ChargeInit, Ldo!hw, ModeInv, PlugInv
  <2>3. CASE BoardInit
    BY <2>3 DEF BoardInit, ModeInv, PlugInv, StartedOnCharger
  <2>4. CASE AppMain
    <3>1. chargeFlag \in {"none", "in", "keep", "off"}
      BY DEF TypeOK, Ldo!Levels
    <3> QED
      BY <2>4, <3>1 DEF AppMain, ModeInv, PlugInv, StartedOnCharger
  <2>5. CASE PowerOnVoltage
    BY <2>5 DEF PowerOnVoltage, ModeInv, PlugInv, StartedOnCharger
  <2> QED
    BY <1>8, <2>1, <2>2, <2>3, <2>4, <2>5 DEF Boot
<1>9. CASE PowerDown
  <2>1. ASSUME SwitchToIdle, exitTimer # "none", Ready PROVE ModeInv'
    BY <2>1 DEF SwitchToIdle, ModeInv, Ready
  <2>2. ASSUME IdleSoftoff PROVE RamCleared
    BY <2>2 DEF IdleSoftoff, CpuReset, SoftOff
  <2>3. CASE WaitAudio
    BY <1>1, <1>2, <2>3 DEF WaitAudio, CpuReset
  <2>4. CASE WaitExitBtstack
    BY <1>1, <2>1, <2>2, <2>4 DEF WaitExitBtstack, CpuReset
  <2>5. CASE PowerOffAtSameTime
    BY <1>1, <2>1, <2>2, <2>5 DEF PowerOffAtSameTime
  <2>6. CASE ToneEnd
    BY <1>1, <2>2, <2>6 DEF ToneEnd
  <2>7. CASE FullStop
    BY <1>1, <2>7 DEF FullStop, SoftOff
  <2> QED
    BY <1>9, <2>3, <2>4, <2>5, <2>6, <2>7 DEF PowerDown
<1>10. CASE ChargeEvent
  <2> USE <1>3 DEF Handling, Ready, ModeEvents, Closers
  <2>1. CASE ChargeStartDeal
    BY <1>4, <2>1 DEF ChargeStartDeal, Consume
  <2>2. CASE ChargeCloseDeal
    BY <1>4, <2>2 DEF ChargeCloseDeal, Consume
  <2>3. CASE ChargeFullDeal
    BY <1>5, <2>3 DEF ChargeFullDeal, ChargeClose
  <2>4. CASE ChargeLdo5vInDeal
    <3>1. CASE LdoInIdle
      BY <1>1, <1>5, <2>4, <3>1 DEF ChargeLdo5vInDeal, LdoInIdle, ChargeStart, CpuReset
    <3>2. CASE LdoInBt
      BY <1>4, <2>4, <3>2 DEF ChargeLdo5vInDeal, LdoInBt, Consume, EnterSoftPoweroff
    <3> QED
      BY <2>4, <3>1, <3>2 DEF ChargeLdo5vInDeal
  <2>5. CASE Ldo5vKeepDeal
    BY <1>5, <2>5 DEF Ldo5vKeepDeal, ChargeClose
  <2>6. CASE ChargeLdo5vOffDeal
    <3>1. ASSUME NEW leaving \in {FALSE, testbox}, OffRest(leaving), ~RamCleared
          PROVE  ModeInv'
      <4>1. goOff' \/ UNCHANGED <<goOff, exitTimer>>
        BY <3>1 DEF OffRest, EnterSoftPoweroff, SoftOff
      <4> QED
        BY <1>5, <2>6, <3>1, <4>1 DEF ChargeLdo5vOffDeal, OffRest, ChargeClose, SoftOff
    <3> QED
      BY <1>1, <2>6, <3>1 DEF ChargeLdo5vOffDeal, CpuReset
  <2> QED
    BY <1>10, <2>1, <2>2, <2>3, <2>4, <2>5, <2>6 DEF ChargeEvent
<1>11. CASE ChargeTimer
  <2>1. CASE KeepEnd
    BY <1>1, <2>1 DEF KeepEnd, CpuReset, SoftOff
  <2>2. CASE ResetDelay
    BY <1>2, <2>2 DEF ResetDelay, EnterSoftPoweroff
  <2>3. CASE KeepDelay
    BY <1>2, <2>3 DEF KeepDelay, Ready, EnterSoftPoweroff
  <2> QED
    BY <1>11, <2>1, <2>2, <2>3 DEF ChargeTimer
<1>12. CASE UNCHANGED vars
  BY <1>2, <1>12 DEF vars
<1> QED
  BY <1>6, <1>7, <1>8, <1>9, <1>10, <1>11, <1>12 DEF Next

\* Whenever the device is ready, is not switching itself off and has handled the
\* charger's events, the supply is in the mode of charging if the charger is on
\* (charge_start_deal, charge_close_deal), and otherwise only if a start on the
\* charger has chosen it (board_init) and its first verdict is still to be handled.
THEOREM PowerModeFollows == Spec => []PowerModeFollowsCharge
<1>1. Init => ModeInv
  BY DEF Init, ModeInv, LastIs, NoneOf
<1>2. TypeOK /\ PlugInv /\ ModeInv => PowerModeFollowsCharge
  <2> SUFFICES ASSUME TypeOK, PlugInv, ModeInv, Ready, ~goOff,
                      \A i \in DOMAIN q : q[i] \notin {"CHARGE_START", "CHARGE_CLOSE"}
               PROVE  /\ chgOn => pwrMode = "ldo15"
                      /\ pwrMode = "ldo15" => chgOn \/ chargeFlag = "none"
                                                \/ \E i \in DOMAIN q : q[i] \in PlugEvents
    BY DEF PowerModeFollowsCharge
  <2>1. NoneOf(q, ModeEvents)
    BY DEF TypeOK, NoneOf, ModeEvents
  <2>2. ~NoneOf(q, PlugEvents) => \E i \in DOMAIN q : q[i] \in PlugEvents
    BY DEF TypeOK, NoneOf
  <2>3. ~NoneOf(q, Closers) => ~NoneOf(q, PlugEvents)
    BY DEF NoneOf, Closers, PlugEvents, Ldo!Events
  <2> QED
    BY <2>1, <2>2, <2>3 DEF ModeInv, StartedOnCharger, Ready
<1> QED
  BY <1>1, <1>2, ModeStep, PlugAgrees, TypeCorrect, PTL DEF Spec

-----------------------------------------------------------------------------
(* The charger is closed when a charge is started *)

\* A closer waits behind every plug that waits; between two of them; before
\* the first of them.
Answered(s)  == \A i \in 1..Len(s) : s[i] = "LDO5V_IN" =>
                    \E j \in (i + 1)..Len(s) : s[j] \in Closers
Separated(s) == \A i \in 1..Len(s) : \A k \in 1..(i - 1) :
                    s[i] = "LDO5V_IN" /\ s[k] = "LDO5V_IN" =>
                        \E j \in (k + 1)..(i - 1) : s[j] \in Closers
Preceded(s)  == \A i \in 1..Len(s) : s[i] = "LDO5V_IN" =>
                    \E j \in 1..(i - 1) : s[j] \in Closers

\* What an event put behind the others keeps.
LEMMA CloserAppended ==
    ASSUME NEW s \in Seq(Events), NEW e \in Events
    PROVE  /\ e # "LDO5V_IN" /\ Separated(s) => Separated(Append(s, e))
           /\ e # "LDO5V_IN" /\ Preceded(s) => Preceded(Append(s, e))
           /\ e # "LDO5V_IN" /\ Answered(s) => Answered(Append(s, e))
           /\ e \in Closers => Answered(Append(s, e))
           /\ Separated(s) /\ Answered(s) => Separated(Append(s, e))
           /\ Preceded(s) /\ ~NoneOf(s, Closers) => Preceded(Append(s, e))
<1> DEFINE t == Append(s, e)
           n == Len(s)
<1>1. /\ n \in Nat /\ Len(t) = n + 1 /\ t[n + 1] = e
      /\ \A i \in 1..n : t[i] = s[i]
      /\ e \in Closers => e # "LDO5V_IN"
  BY DEF Closers
<1> HIDE DEF t
<1>2. e # "LDO5V_IN" /\ Separated(s) => Separated(t)
  BY <1>1 DEF Separated
<1>3. e # "LDO5V_IN" /\ Preceded(s) => Preceded(t)
  BY <1>1 DEF Preceded
<1>4. e # "LDO5V_IN" /\ Answered(s) => Answered(t)
  BY <1>1 DEF Answered
<1>5. e \in Closers => Answered(t)
  BY <1>1 DEF Answered
<1>6. ASSUME Separated(s), Answered(s) PROVE Separated(t)
  <2> SUFFICES ASSUME NEW i \in 1..(n + 1), NEW k \in 1..(i - 1),
                      t[i] = "LDO5V_IN", t[k] = "LDO5V_IN"
               PROVE  \E j \in (k + 1)..(i - 1) : t[j] \in Closers
    BY <1>1 DEF Separated
  <2>1. CASE i \in 1..n
    BY <1>1, <1>6, <2>1 DEF Separated
  <2>2. CASE i = n + 1
    BY <1>1, <1>6, <2>2 DEF Answered
  <2> QED
    BY <1>1, <2>1, <2>2
<1>7. ASSUME Preceded(s), ~NoneOf(s, Closers) PROVE Preceded(t)
  BY <1>1, <1>7 DEF Preceded, NoneOf
<1> QED
  BY <1>2, <1>3, <1>4, <1>5, <1>6, <1>7 DEF t

\* What the queue keeps without its first event, and what that event tells.
LEMMA CloserTaken ==
    ASSUME NEW s \in Seq(Events), s # <<>>
    PROVE  /\ Separated(s) => Separated(Tail(s))
           /\ Answered(s) => Answered(Tail(s))
           /\ Preceded(s) => Head(s) # "LDO5V_IN"
           /\ Preceded(s) /\ Head(s) \notin Closers => Preceded(Tail(s))
           /\ Separated(s) /\ Head(s) = "LDO5V_IN" => Preceded(Tail(s))
<1> DEFINE t == Tail(s)
           n == Len(s)
<1>1. /\ t \in Seq(Events) /\ n \in Nat \ {0} /\ Len(t) = n - 1 /\ Head(s) = s[1]
      /\ \A i \in 1..(n - 1) : t[i] = s[i + 1] /\ i + 1 \in 2..n
      /\ \A i \in 2..n : i - 1 \in 1..(n - 1) /\ s[i] = t[i - 1]
  OBVIOUS
<1> HIDE DEF t
<1>2. ASSUME Separated(s) PROVE Separated(t)
  <2> SUFFICES ASSUME NEW i \in 1..(n - 1), NEW k \in 1..(i - 1),
                      t[i] = "LDO5V_IN", t[k] = "LDO5V_IN"
               PROVE  \E j \in (k + 1)..(i - 1) : t[j] \in Closers
    BY <1>1 DEF Separated
  <2>0. k \in 1..(n - 1)
    BY <1>1
  <2>1. PICK j \in (k + 2)..i : s[j] \in Closers
    <3>1. i + 1 \in 1..n /\ k + 1 \in 1..((i + 1) - 1)
      BY <1>1
    <3>2. s[i + 1] = "LDO5V_IN" /\ s[k + 1] = "LDO5V_IN"
      BY <1>1, <2>0
    <3> QED
      BY <1>2, <3>1, <3>2 DEF Separated
  <2>2. j \in 2..n /\ j - 1 \in (k + 1)..(i - 1)
    BY <1>1, <2>0, <2>1
  <2>3. t[j - 1] \in Closers
    BY <1>1, <2>1, <2>2
  <2> QED
    BY <2>2, <2>3
<1>3. ASSUME Answered(s) PROVE Answered(t)
  <2> SUFFICES ASSUME NEW i \in 1..(n - 1), t[i] = "LDO5V_IN"
               PROVE  \E j \in (i + 1)..(n - 1) : t[j] \in Closers
    BY <1>1 DEF Answered
  <2>1. PICK j \in (i + 2)..n : s[j] \in Closers
    BY <1>1, <1>3 DEF Answered
  <2>2. j - 1 \in (i + 1)..(n - 1) /\ t[j - 1] \in Closers
    BY <1>1, <2>1
  <2> QED
    BY <2>2
<1>4. Preceded(s) => Head(s) # "LDO5V_IN"
  BY <1>1 DEF Preceded
<1>5. ASSUME \/ Preceded(s) /\ Head(s) \notin Closers
             \/ Separated(s) /\ Head(s) = "LDO5V_IN"
      PROVE  Preceded(t)
  <2> SUFFICES ASSUME NEW i \in 1..(n - 1), t[i] = "LDO5V_IN"
               PROVE  \E j \in 1..(i - 1) : t[j] \in Closers
    BY <1>1 DEF Preceded
  <2>1. i + 1 \in 1..n /\ s[i + 1] = "LDO5V_IN"
    BY <1>1
  <2>2. PICK j \in 2..i : s[j] \in Closers
    <3>1. CASE Preceded(s) /\ Head(s) \notin Closers
      <4>1. PICK j \in 1..i : s[j] \in Closers
        BY <2>1, <3>1 DEF Preceded
      <4>2. j # 1
        BY <1>1, <3>1, <4>1
      <4> QED
        BY <4>1, <4>2
    <3>2. CASE Separated(s) /\ Head(s) = "LDO5V_IN"
      <4>1. 1 \in 1..((i + 1) - 1) /\ s[1] = "LDO5V_IN"
        BY <1>1, <3>2
      <4> QED
        BY <2>1, <3>2, <4>1 DEF Separated
    <3> QED
      BY <1>5, <3>1, <3>2
  <2>3. j - 1 \in 1..(i - 1) /\ t[j - 1] \in Closers
    BY <1>1, <2>2
  <2> QED
    BY <2>3
<1> QED
  BY <1>2, <1>3, <1>4, <1>5 DEF t

\* The driver reports a plug only after something else, so a closer waits
\* between two plugs, and before the next one while a charge is on.
StartInv ==
    /\ Separated(q)
    /\ chargeFlag # "in" => Answered(q)
    /\ ~goOff /\ chgOn => Preceded(q)

\* One step of AppCharge preserves it, and starts a charge from a closed charger.
LEMMA StartStep ==
    TypeOK /\ PlugInv /\ StartInv /\ [Next]_vars
        => StartInv' /\ (posted' = "CHARGE_START" /\ ~UNCHANGED vars => ~chgOn)
<1> SUFFICES ASSUME TypeOK, PlugInv, StartInv, [Next]_vars
             PROVE  StartInv' /\ (posted' = "CHARGE_START" /\ ~UNCHANGED vars => ~chgOn)
  OBVIOUS
<1> DEFINE Goal == StartInv' /\ (posted' = "CHARGE_START" => ~chgOn)
<1> USE DEF pin, plug, chg, off, timer, box
<1>1. ASSUME RamCleared PROVE Goal
  BY <1>1 DEF RamCleared, StartInv, Separated, Answered, Preceded
<1>2. ASSUME UNCHANGED <<q, chargeFlag>>, ~goOff' /\ chgOn' => ~goOff /\ chgOn,
             posted' # "CHARGE_START"
      PROVE  Goal
  BY <1>2 DEF StartInv
<1>3. /\ PlugEvents = {"LDO5V_IN", "LDO5V_KEEP", "LDO5V_OFF"}
      /\ \A l \in Ldo!Levels : /\ Ldo!EventOf(l) \in PlugEvents
                               /\ Ldo!EventOf(l) # "CHARGE_START"
                               /\ l = "in" <=> Ldo!EventOf(l) = "LDO5V_IN"
                               /\ l # "in" <=> Ldo!EventOf(l) \in Closers
  BY DEF PlugEvents, Ldo!Events, Ldo!EventOf, Ldo!Levels, Closers
\* A handler that makes no call of the driver's.
<1>4. ASSUME q # <<>>, q' = Tail(q), UNCHANGED <<chgOn, chargeFlag>>, posted' = "none",
             ~goOff' => ~goOff, Head(q) \notin Closers
      PROVE  Goal
  BY <1>4, CloserTaken DEF StartInv, TypeOK
\* One that calls charge_start or charge_close.
<1>5. ASSUME q # <<>>, NEW e \in ModeEvents, q' = Append(Tail(q), e), posted' = e,
             UNCHANGED chargeFlag, ~goOff' => ~goOff,
             e = "CHARGE_START" => ~goOff /\ Head(q) = "LDO5V_IN",
             e = "CHARGE_CLOSE" => ~chgOn'
      PROVE  Goal
  <2>1. q \in Seq(Events) /\ Tail(q) \in Seq(Events) /\ e \in Events /\ e # "LDO5V_IN"
    BY <1>5, Taken DEF TypeOK, Events, ModeEvents
  <2>2. Separated(q') /\ (chargeFlag # "in" => Answered(q'))
    BY <1>5, <2>1, CloserTaken, CloserAppended DEF StartInv
  <2>3. CASE e = "CHARGE_CLOSE"
    BY <1>5, <2>2, <2>3 DEF StartInv
  <2>4. CASE e = "CHARGE_START"
    <3>1. Preceded(q')
      BY <1>5, <2>1, <2>4, CloserTaken, CloserAppended DEF StartInv
    <3>2. ~chgOn
      BY <1>5, <2>1, <2>4, CloserTaken DEF StartInv
    <3> QED
      BY <1>5, <2>2, <3>1, <3>2 DEF StartInv
  <2> QED
    BY <2>3, <2>4 DEF ModeEvents
<1>6. CASE Environment
  BY <1>2, <1>6 DEF Environment, SetLevel, Ldo!SetLevel, Ldo!drv, BoxCommand, KeyWakeup,
                    UserPoweroff, EnterSoftPoweroff
<1>7. CASE Interrupt
  <2>1. CASE LdoinWakeup
    BY <1>2, <2>1 DEF LdoinWakeup
  <2>2. CASE PlugTick
    <3> DEFINE e == Ldo!EventOf(level)
    <3>1. /\ q \in Seq(Events) /\ e \in Events /\ level \in Ldo!Levels /\ e # "CHARGE_START"
          /\ level = "in" <=> e = "LDO5V_IN"
          /\ level # "in" <=> e \in Closers
      BY <1>3 DEF TypeOK, Events
    <3> HIDE DEF e
    <3>2. UNCHANGED <<chgOn, goOff>>
      BY <2>2 DEF PlugTick
    <3>3. CASE UNCHANGED <<chargeFlag, q>> /\ posted' = "none"
      BY <1>2, <3>2, <3>3
    <3>4. CASE chargeFlag' = level /\ q' = Append(q, e) /\ posted' = e /\ chargeFlag # level
      <4>1. CASE level # "in"
        BY <3>1, <3>2, <3>4, <4>1, CloserAppended DEF StartInv
      <4>2. CASE level = "in"
        <5>1. Separated(q')
          BY <3>1, <3>4, <4>2, CloserAppended DEF StartInv
        <5>2. ASSUME ~goOff, chgOn PROVE ~NoneOf(q, Closers)
          <6>1. ~NoneOf(q, PlugEvents)
            BY <3>4, <4>2, <5>2 DEF PlugInv
          <6>2. PICK i \in 1..Len(q) : q[i] \in PlugEvents
            BY <6>1 DEF NoneOf
          <6>3. CASE q[i] \in Closers
            BY <6>3 DEF NoneOf
          <6>4. CASE q[i] = "LDO5V_IN"
            BY <3>1, <3>4, <4>2, <6>4 DEF StartInv, Answered, NoneOf
          <6> QED
            BY <1>3, <6>2, <6>3, <6>4 DEF Closers
        <5> QED
          BY <3>1, <3>2, <3>4, <4>2, <5>1, <5>2, CloserAppended DEF StartInv
      <4> QED
        BY <4>1, <4>2
    <3>5. CASE chargeFlag' = level /\ q' = q /\ posted' = "none" /\ chargeFlag = level
      BY <1>2, <3>2, <3>5
    <3>6. /\ posted' = Ldo!EventOf(level) /\ posted' # "none" => chargeFlag # level
      BY <2>2 DEF PlugTick, Ldo!CountSample, Ldo!Verdict
    <3> QED
      BY <2>2, <3>1, <3>3, <3>4, <3>5, <3>6, Ticked, VerdictEvent DEF TypeOK, e
  <2>3. CASE ChargeFull
    <3>1. q \in Seq(Events) /\ "CHARGE_FULL" \in Events
      BY DEF TypeOK, Events
    <3> QED
      BY <2>3, <3>1, CloserAppended DEF ChargeFull, StartInv
  <2> QED
    BY <1>7, <2>1, <2>2, <2>3 DEF Interrupt
<1>8. CASE Boot
  <2>1. CASE PowerOnLow
    BY <1>1, <2>1 DEF PowerOnLow, SoftOff
  <2>2. ASSUME NEW on \in BOOLEAN, ChargeInit(on) PROVE Goal
    BY <2>2 DEF ChargeInit, Ldo!ChargeInit, Ldo!hw, PlugInv, StartInv, Separated, Answered,
                Preceded
  <2>3. CASE BoardInit \/ AppMain \/ PowerOnVoltage
    BY <1>2, <2>3 DEF BoardInit, AppMain, PowerOnVoltage
  <2> QED
    BY <1>8, <2>1, <2>2, <2>3 DEF Boot
<1>9. CASE PowerDown
  <2>1. ASSUME SwitchToIdle, exitTimer # "none" PROVE Goal
    BY <2>1 DEF SwitchToIdle, PlugInv, StartInv, Separated, Answered, Preceded
  <2>2. ASSUME IdleSoftoff PROVE RamCleared
    BY <2>2 DEF IdleSoftoff, CpuReset, SoftOff
  <2>3. CASE WaitAudio
    BY <1>1, <1>2, <2>3 DEF WaitAudio, CpuReset
  <2>4. CASE WaitExitBtstack
    BY <1>1, <2>1, <2>2, <2>4 DEF WaitExitBtstack, CpuReset
  <2>5. CASE PowerOffAtSameTime
    BY <1>1, <2>1, <2>2, <2>5 DEF PowerOffAtSameTime
  <2>6. CASE ToneEnd
    BY <1>1, <2>2, <2>6 DEF ToneEnd
  <2>7. CASE FullStop
    BY <1>1, <2>7 DEF FullStop, SoftOff
  <2> QED
    BY <1>9, <2>3, <2>4, <2>5, <2>6, <2>7 DEF PowerDown
<1>10. CASE ChargeEvent
  <2> USE DEF Handling, ModeEvents, Closers
  <2>1. CASE ChargeStartDeal
    BY <1>4, <2>1 DEF ChargeStartDeal, Consume
  <2>2. CASE ChargeCloseDeal
    BY <1>4, <2>2 DEF ChargeCloseDeal, Consume
  <2>3. CASE ChargeFullDeal
    BY <1>5, <2>3 DEF ChargeFullDeal, ChargeClose
  <2>4. CASE ChargeLdo5vInDeal
    <3>1. CASE LdoInIdle
      BY <1>1, <1>5, <2>4, <3>1 DEF ChargeLdo5vInDeal, LdoInIdle, ChargeStart, CpuReset
    <3>2. CASE LdoInBt
      BY <1>4, <2>4, <3>2 DEF ChargeLdo5vInDeal, LdoInBt, Consume, EnterSoftPoweroff
    <3> QED
      BY <2>4, <3>1, <3>2 DEF ChargeLdo5vInDeal
  <2>5. CASE Ldo5vKeepDeal
    BY <1>5, <2>5 DEF Ldo5vKeepDeal, ChargeClose
  <2>6. CASE ChargeLdo5vOffDeal
    <3>1. ASSUME NEW leaving \in {FALSE, testbox}, OffRest(leaving), ~RamCleared
          PROVE  Goal
      <4>1. ~goOff' => ~goOff
        BY <3>1 DEF OffRest, EnterSoftPoweroff, SoftOff
      <4> QED
        BY <1>5, <2>6, <3>1, <4>1 DEF ChargeLdo5vOffDeal, OffRest, ChargeClose, SoftOff
    <3> QED
      BY <1>1, <2>6, <3>1 DEF ChargeLdo5vOffDeal, CpuReset
  <2> QED
    BY <1>10, <2>1, <2>2, <2>3, <2>4, <2>5, <2>6 DEF ChargeEvent
<1>11. CASE ChargeTimer
  <2>1. CASE KeepEnd
    BY <1>1, <2>1 DEF KeepEnd, CpuReset, SoftOff
  <2>2. CASE ResetDelay
    BY <1>2, <2>2 DEF ResetDelay, EnterSoftPoweroff
  <2>3. CASE KeepDelay
    BY <1>2, <2>3 DEF KeepDelay, EnterSoftPoweroff
  <2> QED
    BY <1>11, <2>1, <2>2, <2>3 DEF ChargeTimer
<1>12. CASE UNCHANGED vars
  BY <1>12 DEF vars, StartInv
<1> QED
  BY <1>6, <1>7, <1>8, <1>9, <1>10, <1>11, <1>12 DEF Next

\* charge_start is called for a closed charger only, whatever the order of the
\* verdicts and of their handling (app_charge.c:389, 415 and 434 of charge.c):
\* what TrickleEnds of ChargeCtl asks of its caller.
THEOREM StartsClosed == Spec => StartsFromClosed
<1>1. Init => StartInv
  BY DEF Init, StartInv, Separated, Answered, Preceded
<1>2. TypeOK /\ PlugInv /\ StartInv /\ [Next]_vars
        => StartInv' /\ [posted' = "CHARGE_START" => ~chgOn]_vars
  BY StartStep
<1> QED
  BY <1>1, <1>2, PlugAgrees, TypeCorrect, PTL DEF Spec, StartsFromClosed
=============================================================================
