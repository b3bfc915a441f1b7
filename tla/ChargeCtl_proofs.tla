-------------------------- MODULE ChargeCtl_proofs --------------------------
(***************************************************************************)
(* Theorems of ChargeCtl, for every full threshold, board current and      *)
(* number of lost timers, and every interleaving of the task with the      *)
(* interrupts.                                                             *)
(***************************************************************************)
EXTENDS ChargeCtl, TLAPS

\* The steps of charge_start up to CHARGE_EN, and those of them before the
\* supervision of the charge is armed.
Unarmed == {"start_select", "start_test", "start_cache", "start_register", "start_arm"}

\* A charge is on, or its supervision is armed and it is about to be.
InCharge == chgEn \/ pc = "start_enable"

\* Who watches, on top of Supervised and CloseStopsCcCheck: what holds between
\* the steps of charge_start and charge_close.
WatchInv ==
    /\ pc \in {"start_check", "start_timer"} => chgEn
    /\ pc \in {"close_full_timer", "close_cc_timer"} => ~chgEn
    /\ InCharge => (fullWake \/ ccTimer \/ fullSent)
    /\ (~chgEn /\ pc \in {"idle"} \cup Unarmed) => ~ccTimer

\* Which current, as long as no charge_start has met an armed cc_timer:
\* nobody interrupts set_charge_mA, whose cache and register agree once the
\* cache has a value, except between its two writes.
CurrentInv ==
    /\ pc \in Unarmed => ~ccTimer
    /\ pc = "start_cache" => mAOld # Wanted
    /\ pc = "start_register" => mAOld = Wanted
    /\ pc = "start_arm" => mAOld = Wanted
    /\ (pc # "start_register" /\ mAOld # NoCurrent) => mA = mAOld
    /\ pc = "start_enable" => mAOld = Wanted \/ mAOld = ChargeMA
    /\ (pc = "start_enable" /\ mAOld # ChargeMA) => ccTimer
    /\ (chgEn /\ pc \notin Unarmed) => mAOld # NoCurrent
    /\ (chgEn /\ pc \notin Unarmed /\ mAOld # ChargeMA) => ccTimer

IInv ==
    /\ WatchInv
    /\ ~restarted => CurrentInv

\* The strengthening implies the three properties.
LEMMA IInvImplies == IInv => Supervised /\ TrickleEnds /\ CloseStopsCcCheck
BY DEF IInv, WatchInv, CurrentInv, InCharge, Unarmed, Supervised, TrickleEnds,
       CloseStopsCcCheck

\* Every variable keeps its type: the full counter stops at its threshold and
\* the current is one of the table's.
LEMMA TypeStep == TypeOK /\ [Next]_vars => TypeOK'
<1> SUFFICES ASSUME TypeOK, [Next]_vars PROVE TypeOK'
  OBVIOUS
<1>0. /\ Trickle \in 0 .. 15 /\ ChargeMA \in 0 .. 15
      /\ 0 \in 0 .. FullThreshold
  BY CurrentAssumption, FullAssumption DEF Trickle
<1> USE <1>0, FullAssumption, OrphanAssumption
    DEF TypeOK, Steps, Events, task, chip, tmrs, hist
<1>1. CASE ChargeStart
  BY <1>1 DEF ChargeStart
<1>2. ASSUME NEW v \in BOOLEAN, StartSelect(v) PROVE TypeOK'
  BY <1>2 DEF StartSelect
<1>16. CASE StartTest
  BY <1>16 DEF StartTest
<1>17. CASE StartCache
  BY <1>17 DEF StartCache, Wanted
<1>18. CASE StartRegister
  BY <1>18 DEF StartRegister, Wanted
<1>19. CASE StartArm
  BY <1>19 DEF StartArm
<1>3. CASE StartEnable
  BY <1>3 DEF StartEnable
<1>4. ASSUME NEW f \in BOOLEAN, StartCheck(f) PROVE TypeOK'
  BY <1>4 DEF StartCheck
<1>5. CASE StartTimer
  <2>1. orphans' \in 0 .. MaxOrphans
    BY <1>5 DEF StartTimer
  <2>2. fullTimer' \in BOOLEAN
    BY <1>5 DEF StartTimer
  <2> QED
    BY <1>5, <2>1, <2>2 DEF StartTimer
<1>6. CASE ChargeClose
  BY <1>6 DEF ChargeClose
<1>7. CASE CloseFullTimer
  BY <1>7 DEF CloseFullTimer
<1>8. CASE CloseCcTimer
  BY <1>8 DEF CloseCcTimer
<1>9. CASE ChargeWakeupIsr
  BY <1>9 DEF ChargeWakeupIsr
<1>10. CASE ChargeCcCheck
  BY <1>10 DEF ChargeCcCheck
<1>11. CASE FullGone
  BY <1>11 DEF FullGone
<1>12. CASE FullNotYet
  BY <1>12 DEF FullNotYet
<1>13. CASE FullCount
  BY <1>13 DEF FullCount
<1>14. CASE FullVerdict
  BY <1>14 DEF FullVerdict
<1>15. CASE UNCHANGED vars
  BY <1>15 DEF vars
<1> QED
  BY <1>1, <1>2, <1>3, <1>4, <1>5, <1>6, <1>7, <1>8, <1>9, <1>10, <1>11,
     <1>12, <1>13, <1>14, <1>15, <1>16, <1>17, <1>18, <1>19 DEF Next, Task, Interrupt, ChargeFullDetect

\* The types hold throughout: the full counter within its threshold, the
\* current within the table, for all constants.
THEOREM TypeCorrect == Spec => []TypeOK
<1>1. Init => TypeOK
  <2>1. 0 \in 0 .. FullThreshold /\ 0 \in 0 .. MaxOrphans /\ Trickle \in 0 .. 15
    BY FullAssumption, OrphanAssumption DEF Trickle
  <2> QED
    BY <2>1 DEF Init, TypeOK, Steps, Events
<1> QED
  BY <1>1, TypeStep, PTL DEF Spec

\* Every task step and every interrupt keeps the charge watched.
LEMMA WatchStep == TypeOK /\ WatchInv /\ [Next]_vars => WatchInv'
<1> SUFFICES ASSUME TypeOK, WatchInv, [Next]_vars PROVE WatchInv'
  OBVIOUS
<1> USE DEF TypeOK, WatchInv, InCharge, Unarmed, task, chip, tmrs, hist
<1>1. CASE ChargeStart
  BY <1>1 DEF ChargeStart
<1>2. ASSUME NEW v \in BOOLEAN, StartSelect(v) PROVE WatchInv'
  BY <1>2 DEF StartSelect
<1>3. CASE StartTest
  BY <1>3 DEF StartTest
<1>4. CASE StartCache
  BY <1>4 DEF StartCache
<1>5. CASE StartRegister
  BY <1>5 DEF StartRegister
<1>6. CASE StartArm
  BY <1>6 DEF StartArm
<1>7. CASE StartEnable
  BY <1>7 DEF StartEnable
<1>8. ASSUME NEW f \in BOOLEAN, StartCheck(f) PROVE WatchInv'
  BY <1>8 DEF StartCheck
<1>9. CASE StartTimer
  BY <1>9 DEF StartTimer
<1>10. CASE ChargeClose
  BY <1>10 DEF ChargeClose
<1>11. CASE CloseFullTimer
  BY <1>11 DEF CloseFullTimer
<1>12. CASE CloseCcTimer
  BY <1>12 DEF CloseCcTimer
<1>13. CASE ChargeWakeupIsr
  BY <1>13 DEF ChargeWakeupIsr
<1>14. CASE ChargeCcCheck
  BY <1>14 DEF ChargeCcCheck
<1>15. CASE FullGone
  BY <1>15 DEF FullGone
<1>16. CASE FullNotYet
  BY <1>16 DEF FullNotYet
<1>17. CASE FullCount
  BY <1>17 DEF FullCount
<1>18. CASE FullVerdict
  BY <1>18 DEF FullVerdict
<1>19. CASE UNCHANGED vars
  BY <1>19 DEF vars
<1> QED
  BY <1>1, <1>2, <1>3, <1>4, <1>5, <1>6, <1>7, <1>8, <1>9, <1>10,
     <1>11, <1>12, <1>13, <1>14, <1>15, <1>16, <1>17, <1>18, <1>19
     DEF Next, Task, Interrupt, ChargeFullDetect

\* Every task step and every interrupt keeps cache, register and cc_timer in
\* step, unless it is a charge_start that meets an armed cc_timer.
LEMMA CurrentStep ==
    TypeOK /\ WatchInv /\ (~restarted => CurrentInv) /\ [Next]_vars
        => (~restarted => CurrentInv)'
<1> SUFFICES ASSUME TypeOK, WatchInv, ~restarted => CurrentInv, [Next]_vars, ~restarted'
             PROVE  CurrentInv'
  OBVIOUS
<1>0. Trickle # NoCurrent /\ ChargeMA # NoCurrent
  BY CurrentAssumption DEF Trickle, NoCurrent
<1> USE <1>0 DEF TypeOK, WatchInv, CurrentInv, InCharge, Unarmed, Wanted, task, chip, tmrs, hist
<1>1. CASE ChargeStart
  BY <1>1 DEF ChargeStart
<1>2. ASSUME NEW v \in BOOLEAN, StartSelect(v) PROVE CurrentInv'
  BY <1>2 DEF StartSelect
<1>3. CASE StartTest
  BY <1>3 DEF StartTest
<1>4. CASE StartCache
  BY <1>4 DEF StartCache
<1>5. CASE StartRegister
  BY <1>5 DEF StartRegister
<1>6. CASE StartArm
  BY <1>6 DEF StartArm
<1>7. CASE StartEnable
  BY <1>7 DEF StartEnable
<1>8. ASSUME NEW f \in BOOLEAN, StartCheck(f) PROVE CurrentInv'
  BY <1>8 DEF StartCheck
<1>9. CASE StartTimer
  BY <1>9 DEF StartTimer
<1>10. CASE ChargeClose
  BY <1>10 DEF ChargeClose
<1>11. CASE CloseFullTimer
  BY <1>11 DEF CloseFullTimer
<1>12. CASE CloseCcTimer
  BY <1>12 DEF CloseCcTimer
<1>13. CASE ChargeWakeupIsr
  BY <1>13 DEF ChargeWakeupIsr
<1>14. CASE ChargeCcCheck
  BY <1>14 DEF ChargeCcCheck
<1>15. CASE FullGone
  BY <1>15 DEF FullGone
<1>16. CASE FullNotYet
  BY <1>16 DEF FullNotYet
<1>17. CASE FullCount
  BY <1>17 DEF FullCount
<1>18. CASE FullVerdict
  BY <1>18 DEF FullVerdict
<1>19. CASE UNCHANGED vars
  BY <1>19 DEF vars
<1> QED
  BY <1>1, <1>2, <1>3, <1>4, <1>5, <1>6, <1>7, <1>8, <1>9, <1>10,
     <1>11, <1>12, <1>13, <1>14, <1>15, <1>16, <1>17, <1>18, <1>19
     DEF Next, Task, Interrupt, ChargeFullDetect

\* The strengthening holds throughout.
THEOREM Inductive == Spec => []IInv
<1>1. Init => IInv
  BY DEF Init, IInv, WatchInv, CurrentInv, InCharge, Unarmed
<1>2. TypeOK /\ IInv /\ [Next]_vars => IInv'
  BY WatchStep, CurrentStep DEF IInv
<1> QED
  BY <1>1, <1>2, TypeCorrect, PTL DEF Spec

\* The charger is never on unsupervised.
THEOREM SupervisedHolds == Spec => []Supervised
BY Inductive, IInvImplies, PTL

\* A charge below the board's current has the check that will raise it, unless
\* a charge_start has found that check armed.
THEOREM TrickleEndsHolds == Spec => []TrickleEnds
BY Inductive, IInvImplies, PTL

\* charge_close leaves no constant-current check behind.
THEOREM CloseStopsHolds == Spec => []CloseStopsCcCheck
BY Inductive, IInvImplies, PTL
=============================================================================
