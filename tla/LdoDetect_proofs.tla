-------------------------- MODULE LdoDetect_proofs --------------------------
(***************************************************************************)
(* Theorems of LdoDetect: its type invariant, the agreement of the online  *)
(* flag with the status, Settled for levels that outlast the port filter,  *)
(* and the safety part of the refinement of PlugReport.                    *)
(***************************************************************************)
EXTENDS LdoDetect, TLAPS

\* A filter is a natural number of samples, whatever the level.
LEMMA FilterNat == ASSUME NEW l \in Levels PROVE Filter(l) \in Nat
BY FilterAssumption DEF Levels, Filter

\* An event is one of the three plug events or none.
LEMMA EventOfType == ASSUME NEW l \in Levels
                     PROVE EventOf(l) \in Events \cup {"none"}
BY DEF Levels, EventOf, Events

\* Every variable keeps its type, and no counter passes its filter: the
\* sample after the last counted one is the verdict.
THEOREM TypeCorrect == Spec => []TypeOK
<1>1. Init => TypeOK
  <2>1. Init => cnt \in [Levels -> Nat] /\ \A l \in Levels : cnt[l] <= Filter(l)
    BY FilterNat DEF Init, ZeroCnt
  <2> QED
    BY <2>1 DEF Init, TypeOK
<1>2. TypeOK /\ [Next]_vars => TypeOK'
  <2> SUFFICES ASSUME TypeOK, [Next]_vars PROVE TypeOK'
    OBVIOUS
  <2> USE DEF TypeOK, hw
  <2>1. ASSUME NEW l \in Levels, SetLevel(l) PROVE TypeOK'
    BY <2>1 DEF SetLevel, drv
  <2>2. ASSUME NEW on \in BOOLEAN, ChargeInit(on) PROVE TypeOK'
    BY <2>2 DEF ChargeInit, Levels
  <2>3. CASE LdoinWakeupIsr
    BY <2>3 DEF LdoinWakeupIsr
  <2>4. CASE CountSample
    <3>1. \A l \in Levels : cnt'[l] = IF l = level THEN cnt[l] + 1 ELSE cnt[l]
      BY <2>4 DEF CountSample
    <3>2. cnt' \in [Levels -> Nat]
      BY <2>4 DEF CountSample
    <3>3. \A l \in Levels : cnt'[l] <= Filter(l)
      BY <2>4, <3>1, FilterNat DEF CountSample
    <3> QED
      BY <2>4, <3>2, <3>3 DEF CountSample
  <2>5. CASE Verdict
    <3>1. cnt' \in [Levels -> Nat] /\ \A l \in Levels : cnt'[l] <= Filter(l)
      BY <2>5, FilterNat DEF Verdict, ZeroCnt
    <3> QED
      BY <2>5, <3>1, EventOfType DEF Verdict
  <2>6. ASSUME NEW b \in BOOLEAN, SetDetectStop(b) PROVE TypeOK'
    BY <2>6 DEF SetDetectStop
  <2>7. CASE ModuleStop
    BY <2>7 DEF ModuleStop
  <2>8. CASE ModuleRestart
    BY <2>8 DEF ModuleRestart
  <2>9. CASE UNCHANGED vars
    BY <2>9 DEF vars, drv
  <2> QED
    BY <2>1, <2>2, <2>3, <2>4, <2>5, <2>6, <2>7, <2>8, <2>9 DEF Next
<1>3. QED
  BY <1>1, <1>2, PTL DEF Spec

\* The strengthening of Settled: the timer only runs when detection is up
\* with its wakeup ports enabled, and the online flag and the status agree.
IInv ==
    /\ TypeOK
    /\ OnlineMatchesFlag
    /\ ldoTimer => initOk /\ ldoWake
    /\ ~initOk => ldoWake
    /\ GlitchFree => Settled

\* One step of LdoDetect preserves the strengthening.
LEMMA IInvStep == IInv /\ TypeOK' /\ [Next]_vars => IInv'
<1> SUFFICES ASSUME IInv, TypeOK', [Next]_vars PROVE IInv'
  OBVIOUS
<1> USE DEF IInv, TypeOK, OnlineMatchesFlag, Settled, hw
<1>1. ASSUME NEW l \in Levels, SetLevel(l) PROVE IInv'
  BY <1>1 DEF SetLevel, drv
<1>2. ASSUME NEW on \in BOOLEAN, ChargeInit(on) PROVE IInv'
  BY <1>2 DEF ChargeInit, Levels
<1>3. CASE LdoinWakeupIsr
  BY <1>3 DEF LdoinWakeupIsr
<1>4. CASE CountSample
  BY <1>4 DEF CountSample
<1>5. CASE Verdict
  BY <1>5 DEF Verdict, Levels
<1>6. ASSUME NEW b \in BOOLEAN, SetDetectStop(b) PROVE IInv'
  BY <1>6 DEF SetDetectStop
<1>7. CASE ModuleStop
  BY <1>7 DEF ModuleStop
<1>8. CASE ModuleRestart
  BY <1>8 DEF ModuleRestart
<1>9. CASE UNCHANGED vars
  BY <1>9 DEF vars, drv
<1> QED
  BY <1>1, <1>2, <1>3, <1>4, <1>5, <1>6, <1>7, <1>8, <1>9 DEF Next

\* The strengthening holds throughout.
THEOREM Inductive == Spec => []IInv
<1>1. Init /\ TypeOK => IInv
  BY DEF Init, IInv, OnlineMatchesFlag, Settled
<1>2. QED
  BY <1>1, IInvStep, TypeCorrect, PTL DEF Spec

\* The online flag read by the whole firmware and the status of the detector
\* never disagree, for every filter and every behaviour of the pin.
THEOREM OnlineAgrees == Spec => []OnlineMatchesFlag
BY Inductive, PTL DEF IInv

\* With levels that outlast the port filter, detection never rests on a wrong
\* verdict, for every filter.
THEOREM SettledHolds == GlitchFree => (Spec => []Settled)
<1>1. GlitchFree /\ IInv => Settled
  BY DEF IInv
<1>2. ASSUME GlitchFree PROVE Spec => []Settled
  <2>1. IInv => Settled
    BY <1>1, <1>2
  <2> QED
    BY <2>1, Inductive, PTL
<1> QED
  BY <1>2

\* The safety part of the refinement: every step of LdoDetect is a step of
\* PlugReport or leaves its variables alone, for every filter and pin.
THEOREM PlugReportSafety == Spec => Plug!Init /\ [][Plug!Next]_Plug!vars
<1> USE DEF Plug!vars, Plug!Levels, Levels
<1>1. Init => Plug!Init
  BY DEF Init, Plug!Init
<1>2. IInv /\ IInv' /\ [Next]_vars => [Plug!Next]_Plug!vars
  <2> SUFFICES ASSUME IInv, IInv', [Next]_vars
               PROVE  Plug!Next \/ UNCHANGED Plug!vars
    OBVIOUS
  <2> USE DEF hw, TypeOK, IInv
  <2>1. ASSUME NEW l \in Levels, SetLevel(l) PROVE Plug!Move
    BY <2>1 DEF SetLevel, drv, Plug!Move
  <2>2. ASSUME NEW on \in BOOLEAN, ChargeInit(on) PROVE Plug!Start
    BY <2>2 DEF ChargeInit, Plug!Start, OnlineMatchesFlag
  <2>3. CASE LdoinWakeupIsr
    <3>1. Plug!Quiet
      BY <2>3 DEF LdoinWakeupIsr, Plug!Quiet
    <3> QED BY <3>1 DEF Plug!Next
  <2>4. CASE CountSample
    <3>1. Plug!Quiet
      BY <2>4 DEF CountSample, Plug!Quiet
    <3> QED BY <3>1 DEF Plug!Next
  <2>5. CASE Verdict
    <3>1. CASE chargeFlag = level
      <4>1. Plug!Quiet
        BY <2>5, <3>1 DEF Verdict, Plug!Quiet
      <4> QED BY <4>1 DEF Plug!Next
    <3>2. CASE chargeFlag # level
      <4>1. initOk /\ ldoWake /\ ~detectStop
        BY <2>5 DEF Verdict
      <4>2. Plug!Report
        BY <2>5, <3>2, <4>1 DEF Verdict, Plug!Report, EventOf, Plug!Reported
      <4> QED BY <4>2 DEF Plug!Next
    <3> QED
      BY <3>1, <3>2
  <2>6. ASSUME NEW b \in BOOLEAN, SetDetectStop(b) PROVE Plug!Next
    BY <2>6 DEF SetDetectStop, Plug!Next, Plug!Start, Plug!Pause, Plug!Quiet
  <2>7. CASE ModuleStop
    BY <2>7 DEF ModuleStop, Plug!Next, Plug!Pause, Plug!Quiet
  <2>8. CASE ModuleRestart
    BY <2>8 DEF ModuleRestart, Plug!Next, Plug!Start, Plug!Quiet
  <2>9. CASE UNCHANGED vars
    BY <2>9 DEF vars, drv
  <2> QED
    BY <2>1, <2>2, <2>3, <2>4, <2>5, <2>6, <2>7, <2>8, <2>9 DEF Next, Plug!Next
<1> QED
  BY <1>1, <1>2, Inductive, PTL DEF Spec
=============================================================================
