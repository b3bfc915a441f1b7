----------------------------- MODULE PlugReport -----------------------------
(***************************************************************************)
(* What plug detection promises to the rest of the firmware, whatever the  *)
(* timers, interrupts and filters do: the status it keeps only ever moves  *)
(* to the level on the pin at that moment, each change of status is posted *)
(* exactly once, and a level that stays is eventually the status.          *)
(***************************************************************************)
CONSTANTS KeepIsReported   \* whether a change to "keep" is posted at all

VARIABLES
    level,     \* the level on the charging pin
    status,    \* the status last decided, "none" before the first
    watching,  \* detection is running
    event      \* what the last step posted, "none" if nothing

vars == <<level, status, watching, event>>

Levels == {"in", "keep", "off"}

Reported(l) == IF l = "keep" /\ ~KeepIsReported THEN "none" ELSE l

Init ==
    /\ level \in Levels
    /\ status = "none"
    /\ watching = FALSE
    /\ event = "none"

Move ==
    /\ level' \in Levels
    /\ event' = "none"
    /\ UNCHANGED <<status, watching>>

\* Detection comes up; a device that boots unplugged says nothing about it.
Start ==
    /\ ~watching
    /\ watching' \in BOOLEAN
    /\ status' \in IF status = "none" THEN {"none", "off"} ELSE {status}
    /\ event' = "none"
    /\ UNCHANGED level

Pause ==
    /\ watching
    /\ watching' = FALSE
    /\ event' = "none"
    /\ UNCHANGED <<level, status>>

Report ==
    /\ watching
    /\ status # level
    /\ status' = level
    /\ event' = Reported(level)
    /\ UNCHANGED <<level, watching>>

Quiet ==
    /\ event' = "none"
    /\ UNCHANGED <<level, status, watching>>

Next == Move \/ Start \/ Pause \/ Report \/ Quiet

Spec == Init /\ [][Next]_vars /\ WF_vars(Report)

=============================================================================
