----------------------------- MODULE PairUpdate -----------------------------
(***************************************************************************)
(* What the synchronous update promises for the pair, however answers,     *)
(* timeouts and losses of the link fall: commitments in order.  A bud makes*)
(* its new image the one to boot only when both images have been found     *)
(* good, the slave before the master; success is reported with the         *)
(* master's, and is final; and only then does the update reset a bud out of*)
(* its old image.  It is not atomic: an update that fails after the slave  *)
(* has committed leaves it committed.  The slave goes on running its old   *)
(* image, and takes part in the next update.                               *)
(***************************************************************************)

VARIABLES
    good,   \* each bud: the image it holds has passed its check
    boots,  \* each bud: it will boot the new image
    left,   \* each bud: it has reset out of the old image
    said    \* what the phone was told: "none", "succ" or "failed"

vars == <<good, boots, left, said>>

Bud == {"master", "slave"}

Init ==
    /\ good = [b \in Bud |-> FALSE]
    /\ boots = [b \in Bud |-> FALSE]
    /\ left = [b \in Bud |-> FALSE]
    /\ said = "none"

Open == said # "succ"

\* The phone announces an image; the master may have no room for it.
Announce ==
    /\ Open
    /\ good' \in {good, [good EXCEPT !["master"] = FALSE]}
    /\ UNCHANGED <<boots, left, said>>

\* A bud finds its image good, or not, or has none any more.  The master looks
\* at its own only when the slave's is good; if it is not, or the slave is out
\* of reach, the update has failed.
Check(b, ok) ==
    /\ Open
    /\ b = "master" => good["slave"]
    /\ good' = [good EXCEPT ![b] = ok]
    /\ said' \in IF b = "master" THEN {said, "failed"} ELSE {said}
    /\ UNCHANGED <<boots, left>>

Commit(b) ==
    /\ Open
    /\ \A c \in Bud : good[c]
    /\ b = "master" => boots["slave"]
    /\ boots' = [boots EXCEPT ![b] = TRUE]
    /\ said' = IF b = "master" THEN "succ" ELSE said
    /\ UNCHANGED <<good, left>>

GiveUp ==
    /\ Open
    /\ said' = "failed"
    /\ UNCHANGED <<good, boots, left>>

\* Together, or the master alone when the slave is out of reach.
Leave(S) ==
    /\ said = "succ" /\ "master" \in S
    /\ left' = [b \in Bud |-> left[b] \/ b \in S]
    /\ UNCHANGED <<good, boots, said>>

Next ==
    \/ Announce \/ GiveUp
    \/ \E b \in Bud : Commit(b) \/ \E ok \in BOOLEAN : Check(b, ok)
    \/ \E S \in SUBSET Bud : Leave(S)

Spec == Init /\ [][Next]_vars
=============================================================================
