------------------------------- MODULE TwsOta -------------------------------
(***************************************************************************)
(* The synchronous firmware update of a pair of earbuds:                   *)
(* apps/common/update/update_tws_new.c (the exchange between the buds) with*)
(* its user on the master,                                                 *)
(* apps/common/third_party_profile/interface/app_protocol_ota.c.           *)
(*                                                                         *)
(* The phone drives the master.  Every request of the phone is handled by  *)
(* a function that blocks on tws_ota_sem until the slave answers or a      *)
(* timeout passes; pc is where that thread stands.  The master's update    *)
(* task verifies and writes the boot info in the meantime, and blocks on   *)
(* the same semaphore; lib is where it stands.  The slave works in the     *)
(* receive callback and queues jobs to the dual bank library, whose        *)
(* callbacks answer.  The library and the link are external: a job may     *)
(* fail, a message may be delivered twice, the link may drop.              *)
(*                                                                         *)
(* It is the passive update: the branches for a phone that is asked for    *)
(* the image (INITIATIVE_OTA) are left out, and so is the update of a bud  *)
(* that has no sibling when it starts.                                     *)
(***************************************************************************)
EXTENDS Naturals, Sequences

CONSTANTS
    MaxPackets,    \* packets of the image
    MaxStarts,     \* bound: updates the phone starts
    MaxVerifies,   \* bound: verifications the phone asks for in all
    MaxDrops,      \* bound: losses of the link between the buds
    PastEndReads   \* a byte read past the end of a message may look like SUCC

ASSUME OtaAssumption ==
    /\ MaxPackets \in Nat \ {0} /\ MaxStarts \in Nat \ {0}
    /\ MaxVerifies \in Nat /\ MaxDrops \in Nat /\ PastEndReads \in BOOLEAN

VARIABLES
    phone,     \* the phone believes an update is running
    orderly,   \* history: no request met anything of an earlier one
    pc,        \* where the thread of the requests is blocked
    lib,       \* what the master's update task is doing
    sem,       \* tws_ota_sem, master's
    first,     \* sync_update_first_packet
    sent,      \* packets the master wrote and forwarded
    result,    \* the outcome the master has reported
    starts, verifies, drops,
    over,      \* a SYNC_CMD_UPDATE_OVER call is under way
    open,      \* each bud: a passive update is initialised
    verified,  \* each bud: this image passed its CRC check
    burned,    \* each bud: its boot info points to the new image
    rebooted,  \* each bud: it left the update by cpu_reset
    exitEvent, \* each bud: an event that ends the update is posted
    sn, last,  \* each bud: sync_update_sn, last_sync_update_sn
    linked,    \* the sibling is connected
    toS, toM,  \* messages on their way to the slave, to the master
    timer,     \* the slave's tws_ota_timeout_hdl is armed
    jobs,      \* what the slave's update task has still to do
    written    \* packets of this image the slave has written

phoneVars  == <<phone, first, sent, result, starts, verifies, orderly>>
updateVars == <<open, verified, burned, rebooted, exitEvent>>
netVars    == <<sn, last, linked, toS, toM, drops>>
slaveVars  == <<timer, jobs, written>>
vars == <<phoneVars, pc, lib, sem, over, updateVars, netVars, slaveVars>>

Bud == {"master", "slave"}
Both(v) == [b \in Bud |-> v]

\* What the slave has written does not add up to the image.
Spoiled == MaxPackets + 1

\* The pends of the handlers of requests, and what the master's update task
\* does: its verification, the fifth pend, its boot info job.
InHandler == {"open", "data", "crc", "verify"}
InLibrary == {"own", "exit", "burn"}

Init ==
    /\ orderly = TRUE /\ lib = "idle"
    /\ phone = FALSE /\ pc = "ready" /\ sem = 0 /\ first = TRUE /\ sent = 0
    /\ result = "none" /\ starts = 0 /\ verifies = 0 /\ drops = 0 /\ over = FALSE
    /\ open = Both(FALSE) /\ verified = Both(FALSE) /\ burned = Both(FALSE)
    /\ rebooted = Both(FALSE) /\ exitEvent = Both(FALSE)
    /\ sn = Both(1) /\ last = Both(0) /\ linked = TRUE /\ toS = <<>> /\ toM = <<>>
    /\ timer = FALSE /\ jobs = <<>> /\ written = 0

-----------------------------------------------------------------------------
(* The link *)

\* tws_ota_trans_to_sibling: the number is taken whether or not the message
\* can be sent; without a sibling nothing leaves.
NextSn(b) == (sn[b] + 1) % 256
Message(b, type, status) == [type |-> type, sn |-> NextSn(b), status |-> status]

ToSlave(type) ==
    /\ sn' = [sn EXCEPT !["master"] = NextSn("master")]
    /\ toS' = IF linked THEN Append(toS, Message("master", type, "none")) ELSE toS
    /\ UNCHANGED <<last, linked, toM, drops>>

\* What the slave's answers change: its number and the queue to the master.
Answer(type, status) ==
    /\ sn' = [sn EXCEPT !["slave"] = NextSn("slave")]
    /\ toM' = IF linked THEN Append(toM, Message("slave", type, status)) ELSE toM

\* The connection is lost: what is on the air is gone, and both buds are
\* told by an event (tws_ota_app_event_deal), which each handles later.
LinkDrop ==
    /\ linked /\ drops < MaxDrops
    /\ linked' = FALSE /\ drops' = drops + 1 /\ toS' = <<>> /\ toM' = <<>>
    /\ exitEvent' = Both(TRUE)
    /\ UNCHANGED <<phoneVars, pc, lib, sem, over, open, verified, burned, rebooted,
                   sn, last, slaveVars>>

LinkUp ==
    /\ ~linked /\ linked' = TRUE
    /\ UNCHANGED <<phoneVars, pc, lib, sem, over, updateVars, sn, last, toS, toM,
                   drops, slaveVars>>

\* tws_ota_stop on a lost link, bt_ota_event_handler on OTA_UPDATE_ERR: both
\* end in dual_bank_passive_update_exit, which abandons the queued jobs.
ExitEvent(b) ==
    /\ exitEvent[b]
    /\ exitEvent' = [exitEvent EXCEPT ![b] = FALSE]
    /\ open' = [open EXCEPT ![b] = FALSE]
    /\ jobs' = IF b = "slave" THEN <<>> ELSE jobs
    /\ UNCHANGED <<phoneVars, pc, lib, sem, over, verified, burned, rebooted, netVars,
                   timer, written>>

-----------------------------------------------------------------------------
(* The master: requests of the phone *)

\* A pend on the semaphore returns: with a post taken, or by its timeout.
Pended(thread, where, ok) ==
    /\ thread = where
    /\ IF ok THEN sem > 0 ELSE sem = 0

\* Nothing of an earlier request is under way.
Quiet == toS = <<>> /\ toM = <<>> /\ jobs = <<>> /\ lib = "idle" /\ ~over

\* APP_PROTOCOL_OTA_CHECK and tws_ota_open: a new image is announced, at any
\* time; the semaphore is created anew.  A bud without room for it refuses.
\* What the update task was doing it may do to its end.  Without a sibling
\* the update would be one of this bud alone.
OtaCheck ==
    /\ pc = "ready" /\ linked /\ starts < MaxStarts /\ ~rebooted["master"]
    /\ starts' = starts + 1 /\ sent' = 0
    /\ orderly' = (orderly /\ Quiet)
    /\ lib' \in {lib, "idle"}
    /\ \/ /\ open' = [open EXCEPT !["master"] = FALSE]        \* no room here
          /\ phone' = FALSE
          /\ UNCHANGED <<pc, sem, first, verified, netVars>>
       \/ /\ open' = [open EXCEPT !["master"] = TRUE]
          /\ verified' = [verified EXCEPT !["master"] = FALSE]
          /\ sem' = 0 /\ first' = TRUE /\ pc' = "open" /\ phone' = TRUE
          /\ ToSlave("start")
    /\ UNCHANGED <<result, verifies, over, burned, rebooted, exitEvent, slaveVars>>

OpenReturns(ok) ==
    /\ Pended(pc, "open", ok)
    /\ pc' = "ready" /\ phone' = ok
    /\ sem' = IF ok THEN sem - 1 ELSE sem
    /\ open' = IF ok THEN open ELSE [open EXCEPT !["master"] = FALSE]
    /\ UNCHANGED <<first, sent, result, starts, verifies, orderly, lib, over, verified,
                   burned, rebooted, exitEvent, netVars, slaveVars>>

\* tws_ota_data_send_m_to_s: the semaphore is emptied before the packet goes;
\* whether the packet left is not reported.
WriteAndSend ==
    /\ pc' = "ready" /\ sem' = 0 /\ first' = FALSE /\ sent' = sent + 1
    /\ ToSlave("data")

\* A request that comes while the update task is at work.
InTurn == orderly' = (orderly /\ lib = "idle")

\* APP_PROTOCOL_OTA_TRANS_DATA: from the second packet on, the answer to the
\* packet before is awaited first.
TransData ==
    /\ pc = "ready" /\ phone /\ sent < MaxPackets
    /\ InTurn
    /\ IF first
       THEN WriteAndSend
       ELSE pc' = "data" /\ UNCHANGED <<sem, first, sent, netVars>>
    /\ UNCHANGED <<phone, result, starts, verifies, lib, over, updateVars, slaveVars>>

DataReturns(ok) ==
    /\ Pended(pc, "data", ok)
    /\ IF ok
       THEN WriteAndSend
       ELSE pc' = "ready" /\ UNCHANGED <<sem, first, sent, netVars>>
    /\ UNCHANGED <<phone, result, starts, verifies, orderly, lib, over, updateVars, slaveVars>>

\* APP_PROTOCOL_OTA_CHECK_CRC of the passive update: the answer to the last packet is awaited.
CheckCrc ==
    /\ pc = "ready" /\ phone /\ sent = MaxPackets /\ verifies < MaxVerifies
    /\ pc' = "crc"
    /\ InTurn
    /\ UNCHANGED <<phone, first, sent, result, starts, verifies, lib, sem, over,
                   updateVars, netVars, slaveVars>>

\* tws_ota_enter_verify up to its pend: the semaphore is emptied, then the
\* slave is told to verify; without a sibling the verification fails.
CrcReturns(ok) ==
    /\ Pended(pc, "crc", ok)
    /\ IF ok
       THEN /\ sem' = 0 /\ verifies' = verifies + 1
            /\ pc' = IF linked THEN "verify" ELSE "ready"
            /\ ToSlave("verify")
       ELSE pc' = "ready" /\ UNCHANGED <<sem, verifies, netVars>>
    /\ UNCHANGED <<phone, first, sent, result, starts, orderly, lib, over, updateVars,
                   slaveVars>>

\* What the master's library makes of a job: it takes it, or refuses it (always
\* when the update has ended meanwhile), which no caller looks at.
Taken(job) == IF open["master"] THEN {job, "idle"} ELSE {"idle"}

\* Mutant: a timeout counts as an answer.
VerifyTimeoutPasses(ok) ==
    /\ Pended(pc, "verify", ok)
    /\ pc' = "ready"
    /\ lib' \in IF lib = "idle" THEN Taken("own") ELSE {lib}
    /\ sem' = IF ok THEN sem - 1 ELSE sem
    /\ UNCHANGED <<phoneVars, over, updateVars, netVars, slaveVars>>

\* The slave's verification counts as passed: the master starts its own, unless
\* its library is still at work.
VerifyReturns(ok) ==
    /\ Pended(pc, "verify", ok)
    /\ pc' = "ready"
    /\ lib' \in IF ok /\ lib = "idle" THEN Taken("own") ELSE {lib}
    /\ sem' = IF ok THEN sem - 1 ELSE sem
    /\ UNCHANGED <<phoneVars, over, updateVars, netVars, slaveVars>>

-----------------------------------------------------------------------------
(* The master: callbacks of its own library *)

\* tws_ota_err_callback posts OTA_UPDATE_ERR to this bud, and the phone is
\* told of the failure.
Fail(exits) ==
    /\ lib' = "idle" /\ phone' = FALSE /\ result' = "failed"
    /\ exitEvent' = [exitEvent EXCEPT !["master"] = TRUE]
    /\ open' = IF exits THEN [open EXCEPT !["master"] = FALSE] ELSE open

\* A job of an update that has ended is never called back.
Abandoned ==
    /\ lib \in {"own", "burn"} /\ ~open["master"]
    /\ lib' = "idle"
    /\ UNCHANGED <<phoneVars, pc, sem, over, updateVars, netVars, slaveVars>>

\* Mutant: the slave is told before the result is looked at.
OwnVerifiedUnheeded(good) ==
    /\ lib = "own" /\ open["master"]
    /\ verified' = [verified EXCEPT !["master"] = good]
    /\ IF good /\ linked
       THEN lib' = "exit" /\ UNCHANGED <<phone, result, exitEvent, open>>
       ELSE Fail(~good)
    /\ ToSlave("write_boot_info")
    /\ UNCHANGED <<first, sent, starts, verifies, orderly, pc, sem, over, burned, rebooted,
                   slaveVars>>

\* passive_ota_crc_result_call_back with tws_ota_exit_verify up to its pend:
\* the image is good here as well, so the slave is told to write its boot
\* info.  The semaphore is not emptied first.
OwnVerified(good) ==
    /\ lib = "own" /\ open["master"]
    /\ verified' = [verified EXCEPT !["master"] = good]
    /\ IF good /\ linked
       THEN lib' = "exit" /\ UNCHANGED <<phone, result, exitEvent, open>>
       ELSE Fail(~good)
    /\ IF good THEN ToSlave("write_boot_info") ELSE UNCHANGED netVars
    /\ UNCHANGED <<first, sent, starts, verifies, orderly, pc, sem, over, burned, rebooted,
                   slaveVars>>

\* Mutants: the result of the pend is not looked at; it has no timeout.
ExitReturnsAlways(ok) ==
    /\ Pended(lib, "exit", ok)
    /\ sem' = IF ok THEN sem - 1 ELSE sem
    /\ lib' \in Taken("burn")
    /\ UNCHANGED <<phoneVars, pc, over, updateVars, netVars, slaveVars>>
ExitWaitsForever(ok) ==
    /\ ok /\ Pended(lib, "exit", ok)
    /\ sem' = sem - 1 /\ lib' \in Taken("burn")
    /\ UNCHANGED <<phoneVars, pc, over, updateVars, netVars, slaveVars>>

\* The slave's answer decides: without it the update has failed, whatever the
\* slave has done.
ExitReturns(ok) ==
    /\ Pended(lib, "exit", ok)
    /\ sem' = IF ok THEN sem - 1 ELSE sem
    /\ IF ok
       THEN lib' \in Taken("burn") /\ UNCHANGED <<phone, result, exitEvent, open>>
       ELSE Fail(FALSE)
    /\ UNCHANGED <<first, sent, starts, verifies, orderly, pc, over, verified, burned,
                   rebooted, netVars, slaveVars>>

\* passive_ota_set_boot_info_callback: on success both buds are reset by a
\* synchronised call (tws_ota_result).
OwnBurned(ok) ==
    /\ lib = "burn" /\ open["master"]
    /\ IF ok
       THEN /\ burned' = [burned EXCEPT !["master"] = TRUE]
            /\ lib' = "idle" /\ phone' = FALSE /\ result' = "succ" /\ over' = TRUE
            /\ UNCHANGED <<open, exitEvent>>
       ELSE Fail(TRUE) /\ UNCHANGED <<burned, over>>
    /\ UNCHANGED <<first, sent, starts, verifies, orderly, pc, sem, verified, rebooted,
                   netVars, slaveVars>>

\* tws_ota_sync_cmd on both buds; a slave that is out of reach is not reset.
SyncOver ==
    /\ over /\ over' = FALSE
    /\ rebooted' = [b \in Bud |-> rebooted[b] \/ b = "master" \/ linked]
    /\ open' = [b \in Bud |-> open[b] /\ ~rebooted'[b]]
    /\ pc' = "ready" /\ lib' = "idle" /\ phone' = FALSE
    /\ UNCHANGED <<first, sent, result, starts, verifies, orderly, sem, verified, burned,
                   exitEvent, netVars, slaveVars>>

\* app_protocol_ota_interrupt_by_disconnect: the phone goes away; it runs in
\* the thread of the requests, so never while one of them is blocked.  After
\* a success the master resets itself.
PhoneDisconnect ==
    /\ phone \/ over
    /\ pc \notin InHandler
    /\ phone' = FALSE
    /\ exitEvent' = [exitEvent EXCEPT !["master"] = TRUE]
    /\ open' = [open EXCEPT !["master"] = FALSE]
    /\ rebooted' = [rebooted EXCEPT !["master"] = @ \/ result = "succ"]
    /\ over' = (over /\ ~rebooted'["master"])
    /\ UNCHANGED <<first, sent, result, starts, verifies, orderly, pc, lib, sem, verified,
                   burned, netVars, slaveVars>>

-----------------------------------------------------------------------------
(* The receive callback, deal_sibling_tws_ota_trans *)

\* The link may call back twice for one packet: it stays at the head.
Received(q) == {Tail(q), q}

\* An answer with OTA_TWS_CMD_SUCC posts the semaphore.  The refusal of a
\* verification is two bytes long and its status, the third, is read all the
\* same.
Posts(m) ==
    CASE m.status = "succ" -> {TRUE}
      [] m.status = "past_end" /\ PastEndReads -> BOOLEAN
      [] OTHER -> {FALSE}

\* Mutant: the second call is not recognised.
MasterReceiveTwice ==
    /\ toM # <<>> /\ toM' \in Received(toM)
    /\ \E p \in Posts(Head(toM)) : sem' = IF p THEN sem + 1 ELSE sem
    /\ UNCHANGED <<phoneVars, pc, lib, over, updateVars, sn, last, linked, toS, drops,
                   slaveVars>>

\* One call of the callback on the master; the second call for a packet is
\* recognised by its number.
MasterReceive ==
    /\ toM # <<>> /\ toM' \in Received(toM)
    /\ LET m == Head(toM) IN
         IF m.sn = last["master"]
         THEN UNCHANGED <<last, sem>>
         ELSE /\ last' = [last EXCEPT !["master"] = m.sn]
              /\ \E p \in Posts(m) : sem' = IF p THEN sem + 1 ELSE sem
    /\ UNCHANGED <<phoneVars, pc, lib, over, updateVars, sn, linked, toS, drops, slaveVars>>

\* What a fresh message does on the slave.  A packet of an earlier image that is
\* still to be written spoils the new one.  Without an initialised update the
\* library refuses every job; it may refuse to verify at any time.
SlaveStart(fits) ==
    /\ open' = [open EXCEPT !["slave"] = TRUE]
    /\ verified' = [verified EXCEPT !["slave"] = FALSE]
    /\ exitEvent' = [exitEvent EXCEPT !["slave"] = @ \/ ~fits]
    /\ jobs' \in {jobs, <<>>}
    /\ written' = IF \E i \in DOMAIN jobs' : jobs'[i] = "data" THEN Spoiled ELSE 0
    /\ Answer("start_rsp", IF fits THEN "succ" ELSE "err")

SlaveJob(job) ==
    /\ jobs' = IF open["slave"] THEN Append(jobs, job) ELSE jobs
    /\ UNCHANGED <<open, verified, exitEvent, written, sn, toM>>

SlaveRefuses ==
    /\ Answer("verify_rsp", "past_end")
    /\ UNCHANGED <<open, verified, exitEvent, jobs, written>>

SlaveHandles(m) ==
    \/ m.type = "start" /\ \E fits \in BOOLEAN : SlaveStart(fits)
    \/ m.type = "verify" /\ open["slave"] /\ SlaveJob("verify")
    \/ m.type = "verify" /\ SlaveRefuses
    \/ m.type \in {"data", "write_boot_info"} /\ SlaveJob(m.type)

\* Mutant: the timeout is only restarted, never started.
SlaveReceiveNoTimer ==
    /\ toS # <<>> /\ toS' \in Received(toS)
    /\ LET m == Head(toS) IN
         IF m.sn = last["slave"]
         THEN UNCHANGED <<last, open, verified, exitEvent, jobs, written, sn, toM>>
         ELSE /\ last' = [last EXCEPT !["slave"] = m.sn]
              /\ SlaveHandles(m)
    /\ UNCHANGED <<timer, phoneVars, pc, lib, sem, over, burned, rebooted, linked, drops>>

\* Every fresh message restarts the slave's timeout.
SlaveReceive ==
    /\ toS # <<>> /\ toS' \in Received(toS)
    /\ LET m == Head(toS) IN
         IF m.sn = last["slave"]
         THEN UNCHANGED <<last, timer, open, verified, exitEvent, jobs, written, sn, toM>>
         ELSE /\ last' = [last EXCEPT !["slave"] = m.sn]
              /\ timer' = TRUE
              /\ SlaveHandles(m)
    /\ UNCHANGED <<phoneVars, pc, lib, sem, over, burned, rebooted, linked, drops>>

-----------------------------------------------------------------------------
(* The slave's update task and its timeout *)

\* The callbacks: tws_trans_data_write_callback answers every packet,
\* tws_verify_result_hdl reports the CRC (an image with a packet missing is
\* never good), dual_bank_update_burn_boot_info_callback answers a success
\* and is silent on a failure.
SlaveTask ==
    /\ jobs # <<>> /\ open["slave"] /\ jobs' = Tail(jobs)
    /\ \/ /\ Head(jobs) = "data"
          /\ written' = IF written = Spoiled THEN Spoiled ELSE written + 1
          /\ Answer("data_rsp", "succ")
          /\ UNCHANGED <<verified, burned>>
       \/ /\ Head(jobs) = "verify"
          /\ \E good \in {FALSE, written = MaxPackets} :
               /\ verified' = [verified EXCEPT !["slave"] = good]
               /\ Answer("verify_rsp", IF good THEN "succ" ELSE "err")
          /\ UNCHANGED <<burned, written>>
       \/ /\ Head(jobs) = "write_boot_info"
          /\ burned' = [burned EXCEPT !["slave"] = TRUE]
          /\ Answer("write_boot_info_rsp", "succ")
          /\ UNCHANGED <<verified, written>>
       \/ /\ Head(jobs) = "write_boot_info"
          /\ UNCHANGED <<sn, toM, verified, burned, written>>
    /\ UNCHANGED <<phoneVars, pc, lib, sem, over, open, rebooted, exitEvent, last, linked,
                   toS, drops, timer>>

\* tws_ota_timeout: no message for 8 s, the slave leaves the update.
SlaveTimeout ==
    /\ timer /\ timer' = FALSE
    /\ open' = [open EXCEPT !["slave"] = FALSE] /\ jobs' = <<>>
    /\ UNCHANGED <<phoneVars, pc, lib, sem, over, verified, burned, rebooted, exitEvent,
                   netVars, written>>

-----------------------------------------------------------------------------
HandlerReturns(ok) ==
    OpenReturns(ok) \/ DataReturns(ok) \/ CrcReturns(ok) \/ VerifyReturns(ok)

Next ==
    \/ OtaCheck \/ TransData \/ CheckCrc
    \/ \E ok \in BOOLEAN :
          HandlerReturns(ok) \/ OwnVerified(ok) \/ ExitReturns(ok) \/ OwnBurned(ok)
    \/ Abandoned \/ SyncOver \/ PhoneDisconnect
    \/ MasterReceive \/ SlaveReceive \/ SlaveTask \/ SlaveTimeout
    \/ LinkDrop \/ LinkUp \/ \E b \in Bud : ExitEvent(b)

Spec == Init /\ [][Next]_vars

\* A pend always ends, the library finishes or abandons a job, and the slave's
\* timeout fires.  Nothing is asked of the phone or of the link.
Fairness ==
    /\ WF_vars(\E ok \in BOOLEAN : HandlerReturns(ok))
    /\ WF_vars(\E ok \in BOOLEAN : ExitReturns(ok))
    /\ WF_vars(Abandoned \/ \E ok \in BOOLEAN : OwnVerified(ok) \/ OwnBurned(ok))
    /\ WF_vars(SlaveTimeout)

FairSpec == Spec /\ Fairness

-----------------------------------------------------------------------------
(* Properties *)

\* Types.  As long as no request meets anything of an earlier one, at most one
\* answer is unclaimed: tws_ota_sem does not count above 1 although packets may
\* be called back twice (the check on last_sync_update_sn in
\* deal_sibling_tws_ota_trans).
TypeOK ==
    /\ phone \in BOOLEAN /\ orderly \in BOOLEAN
    /\ pc \in {"ready"} \cup InHandler /\ lib \in {"idle"} \cup InLibrary
    /\ sem \in Nat /\ (orderly => sem <= 1)
    /\ first \in BOOLEAN /\ sent \in 0..MaxPackets
    /\ result \in {"none", "succ", "failed"} /\ over \in BOOLEAN
    /\ starts \in 0..MaxStarts /\ verifies \in 0..MaxVerifies /\ drops \in 0..MaxDrops
    /\ open \in [Bud -> BOOLEAN] /\ verified \in [Bud -> BOOLEAN]
    /\ burned \in [Bud -> BOOLEAN] /\ rebooted \in [Bud -> BOOLEAN]
    /\ exitEvent \in [Bud -> BOOLEAN]
    /\ sn \in [Bud -> 0..255] /\ last \in [Bud -> 0..255] /\ linked \in BOOLEAN
    /\ timer \in BOOLEAN /\ written \in 0..Spoiled

\* A bud writes its boot info only for an image it has itself verified: the
\* slave writes whenever it is told to, so this rests on the master's reading
\* of the answers (tws_ota_enter_verify, tws_ota_exit_verify).  Answers that
\* come late, twice or never within an update do not deceive it; an answer of
\* an earlier request does, see LateAnswersHarmless.
BurnAfterVerify ==
    [][orderly => \A b \in Bud : burned'[b] /\ ~burned[b] => verified[b]]_vars

\* When the update resets a bud, both have written their boot info.  It speaks of
\* the resets of tws_ota_sync_cmd and app_protocol_message_handler, and not of power
\* cycles: when the answer of a slave that has burned comes after the timeout of
\* tws_ota_exit_verify, the master gives up, and the next one boots two versions.
RebootTogetherUpdated ==
    orderly => \A b \in Bud : rebooted[b] => \A c \in Bud : burned[c]

\* The slave programs its boot info only after its image was verified, also
\* when an update is announced while an answer of the one before is to come.
LateAnswersHarmless ==
    [][burned'["slave"] /\ ~burned["slave"] => verified["slave"]]_vars

\* A bud that has entered the update as slave leaves it, whatever becomes of
\* the master, the phone and the link (tws_ota_timeout).
SlaveLeavesUpdate == open["slave"] ~> ~open["slave"]

\* Every request of the phone is answered and the update task comes to an end:
\* no pend of the master waits for an answer that may never come.
RequestAnswered ==
    /\ pc # "ready" ~> pc = "ready"
    /\ lib # "idle" ~> lib = "idle"

\* What the update promises for the pair; see PairUpdate.
Update == INSTANCE PairUpdate WITH
              good  <- verified,
              boots <- burned,
              left  <- rebooted,
              said  <- result

\* As long as no request meets anything of an earlier one, every step is one of
\* PairUpdate, whatever timeouts, losses and failures of either side occur: the
\* pair commits in order, both images good and the slave first, and the update
\* resets no bud that has committed alone.
ImplementsPairUpdate ==
    Update!Init /\ [][orderly' => Update!Next \/ UNCHANGED Update!vars]_vars

=============================================================================
