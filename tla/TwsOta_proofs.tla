--------------------------- MODULE TwsOta_proofs ----------------------------
(***************************************************************************)
(* Theorems of TwsOta: types and limits; as long as no request meets       *)
(* anything of an earlier one, both buds updated before either resets, and,*)
(* if no byte past the end of an answer is taken for a success, no boot    *)
(* info for an unverified image and an ordered commitment of the pair:     *)
(* TwsOta implements PairUpdate.                                           *)
(*                                                                         *)
(* The argument is that an orderly exchange has one token.  A request that *)
(* the slave has not read, a job of its update task, an answer that the    *)
(* master has not read and a post nobody has taken are the four places     *)
(* where it can be, it is in one of them at most, and the master sends     *)
(* only when it is in none.  What the token means follows from where the   *)
(* master stands.                                                          *)
(***************************************************************************)
EXTENDS TwsOta, SequenceTheorems, TLAPS

Requests == {"start", "data", "verify", "write_boot_info"}
Jobs     == {"data", "verify", "write_boot_info"}
Answers  == {"start_rsp", "data_rsp", "verify_rsp", "write_boot_info_rsp"}

MessageOf(types) ==
    [type : types, sn : 0..255, status : {"none", "succ", "err", "past_end"}]

\* A queue whose reader has seen the number n last: only its last message can
\* be new to the reader, and that is the case unless it is alone and seen.
Tidy(s, n)  == Len(s) \in 0..2 /\ (Len(s) = 2 => s[1].sn = n)
Fresh(s, n) == Len(s) # 0 /\ (Len(s) = 1 => s[1].sn # n)
Newest(s)   == s[Len(s)]

\* Where the token can be: on its way to the slave, in the slave's update
\* task, on its way back; the fourth place is the semaphore.
Asked    == Fresh(toS, last["slave"])
Working  == jobs # <<>>
Answered == Fresh(toM, last["master"])
Idle     == ~Asked /\ ~Working /\ ~Answered /\ sem = 0

\* The token is a request of this type.
Pending(type) ==
    \/ Asked /\ Newest(toS).type = type
    \/ Working /\ Head(jobs) = type

\* Only a request of this type can be the token.
OnlyPending(type) ==
    /\ Asked => Newest(toS).type = type
    /\ Working => Head(jobs) = type

-----------------------------------------------------------------------------
(* The invariants *)

\* What is on its way, and the limits of the two requests that wait; these hold
\* whatever the phone does.
Queued ==
    /\ toS \in Seq(MessageOf(Requests)) /\ toM \in Seq(MessageOf(Answers))
    /\ jobs \in Seq(Jobs)
    /\ pc = "data" => sent < MaxPackets
    /\ pc = "crc" => verifies < MaxVerifies

MessageInv ==
    /\ toS \in Seq(MessageOf(Requests)) /\ Tidy(toS, last["slave"])
    /\ toM \in Seq(MessageOf(Answers)) /\ Tidy(toM, last["master"])
    /\ jobs \in Seq(Jobs) /\ Len(jobs) \in 0..1

OneToken ==
    /\ Asked => ~Working /\ ~Answered /\ sem = 0
    /\ Working => ~Answered /\ sem = 0
    /\ Answered => sem = 0
    /\ sem \in 0..1
    /\ lib # "idle" => pc = "ready"
    /\ lib \in {"own", "burn"} => Idle
    /\ phone /\ first /\ pc # "open" => Idle

Requested ==
    /\ pc \in InHandler => phone
    /\ first => sent = 0
    /\ pc \notin {"ready", "open"} \/ lib # "idle" => ~first
    /\ pc = "data" => sent < MaxPackets
    /\ pc = "crc" => verifies < MaxVerifies
    /\ pc = "open" => /\ ~Working /\ (Asked => Newest(toS).type = "start")
                      /\ Answered \/ sem = 1 => written = 0
    /\ Pending("data") => written < sent
    /\ phone /\ pc # "open" => written <= sent

BurnInv ==
    /\ lib = "exit" => /\ OnlyPending("write_boot_info")
                       /\ Answered \/ sem = 1 => burned["slave"]
    /\ lib = "burn" => burned["slave"]
    /\ over => result = "succ"
    /\ result = "succ" => /\ pc = "ready" /\ lib = "idle" /\ ~phone
                          /\ (over \/ rebooted["master"])
                          /\ \A b \in Bud : burned[b]
    /\ \A b \in Bud : rebooted[b] => \A c \in Bud : burned[c]

OtaInv == MessageInv /\ OneToken /\ Requested /\ BurnInv

VerifyInv ==
    /\ pc = "verify" =>
          /\ OnlyPending("verify")
          /\ Answered /\ Newest(toM).status = "succ" => verified["slave"]
          /\ sem = 1 => verified["slave"]
    /\ lib = "own" => verified["slave"]
    /\ lib \in {"exit", "burn"} => verified["master"]
    /\ Pending("write_boot_info") => verified["slave"]
-----------------------------------------------------------------------------
(* Queues: sending and receiving one message *)

\* A message sent when the reader has seen everything is the newest there is.
LEMMA Sent ==
    ASSUME NEW types, NEW s \in Seq(MessageOf(types)), NEW m \in MessageOf(types),
           NEW n, Tidy(s, n), ~Fresh(s, n)
    PROVE  /\ Append(s, m) \in Seq(MessageOf(types)) /\ Tidy(Append(s, m), n)
           /\ Newest(Append(s, m)) = m
<1> DEFINE t == Append(s, m)
<1>1. /\ t \in Seq(MessageOf(types)) /\ Len(t) = Len(s) + 1 /\ Len(s) \in Nat
      /\ t[Len(s) + 1] = m /\ (Len(s) = 1 => t[1] = s[1])
  OBVIOUS
<1> HIDE DEF t
<1>2. Len(s) \in 0..1 /\ (Len(s) = 1 => s[1].sn = n)
  BY DEF Tidy, Fresh
<1>3. Tidy(t, n)
  <2>1. CASE Len(s) = 0
    BY <1>1, <2>1 DEF Tidy
  <2>2. CASE Len(s) = 1
    BY <1>1, <1>2, <2>2 DEF Tidy
  <2> QED
    BY <1>2, <2>1, <2>2
<1>4. Newest(t) = m
  BY <1>1 DEF Newest
<1> QED
  BY <1>1, <1>3, <1>4 DEF t

\* A message seen before changes nothing, whether or not it stays at the head.
LEMMA SeenAgain ==
    ASSUME NEW types, NEW s \in Seq(MessageOf(types)), s # <<>>, NEW t \in Received(s),
           NEW n, Tidy(s, n), Head(s).sn = n
    PROVE  /\ t \in Seq(MessageOf(types)) /\ Tidy(t, n)
           /\ Fresh(t, n) => Fresh(s, n) /\ Newest(t) = Newest(s)
<1>1. CASE t = s
  BY <1>1
<1>2. CASE t = Tail(s)
  <2>1. /\ t \in Seq(MessageOf(types)) /\ Len(t) = Len(s) - 1 /\ Len(s) \in Nat \ {0}
        /\ Head(s) = s[1] /\ (Len(s) = 2 => t[1] = s[2])
    BY <1>2
  <2>2. Len(s) = 1 => ~Fresh(t, n) /\ Tidy(t, n)
    BY <2>1 DEF Fresh, Tidy
  <2>3. Len(s) = 2 => Fresh(s, n) /\ Tidy(t, n) /\ Newest(t) = Newest(s)
    BY <2>1 DEF Fresh, Tidy, Newest
  <2>4. Len(s) \in {1, 2}
    BY <2>1 DEF Tidy
  <2> QED
    BY <2>1, <2>2, <2>3, <2>4
<1> QED
  BY <1>1, <1>2 DEF Received

\* A message not seen before is the newest, and nothing new is behind it.
LEMMA SeenFirst ==
    ASSUME NEW types, NEW s \in Seq(MessageOf(types)), s # <<>>, NEW t \in Received(s),
           NEW n, Tidy(s, n), Head(s).sn # n
    PROVE  /\ Head(s) \in MessageOf(types) /\ Head(s) = Newest(s) /\ Fresh(s, n)
           /\ t \in Seq(MessageOf(types)) /\ Tidy(t, Head(s).sn) /\ ~Fresh(t, Head(s).sn)
<1>1. /\ Len(s) \in Nat \ {0} /\ Head(s) = s[1] /\ Head(s) \in MessageOf(types)
  OBVIOUS
<1>2. Len(s) = 1
  BY <1>1 DEF Tidy
<1>3. /\ Head(s) = Newest(s) /\ Fresh(s, n)
      /\ Tidy(s, Head(s).sn) /\ ~Fresh(s, Head(s).sn)
  BY <1>1, <1>2 DEF Tidy, Fresh, Newest
<1>4. Tail(s) \in Seq(MessageOf(types)) /\ Len(Tail(s)) = 0
  BY <1>2
<1>5. Tidy(Tail(s), Head(s).sn) /\ ~Fresh(Tail(s), Head(s).sn)
  <2> DEFINE t1 == Tail(s)
  <2>1. Len(t1) = 0
    BY <1>4
  <2> HIDE DEF t1
  <2>2. Tidy(t1, Head(s).sn) /\ ~Fresh(t1, Head(s).sn)
    BY <2>1 DEF Tidy, Fresh
  <2> QED
    BY <2>2 DEF t1
<1> QED
  BY <1>1, <1>3, <1>4, <1>5 DEF Received

\* Nothing is new in an empty queue.
LEMMA Empty ==
    ASSUME NEW types, NEW n
    PROVE  /\ <<>> \in Seq(MessageOf(types)) /\ Tidy(<<>>, n) /\ ~Fresh(<<>>, n)
BY DEF Tidy, Fresh

-----------------------------------------------------------------------------
(* What a step does to the token *)

\* The limits of the model, one by one.
LEMMA Limits ==
    /\ MaxPackets \in Nat /\ MaxPackets > 0 /\ MaxStarts \in Nat
    /\ MaxVerifies \in Nat /\ MaxDrops \in Nat
BY OtaAssumption

\* A message is numbered in one byte.
LEMMA Numbers == ASSUME TypeOK, NEW b \in Bud PROVE NextSn(b) \in 0..255
<1>1. sn[b] \in 0..255
  BY DEF TypeOK
<1> QED
  BY <1>1 DEF NextSn

\* A message of the master leaves, or does not as there is no sibling.
LEMMA ToSlaveTyped ==
    ASSUME TypeOK, toS \in Seq(MessageOf(Requests)), NEW type \in Requests, ToSlave(type)
    PROVE  /\ sn' \in [Bud -> 0..255] /\ UNCHANGED <<last, linked, toM, drops>>
           /\ \/ toS' = toS
              \/ \E m \in MessageOf(Requests) : m.type = type /\ toS' = Append(toS, m)
           /\ toS' \in Seq(MessageOf(Requests))
<1> DEFINE m == Message("master", type, "none")
<1>1. NextSn("master") \in 0..255 /\ sn' \in [Bud -> 0..255]
  <2>1. "master" \in Bud /\ sn \in [Bud -> 0..255]
    BY DEF TypeOK, Bud
  <2> QED
    BY <2>1, Numbers DEF ToSlave
<1>2. m \in MessageOf(Requests) /\ m.type = type
  BY <1>1 DEF Message, MessageOf
<1>3. /\ toS' = toS \/ toS' = Append(toS, m)
      /\ UNCHANGED <<last, linked, toM, drops>>
  BY DEF ToSlave
<1> HIDE DEF m
<1>4. toS' \in Seq(MessageOf(Requests))
  BY <1>2, <1>3
<1> QED
  BY <1>1, <1>2, <1>3, <1>4

\* So does an answer of the slave.
LEMMA AnswerTyped ==
    ASSUME TypeOK, toM \in Seq(MessageOf(Answers)), NEW type \in Answers,
           NEW status \in {"succ", "err", "past_end"}, Answer(type, status)
    PROVE  /\ sn' \in [Bud -> 0..255]
           /\ \/ toM' = toM
              \/ \E m \in MessageOf(Answers) : m.status = status /\ toM' = Append(toM, m)
           /\ toM' \in Seq(MessageOf(Answers))
<1> DEFINE m == Message("slave", type, status)
<1>1. NextSn("slave") \in 0..255 /\ sn' \in [Bud -> 0..255]
  <2>1. "slave" \in Bud /\ sn \in [Bud -> 0..255]
    BY DEF TypeOK, Bud
  <2> QED
    BY <2>1, Numbers DEF Answer
<1>2. m \in MessageOf(Answers) /\ m.status = status
  BY <1>1 DEF Message, MessageOf
<1>3. toM' = toM \/ toM' = Append(toM, m)
  BY DEF Answer
<1> HIDE DEF m
<1>4. toM' \in Seq(MessageOf(Answers))
  BY <1>2, <1>3
<1> QED
  BY <1>1, <1>2, <1>3, <1>4

\* A request of the master, sent when no other is pending: if it leaves at
\* all it is the token.
LEMMA ToSlaveToken ==
    ASSUME TypeOK, MessageInv, ~Asked, NEW type \in Requests, ToSlave(type)
    PROVE  /\ sn' \in [Bud -> 0..255] /\ UNCHANGED <<last, linked, toM, drops>>
           /\ toS' \in Seq(MessageOf(Requests)) /\ Tidy(toS', last'["slave"])
           /\ Asked' => Newest(toS').type = type
           /\ Answered' <=> Answered
<1>1. /\ sn' \in [Bud -> 0..255] /\ UNCHANGED <<last, linked, toM, drops>>
      /\ \/ toS' = toS
         \/ \E m \in MessageOf(Requests) : m.type = type /\ toS' = Append(toS, m)
  BY ToSlaveTyped DEF MessageInv
<1>2. CASE toS' = toS
  BY <1>1, <1>2 DEF Asked, Answered, MessageInv
<1>3. ASSUME NEW m \in MessageOf(Requests), m.type = type, toS' = Append(toS, m)
      PROVE  /\ toS' \in Seq(MessageOf(Requests)) /\ Tidy(toS', last'["slave"])
             /\ Newest(toS').type = type
  BY <1>1, <1>3, Sent DEF Asked, MessageInv
<1> QED
  BY <1>1, <1>2, <1>3 DEF Answered

\* An answer of the slave, given when the master has read every other.
LEMMA AnswerToken ==
    ASSUME TypeOK, MessageInv, ~Answered, NEW type \in Answers,
           NEW status \in {"succ", "err", "past_end"}, Answer(type, status),
           last'["master"] = last["master"]
    PROVE  /\ sn' \in [Bud -> 0..255]
           /\ toM' \in Seq(MessageOf(Answers)) /\ Tidy(toM', last'["master"])
           /\ Answered' => Newest(toM').status = status
<1>1. /\ sn' \in [Bud -> 0..255]
      /\ \/ toM' = toM
         \/ \E m \in MessageOf(Answers) : m.status = status /\ toM' = Append(toM, m)
  BY AnswerTyped DEF MessageInv
<1>2. CASE toM' = toM
  BY <1>1, <1>2 DEF Answered, MessageInv
<1>3. ASSUME NEW m \in MessageOf(Answers), m.status = status, toM' = Append(toM, m)
      PROVE  /\ toM' \in Seq(MessageOf(Answers)) /\ Tidy(toM', last'["master"])
             /\ Newest(toM').status = status
  BY <1>1, <1>3, Sent DEF Answered, MessageInv
<1> QED
  BY <1>1, <1>2, <1>3

\* Neither end of the exchange looks at it.
LEMMA TokenStays ==
    ASSUME UNCHANGED <<last, toS, toM>>
    PROVE  /\ Asked' = Asked /\ Answered' = Answered
           /\ MessageInv /\ jobs' = jobs => MessageInv'
BY DEF Asked, Answered, MessageInv

\* The master reads an answer: a fresh one may become a post.
LEMMA MasterReads ==
    ASSUME TypeOK, OtaInv, MasterReceive
    PROVE  /\ MessageInv' /\ last' \in [Bud -> 0..255] /\ Asked' = Asked
           /\ \/ /\ sem' = sem
                 /\ Answered' => Answered /\ Newest(toM') = Newest(toM)
              \/ /\ Answered /\ ~Answered' /\ sem' \in {sem, sem + 1}
                 /\ sem' = sem + 1 => Newest(toM).status = "succ" \/ PastEndReads
<1> DEFINE m == Head(toM)
<1>1. /\ toM \in Seq(MessageOf(Answers)) /\ toM # <<>> /\ toM' \in Received(toM)
      /\ Tidy(toM, last["master"]) /\ last \in [Bud -> 0..255] /\ "master" \in Bud
      /\ UNCHANGED <<toS, jobs>> /\ MessageInv
  BY DEF MasterReceive, OtaInv, MessageInv, TypeOK, netVars, slaveVars, Bud
<1>2. CASE m.sn = last["master"]
  <2>1. UNCHANGED <<last, sem>>
    BY <1>2 DEF MasterReceive
  <2>2. /\ toM' \in Seq(MessageOf(Answers)) /\ Tidy(toM', last["master"])
        /\ Fresh(toM', last["master"]) =>
              Fresh(toM, last["master"]) /\ Newest(toM') = Newest(toM)
    BY <1>1, <1>2, SeenAgain
  <2> QED
    BY <1>1, <2>1, <2>2 DEF Asked, Answered, MessageInv
<1>3. CASE m.sn # last["master"]
  <2>1. /\ m \in MessageOf(Answers) /\ m = Newest(toM) /\ Fresh(toM, last["master"])
        /\ toM' \in Seq(MessageOf(Answers)) /\ Tidy(toM', m.sn) /\ ~Fresh(toM', m.sn)
    BY <1>1, <1>3, SeenFirst
  <2>2. /\ last' = [last EXCEPT !["master"] = m.sn]
        /\ \E p \in Posts(m) : sem' = IF p THEN sem + 1 ELSE sem
    BY <1>3 DEF MasterReceive
  <2>3. m.sn \in 0..255
    BY <2>1 DEF MessageOf
  <2>4. /\ last' \in [Bud -> 0..255] /\ last'["master"] = m.sn
        /\ last'["slave"] = last["slave"]
    BY <1>1, <2>2, <2>3 DEF Bud
  <2>5. sem' \in {sem, sem + 1} /\ (sem' = sem + 1 => m.status = "succ" \/ PastEndReads)
    <3>1. TRUE \in Posts(m) => m.status = "succ" \/ PastEndReads
      BY DEF Posts
    <3>2. sem \in Nat
      BY DEF TypeOK
    <3>3. PICK p \in Posts(m) : sem' = IF p THEN sem + 1 ELSE sem
      BY <2>2
    <3>4. Posts(m) \subseteq BOOLEAN
      BY DEF Posts
    <3>5. CASE p = TRUE
      BY <3>1, <3>3, <3>5
    <3>6. CASE p = FALSE
      BY <3>2, <3>3, <3>6
    <3> QED
      BY <3>4, <3>5, <3>6
  <2> QED
    BY <1>1, <2>1, <2>4, <2>5 DEF Asked, Answered, MessageInv
<1> QED
  BY <1>2, <1>3

\* The slave's library gets a job when it has none.
LEMMA JobQueued ==
    ASSUME MessageInv, ~Working, NEW job \in Jobs, SlaveJob(job)
    PROVE  jobs' \in Seq(Jobs) /\ Len(jobs') \in 0..1 /\ (Working' => Head(jobs') = job)
<1>1. jobs = <<>>
  BY DEF Working
<1>2. jobs' = jobs \/ jobs' = Append(jobs, job)
  BY DEF SlaveJob
<1>3. CASE jobs' = jobs
  BY <1>3 DEF MessageInv, Working
<1>4. CASE jobs' = Append(jobs, job)
  BY <1>1, <1>4
<1> QED
  BY <1>2, <1>3, <1>4

\* No job is left once the only one is done.
LEMMA JobDone ==
    ASSUME MessageInv, Working
    PROVE  Tail(jobs) = <<>> /\ Head(jobs) \in Jobs
<1>1. Tail(jobs) \in Seq(Jobs) /\ Len(Tail(jobs)) = 0 /\ Head(jobs) \in Jobs
  BY DEF MessageInv, Working
<1> QED
  BY <1>1, EmptySeq

\* What the slave makes of a request: it has seen it before, starts an update,
\* queues a job, or refuses to verify.
SeenRequest ==
    /\ UNCHANGED <<timer, open, verified, exitEvent, jobs, written, toM>>
    /\ Answered' = Answered
    /\ Asked' => Asked /\ Newest(toS') = Newest(toS)
StartRequest ==
    /\ Newest(toS).type = "start" /\ timer' = TRUE
    /\ Asked /\ ~Asked' /\ ~Working' /\ written' = 0
    /\ open' = [open EXCEPT !["slave"] = TRUE]
    /\ verified' = [verified EXCEPT !["slave"] = FALSE]
    /\ \E fits \in BOOLEAN : exitEvent' = [exitEvent EXCEPT !["slave"] = @ \/ ~fits]
JobRequest ==
    /\ Newest(toS).type \in Jobs /\ timer' = TRUE
    /\ Asked /\ ~Asked' /\ ~Answered'
    /\ Working' => Head(jobs') = Newest(toS).type
    /\ UNCHANGED <<open, verified, exitEvent, written>>
RefusedRequest ==
    /\ Newest(toS).type = "verify" /\ timer' = TRUE
    /\ Asked /\ ~Asked' /\ ~Working'
    /\ Answered' => Newest(toM').status = "past_end"
    /\ UNCHANGED <<open, verified, exitEvent, written>>

\* The slave reads a request: it does one of these four.
LEMMA SlaveReads ==
    ASSUME TypeOK, OtaInv, SlaveReceive
    PROVE  /\ MessageInv' /\ last' \in [Bud -> 0..255] /\ sn' \in [Bud -> 0..255]
           /\ SeenRequest \/ StartRequest \/ JobRequest \/ RefusedRequest
<1> DEFINE m == Head(toS)
<1>1. /\ toS \in Seq(MessageOf(Requests)) /\ toS # <<>> /\ toS' \in Received(toS)
      /\ Tidy(toS, last["slave"]) /\ last \in [Bud -> 0..255] /\ sn \in [Bud -> 0..255]
      /\ Bud = {"master", "slave"} /\ MessageInv
  BY DEF SlaveReceive, OtaInv, MessageInv, TypeOK, Bud
<1>2. CASE m.sn = last["slave"]
  <2>1. UNCHANGED <<last, timer, open, verified, exitEvent, jobs, written, sn, toM>>
    BY <1>2 DEF SlaveReceive
  <2>2. /\ toS' \in Seq(MessageOf(Requests)) /\ Tidy(toS', last["slave"])
        /\ Fresh(toS', last["slave"]) =>
              Fresh(toS, last["slave"]) /\ Newest(toS') = Newest(toS)
    BY <1>1, <1>2, SeenAgain
  <2> QED
    BY <1>1, <2>1, <2>2 DEF Asked, Answered, MessageInv, SeenRequest
<1>3. CASE m.sn # last["slave"]
  <2>1. /\ m \in MessageOf(Requests) /\ m = Newest(toS) /\ Fresh(toS, last["slave"])
        /\ toS' \in Seq(MessageOf(Requests)) /\ Tidy(toS', m.sn) /\ ~Fresh(toS', m.sn)
    BY <1>1, <1>3, SeenFirst
  <2>2. last' = [last EXCEPT !["slave"] = m.sn] /\ timer' = TRUE /\ SlaveHandles(m)
    BY <1>3 DEF SlaveReceive
  <2>3. m.sn \in 0..255 /\ m.type \in Requests
    BY <2>1 DEF MessageOf
  <2>4. /\ last' \in [Bud -> 0..255] /\ last'["slave"] = m.sn
        /\ last'["master"] = last["master"]
    BY <1>1, <2>2, <2>3
  <2>5. Asked /\ ~Asked' /\ ~Working /\ ~Answered
    BY <2>1, <2>4 DEF Asked, OtaInv, OneToken
  <2>6. ASSUME NEW type \in Answers, NEW status \in {"succ", "err", "past_end"},
               Answer(type, status)
        PROVE  /\ sn' \in [Bud -> 0..255] /\ (Answered' => Newest(toM').status = status)
               /\ jobs' \in Seq(Jobs) /\ Len(jobs') \in 0..1 => MessageInv'
    BY <1>1, <2>1, <2>4, <2>5, <2>6, AnswerToken DEF MessageInv
  <2>7. ASSUME UNCHANGED <<sn, toM>>
        PROVE  /\ sn' \in [Bud -> 0..255] /\ ~Answered'
               /\ jobs' \in Seq(Jobs) /\ Len(jobs') \in 0..1 => MessageInv'
    BY <1>1, <2>1, <2>4, <2>5, <2>7 DEF Answered, MessageInv
  <2>8. /\ jobs = <<>> /\ jobs \in Seq(Jobs) /\ Len(jobs) \in 0..1
    BY <1>1, <2>5 DEF Working, MessageInv
  <2>9. ASSUME NEW fits \in BOOLEAN, m.type = "start", SlaveStart(fits)
        PROVE  /\ sn' \in [Bud -> 0..255] /\ MessageInv' /\ ~Working' /\ written' = 0
               /\ open' = [open EXCEPT !["slave"] = TRUE]
               /\ verified' = [verified EXCEPT !["slave"] = FALSE]
               /\ exitEvent' = [exitEvent EXCEPT !["slave"] = @ \/ ~fits]
    <3>1. jobs' = <<>>
      BY <2>8, <2>9 DEF SlaveStart
    <3>2. \E status \in {"succ", "err", "past_end"} : Answer("start_rsp", status)
      BY <2>9 DEF SlaveStart
    <3>3. sn' \in [Bud -> 0..255] /\ MessageInv'
      BY <2>6, <2>8, <3>1, <3>2 DEF Answers
    <3> QED
      BY <2>9, <3>1, <3>3 DEF SlaveStart, Working
  <2>10. ASSUME m.type = "verify", SlaveRefuses
         PROVE  /\ sn' \in [Bud -> 0..255] /\ MessageInv' /\ ~Working'
                /\ UNCHANGED <<open, verified, exitEvent, written>>
                /\ Answered' => Newest(toM').status = "past_end"
    BY <2>6, <2>8, <2>10 DEF SlaveRefuses, Answers, Working
  <2>11. ASSUME m.type \in Jobs, SlaveJob(m.type)
         PROVE  /\ sn' \in [Bud -> 0..255] /\ MessageInv' /\ ~Answered'
                /\ UNCHANGED <<open, verified, exitEvent, written>>
                /\ Working' => Head(jobs') = m.type
    BY <1>1, <2>5, <2>7, <2>11, JobQueued DEF SlaveJob
  <2>12. m.type = "verify" => m.type \in Jobs
    BY DEF Jobs
  <2>13. m.type \in {"data", "write_boot_info"} => m.type \in Jobs
    BY DEF Jobs
  <2>14. \/ m.type = "start" /\ \E fits \in BOOLEAN : SlaveStart(fits)
         \/ m.type = "verify" /\ SlaveRefuses
         \/ m.type \in Jobs /\ SlaveJob(m.type)
    BY <2>2, <2>12, <2>13 DEF SlaveHandles
  <2>15. m.type = Newest(toS).type
    BY <2>1
  <2> QED
    BY <2>2, <2>4, <2>5, <2>9, <2>10, <2>11, <2>14, <2>15
    DEF StartRequest, JobRequest, RefusedRequest
<1> QED
  BY <1>2, <1>3

\* The slave's update task finishes its job.
LEMMA SlaveWorks ==
    ASSUME TypeOK, OtaInv, SlaveTask
    PROVE  /\ MessageInv' /\ sn' \in [Bud -> 0..255]
           /\ UNCHANGED <<toS, last>> /\ Asked' = Asked /\ Working /\ ~Working'
           /\ \/ /\ Head(jobs) = "data" /\ UNCHANGED <<verified, burned>>
                 /\ written' = IF written = Spoiled THEN Spoiled ELSE written + 1
              \/ /\ Head(jobs) = "verify" /\ UNCHANGED <<burned, written>>
                 /\ \E good \in BOOLEAN :
                       /\ verified' = [verified EXCEPT !["slave"] = good]
                       /\ Answered' /\ Newest(toM').status = "succ" => good
              \/ /\ Head(jobs) = "write_boot_info" /\ UNCHANGED <<verified, written>>
                 /\ \/ burned' = [burned EXCEPT !["slave"] = TRUE]
                    \/ burned' = burned /\ ~Answered'
<1>1. /\ Working /\ jobs' = <<>> /\ jobs' \in Seq(Jobs) /\ Len(jobs') \in 0..1
      /\ ~Answered /\ UNCHANGED <<toS, last>> /\ MessageInv
  <2>1. Working /\ MessageInv /\ jobs' = Tail(jobs) /\ UNCHANGED <<toS, last>>
    BY DEF SlaveTask, Working, OtaInv
  <2>2. ~Answered
    BY <2>1 DEF OtaInv, OneToken
  <2>3. <<>> \in Seq(Jobs) /\ Len(<<>>) \in 0..1
    OBVIOUS
  <2> QED
    BY <2>1, <2>2, <2>3, JobDone
<1>2. Asked' = Asked /\ ~Working' /\ sn \in [Bud -> 0..255]
  BY <1>1 DEF Asked, Working, TypeOK
<1>3. ASSUME NEW type \in Answers, NEW status \in {"succ", "err", "past_end"},
             Answer(type, status)
      PROVE  /\ sn' \in [Bud -> 0..255] /\ (Answered' => Newest(toM').status = status)
             /\ MessageInv'
  BY <1>1, <1>3, AnswerToken DEF MessageInv
<1>4. ASSUME UNCHANGED <<sn, toM>>
      PROVE  sn' \in [Bud -> 0..255] /\ ~Answered' /\ MessageInv'
  BY <1>1, <1>2, <1>4 DEF Answered, MessageInv
<1>5. CASE /\ Head(jobs) = "data"
           /\ written' = IF written = Spoiled THEN Spoiled ELSE written + 1
           /\ Answer("data_rsp", "succ") /\ UNCHANGED <<verified, burned>>
  BY <1>1, <1>2, <1>3, <1>5 DEF Answers
<1>6. ASSUME Head(jobs) = "verify", NEW good \in {FALSE, written = MaxPackets},
             verified' = [verified EXCEPT !["slave"] = good],
             Answer("verify_rsp", IF good THEN "succ" ELSE "err"),
             UNCHANGED <<burned, written>>
      PROVE  /\ sn' \in [Bud -> 0..255] /\ MessageInv'
             /\ \E g \in BOOLEAN :
                   /\ verified' = [verified EXCEPT !["slave"] = g]
                   /\ Answered' /\ Newest(toM').status = "succ" => g
  <2>1. CASE good
    BY <1>3, <1>6, <2>1 DEF Answers
  <2>2. CASE ~good
    BY <1>3, <1>6, <2>2 DEF Answers
  <2> QED
    BY <2>1, <2>2
<1>7. CASE /\ Head(jobs) = "write_boot_info"
           /\ burned' = [burned EXCEPT !["slave"] = TRUE]
           /\ Answer("write_boot_info_rsp", "succ") /\ UNCHANGED <<verified, written>>
  BY <1>1, <1>2, <1>3, <1>7 DEF Answers
<1>8. CASE /\ Head(jobs) = "write_boot_info"
           /\ UNCHANGED <<sn, toM, verified, burned, written>>
  BY <1>1, <1>2, <1>4, <1>8
<1> QED
  BY <1>1, <1>2, <1>5, <1>6, <1>7, <1>8 DEF SlaveTask

-----------------------------------------------------------------------------
(* Every step keeps the one token *)

\* A new update begins with nothing on its way.
LEMMA NothingOnItsWay ==
    ASSUME orderly', OtaCheck
    PROVE  ~Asked /\ ~Working /\ ~Answered
BY Empty DEF OtaCheck, Quiet, Asked, Working, Answered

\* A post that can be taken is the token.
LEMMA Posted ==
    ASSUME TypeOK, OtaInv, sem > 0
    PROVE  sem = 1 /\ ~Asked /\ ~Working /\ ~Answered
BY DEF OtaInv, OneToken, TypeOK

\* A request of the master takes the token that nobody holds.
LEMMA MasterSends ==
    ASSUME TypeOK, OtaInv, ~Asked, ~Working, ~Answered, UNCHANGED jobs,
           NEW type \in Requests, ToSlave(type)
    PROVE  /\ MessageInv' /\ sn' \in [Bud -> 0..255] /\ UNCHANGED <<last, linked, toM, drops>>
           /\ ~Working' /\ ~Answered' /\ (Asked' => Newest(toS').type = type)
<1>1. /\ sn' \in [Bud -> 0..255] /\ UNCHANGED <<last, linked, toM, drops>>
      /\ toS' \in Seq(MessageOf(Requests)) /\ Tidy(toS', last'["slave"])
      /\ Asked' => Newest(toS').type = type
      /\ Answered' <=> Answered
  BY ToSlaveToken DEF OtaInv
<1>2. MessageInv' /\ ~Working'
  BY <1>1 DEF OtaInv, MessageInv, Working
<1> QED
  BY <1>1, <1>2

\* The invariant is inductive: the phone is patient, so the token is lost or
\* ended before a new update begins.
LEMMA OtaStep == orderly /\ orderly' /\ TypeOK /\ OtaInv /\ [Next]_vars => OtaInv'
<1> SUFFICES ASSUME orderly, orderly', TypeOK, OtaInv, [Next]_vars PROVE OtaInv'
  OBVIOUS
<1> USE DEF phoneVars, updateVars, netVars, slaveVars, InHandler, Pended
<1>0. MessageInv /\ OneToken /\ Requested /\ BurnInv
  BY DEF OtaInv
<1>1. CASE CheckCrc
  <2>1. /\ MessageInv' /\ Asked' = Asked /\ Answered' = Answered /\ Working' = Working
        /\ ~first /\ UNCHANGED <<toS, jobs>>
    BY <1>0, <1>1, TokenStays, Limits DEF CheckCrc, Working, Requested
  <2>5. lib = "idle" /\ lib' = "idle" /\ result # "succ" /\ UNCHANGED result
    BY <1>0, <1>1 DEF CheckCrc, InTurn, BurnInv
  <2>2. OneToken'
    BY <1>0, <1>1, <2>1, <2>5 DEF CheckCrc, OneToken, Idle
  <2>3. Requested'
    BY <1>0, <1>1, <2>1 DEF CheckCrc, Requested, Pending, TypeOK
  <2>4. BurnInv'
    BY <1>0, <1>1, <2>1, <2>5 DEF CheckCrc, BurnInv, OnlyPending
  <2> QED
    BY <2>1, <2>2, <2>3, <2>4 DEF OtaInv
<1>2. CASE Abandoned
  <2>1. /\ MessageInv' /\ Asked' = Asked /\ Answered' = Answered /\ Working' = Working
        /\ UNCHANGED <<toS, jobs>>
    BY <1>0, <1>2, TokenStays DEF Abandoned, Working
  <2>2. OneToken'
    BY <1>0, <1>2, <2>1 DEF Abandoned, OneToken, Idle
  <2>3. Requested'
    BY <1>0, <1>2, <2>1 DEF Abandoned, Requested, Pending, TypeOK
  <2>4. BurnInv'
    BY <1>0, <1>2, <2>1 DEF Abandoned, BurnInv, OnlyPending
  <2> QED
    BY <2>1, <2>2, <2>3, <2>4 DEF OtaInv
<1>3. CASE SyncOver
  <2>1. /\ MessageInv' /\ Asked' = Asked /\ Answered' = Answered /\ Working' = Working
        /\ UNCHANGED <<toS, jobs>>
    BY <1>0, <1>3, TokenStays DEF SyncOver, Working
  <2>2. /\ pc = "ready" /\ pc' = "ready" /\ lib = "idle" /\ lib' = "idle"
        /\ result = "succ" /\ ~phone /\ ~phone' /\ (\A b \in Bud : burned[b])
    BY <1>0, <1>3 DEF SyncOver, BurnInv
  <2>6. rebooted'["master"]
    BY <1>3 DEF SyncOver, Bud
  <2>3. OneToken'
    BY <1>0, <1>3, <2>1, <2>2 DEF SyncOver, OneToken, Idle
  <2>4. Requested'
    BY <1>0, <1>3, <2>1, <2>2 DEF SyncOver, Requested, Pending
  <2>5. BurnInv'
    BY <1>0, <1>3, <2>1, <2>2, <2>6 DEF SyncOver, BurnInv
  <2> QED
    BY <2>1, <2>3, <2>4, <2>5 DEF OtaInv
<1>4. CASE PhoneDisconnect
  <2>1. /\ MessageInv' /\ Asked' = Asked /\ Answered' = Answered /\ Working' = Working
        /\ UNCHANGED <<toS, jobs>>
    BY <1>0, <1>4, TokenStays DEF PhoneDisconnect, Working
  <2>2. OneToken'
    BY <1>0, <1>4, <2>1 DEF PhoneDisconnect, OneToken, Idle
  <2>3. Requested'
    BY <1>0, <1>4, <2>1 DEF PhoneDisconnect, Requested, Pending, TypeOK
  <2>4. \A b \in Bud : rebooted'[b] => rebooted[b] \/ result = "succ"
    BY <1>4 DEF PhoneDisconnect, TypeOK
  <2>6. result = "succ" => rebooted'["master"]
    BY <1>4 DEF PhoneDisconnect, TypeOK, Bud
  <2>5. BurnInv'
    BY <1>0, <1>4, <2>1, <2>4, <2>6 DEF PhoneDisconnect, BurnInv, OnlyPending
  <2> QED
    BY <2>1, <2>2, <2>3, <2>5 DEF OtaInv
<1>5. CASE LinkUp
  <2>1. /\ MessageInv' /\ Asked' = Asked /\ Answered' = Answered /\ Working' = Working
        /\ UNCHANGED <<toS, jobs>>
    BY <1>0, <1>5, TokenStays DEF LinkUp, Working
  <2>2. OneToken'
    BY <1>0, <1>5, <2>1 DEF LinkUp, OneToken, Idle
  <2>3. Requested'
    BY <1>0, <1>5, <2>1 DEF LinkUp, Requested, Pending, TypeOK
  <2>4. BurnInv'
    BY <1>0, <1>5, <2>1 DEF LinkUp, BurnInv, OnlyPending
  <2> QED
    BY <2>1, <2>2, <2>3, <2>4 DEF OtaInv
\* A post is taken, or its time is over.
<1>6. ASSUME sem > 0 PROVE sem = 1 /\ sem - 1 = 0 /\ ~Asked /\ ~Working /\ ~Answered
  BY <1>6, Posted
<1>7. ASSUME NEW ok \in BOOLEAN, OpenReturns(ok) PROVE OtaInv'
  <2>1. /\ MessageInv' /\ Asked' = Asked /\ Answered' = Answered /\ Working' = Working
        /\ UNCHANGED <<toS, jobs>>
    BY <1>0, <1>7, TokenStays DEF OpenReturns, Working
  <2>4. pc = "open" /\ pc' = "ready" /\ lib = "idle" /\ lib' = "idle" /\ result # "succ"
    BY <1>0, <1>7 DEF OpenReturns, OneToken, BurnInv
  <2>2. CASE ok
    <3>1. sem = 1 /\ sem' = 0 /\ Idle'
      BY <1>6, <1>7, <2>1, <2>2 DEF OpenReturns, Idle
    <3>2. OneToken'
      BY <2>4, <3>1 DEF OneToken, Idle
    <3>3. Requested'
      BY <1>0, <1>7, <2>1, <2>2, <3>1, Limits DEF OpenReturns, Requested, Pending, Idle, TypeOK
    <3>4. BurnInv'
      BY <1>0, <1>7, <2>1, <2>4 DEF OpenReturns, BurnInv, OnlyPending
    <3> QED
      BY <2>1, <3>2, <3>3, <3>4 DEF OtaInv
  <2>3. CASE ~ok
    <3>1. sem' = sem /\ ~phone' /\ pc' = "ready"
      BY <1>7, <2>3 DEF OpenReturns
    <3>2. OneToken'
      BY <1>0, <2>1, <2>4, <3>1 DEF OneToken, Idle
    <3>3. Requested'
      BY <1>0, <1>7, <2>1, <2>4, <3>1 DEF OpenReturns, Requested, Pending
    <3>4. BurnInv'
      BY <1>0, <1>7, <2>1, <2>4, <3>1 DEF OpenReturns, BurnInv
    <3> QED
      BY <2>1, <3>2, <3>3, <3>4 DEF OtaInv
  <2> QED
    BY <2>2, <2>3
<1>8. ASSUME NEW ok \in BOOLEAN, VerifyReturns(ok) PROVE OtaInv'
  <2>1. /\ MessageInv' /\ Asked' = Asked /\ Answered' = Answered /\ Working' = Working
        /\ UNCHANGED <<toS, jobs>>
    BY <1>0, <1>8, TokenStays DEF VerifyReturns, Working
  <2>2. /\ pc = "verify" /\ pc' = "ready" /\ lib = "idle" /\ ~first /\ ~first'
        /\ result # "succ" /\ UNCHANGED <<phone, sent, result, over, burned, rebooted, written>>
    BY <1>0, <1>8 DEF VerifyReturns, OneToken, Requested, BurnInv
  <2>3. /\ lib' \in {"idle", "own"} /\ (sem' = sem \/ sem' = 0)
        /\ lib' = "own" => sem' = 0 /\ ~Asked /\ ~Working /\ ~Answered
    BY <1>6, <1>8, <2>2 DEF VerifyReturns, Taken
  <2>4. OneToken'
    BY <1>0, <2>1, <2>2, <2>3 DEF OneToken, Idle
  <2>5. Requested'
    BY <1>0, <2>1, <2>2, <2>3 DEF Requested, Pending
  <2>6. BurnInv'
    BY <1>0, <2>1, <2>2, <2>3 DEF BurnInv
  <2> QED
    BY <2>1, <2>4, <2>5, <2>6 DEF OtaInv
<1>9. ASSUME NEW ok \in BOOLEAN, ExitReturns(ok) PROVE OtaInv'
  <2>1. /\ MessageInv' /\ Asked' = Asked /\ Answered' = Answered /\ Working' = Working
        /\ UNCHANGED <<toS, jobs>>
    BY <1>0, <1>9, TokenStays DEF ExitReturns, Working
  <2>2. /\ lib = "exit" /\ pc = "ready" /\ pc' = "ready" /\ ~first /\ ~first'
        /\ UNCHANGED <<sent, over, burned, rebooted, written>>
        /\ ~over /\ result # "succ" /\ result' # "succ" /\ (phone' => phone)
    BY <1>0, <1>9 DEF ExitReturns, Fail, OneToken, Requested, BurnInv
  <2>3. /\ lib' \in {"idle", "burn"} /\ (sem' = sem \/ sem' = 0)
        /\ lib' = "burn" => sem' = 0 /\ ~Asked /\ ~Working /\ ~Answered /\ burned["slave"]
    <3>1. CASE ok
      BY <1>0, <1>6, <1>9, <3>1 DEF ExitReturns, Taken, BurnInv
    <3>2. CASE ~ok
      BY <1>9, <3>2 DEF ExitReturns, Fail
    <3> QED
      BY <3>1, <3>2
  <2>4. OneToken'
    BY <1>0, <2>1, <2>2, <2>3 DEF OneToken, Idle
  <2>5. Requested'
    BY <1>0, <2>1, <2>2, <2>3 DEF Requested, Pending
  <2>6. BurnInv'
    BY <1>0, <2>1, <2>2, <2>3 DEF BurnInv
  <2> QED
    BY <2>1, <2>4, <2>5, <2>6 DEF OtaInv
<1>10. ASSUME NEW ok \in BOOLEAN, OwnBurned(ok) PROVE OtaInv'
  <2>1. /\ MessageInv' /\ Asked' = Asked /\ Answered' = Answered /\ Working' = Working
        /\ UNCHANGED <<toS, jobs>>
    BY <1>0, <1>10, TokenStays DEF OwnBurned, Working
  <2>2. /\ lib = "burn" /\ lib' = "idle" /\ pc = "ready" /\ pc' = "ready" /\ ~phone'
        /\ burned["slave"] /\ ~first /\ result # "succ" /\ ~over
        /\ UNCHANGED <<first, sent, written, sem, rebooted>>
    BY <1>0, <1>10 DEF OwnBurned, Fail, OneToken, Requested, BurnInv
  <2>3. OneToken'
    BY <1>0, <2>1, <2>2 DEF OneToken
  <2>4. Requested'
    BY <1>0, <2>1, <2>2 DEF Requested, Pending
  <2>5. \A b \in Bud : burned[b] => burned'[b]
    BY <1>10 DEF OwnBurned, TypeOK
  <2>6. IF ok THEN result' = "succ" /\ over' /\ (\A b \in Bud : burned'[b])
              ELSE result' = "failed" /\ over' = over
    BY <1>10, <2>2 DEF OwnBurned, Fail, TypeOK, Bud
  <2>7. BurnInv'
    BY <1>0, <2>1, <2>2, <2>5, <2>6 DEF BurnInv
  <2> QED
    BY <2>1, <2>3, <2>4, <2>7 DEF OtaInv
\* The phone starts an update: nothing of an earlier one is on its way.
<1>11. CASE OtaCheck
  <2>1. /\ ~Asked /\ ~Working /\ ~Answered /\ pc = "ready" /\ ~over /\ result # "succ"
        /\ lib = "idle" /\ lib' = "idle" /\ sent' = 0
        /\ UNCHANGED <<result, over, burned, rebooted, jobs, written>>
    BY <1>0, <1>11, NothingOnItsWay DEF OtaCheck, Quiet, BurnInv
  <2>2. CASE phone' = FALSE /\ UNCHANGED <<pc, sem, first, verified, netVars>>
    <3>1. /\ MessageInv' /\ Asked' = Asked /\ Answered' = Answered /\ Working' = Working
      BY <1>0, <2>1, <2>2, TokenStays DEF Working
    <3>2. OneToken'
      BY <1>0, <2>1, <2>2, <3>1 DEF OneToken
    <3>3. Requested'
      BY <2>1, <2>2, <3>1 DEF Requested, Pending
    <3>4. BurnInv'
      BY <1>0, <2>1, <2>2 DEF BurnInv
    <3> QED
      BY <3>1, <3>2, <3>3, <3>4 DEF OtaInv
  <2>3. CASE sem' = 0 /\ first' = TRUE /\ pc' = "open" /\ phone' = TRUE /\ ToSlave("start")
    <3>1. /\ MessageInv' /\ ~Working' /\ ~Answered' /\ (Asked' => Newest(toS').type = "start")
      BY <2>1, <2>3, MasterSends DEF Requests
    <3>2. OneToken'
      BY <2>1, <2>3, <3>1 DEF OneToken
    <3>3. Requested'
      BY <2>1, <2>3, <3>1 DEF Requested, Pending
    <3>4. BurnInv'
      BY <1>0, <2>1, <2>3 DEF BurnInv
    <3> QED
      BY <3>1, <3>2, <3>3, <3>4 DEF OtaInv
  <2> QED
    BY <1>11, <2>2, <2>3 DEF OtaCheck
\* A packet goes when the answer to the one before has been taken.
<1>12. ASSUME WriteAndSend, pc \in {"ready", "data"}, phone, sent < MaxPackets, first \/ sem > 0,
              lib = "idle",
              UNCHANGED <<phone, lib, result, over, burned, rebooted, jobs, written>>
       PROVE  OtaInv'
  <2>1. ~Asked /\ ~Working /\ ~Answered /\ written <= sent
    <3>1. CASE first
      BY <1>0, <1>12, <3>1 DEF OneToken, Idle, Requested
    <3>2. CASE sem > 0
      BY <1>0, <1>6, <1>12, <3>2 DEF Requested
    <3> QED
      BY <1>12, <3>1, <3>2
  <2>2. MessageInv' /\ ~Working' /\ ~Answered'
    BY <1>12, <2>1, MasterSends DEF WriteAndSend, Requests
  <2>3. sem' = 0 /\ pc' = "ready" /\ ~first' /\ sent' = sent + 1
    BY <1>12 DEF WriteAndSend
  <2>4. OneToken'
    BY <1>12, <2>2, <2>3 DEF OneToken
  <2>5. written' < sent' /\ written' <= sent'
    BY <1>12, <2>1, <2>3 DEF TypeOK
  <2>6. Requested'
    BY <1>12, <2>2, <2>3, <2>5 DEF Requested
  <2>7. BurnInv'
    BY <1>0, <1>12, <2>3 DEF BurnInv, InHandler
  <2> QED
    BY <2>2, <2>4, <2>6, <2>7 DEF OtaInv
<1>13. CASE TransData
  <2>3. lib = "idle" /\ result # "succ"
    BY <1>0, <1>13 DEF TransData, InTurn, BurnInv
  <2>1. CASE first
    BY <1>12, <1>13, <2>1, <2>3 DEF TransData
  <2>2. CASE ~first
    <3>1. /\ MessageInv' /\ Asked' = Asked /\ Answered' = Answered /\ Working' = Working
          /\ UNCHANGED <<toS, jobs>>
      BY <1>0, <1>13, <2>2, TokenStays DEF TransData, Working
    <3>2. OneToken'
      BY <1>0, <1>13, <2>2, <2>3, <3>1 DEF TransData, OneToken
    <3>3. Requested'
      BY <1>0, <1>13, <2>2, <3>1 DEF TransData, Requested, Pending
    <3>4. BurnInv'
      BY <1>0, <1>13, <2>2, <2>3, <3>1 DEF TransData, BurnInv
    <3> QED
      BY <3>1, <3>2, <3>3, <3>4 DEF OtaInv
  <2> QED
    BY <2>1, <2>2
<1>14. ASSUME NEW ok \in BOOLEAN, DataReturns(ok) PROVE OtaInv'
  <2>3. pc = "data" /\ lib = "idle" /\ result # "succ" /\ phone /\ ~first
    BY <1>0, <1>14 DEF DataReturns, OneToken, Requested, BurnInv
  <2>1. CASE ok
    BY <1>0, <1>12, <1>14, <2>1, <2>3 DEF DataReturns, Requested
  <2>2. CASE ~ok
    <3>1. /\ MessageInv' /\ Asked' = Asked /\ Answered' = Answered /\ Working' = Working
          /\ UNCHANGED <<toS, jobs>>
      BY <1>0, <1>14, <2>2, TokenStays DEF DataReturns, Working
    <3>2. OneToken'
      BY <1>0, <1>14, <2>2, <2>3, <3>1 DEF DataReturns, OneToken
    <3>3. Requested'
      BY <1>0, <1>14, <2>2, <3>1 DEF DataReturns, Requested, Pending
    <3>4. BurnInv'
      BY <1>0, <1>14, <2>2, <2>3, <3>1 DEF DataReturns, BurnInv
    <3> QED
      BY <3>1, <3>2, <3>3, <3>4 DEF OtaInv
  <2> QED
    BY <2>1, <2>2
<1>15. ASSUME NEW ok \in BOOLEAN, CrcReturns(ok) PROVE OtaInv'
  <2>1. /\ pc = "crc" /\ phone /\ ~first /\ lib = "idle" /\ lib' = "idle" /\ result # "succ"
        /\ UNCHANGED <<phone, first, sent, result, over, burned, rebooted, written, jobs>>
    BY <1>0, <1>15 DEF CrcReturns, Requested, OneToken, BurnInv
  <2>2. CASE ok
    <3>1. ~Asked /\ ~Working /\ ~Answered /\ written <= sent
      BY <1>0, <1>6, <1>15, <2>1, <2>2 DEF CrcReturns, Requested
    <3>2. MessageInv' /\ ~Working' /\ ~Answered' /\ (Asked' => Newest(toS').type = "verify")
      BY <1>15, <2>2, <3>1, MasterSends DEF CrcReturns, Requests
    <3>3. sem' = 0 /\ pc' \in {"verify", "ready"}
      BY <1>15, <2>2 DEF CrcReturns
    <3>4. OneToken'
      BY <2>1, <3>2, <3>3 DEF OneToken
    <3>5. Requested'
      BY <2>1, <3>1, <3>2, <3>3 DEF Requested, Pending
    <3>6. BurnInv'
      BY <1>0, <2>1, <3>3 DEF BurnInv
    <3> QED
      BY <3>2, <3>4, <3>5, <3>6 DEF OtaInv
  <2>3. CASE ~ok
    <3>1. /\ MessageInv' /\ Asked' = Asked /\ Answered' = Answered /\ Working' = Working
          /\ UNCHANGED <<toS, jobs>>
      BY <1>0, <1>15, <2>3, TokenStays DEF CrcReturns, Working
    <3>2. OneToken'
      BY <1>0, <1>15, <2>1, <2>3, <3>1 DEF CrcReturns, OneToken
    <3>3. Requested'
      BY <1>0, <1>15, <2>1, <2>3, <3>1 DEF CrcReturns, Requested, Pending
    <3>4. BurnInv'
      BY <1>0, <1>15, <2>1, <2>3, <3>1 DEF CrcReturns, BurnInv
    <3> QED
      BY <3>1, <3>2, <3>3, <3>4 DEF OtaInv
  <2> QED
    BY <2>2, <2>3
<1>16. ASSUME NEW ok \in BOOLEAN, OwnVerified(ok) PROVE OtaInv'
  <2>1. /\ lib = "own" /\ ~Asked /\ ~Working /\ ~Answered /\ sem = 0 /\ ~first
        /\ lib' \in {"exit", "idle"} /\ (phone' => phone) /\ (phone' => lib' = "exit" \/ phone)
        /\ pc = "ready" /\ result # "succ" /\ ~over /\ result' # "succ"
        /\ UNCHANGED <<pc, first, sent, written, jobs, sem, over, burned, rebooted>>
    BY <1>0, <1>16 DEF OwnVerified, OneToken, Idle, Requested, Fail, BurnInv
  <2>2. /\ MessageInv' /\ ~Working' /\ ~Answered'
        /\ (Asked' => Newest(toS').type = "write_boot_info")
    <3>1. CASE ok
      BY <1>16, <2>1, <3>1, MasterSends DEF OwnVerified, Requests
    <3>2. CASE ~ok
      BY <1>0, <1>16, <2>1, <3>2, TokenStays DEF OwnVerified, Working
    <3> QED
      BY <3>1, <3>2
  <2>3. OneToken'
    BY <2>1, <2>2 DEF OneToken
  <2>4. written <= sent \/ ~phone
    BY <1>0, <2>1 DEF Requested
  <2>5. Requested'
    BY <1>0, <2>1, <2>2, <2>4 DEF Requested, Pending
  <2>6. BurnInv'
    BY <1>0, <2>1, <2>2 DEF BurnInv, OnlyPending
  <2> QED
    BY <2>2, <2>3, <2>5, <2>6 DEF OtaInv
\* The token moves on: to the semaphore, to the slave's task, to an answer.
<1>17. CASE MasterReceive
  <2>1. /\ MessageInv' /\ Asked' = Asked /\ Working' = Working
        /\ \/ sem' = sem /\ (Answered' => Answered)
           \/ Answered /\ ~Answered' /\ sem' \in {sem, sem + 1}
        /\ UNCHANGED <<toS, jobs>>
    BY <1>17, MasterReads DEF MasterReceive, Working
  <2>2. /\ UNCHANGED <<phone, pc, lib, first, sent, result, verifies, over, burned, rebooted, written>>
        /\ (Answered' => Answered) /\ (Asked => sem' = sem)
        /\ (Working => sem' = sem) /\ (Answered' => sem' = sem)
        /\ sem' \in 0..1 /\ (Idle => Idle') /\ (sem' = 1 => sem = 1 \/ Answered)
    BY <1>0, <1>17, <2>1 DEF MasterReceive, OneToken, Idle, TypeOK
  <2>3. OneToken'
    BY <1>0, <2>1, <2>2 DEF OneToken
  <2>4. Requested'
    BY <1>0, <2>1, <2>2 DEF Requested, Pending
  <2>5. BurnInv'
    BY <1>0, <2>1, <2>2 DEF BurnInv, OnlyPending
  <2> QED
    BY <2>1, <2>3, <2>4, <2>5 DEF OtaInv
<1>18. CASE SlaveReceive
  <2>1. UNCHANGED <<phone, pc, lib, sem, first, sent, result, verifies, over, burned, rebooted>>
    BY <1>18 DEF SlaveReceive
  <2>2. CASE /\ UNCHANGED <<jobs, written, toM>>
             /\ Answered' = Answered
             /\ Asked' => Asked /\ Newest(toS') = Newest(toS)
    <3>1. Working' = Working /\ (Idle => Idle') /\ Head(jobs') = Head(jobs)
      BY <2>1, <2>2 DEF Working, Idle
    <3>2. OneToken'
      BY <1>0, <2>1, <2>2, <3>1 DEF OneToken
    <3>3. Requested'
      BY <1>0, <2>1, <2>2, <3>1 DEF Requested, Pending
    <3>4. BurnInv'
      BY <1>0, <2>1, <2>2, <3>1 DEF BurnInv, OnlyPending
    <3> QED
      BY <1>18, <3>2, <3>3, <3>4, SlaveReads DEF OtaInv
  <2>3. CASE /\ Asked /\ ~Asked'
             /\ \/ Newest(toS).type = "start" /\ ~Working' /\ written' = 0
                \/ /\ written' = written /\ ~Answered' /\ Newest(toS).type \in Jobs
                   /\ Working' => Head(jobs') = Newest(toS).type
                \/ written' = written /\ ~Working' /\ Newest(toS).type = "verify"
    <3>1. ~Working /\ ~Answered /\ sem = 0 /\ ~Idle /\ lib \notin {"own", "burn"}
          /\ ~(Working' /\ Answered')
      BY <1>0, <2>3 DEF OneToken, Idle
    <3>2. OneToken'
      BY <1>0, <2>1, <2>3, <3>1 DEF OneToken
    <3>3. Pending("data")' => Pending("data") /\ written' = written
      BY <2>3 DEF Pending
    <3>4. pc = "open" => ~Working' /\ written' = 0
      BY <1>0, <2>3 DEF Requested, Jobs
    <3>5. Requested'
      BY <1>0, <2>1, <2>3, <3>1, <3>3, <3>4 DEF Requested, TypeOK
    <3>6. BurnInv'
      BY <1>0, <2>1, <2>3, <3>1 DEF BurnInv, OnlyPending
    <3> QED
      BY <1>18, <3>2, <3>5, <3>6, SlaveReads DEF OtaInv
  <2>4. CASE SeenRequest
    BY <2>2, <2>4 DEF SeenRequest
  <2>5. CASE StartRequest
    BY <2>3, <2>5 DEF StartRequest
  <2>6. CASE JobRequest
    BY <2>3, <2>6 DEF JobRequest
  <2>7. CASE RefusedRequest
    BY <2>3, <2>7 DEF RefusedRequest
  <2> QED
    BY <1>18, <2>4, <2>5, <2>6, <2>7, SlaveReads
<1>19. CASE SlaveTask
  <2>1. /\ MessageInv' /\ UNCHANGED toS /\ Asked' = Asked /\ Working /\ ~Working'
        /\ ~Asked /\ ~Answered /\ sem = 0
        /\ UNCHANGED <<phone, pc, lib, sem, first, sent, result, verifies, over, rebooted>>
    BY <1>0, <1>19, SlaveWorks DEF SlaveTask, OneToken
  <2>2. OneToken'
    BY <1>0, <2>1 DEF OneToken, Idle
  <2>3. written' <= sent \/ ~phone
    <3>1. \/ written' = written
          \/ Pending("data") /\ written' = IF written = Spoiled THEN Spoiled ELSE written + 1
      BY <1>19, <2>1, SlaveWorks DEF Pending
    <3>2. CASE written' = written
      BY <1>0, <2>1, <3>2 DEF Requested, OneToken
    <3>3. CASE /\ Pending("data")
               /\ written' = IF written = Spoiled THEN Spoiled ELSE written + 1
      <4>1. written < sent /\ sent \in 0..MaxPackets /\ written \in 0..Spoiled
        BY <1>0, <3>3 DEF Requested, TypeOK
      <4> QED
        BY <3>3, <4>1, Limits DEF Spoiled
    <3> QED
      BY <3>1, <3>2, <3>3
  <2>4. Requested'
    BY <1>0, <2>1, <2>3 DEF Requested, Pending
  <2>5. \A b \in Bud : burned[b] => burned'[b]
    BY <1>19, SlaveWorks DEF TypeOK
  <2>6. lib = "exit" /\ Answered' => burned'["slave"]
    BY <1>0, <1>19, <2>1, SlaveWorks DEF BurnInv, OnlyPending, TypeOK, Bud
  <2>7. BurnInv'
    BY <1>0, <2>1, <2>5, <2>6 DEF BurnInv, OnlyPending, Bud
  <2> QED
    BY <2>1, <2>2, <2>4, <2>7 DEF OtaInv
\* The token is lost, or stays.
<1>20. ASSUME toS' \in {toS, <<>>}, toM' \in {toM, <<>>}, jobs' \in {jobs, <<>>},
              UNCHANGED <<phone, pc, lib, sem, first, sent, result, verifies, over, burned,
                          rebooted, last, written>>
       PROVE  OtaInv'
  <2>1. /\ Asked' => Asked /\ toS' = toS
        /\ Answered' => Answered /\ toM' = toM
        /\ Working' => Working /\ jobs' = jobs
    BY <1>20, Empty DEF Asked, Answered, Working
  <2>2. MessageInv'
    <3>1. <<>> \in Seq(Jobs) /\ Len(<<>>) \in 0..1
      OBVIOUS
    <3> QED
      BY <1>0, <1>20, <3>1, Empty DEF MessageInv
  <2>3. OneToken'
    BY <1>0, <1>20, <2>1 DEF OneToken, Idle
  <2>4. Requested'
    BY <1>0, <1>20, <2>1 DEF Requested, Pending
  <2>5. BurnInv'
    BY <1>0, <1>20, <2>1 DEF BurnInv, OnlyPending
  <2> QED
    BY <2>2, <2>3, <2>4, <2>5 DEF OtaInv
<1>21. CASE SlaveTimeout
  BY <1>20, <1>21 DEF SlaveTimeout
<1>22. CASE LinkDrop
  BY <1>20, <1>22 DEF LinkDrop
<1>23. ASSUME NEW b \in Bud, ExitEvent(b) PROVE OtaInv'
  BY <1>20, <1>23 DEF ExitEvent
<1>24. CASE UNCHANGED vars
  BY <1>20, <1>24 DEF vars
<1> QED
  BY <1>1, <1>2, <1>3, <1>4, <1>5, <1>7, <1>8, <1>9, <1>10, <1>11, <1>13, <1>14, <1>15, <1>16,
     <1>17, <1>18, <1>19, <1>21, <1>22, <1>23, <1>24 DEF Next, HandlerReturns

-----------------------------------------------------------------------------
(* Types *)

\* What is left of a queue once its head is read, or stays, is of its type.
LEMMA ReceivedTyped ==
    ASSUME NEW T, NEW s \in Seq(T), s # <<>>, NEW t \in Received(s)
    PROVE  Head(s) \in T /\ t \in Seq(T)
BY DEF Received

\* The types of the plain variables, and of those with a value for each bud.
Plain ==
    /\ phone \in BOOLEAN /\ orderly \in BOOLEAN
    /\ pc \in {"ready"} \cup InHandler /\ lib \in {"idle"} \cup InLibrary
    /\ sem \in Nat /\ (orderly => sem <= 1)
    /\ first \in BOOLEAN /\ sent \in 0..MaxPackets
    /\ result \in {"none", "succ", "failed"} /\ over \in BOOLEAN
    /\ starts \in 0..MaxStarts /\ verifies \in 0..MaxVerifies /\ drops \in 0..MaxDrops
    /\ linked \in BOOLEAN /\ timer \in BOOLEAN /\ written \in 0..Spoiled
PerBud ==
    /\ open \in [Bud -> BOOLEAN] /\ verified \in [Bud -> BOOLEAN]
    /\ burned \in [Bud -> BOOLEAN] /\ rebooted \in [Bud -> BOOLEAN]
    /\ exitEvent \in [Bud -> BOOLEAN]
    /\ sn \in [Bud -> 0..255] /\ last \in [Bud -> 0..255]

\* Types and limits are preserved, whatever the phone does; the bound of the
\* semaphore is the token's.
LEMMA TypeStep ==
    TypeOK /\ Queued /\ (orderly' => sem' <= 1) /\ [Next]_vars => TypeOK' /\ Queued'
<1> SUFFICES ASSUME TypeOK, Queued, orderly' => sem' <= 1, [Next]_vars
             PROVE  TypeOK' /\ Queued'
  OBVIOUS
<1> USE DEF phoneVars, updateVars, netVars, slaveVars, InHandler, InLibrary, Pended
<1>0. /\ toS \in Seq(MessageOf(Requests)) /\ toM \in Seq(MessageOf(Answers))
      /\ jobs \in Seq(Jobs) /\ sem \in Nat /\ (sem > 0 => sem - 1 \in Nat)
      /\ <<>> \in Seq(MessageOf(Requests)) /\ <<>> \in Seq(MessageOf(Answers))
      /\ <<>> \in Seq(Jobs)
  BY DEF Queued, TypeOK
\* The queues stay or are emptied, and no request begins to wait.
<1>1. ASSUME toS' \in {toS, <<>>}, toM' \in {toM, <<>>}, jobs' \in {jobs, <<>>},
             pc' = pc \/ pc' \notin {"data", "crc"},
             UNCHANGED <<sent, verifies>>
      PROVE  Queued'
  BY <1>0, <1>1 DEF Queued
<1>2. CASE CheckCrc
  <2>1. TypeOK'
    <3>1. orderly' \in BOOLEAN
      BY <1>2 DEF CheckCrc, InTurn, TypeOK
    <3> QED
      BY <1>2, <3>1 DEF CheckCrc, TypeOK
  <2>2. verifies < MaxVerifies
    BY <1>2 DEF CheckCrc
  <2>3. Queued'
    BY <1>0, <1>2, <2>2 DEF CheckCrc, Queued
  <2> QED
    BY <2>1, <2>3
<1>3. CASE Abandoned \/ SyncOver \/ LinkUp
  <2>1. Queued'
    BY <1>1, <1>3 DEF Abandoned, SyncOver, LinkUp
  <2>2. CASE Abandoned
    BY <2>1, <2>2 DEF Abandoned, TypeOK
  <2>3. CASE SyncOver
    BY <2>1, <2>3 DEF SyncOver, TypeOK
  <2>4. CASE LinkUp
    BY <2>1, <2>4 DEF LinkUp, TypeOK
  <2> QED
    BY <1>3, <2>2, <2>3, <2>4
<1>4. CASE PhoneDisconnect
  <2>1. Queued'
    BY <1>1, <1>4 DEF PhoneDisconnect
  <2> QED
    BY <1>4, <2>1 DEF PhoneDisconnect, TypeOK
<1>5. ASSUME NEW ok \in BOOLEAN, OpenReturns(ok) PROVE TypeOK' /\ Queued'
  <2>1. /\ sem' \in Nat /\ phone' \in BOOLEAN /\ pc' = "ready"
        /\ UNCHANGED <<first, sent, result, starts, verifies, orderly, lib, over, verified,
                       burned, rebooted, exitEvent, netVars, slaveVars>>
    BY <1>0, <1>5 DEF OpenReturns, TypeOK
  <2>2. open' \in [Bud -> BOOLEAN]
    BY <1>5 DEF OpenReturns, TypeOK
  <2>3. Queued'
    BY <1>1, <2>1
  <2> QED
    BY <2>1, <2>2, <2>3 DEF TypeOK
<1>6. ASSUME NEW ok \in BOOLEAN, VerifyReturns(ok) PROVE TypeOK' /\ Queued'
  <2>1. /\ sem' \in Nat /\ pc' = "ready" /\ lib' \in {"idle"} \cup InLibrary
        /\ UNCHANGED <<phoneVars, over, updateVars, netVars, slaveVars>>
    <3>1. lib' \in {"own", "idle", lib}
      BY <1>6 DEF VerifyReturns, Taken
    <3> QED
      BY <1>0, <1>6, <3>1 DEF VerifyReturns, TypeOK
  <2>2. Queued'
    BY <1>1, <2>1
  <2> QED
    BY <2>1, <2>2 DEF TypeOK
<1>7. ASSUME NEW ok \in BOOLEAN, ExitReturns(ok) PROVE TypeOK' /\ Queued'
  <2>1. /\ sem' \in Nat /\ lib' \in {"idle", "burn"} /\ phone' \in BOOLEAN
        /\ result' \in {"none", "succ", "failed"}
        /\ exitEvent' \in [Bud -> BOOLEAN] /\ open' \in [Bud -> BOOLEAN]
    <3>1. sem' \in Nat
      BY <1>0, <1>7 DEF ExitReturns
    <3>2. CASE ok
      BY <1>7, <3>1, <3>2 DEF ExitReturns, Taken, TypeOK
    <3>3. CASE ~ok
      BY <1>7, <3>1, <3>3 DEF ExitReturns, Fail, TypeOK
    <3> QED
      BY <3>2, <3>3
  <2>2. UNCHANGED <<first, sent, starts, verifies, orderly, pc, over, verified, burned,
                    rebooted, netVars, slaveVars>>
    BY <1>7 DEF ExitReturns
  <2>3. Queued'
    BY <1>1, <2>2
  <2> QED
    BY <2>1, <2>2, <2>3 DEF TypeOK
<1>8. ASSUME NEW ok \in BOOLEAN, OwnBurned(ok) PROVE TypeOK' /\ Queued'
  <2>1. Queued'
    BY <1>1, <1>8 DEF OwnBurned
  <2>2. /\ lib' = "idle" /\ phone' = FALSE /\ result' \in {"none", "succ", "failed"}
        /\ over' \in BOOLEAN
    BY <1>8 DEF OwnBurned, Fail, TypeOK
  <2>3. /\ exitEvent' \in [Bud -> BOOLEAN] /\ open' \in [Bud -> BOOLEAN]
        /\ burned' \in [Bud -> BOOLEAN]
    BY <1>8 DEF OwnBurned, Fail, TypeOK
  <2>4. UNCHANGED <<first, sent, starts, verifies, orderly, pc, sem, verified, rebooted,
                    netVars, slaveVars>>
    BY <1>8 DEF OwnBurned
  <2> QED
    BY <2>1, <2>2, <2>3, <2>4 DEF TypeOK
<1>9. CASE OtaCheck
  <2>1. starts' \in 0..MaxStarts /\ sent' \in 0..MaxPackets
    BY <1>9, Limits DEF OtaCheck, TypeOK
  <2>2. orderly' \in BOOLEAN /\ lib' \in {"idle"} \cup InLibrary
    BY <1>9 DEF OtaCheck, TypeOK
  <2>3. UNCHANGED <<result, verifies, over, burned, rebooted, exitEvent, slaveVars>>
    BY <1>9 DEF OtaCheck
  <2>4. CASE /\ open' = [open EXCEPT !["master"] = FALSE] /\ phone' = FALSE
             /\ UNCHANGED <<pc, sem, first, verified, netVars>>
    <3>1. Queued'
      BY <1>0, <1>9, <2>3, <2>4 DEF OtaCheck, Queued
    <3> QED
      BY <2>1, <2>2, <2>3, <2>4, <3>1 DEF TypeOK
  <2>5. CASE /\ open' = [open EXCEPT !["master"] = TRUE]
             /\ verified' = [verified EXCEPT !["master"] = FALSE]
             /\ sem' = 0 /\ first' = TRUE /\ pc' = "open" /\ phone' = TRUE
             /\ ToSlave("start")
    <3>1. /\ sn' \in [Bud -> 0..255] /\ UNCHANGED <<last, linked, toM, drops>>
          /\ toS' \in Seq(MessageOf(Requests))
      BY <1>0, <2>5, ToSlaveTyped DEF Requests
    <3>2. open' \in [Bud -> BOOLEAN] /\ verified' \in [Bud -> BOOLEAN]
      BY <2>5 DEF TypeOK
    <3>3. Queued'
      BY <1>0, <2>3, <2>5, <3>1 DEF Queued
    <3> QED
      BY <2>1, <2>2, <2>3, <2>5, <3>1, <3>2, <3>3 DEF TypeOK
  <2> QED
    BY <1>9, <2>4, <2>5 DEF OtaCheck
<1>10. ASSUME WriteAndSend, sent < MaxPackets, orderly' \in BOOLEAN,
              UNCHANGED <<phone, result, starts, verifies, lib, over, updateVars, slaveVars>>
       PROVE  TypeOK' /\ Queued'
  <2>1. /\ sn' \in [Bud -> 0..255] /\ UNCHANGED <<last, linked, toM, drops>>
        /\ toS' \in Seq(MessageOf(Requests))
    BY <1>0, <1>10, ToSlaveTyped DEF WriteAndSend, Requests
  <2>2. sent' \in 0..MaxPackets
    BY <1>10, Limits DEF WriteAndSend, TypeOK
  <2>3. sem' = 0 /\ pc' = "ready" /\ first' = FALSE
    BY <1>10 DEF WriteAndSend
  <2>4. Queued'
    BY <1>0, <1>10, <2>1, <2>3 DEF Queued
  <2> QED
    BY <1>10, <2>1, <2>2, <2>3, <2>4 DEF TypeOK
<1>11. CASE TransData
  <2>1. orderly' \in BOOLEAN
    BY <1>11 DEF TransData, InTurn, TypeOK
  <2>2. CASE first
    BY <1>10, <1>11, <2>1, <2>2 DEF TransData
  <2>3. CASE ~first
    <3>1. Queued'
      BY <1>0, <1>11, <2>3 DEF TransData, Queued
    <3> QED
      BY <1>11, <2>1, <2>3, <3>1 DEF TransData, TypeOK
  <2> QED
    BY <2>2, <2>3
<1>12. ASSUME NEW ok \in BOOLEAN, DataReturns(ok) PROVE TypeOK' /\ Queued'
  <2>1. sent < MaxPackets /\ orderly' = orderly /\ orderly' \in BOOLEAN
    BY <1>12 DEF DataReturns, Queued, TypeOK
  <2>2. CASE ok
    BY <1>10, <1>12, <2>1, <2>2 DEF DataReturns
  <2>3. CASE ~ok
    <3>1. Queued'
      BY <1>1, <1>12, <2>3 DEF DataReturns
    <3> QED
      BY <1>12, <2>1, <2>3, <3>1 DEF DataReturns, TypeOK
  <2> QED
    BY <2>2, <2>3
<1>13. ASSUME NEW ok \in BOOLEAN, CrcReturns(ok) PROVE TypeOK' /\ Queued'
  <2>1. CASE ok
    <3>1. /\ sn' \in [Bud -> 0..255] /\ UNCHANGED <<last, linked, toM, drops>>
          /\ toS' \in Seq(MessageOf(Requests))
      BY <1>0, <1>13, <2>1, ToSlaveTyped DEF CrcReturns, Requests
    <3>2. verifies' \in 0..MaxVerifies /\ sem' = 0 /\ pc' \in {"verify", "ready"}
      BY <1>13, <2>1, Limits DEF CrcReturns, Queued, TypeOK
    <3>3. Queued'
      BY <1>0, <1>13, <3>1, <3>2 DEF CrcReturns, Queued
    <3>4. UNCHANGED <<phone, first, sent, result, starts, orderly, lib, over, updateVars,
                      slaveVars>>
      BY <1>13 DEF CrcReturns
    <3> QED
      <4>1. Plain'
        BY <3>1, <3>2, <3>3, <3>4 DEF TypeOK, Plain
      <4>2. PerBud'
        BY <3>1, <3>2, <3>3, <3>4 DEF TypeOK, PerBud
      <4> QED
        BY <3>1, <3>2, <3>3, <3>4, <4>1, <4>2 DEF TypeOK, Plain, PerBud
  <2>2. CASE ~ok
    <3>1. Queued'
      BY <1>1, <1>13, <2>2 DEF CrcReturns
    <3> QED
      BY <1>13, <2>2, <3>1 DEF CrcReturns, TypeOK
  <2> QED
    BY <2>1, <2>2
<1>14. ASSUME NEW ok \in BOOLEAN, OwnVerified(ok) PROVE TypeOK' /\ Queued'
  <2>1. /\ sn' \in [Bud -> 0..255] /\ UNCHANGED <<last, linked, toM, drops>>
        /\ toS' \in Seq(MessageOf(Requests))
    <3>1. CASE ok
      BY <1>0, <1>14, <3>1, ToSlaveTyped DEF OwnVerified, Requests
    <3>2. CASE ~ok
      BY <1>0, <1>14, <3>2 DEF OwnVerified, TypeOK
    <3> QED
      BY <3>1, <3>2
  <2>2. verified' \in [Bud -> BOOLEAN]
    BY <1>14 DEF OwnVerified, TypeOK
  <2>3. /\ lib' \in {"exit", "idle"} /\ phone' \in BOOLEAN
        /\ result' \in {"none", "succ", "failed"}
        /\ exitEvent' \in [Bud -> BOOLEAN] /\ open' \in [Bud -> BOOLEAN]
    BY <1>14 DEF OwnVerified, Fail, TypeOK
  <2>4. UNCHANGED <<first, sent, starts, verifies, orderly, pc, sem, over, burned, rebooted,
                    slaveVars>>
    BY <1>14 DEF OwnVerified
  <2>5. Queued'
    BY <1>0, <2>1, <2>4 DEF Queued
  <2> QED
    BY <2>1, <2>2, <2>3, <2>4, <2>5 DEF TypeOK
<1>15. CASE MasterReceive
  <2>1. UNCHANGED <<phoneVars, pc, lib, over, updateVars, sn, linked, toS, drops, slaveVars>>
    BY <1>15 DEF MasterReceive
  <2>2. Head(toM) \in MessageOf(Answers) /\ toM' \in Seq(MessageOf(Answers))
    BY <1>0, <1>15, ReceivedTyped DEF MasterReceive
  <2>3. Head(toM).sn \in 0..255
    BY <2>2 DEF MessageOf
  <2>4. last' \in [Bud -> 0..255]
    BY <1>15, <2>3 DEF MasterReceive, TypeOK
  <2>5. sem' \in {sem, sem + 1}
    BY <1>15 DEF MasterReceive
  <2>6. sem' \in Nat
    BY <1>0, <2>5
  <2>7. Queued'
    BY <1>0, <2>1, <2>2 DEF Queued
  <2> QED
    BY <2>1, <2>4, <2>6, <2>7 DEF TypeOK
\* A message changes some of the slave's state, or none.
<1>16. ASSUME SlaveReceive
       PROVE  /\ sn' \in [Bud -> 0..255] /\ toM' \in Seq(MessageOf(Answers))
              /\ jobs' \in Seq(Jobs) /\ written' \in 0..Spoiled
              /\ open' \in [Bud -> BOOLEAN] /\ verified' \in [Bud -> BOOLEAN]
              /\ exitEvent' \in [Bud -> BOOLEAN]
  <2>1. ASSUME NEW fits \in BOOLEAN, SlaveStart(fits)
        PROVE  /\ sn' \in [Bud -> 0..255] /\ toM' \in Seq(MessageOf(Answers))
               /\ jobs' \in Seq(Jobs) /\ written' \in 0..Spoiled
               /\ open' \in [Bud -> BOOLEAN] /\ verified' \in [Bud -> BOOLEAN]
               /\ exitEvent' \in [Bud -> BOOLEAN]
    <3>1. \E status \in {"succ", "err", "past_end"} : Answer("start_rsp", status)
      BY <2>1 DEF SlaveStart
    <3>2. sn' \in [Bud -> 0..255] /\ toM' \in Seq(MessageOf(Answers))
      BY <1>0, <3>1, AnswerTyped DEF Answers
    <3>3. written' \in {0, Spoiled} /\ jobs' \in {jobs, <<>>}
      BY <2>1 DEF SlaveStart
    <3>4. 0 \in 0..Spoiled /\ Spoiled \in 0..Spoiled
      BY Limits DEF Spoiled
    <3>5. /\ open' \in [Bud -> BOOLEAN] /\ verified' \in [Bud -> BOOLEAN]
          /\ exitEvent' \in [Bud -> BOOLEAN]
      BY <2>1 DEF SlaveStart, TypeOK
    <3> QED
      BY <1>0, <3>2, <3>3, <3>4, <3>5
  <2>2. ASSUME NEW job \in Jobs, SlaveJob(job)
        PROVE  jobs' \in Seq(Jobs) /\ UNCHANGED <<open, verified, exitEvent, written, sn, toM>>
    BY <1>0, <2>2 DEF SlaveJob
  <2>3. CASE SlaveRefuses
    BY <1>0, <2>3, AnswerTyped DEF SlaveRefuses, Answers, TypeOK
  <2>4. \/ UNCHANGED <<open, verified, exitEvent, jobs, written, sn, toM>>
        \/ \E fits \in BOOLEAN : SlaveStart(fits)
        \/ \E job \in Jobs : SlaveJob(job)
        \/ SlaveRefuses
    <3>1. "data" \in Jobs /\ "verify" \in Jobs /\ "write_boot_info" \in Jobs
      BY DEF Jobs
    <3> QED
      BY <1>16, <3>1 DEF SlaveReceive, SlaveHandles
  <2> QED
    BY <1>0, <2>1, <2>2, <2>3, <2>4 DEF TypeOK
<1>17. CASE SlaveReceive
  <2>1. /\ UNCHANGED <<phoneVars, pc, lib, sem, over, burned, rebooted, linked, drops>>
        /\ timer' \in BOOLEAN
    BY <1>17 DEF SlaveReceive, TypeOK
  <2>2. Head(toS) \in MessageOf(Requests) /\ toS' \in Seq(MessageOf(Requests))
    BY <1>0, <1>17, ReceivedTyped DEF SlaveReceive
  <2>3. Head(toS).sn \in 0..255
    BY <2>2 DEF MessageOf
  <2>4. last' \in [Bud -> 0..255]
    BY <1>17, <2>3 DEF SlaveReceive, TypeOK
  <2>5. Queued'
    BY <1>16, <1>17, <2>1, <2>2 DEF Queued
  <2>6. /\ sn' \in [Bud -> 0..255] /\ written' \in 0..Spoiled
        /\ open' \in [Bud -> BOOLEAN] /\ verified' \in [Bud -> BOOLEAN]
        /\ exitEvent' \in [Bud -> BOOLEAN]
    BY <1>16, <1>17
  <2> QED
    BY <2>1, <2>4, <2>5, <2>6 DEF TypeOK
<1>18. CASE SlaveTask
  <2>1. /\ UNCHANGED <<phoneVars, pc, lib, sem, over, open, rebooted, exitEvent, last, linked,
                       toS, drops, timer>>
        /\ jobs' = Tail(jobs) /\ jobs # <<>>
    BY <1>18 DEF SlaveTask
  <2>2. jobs' \in Seq(Jobs)
    BY <1>0, <2>1
  <2>3. \/ UNCHANGED <<sn, toM>>
        \/ \E type \in Answers, status \in {"succ", "err", "past_end"} : Answer(type, status)
    BY <1>18 DEF SlaveTask, Answers
  <2>4. sn' \in [Bud -> 0..255] /\ toM' \in Seq(MessageOf(Answers))
    BY <1>0, <2>3, AnswerTyped DEF TypeOK
  <2>5. written' \in 0..Spoiled
    <3>1. written' = written \/ written' = IF written = Spoiled THEN Spoiled ELSE written + 1
      BY <1>18 DEF SlaveTask
    <3>2. written \in 0..Spoiled /\ Spoiled \in Nat
      BY Limits DEF TypeOK, Spoiled
    <3> QED
      BY <3>1, <3>2
  <2>6. verified' \in [Bud -> BOOLEAN] /\ burned' \in [Bud -> BOOLEAN]
    BY <1>18 DEF SlaveTask, TypeOK
  <2>7. Queued'
    BY <2>1, <2>2, <2>4, <1>0 DEF Queued
  <2> QED
    <3>1. Plain'
      BY <2>1, <2>4, <2>5, <2>6, <2>7 DEF TypeOK, Plain
    <3>2. PerBud'
      BY <2>1, <2>4, <2>5, <2>6, <2>7 DEF TypeOK, PerBud
    <3> QED
      BY <2>1, <2>4, <2>5, <2>6, <2>7, <3>1, <3>2 DEF TypeOK, Plain, PerBud
<1>19. CASE SlaveTimeout
  <2>1. Queued'
    BY <1>1, <1>19 DEF SlaveTimeout
  <2>2. open' \in [Bud -> BOOLEAN] /\ timer' = FALSE
    BY <1>19 DEF SlaveTimeout, TypeOK
  <2>3. UNCHANGED <<phoneVars, pc, lib, sem, over, verified, burned, rebooted, exitEvent,
                    netVars, written>>
    BY <1>19 DEF SlaveTimeout
  <2> QED
    <3>1. Plain'
      BY <2>1, <2>2, <2>3 DEF TypeOK, Plain
    <3>2. PerBud'
      BY <2>1, <2>2, <2>3 DEF TypeOK, PerBud
    <3> QED
      BY <2>1, <2>2, <2>3, <3>1, <3>2 DEF TypeOK, Plain, PerBud
<1>20. CASE LinkDrop
  <2>1. drops' \in 0..MaxDrops /\ exitEvent' \in [Bud -> BOOLEAN]
    BY <1>20, Limits DEF LinkDrop, TypeOK, Both
  <2>2. Queued'
    BY <1>1, <1>20 DEF LinkDrop
  <2>3. /\ UNCHANGED <<phoneVars, pc, lib, sem, over, open, verified, burned, rebooted>>
        /\ UNCHANGED <<sn, last, slaveVars>> /\ linked' = FALSE
    BY <1>20 DEF LinkDrop
  <2> QED
    <3>1. Plain'
      BY <2>1, <2>2, <2>3 DEF TypeOK, Plain
    <3>2. PerBud'
      BY <2>1, <2>2, <2>3 DEF TypeOK, PerBud
    <3> QED
      BY <2>1, <2>2, <2>3, <3>1, <3>2 DEF TypeOK, Plain, PerBud
<1>21. ASSUME NEW b \in Bud, ExitEvent(b) PROVE TypeOK' /\ Queued'
  <2>1. exitEvent' \in [Bud -> BOOLEAN] /\ open' \in [Bud -> BOOLEAN]
    BY <1>21 DEF ExitEvent, TypeOK
  <2>2. /\ UNCHANGED <<phoneVars, pc, lib, sem, over, verified, burned, rebooted, netVars>>
        /\ UNCHANGED <<timer, written>> /\ jobs' \in {jobs, <<>>}
    BY <1>21 DEF ExitEvent
  <2>3. Queued'
    BY <1>1, <2>2
  <2> QED
    <3>1. Plain'
      BY <2>1, <2>2, <2>3 DEF TypeOK, Plain
    <3>2. PerBud'
      BY <2>1, <2>2, <2>3 DEF TypeOK, PerBud
    <3> QED
      BY <2>1, <2>2, <2>3, <3>1, <3>2 DEF TypeOK, Plain, PerBud
<1>22. CASE UNCHANGED vars
  BY <1>1, <1>22 DEF vars, TypeOK
<1> QED
  BY <1>2, <1>3, <1>4, <1>5, <1>6, <1>7, <1>8, <1>9, <1>11, <1>12, <1>13, <1>14, <1>15,
     <1>17, <1>18, <1>19, <1>20, <1>21, <1>22 DEF Next, HandlerReturns

\* At the start nothing is on its way.
LEMMA Starts == Init => TypeOK /\ Queued /\ OtaInv /\ VerifyInv
<1> SUFFICES ASSUME Init PROVE TypeOK /\ Queued /\ OtaInv /\ VerifyInv
  OBVIOUS
<1>1. TypeOK
  <2>1. /\ 0 \in 0..MaxPackets /\ 0 \in 0..MaxStarts /\ 0 \in 0..MaxVerifies
        /\ 0 \in 0..MaxDrops /\ 0 \in 0..Spoiled /\ 0 <= 1 /\ 0 \in Nat
        /\ 0 \in 0..255 /\ 1 \in 0..255
    BY Limits DEF Spoiled
  <2>2. \A S : \A v \in S : Both(v) \in [Bud -> S]
    BY DEF Both
  <2> QED
    BY <2>1, <2>2 DEF Init, TypeOK
<1>2. ~Asked /\ ~Answered /\ ~Working /\ MessageInv
  <2>1. <<>> \in Seq(Jobs) /\ Len(<<>>) \in 0..1
    OBVIOUS
  <2> QED
    BY <2>1, Empty DEF Init, Asked, Answered, Working, MessageInv
<1>3. OtaInv
  BY <1>2 DEF Init, OtaInv, OneToken, Requested, BurnInv, Pending, InHandler, Both, Bud
<1>4. VerifyInv
  BY <1>2 DEF Init, VerifyInv, Pending
<1>5. Queued
  BY <1>2 DEF Init, Queued, MessageInv
<1> QED
  BY <1>1, <1>3, <1>4, <1>5

\* A request that met something of an earlier one is not forgotten.
LEMMA OnceDisorderly == orderly' /\ [Next]_vars => orderly
<1> SUFFICES ASSUME orderly', [Next]_vars PROVE orderly
  OBVIOUS
<1>1. CASE UNCHANGED orderly
  BY <1>1
<1>2. CASE OtaCheck \/ TransData \/ CheckCrc
  BY <1>2 DEF OtaCheck, TransData, CheckCrc, InTurn
<1>3. UNCHANGED orderly \/ OtaCheck \/ TransData \/ CheckCrc
  BY DEF Next, HandlerReturns, OpenReturns, DataReturns, CrcReturns, VerifyReturns, ExitReturns,
     OwnVerified, OwnBurned, Abandoned, SyncOver, PhoneDisconnect, MasterReceive, SlaveReceive,
     SlaveTask, SlaveTimeout, LinkDrop, LinkUp, ExitEvent, vars, phoneVars
<1> QED
  BY <1>1, <1>2, <1>3

\* Types, and the token as long as the exchange is orderly.
LEMMA OrderlyStep ==
    TypeOK /\ Queued /\ (orderly => OtaInv) /\ [Next]_vars
    => (TypeOK /\ Queued /\ (orderly => OtaInv))'
<1> SUFFICES ASSUME TypeOK, Queued, orderly => OtaInv, [Next]_vars
             PROVE  TypeOK' /\ Queued' /\ (orderly' => OtaInv')
  OBVIOUS
<1>1. orderly' => OtaInv'
  BY OnceDisorderly, OtaStep
<1>2. orderly' => sem' <= 1
  BY <1>1 DEF OtaInv, OneToken
<1> QED
  BY <1>1, <1>2, TypeStep

\* Numbers, counts and flags stay within their limits, and at most one answer
\* is unclaimed as long as no request meets anything of an earlier one
\* (deal_sibling_tws_ota_trans, tws_ota_enter_verify, tws_ota_exit_verify).
THEOREM TypeCorrect == Spec => []TypeOK
BY OrderlyStep, Starts, PTL DEF Spec

\* No bud resets out of the update before both have written their boot info
\* (tws_ota_result, tws_ota_sync_cmd), as long as no request meets anything of
\* an earlier one.
THEOREM RebootTogether == Spec => []RebootTogetherUpdated
<1>1. (orderly => OtaInv) => RebootTogetherUpdated
  BY DEF OtaInv, BurnInv, RebootTogetherUpdated
<1> QED
  BY <1>1, OrderlyStep, Starts, PTL DEF Spec

-----------------------------------------------------------------------------
(* What has been verified *)

\* What the token says of the slave's image is true, as long as the status of
\* an answer is not read past its end.
LEMMA VerifyStep ==
    orderly /\ orderly' /\ ~PastEndReads /\ TypeOK /\ OtaInv /\ VerifyInv /\ [Next]_vars => VerifyInv'
<1> SUFFICES ASSUME orderly, orderly', ~PastEndReads, TypeOK, OtaInv, VerifyInv, [Next]_vars
             PROVE  VerifyInv'
  OBVIOUS
<1> USE DEF phoneVars, updateVars, netVars, slaveVars, Pended
<1>0. MessageInv /\ OneToken /\ Requested
  BY DEF OtaInv
<1>1. ASSUME UNCHANGED <<toS, toM, last, jobs, verified>>,
             pc' # "verify" \/ UNCHANGED <<pc, sem>>, lib' \in {lib, "idle"}
      PROVE  VerifyInv'
  <2>1. Asked' = Asked /\ Answered' = Answered /\ Working' = Working
    BY <1>1, TokenStays DEF Working
  <2> QED
    BY <1>1, <2>1 DEF VerifyInv, OnlyPending, Pending
<1>2. CASE CheckCrc
  BY <1>1, <1>2 DEF CheckCrc
<1>3. CASE Abandoned
  BY <1>1, <1>3 DEF Abandoned
<1>4. CASE SyncOver
  BY <1>1, <1>4 DEF SyncOver
<1>5. CASE PhoneDisconnect
  BY <1>1, <1>5 DEF PhoneDisconnect
<1>6. CASE LinkUp
  BY <1>1, <1>6 DEF LinkUp
<1>7. ASSUME NEW ok \in BOOLEAN, OpenReturns(ok) PROVE VerifyInv'
  BY <1>1, <1>7 DEF OpenReturns
<1>8. ASSUME sem > 0 PROVE sem = 1 /\ ~Asked /\ ~Working /\ ~Answered
  BY <1>8, Posted
\* The master goes on from a post: it is the answer that the slave's image is
\* good, or that its boot info is written.
<1>9. ASSUME UNCHANGED <<toS, toM, last, jobs, verified>>, pc' # "verify",
             lib' \in {"own", "burn"}, ~Asked, ~Working,
             lib' = "own" => verified["slave"], lib' = "burn" => verified["master"]
      PROVE  VerifyInv'
  <2>1. ~Asked' /\ ~Working'
    BY <1>9, TokenStays DEF Working
  <2> QED
    BY <1>9, <2>1 DEF VerifyInv, Pending
<1>10. ASSUME NEW ok \in BOOLEAN, VerifyReturns(ok) PROVE VerifyInv'
  <2>1. /\ UNCHANGED <<toS, toM, last, jobs, verified>> /\ pc = "verify" /\ pc' = "ready"
        /\ lib' \in {lib, "idle"} \/ (ok /\ sem > 0 /\ lib' = "own")
    BY <1>10 DEF VerifyReturns, Taken
  <2>2. CASE lib' \in {lib, "idle"}
    BY <1>1, <2>1, <2>2
  <2>3. CASE ok /\ sem > 0 /\ lib' = "own"
    <3>1. sem = 1 /\ ~Asked /\ ~Working /\ verified["slave"]
      BY <1>8, <2>1, <2>3 DEF VerifyInv
    <3> QED
      BY <1>9, <2>1, <2>3, <3>1
  <2> QED
    BY <2>1, <2>2, <2>3
<1>11. ASSUME NEW ok \in BOOLEAN, ExitReturns(ok) PROVE VerifyInv'
  <2>1. /\ UNCHANGED <<toS, toM, last, jobs, verified, pc>> /\ lib = "exit" /\ pc' # "verify"
        /\ lib' = "idle" \/ (ok /\ sem > 0 /\ lib' = "burn")
    BY <1>0, <1>11 DEF ExitReturns, Taken, Fail, OneToken
  <2>2. CASE lib' = "idle"
    BY <1>1, <2>1, <2>2
  <2>3. CASE ok /\ sem > 0 /\ lib' = "burn"
    <3>1. ~Asked /\ ~Working /\ verified["master"]
      BY <1>8, <2>1, <2>3 DEF VerifyInv
    <3> QED
      BY <1>9, <2>1, <2>3, <3>1
  <2> QED
    BY <2>1, <2>2, <2>3
<1>12. ASSUME NEW ok \in BOOLEAN, OwnBurned(ok) PROVE VerifyInv'
  BY <1>0, <1>1, <1>12 DEF OwnBurned, Fail, OneToken
<1>13. CASE OtaCheck
  <2>1. ~Asked /\ ~Working /\ ~Answered /\ lib' = "idle" /\ UNCHANGED jobs
    BY <1>13, NothingOnItsWay DEF OtaCheck, Quiet
  <2>2. CASE UNCHANGED <<pc, sem, first, verified, netVars>>
    BY <1>1, <1>13, <2>1, <2>2
  <2>3. CASE pc' = "open" /\ ToSlave("start")
    <3>1. ~Working' /\ (Asked' => Newest(toS').type = "start")
      BY <2>1, <2>3, MasterSends DEF Requests
    <3> QED
      BY <2>1, <2>3, <3>1 DEF VerifyInv, Pending
  <2> QED
    BY <1>13, <2>2, <2>3 DEF OtaCheck
<1>14. ASSUME WriteAndSend, phone, pc \in {"ready", "data"}, first \/ sem > 0,
              lib' = "idle", UNCHANGED <<jobs, verified>>
       PROVE  VerifyInv'
  <2>1. ~Asked /\ ~Working /\ ~Answered
    BY <1>0, <1>8, <1>14 DEF OneToken, Idle
  <2>2. ~Working' /\ (Asked' => Newest(toS').type = "data")
    BY <1>14, <2>1, MasterSends DEF WriteAndSend, Requests
  <2> QED
    BY <1>14, <2>2 DEF WriteAndSend, VerifyInv, Pending
<1>15. CASE TransData
  <2>1. lib' = "idle"
    BY <1>15 DEF TransData, InTurn
  <2> QED
    BY <1>1, <1>14, <1>15, <2>1 DEF TransData
<1>16. ASSUME NEW ok \in BOOLEAN, DataReturns(ok) PROVE VerifyInv'
  <2>3. lib' = "idle" /\ phone /\ pc = "data"
    BY <1>0, <1>16 DEF DataReturns, OneToken, Requested, InHandler
  <2>1. CASE ok
    BY <1>14, <1>16, <2>1, <2>3 DEF DataReturns
  <2>2. CASE ~ok
    BY <1>1, <1>16, <2>2 DEF DataReturns
  <2> QED
    BY <2>1, <2>2
<1>17. ASSUME NEW ok \in BOOLEAN, CrcReturns(ok) PROVE VerifyInv'
  <2>1. CASE ok
    <3>1. ~Working' /\ ~Answered' /\ (Asked' => Newest(toS').type = "verify")
      BY <1>8, <1>17, <2>1, MasterSends DEF CrcReturns, Requests
    <3>2. sem' = 0 /\ lib' = "idle"
      BY <1>0, <1>17, <2>1 DEF CrcReturns, OneToken
    <3> QED
      BY <3>1, <3>2 DEF VerifyInv, OnlyPending, Pending
  <2>2. CASE ~ok
    BY <1>1, <1>17, <2>2 DEF CrcReturns
  <2> QED
    BY <2>1, <2>2
<1>18. ASSUME NEW ok \in BOOLEAN, OwnVerified(ok) PROVE VerifyInv'
  <2>1. /\ ~Asked /\ ~Working /\ ~Answered /\ verified["slave"] /\ UNCHANGED jobs
        /\ verified' = [verified EXCEPT !["master"] = ok] /\ lib' \in {"idle", "exit"}
        /\ pc' = "ready"
    BY <1>0, <1>18 DEF OwnVerified, OneToken, Idle, VerifyInv, Fail
  <2>2. verified'["slave"] /\ (lib' = "exit" => verified'["master"])
    BY <1>18, <2>1 DEF OwnVerified, Fail, TypeOK, Bud
  <2> QED
    BY <2>1, <2>2 DEF VerifyInv
\* The token moves on.
<1>19. CASE MasterReceive
  <2>1. /\ Asked' = Asked /\ Working' = Working /\ UNCHANGED <<toS, jobs, pc, lib, verified>>
    BY <1>19, MasterReads DEF MasterReceive, Working
  <2>2. \/ sem' = sem /\ (Answered' => Answered /\ Newest(toM') = Newest(toM))
        \/ /\ Answered /\ ~Answered' /\ sem' \in {sem, sem + 1}
           /\ sem' = sem + 1 => Newest(toM).status = "succ"
    BY <1>19, MasterReads
  <2>3. pc = "verify" /\ sem' = 1 => verified["slave"]
    BY <1>0, <2>2 DEF VerifyInv, OneToken
  <2> QED
    BY <2>1, <2>2, <2>3 DEF VerifyInv, OnlyPending, Pending
<1>20. CASE SlaveReceive
  <2>1. UNCHANGED <<pc, lib, sem>>
    BY <1>20 DEF SlaveReceive
  <2>2. CASE SeenRequest
    BY <2>1, <2>2 DEF SeenRequest, VerifyInv, OnlyPending, Pending, Working
  <2>3. CASE Asked /\ ~Asked' /\ ~SeenRequest
    <3>1. lib \notin {"own", "burn"} /\ sem = 0
      BY <1>0, <2>3 DEF OneToken, Idle
    <3>2. CASE StartRequest
      <4>1. pc \notin {"verify"} /\ verified'["master"] = verified["master"]
        BY <2>3, <3>2 DEF StartRequest, VerifyInv, OnlyPending, TypeOK, Bud
      <4> QED
        BY <2>1, <2>3, <3>1, <3>2, <4>1 DEF StartRequest, VerifyInv, Pending
    <3>3. CASE JobRequest
      BY <2>1, <2>3, <3>1, <3>3 DEF JobRequest, VerifyInv, OnlyPending, Pending
    <3>4. CASE RefusedRequest
      BY <2>1, <2>3, <3>1, <3>4 DEF RefusedRequest, VerifyInv, OnlyPending, Pending
    <3> QED
      BY <1>20, <2>3, <3>2, <3>3, <3>4, SlaveReads
  <2> QED
    BY <1>20, <2>2, <2>3, SlaveReads DEF StartRequest, JobRequest, RefusedRequest
<1>21. CASE SlaveTask
  <2>1. /\ Asked' = Asked /\ Working /\ ~Working' /\ ~Asked /\ sem = 0
        /\ lib \notin {"own", "burn"} /\ UNCHANGED <<pc, lib, sem, toS>>
    BY <1>0, <1>21, SlaveWorks DEF SlaveTask, OneToken, Idle
  <2>2. verified'["master"] = verified["master"]
    BY <1>21, SlaveWorks DEF TypeOK, Bud
  <2>3. pc = "verify" /\ Answered' /\ Newest(toM').status = "succ" => verified'["slave"]
    BY <1>21, <2>1, SlaveWorks DEF VerifyInv, OnlyPending, TypeOK, Bud
  <2> QED
    BY <2>1, <2>2, <2>3 DEF VerifyInv, OnlyPending, Pending
\* The token is lost, or stays.
<1>22. ASSUME toS' \in {toS, <<>>}, toM' \in {toM, <<>>}, jobs' \in {jobs, <<>>},
              UNCHANGED <<pc, lib, sem, last, verified>>
       PROVE  VerifyInv'
  <2>1. /\ Asked' => Asked /\ toS' = toS
        /\ Answered' => Answered /\ toM' = toM
        /\ Working' => Working /\ jobs' = jobs
    BY <1>22, Empty DEF Asked, Answered, Working
  <2> QED
    BY <1>22, <2>1 DEF VerifyInv, OnlyPending, Pending
<1>23. CASE SlaveTimeout
  BY <1>22, <1>23 DEF SlaveTimeout
<1>24. CASE LinkDrop
  BY <1>22, <1>24 DEF LinkDrop
<1>25. ASSUME NEW b \in Bud, ExitEvent(b) PROVE VerifyInv'
  BY <1>22, <1>25 DEF ExitEvent
<1>26. CASE UNCHANGED vars
  BY <1>22, <1>26 DEF vars
<1> QED
  BY <1>2, <1>3, <1>4, <1>5, <1>6, <1>7, <1>10, <1>11, <1>12, <1>13, <1>15, <1>16, <1>17,
     <1>18, <1>19, <1>20, <1>21, <1>23, <1>24, <1>25, <1>26 DEF Next, HandlerReturns

\* It holds as long as the exchange is orderly.
LEMMA VerifiedStep ==
    ASSUME ~PastEndReads
    PROVE  TypeOK /\ Queued /\ (orderly => OtaInv /\ VerifyInv) /\ [Next]_vars
           => (TypeOK /\ Queued /\ (orderly => OtaInv /\ VerifyInv))'
<1> SUFFICES ASSUME TypeOK, Queued, orderly => OtaInv /\ VerifyInv, [Next]_vars
             PROVE  TypeOK' /\ Queued' /\ (orderly' => OtaInv' /\ VerifyInv')
  OBVIOUS
<1>1. TypeOK' /\ Queued' /\ (orderly' => OtaInv')
  BY OrderlyStep
<1>2. orderly' => VerifyInv'
  BY OnceDisorderly, VerifyStep
<1> QED
  BY <1>1, <1>2

\* A bud writes its boot info only for an image it has itself verified
\* (tws_ota_enter_verify, tws_ota_exit_verify), as long as no request meets
\* anything of an earlier one, if no status is read past the end of an answer.
THEOREM BurnVerified == ASSUME ~PastEndReads PROVE Spec => BurnAfterVerify
<1>1. TypeOK /\ Queued /\ (orderly => OtaInv /\ VerifyInv) /\ [Next]_vars =>
          [orderly => \A b \in Bud : burned'[b] /\ ~burned[b] => verified[b]]_vars
  <2> SUFFICES ASSUME TypeOK, OtaInv, VerifyInv, Next, NEW b \in Bud, burned'[b], ~burned[b]
               PROVE  verified[b]
    OBVIOUS
  <2> USE DEF phoneVars, updateVars, netVars, slaveVars
  <2>1. CASE burned' = burned
    BY <2>1
  <2>2. ASSUME NEW ok \in BOOLEAN, OwnBurned(ok) PROVE verified[b]
    BY <2>2 DEF OwnBurned, VerifyInv, TypeOK, Bud
  <2>3. CASE SlaveTask
    BY <2>3, SlaveWorks DEF VerifyInv, Pending, TypeOK, Bud
  <2>4. \/ burned' = burned \/ SlaveTask
        \/ \E ok \in BOOLEAN : OwnBurned(ok)
    BY DEF Next, HandlerReturns, OtaCheck, TransData, CheckCrc, OpenReturns, DataReturns,
       CrcReturns, VerifyReturns, ExitReturns, OwnVerified, Abandoned, SyncOver,
       PhoneDisconnect, MasterReceive, SlaveReceive, SlaveTimeout, LinkDrop, LinkUp, ExitEvent
  <2> QED
    BY <2>1, <2>2, <2>3, <2>4
<1> QED
  BY <1>1, Starts, VerifiedStep, PTL DEF Spec, BurnAfterVerify

-----------------------------------------------------------------------------
(* The pair commits in order: TwsOta implements PairUpdate *)

\* The slave is asked for its boot info when both images are good, and still
\* are when the master writes its own; a success that was reported is final.
CommitInv ==
    /\ lib \in {"exit", "burn"} => verified["slave"]
    /\ Pending("write_boot_info") => verified["master"]
    /\ result = "succ" => ~Asked /\ ~Working

\* Every step preserves it.
LEMMA CommitStep ==
    orderly /\ orderly' /\ TypeOK /\ OtaInv /\ VerifyInv /\ CommitInv /\ [Next]_vars => CommitInv'
<1> SUFFICES ASSUME orderly, orderly', TypeOK, OtaInv, VerifyInv, CommitInv, [Next]_vars
             PROVE  CommitInv'
  OBVIOUS
<1> USE DEF phoneVars, updateVars, netVars, slaveVars, Pended
<1>0. OneToken /\ Requested /\ BurnInv
  BY DEF OtaInv
\* The token stays or is lost, and no request is on its way at a success.
<1>1. ASSUME toS' \in {toS, <<>>}, jobs' \in {jobs, <<>>}, UNCHANGED <<last, verified>>,
             lib' \in {"exit", "burn"} => lib \in {"exit", "burn"},
             result' = result \/ result' # "succ" \/ (~Asked /\ ~Working)
      PROVE  CommitInv'
  <2>1. (Asked' => Asked /\ toS' = toS) /\ (Working' => Working /\ jobs' = jobs)
    BY <1>1, Empty DEF Asked, Working
  <2> QED
    BY <1>1, <2>1 DEF CommitInv, Pending
<1>2. CASE \/ CheckCrc \/ Abandoned \/ SyncOver \/ PhoneDisconnect \/ LinkUp \/ LinkDrop
           \/ SlaveTimeout \/ (\E b \in Bud : ExitEvent(b)) \/ UNCHANGED vars
  <2>1. /\ toS' \in {toS, <<>>} /\ jobs' \in {jobs, <<>>}
        /\ UNCHANGED <<last, verified, result>> /\ lib' \in {lib, "idle"}
    BY <1>2 DEF CheckCrc, Abandoned, SyncOver, PhoneDisconnect, LinkUp, LinkDrop,
                SlaveTimeout, ExitEvent, vars
  <2> QED
    BY <1>1, <2>1
<1>3. ASSUME NEW ok \in BOOLEAN, OpenReturns(ok) \/ VerifyReturns(ok) \/ ExitReturns(ok)
      PROVE  CommitInv'
  <2>1. /\ UNCHANGED <<toS, jobs, last, verified>>
        /\ lib' \in {lib, "idle", "own"} \/ lib = "exit"
        /\ result' = result \/ result' = "failed"
    BY <1>3 DEF OpenReturns, VerifyReturns, ExitReturns, Taken, Fail
  <2> QED
    BY <1>1, <2>1
<1>4. ASSUME NEW ok \in BOOLEAN, OwnBurned(ok) PROVE CommitInv'
  <2>1. UNCHANGED <<toS, jobs, last, verified>> /\ lib' = "idle" /\ ~Asked /\ ~Working
    BY <1>0, <1>4 DEF OwnBurned, Fail, OneToken, Idle
  <2> QED
    BY <1>1, <2>1
\* The master sends: never after a success, and for boot info only when its own
\* image is good.
<1>5. ASSUME NEW type \in Requests, ToSlave(type), ~Asked, ~Working, ~Answered,
             UNCHANGED jobs, result' # "succ", lib' \notin {"exit", "burn"} \/ verified'["slave"],
             type = "write_boot_info" => verified'["master"]
      PROVE  CommitInv'
  <2>1. ~Working' /\ (Asked' => Newest(toS').type = type)
    BY <1>5, MasterSends
  <2> QED
    BY <1>5, <2>1 DEF CommitInv, Pending
<1>6. CASE OtaCheck
  <2>1. /\ ~Asked /\ ~Working /\ ~Answered /\ UNCHANGED jobs
        /\ lib' = "idle" /\ result' = result /\ result # "succ"
    BY <1>0, <1>6, NothingOnItsWay DEF OtaCheck, Quiet, BurnInv
  <2>2. CASE UNCHANGED <<pc, sem, first, verified, netVars>>
    BY <1>1, <2>1, <2>2
  <2>3. CASE pc' = "open" /\ ToSlave("start")
    BY <1>5, <2>1, <2>3 DEF Requests
  <2> QED
    BY <1>6, <2>2, <2>3 DEF OtaCheck
<1>7. ASSUME WriteAndSend, phone, pc \in {"ready", "data"}, first \/ sem > 0,
             lib' = "idle", UNCHANGED <<jobs, verified, result>>
      PROVE  CommitInv'
  <2>1. ~Asked /\ ~Working /\ ~Answered
    BY <1>0, <1>7, Posted DEF OneToken, Idle
  <2>2. result' # "succ"
    BY <1>0, <1>7 DEF BurnInv
  <2> QED
    BY <1>5, <1>7, <2>1, <2>2 DEF WriteAndSend, Requests
<1>8. CASE TransData
  <2>1. lib' = "idle"
    BY <1>8 DEF TransData, InTurn
  <2> QED
    BY <1>1, <1>7, <1>8, <2>1 DEF TransData
<1>9. ASSUME NEW ok \in BOOLEAN, DataReturns(ok) PROVE CommitInv'
  <2>3. lib' = "idle" /\ phone /\ pc = "data"
    BY <1>0, <1>9 DEF DataReturns, OneToken, Requested, InHandler
  <2>1. CASE ok
    BY <1>7, <1>9, <2>1, <2>3 DEF DataReturns
  <2>2. CASE ~ok
    BY <1>1, <1>9, <2>2 DEF DataReturns
  <2> QED
    BY <2>1, <2>2
<1>10. ASSUME NEW ok \in BOOLEAN, CrcReturns(ok) PROVE CommitInv'
  <2>1. CASE ok
    <3>1. ~Asked /\ ~Working /\ ~Answered /\ result' # "succ" /\ lib' = "idle"
      BY <1>0, <1>10, <2>1, Posted DEF CrcReturns, OneToken, BurnInv
    <3> QED
      BY <1>5, <1>10, <2>1, <3>1 DEF CrcReturns, Requests
  <2>2. CASE ~ok
    BY <1>1, <1>10, <2>2 DEF CrcReturns
  <2> QED
    BY <2>1, <2>2
<1>11. ASSUME NEW ok \in BOOLEAN, OwnVerified(ok) PROVE CommitInv'
  <2>1. /\ ~Asked /\ ~Working /\ ~Answered /\ verified["slave"] /\ UNCHANGED jobs
        /\ verified' = [verified EXCEPT !["master"] = ok]
    BY <1>0, <1>11 DEF OwnVerified, OneToken, Idle, VerifyInv
  <2>2. verified'["slave"] /\ (ok => verified'["master"])
    BY <2>1 DEF TypeOK, Bud
  <2>3. result' # "succ"
    BY <1>0, <1>11 DEF OwnVerified, Fail, BurnInv
  <2>4. CASE ok
    BY <1>5, <1>11, <2>1, <2>2, <2>3, <2>4 DEF OwnVerified, Requests
  <2>5. CASE ~ok
    <3>1. ~Asked' /\ ~Working'
      BY <1>11, <2>1, <2>5 DEF OwnVerified, Asked, Working
    <3> QED
      BY <2>2, <3>1 DEF CommitInv, Pending
  <2> QED
    BY <2>4, <2>5
\* The token moves on.
<1>12. CASE MasterReceive
  <2>1. Asked' = Asked /\ UNCHANGED <<toS, jobs, lib, verified, result>>
    BY <1>12, MasterReads DEF MasterReceive
  <2> QED
    BY <2>1 DEF CommitInv, Pending, Working
<1>13. CASE SlaveReceive
  <2>1. UNCHANGED <<lib, result>>
    BY <1>13 DEF SlaveReceive
  <2>2. CASE SeenRequest
    BY <2>1, <2>2 DEF SeenRequest, CommitInv, Pending, Working
  <2>3. CASE StartRequest
    <3>1. lib \notin {"exit", "burn"}
      BY <1>0, <2>3 DEF StartRequest, BurnInv, OnlyPending, OneToken, Idle
    <3> QED
      BY <2>1, <2>3, <3>1 DEF StartRequest, CommitInv, Pending
  <2>4. CASE JobRequest \/ RefusedRequest
    BY <2>1, <2>4 DEF JobRequest, RefusedRequest, CommitInv, Pending
  <2> QED
    BY <1>13, <2>2, <2>3, <2>4, SlaveReads
<1>14. CASE SlaveTask
  <2>1. /\ Asked' = Asked /\ Working /\ ~Working' /\ ~Asked /\ UNCHANGED <<lib, result>>
    BY <1>0, <1>14, SlaveWorks DEF SlaveTask, OneToken
  <2>2. lib \in {"exit", "burn"} => verified'["slave"]
    BY <1>0, <1>14, <2>1, SlaveWorks DEF CommitInv, BurnInv, OnlyPending, OneToken, Idle
  <2> QED
    BY <2>1, <2>2 DEF CommitInv, Pending
<1> QED
  BY <1>2, <1>3, <1>4, <1>6, <1>8, <1>9, <1>10, <1>11, <1>12, <1>13, <1>14 DEF Next, HandlerReturns

\* It holds as long as the exchange is orderly.
LEMMA CommittedStep ==
    ASSUME ~PastEndReads
    PROVE  TypeOK /\ Queued /\ (orderly => OtaInv /\ VerifyInv /\ CommitInv) /\ [Next]_vars
           => (TypeOK /\ Queued /\ (orderly => OtaInv /\ VerifyInv /\ CommitInv))'
<1> SUFFICES ASSUME TypeOK, Queued, orderly => OtaInv /\ VerifyInv /\ CommitInv, [Next]_vars
             PROVE  TypeOK' /\ Queued' /\ (orderly' => OtaInv' /\ VerifyInv' /\ CommitInv')
  OBVIOUS
<1>1. TypeOK' /\ Queued' /\ (orderly' => OtaInv' /\ VerifyInv')
  BY VerifiedStep
<1>2. orderly' => CommitInv'
  BY OnceDisorderly, CommitStep
<1> QED
  BY <1>1, <1>2

\* As long as no request meets anything of an earlier one, and however answers,
\* timeouts and losses fall, a bud commits to its new image only when both are
\* good, the slave first, and no bud leaves its old image before the reported
\* success (tws_ota_enter_verify, tws_ota_exit_verify, tws_ota_result).
THEOREM CommitsInOrder == ASSUME ~PastEndReads PROVE Spec => ImplementsPairUpdate
<1> USE DEF Update!Bud, Update!Open, Bud
<1>1. Init => Update!Init
  BY DEF Init, Update!Init, Both
<1>2. Init => CommitInv
  BY Empty DEF Init, CommitInv, Pending, Asked, Working
<1>3. TypeOK /\ Queued /\ (orderly => OtaInv /\ VerifyInv /\ CommitInv) /\ [Next]_vars
      => [orderly' => Update!Next \/ UNCHANGED Update!vars]_vars
  <2> SUFFICES ASSUME TypeOK, orderly => OtaInv /\ VerifyInv /\ CommitInv, [Next]_vars, orderly'
               PROVE  Update!Next \/ UNCHANGED Update!vars
    OBVIOUS
  <2> USE DEF phoneVars, updateVars, netVars, slaveVars, Pended
  <2>0. orderly /\ OtaInv /\ VerifyInv /\ CommitInv /\ OneToken /\ Requested /\ BurnInv
    BY OnceDisorderly DEF OtaInv
  <2>1. CASE UNCHANGED <<verified, burned, rebooted, result>>
    BY <2>1 DEF Update!vars
  <2>2. CASE OtaCheck
    <3>1. result # "succ" /\ UNCHANGED <<burned, rebooted, result>>
      BY <2>0, <2>2 DEF OtaCheck, Quiet, BurnInv
    <3>2. verified' \in {verified, [verified EXCEPT !["master"] = FALSE]}
      BY <2>2 DEF OtaCheck
    <3>3. Update!Announce
      BY <3>1, <3>2 DEF Update!Announce
    <3> QED
      BY <3>3 DEF Update!Next
  <2>3. ASSUME NEW ok \in BOOLEAN, ExitReturns(ok) PROVE Update!Next \/ UNCHANGED Update!vars
    <3>1. CASE ok
      BY <2>1, <2>3, <3>1 DEF ExitReturns
    <3>2. CASE ~ok
      <4>1. Update!GiveUp
        BY <2>0, <2>3, <3>2 DEF ExitReturns, Fail, Update!GiveUp, BurnInv
      <4> QED
        BY <4>1 DEF Update!Next
    <3> QED
      BY <3>1, <3>2
  <2>4. ASSUME NEW ok \in BOOLEAN, OwnVerified(ok) PROVE Update!Next
    <3>1. Update!Check("master", ok)
      <4>1. result # "succ" /\ verified["slave"]
        BY <2>0, <2>4 DEF OwnVerified, BurnInv, VerifyInv
      <4>2. result' \in {result, "failed"}
        BY <2>4 DEF OwnVerified, Fail
      <4> QED
        BY <2>4, <4>1, <4>2 DEF OwnVerified, Update!Check
    <3> QED
      BY <3>1 DEF Update!Next
  <2>5. ASSUME NEW ok \in BOOLEAN, OwnBurned(ok) PROVE Update!Next
    <3>1. result # "succ" /\ verified["slave"] /\ verified["master"] /\ burned["slave"]
      BY <2>0, <2>5 DEF OwnBurned, BurnInv, VerifyInv, CommitInv
    <3>2. CASE ok
      <4>1. Update!Commit("master")
        BY <2>5, <3>1, <3>2 DEF OwnBurned, Update!Commit
      <4> QED
        BY <4>1 DEF Update!Next
    <3>3. CASE ~ok
      <4>1. Update!GiveUp
        BY <2>5, <3>1, <3>3 DEF OwnBurned, Fail, Update!GiveUp
      <4> QED
        BY <4>1 DEF Update!Next
    <3> QED
      BY <3>2, <3>3
  <2>6. CASE SlaveReceive
    <3>1. UNCHANGED <<burned, rebooted, result>>
      BY <2>6 DEF SlaveReceive
    <3>2. CASE StartRequest
      <4>1. Update!Check("slave", FALSE)
        BY <2>0, <3>1, <3>2 DEF StartRequest, CommitInv, Update!Check
      <4> QED
        BY <4>1 DEF Update!Next
    <3>3. CASE SeenRequest \/ JobRequest \/ RefusedRequest
      BY <2>1, <3>1, <3>3 DEF SeenRequest, JobRequest, RefusedRequest
    <3> QED
      BY <2>6, <3>2, <3>3, <2>0, SlaveReads
  <2>7. CASE SlaveTask
    <3>1. UNCHANGED <<rebooted, result>> /\ result # "succ"
      BY <2>7, <2>0, SlaveWorks DEF SlaveTask, CommitInv
    <3>2. CASE Head(jobs) = "data"
      BY <2>1, <2>7, <3>1, <3>2, <2>0, SlaveWorks
    <3>3. CASE Head(jobs) = "verify"
      <4>1. PICK ok \in BOOLEAN : /\ verified' = [verified EXCEPT !["slave"] = ok]
                                  /\ burned' = burned
        BY <2>7, <3>3, <2>0, SlaveWorks
      <4>2. Update!Check("slave", ok)
        BY <3>1, <4>1 DEF Update!Check
      <4> QED
        BY <4>2 DEF Update!Next
    <3>4. CASE Head(jobs) = "write_boot_info"
      <4>1. /\ verified["slave"] /\ verified["master"] /\ verified' = verified
            /\ burned' = burned \/ burned' = [burned EXCEPT !["slave"] = TRUE]
        BY <2>7, <3>4, <2>0, SlaveWorks DEF VerifyInv, CommitInv, Pending
      <4>2. CASE burned' = burned
        BY <2>1, <3>1, <4>1, <4>2
      <4>3. CASE burned' = [burned EXCEPT !["slave"] = TRUE]
        <5>1. Update!Commit("slave")
          BY <3>1, <4>1, <4>3 DEF Update!Commit
        <5> QED
          BY <5>1 DEF Update!Next
      <4> QED
        BY <4>1, <4>2, <4>3
    <3> QED
      BY <2>7, <3>2, <3>3, <3>4, <2>0, SlaveWorks
  <2>8. CASE SyncOver
    <3> DEFINE S == IF linked THEN Bud ELSE {"master"}
    <3>1. Update!Leave(S)
      BY <2>0, <2>8 DEF SyncOver, BurnInv, Update!Leave
    <3>2. S \in SUBSET Bud
      OBVIOUS
    <3> QED
      BY <3>1, <3>2 DEF Update!Next
  <2>9. CASE PhoneDisconnect
    <3>1. CASE result = "succ"
      <4>1. Update!Leave({"master"})
        BY <2>9, <3>1 DEF PhoneDisconnect, Update!Leave, TypeOK
      <4> QED
        BY <4>1 DEF Update!Next
    <3>2. CASE result # "succ"
      <4>1. rebooted' = rebooted
        BY <2>9, <3>2 DEF PhoneDisconnect, TypeOK
      <4> QED
        BY <2>1, <2>9, <4>1 DEF PhoneDisconnect
    <3> QED
      BY <3>1, <3>2
  <2>10. \/ UNCHANGED <<verified, burned, rebooted, result>>
         \/ OtaCheck \/ SlaveReceive \/ SlaveTask \/ SyncOver \/ PhoneDisconnect
         \/ \E ok \in BOOLEAN : ExitReturns(ok) \/ OwnVerified(ok) \/ OwnBurned(ok)
    BY DEF Next, HandlerReturns, TransData, CheckCrc, OpenReturns, DataReturns, CrcReturns,
       VerifyReturns, Abandoned, MasterReceive, SlaveTimeout, LinkDrop, LinkUp, ExitEvent,
       vars
  <2> QED
    BY <2>1, <2>2, <2>3, <2>4, <2>5, <2>6, <2>7, <2>8, <2>9, <2>10
<1> QED
  BY <1>1, <1>2, <1>3, Starts, CommittedStep, PTL DEF Spec, ImplementsPairUpdate
=============================================================================
