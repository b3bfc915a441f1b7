---------------------------- MODULE BtTws_proofs ----------------------------
(***************************************************************************)
(* Theorems of BtTws: types, at most one of two linked buds drives their   *)
(* search for a phone, a bud with a phone leaves it alone, and no bud is   *)
(* stranded without sibling and phone.                                     *)
(*                                                                         *)
(* What a bud knows lags behind the stack by the events it has not handled *)
(* yet.  The invariants say that the last of these events that matters     *)
(* will put it right, or that none is left that matters and it is right.   *)
(***************************************************************************)
EXTENDS BtTws, SequenceTheorems, TLAPS

EventTypes == {"TwsConnected", "TwsTimeout", "TwsDetach", "PhoneDetach", "RoleSwitch",
               "SyncOff", "SyncShut", "HciConnect", "PhoneConnected", "HciDisconnect",
               "HciTimeout", "HciExist", "PageTimeout"}

Event == [type : EventTypes, master : BOOLEAN, phone : BOOLEAN,
          why : {"none", "user", "timeout", "exists", "poweroff"}]

\* No event of s is in E; the last one of s that is in E exists and is in F.
NoneIn(s, E)    == \A i \in 1..Len(s) : s[i] \notin E
EndsIn(s, E, F) == \E i \in 1..Len(s) :
                      s[i] \in F /\ \A j \in (i + 1)..Len(s) : s[j] \notin E

\* The last event in E is in F, or there is none and all is right.
Settles(s, E, F, right) == EndsIn(s, E, F) \/ (NoneIn(s, E) /\ right)

-----------------------------------------------------------------------------
(* Kinds of events *)

Connects == {e \in Event : e.type = "TwsConnected"}
Detaches == {e \in Event : e.type = "TwsDetach"}
Links    == Connects \cup Detaches
Misses   == {e \in Event : e.type = "TwsTimeout" /\ e.phone}

\* Handling the event deletes the pair timer, for the phone's sake.
Quieting == {e \in Event : e.type = "HciConnect" \/ (e.type = "TwsConnected" /\ e.phone)}

\* Handling the event arms no pair timer while a phone is connected.
Quiet ==
    {e \in Event :
        \/ e.type \in {"SyncOff", "SyncShut", "HciConnect", "PhoneConnected", "RoleSwitch"}
        \/ e.type \in {"TwsConnected", "TwsTimeout", "TwsDetach"} /\ e.phone}

Noisy == (Event \ Quiet) \cup Quieting

\* Handling the event leaves a slave without a pair timer.
Enslaving == {e \in Event : e.type \in {"TwsConnected", "HciConnect"}}

\* Handling the event leaves a bud without sibling and phone at work; or it may not.
Reviving ==
    {e \in Event : \/ e.type \in {"PhoneDetach", "HciDisconnect", "HciTimeout", "HciExist"}
                   \/ e.type \in {"TwsDetach", "TwsTimeout"} /\ ~e.phone}
Silencing ==
    {e \in Event : \/ e.type \in {"HciConnect", "PhoneConnected", "TwsConnected"}
                   \/ e.type \in {"TwsDetach", "TwsTimeout"} /\ e.phone}
Waking == Reviving \cup Silencing

-----------------------------------------------------------------------------
(* The invariants *)

\* Something will happen to the bud of its own accord.
Active(r) == \/ r.timer # None
             \/ r.create = "timed"
             \/ r.create = "untimed" /\ r.scan = "pair"

\* What every record of a bud satisfies.
RecordInv(r) ==
    /\ r.page => r.create = "no" /\ r.scan = "none"
    /\ r.sib => r.paired
    /\ ~r.paired /\ r.create = "timed" => r.scan = "none"

\* The record of a bud that is off.
OffInv(r) == ~r.sib /\ r.scan = "none" /\ r.timer = None

\* What the stack does for b fits its links.
StackInv(b) ==
    /\ RecordInv(bud[b])
    /\ bud[b].on = "off" => evq[b] = <<>> /\ OffInv(bud[b])
    /\ Linked => bud[b].on # "off" /\ bud[b].create = "no"
    /\ phoneAt = b => bud[b].on # "off" /\ Role(b)
    /\ phoneAt = b /\ bud[b].create = "timed" => bud[b].paired
    /\ bud[b].page => phoneAt # b /\ Role(b)

\* A paired bud, or one that will be by then, is told of the end of a link; a
\* bud with the phone that looked in vain for its sibling is paired.
Announced(s, paired) ==
    ~paired => /\ \A i \in 1..Len(s) :
                     s[i] \in Detaches => \E j \in 1..(i - 1) : s[j] \in Connects
               /\ NoneIn(s, Misses)

PairedInv(b) ==
    /\ Linked /\ ~bud[b].paired => ~NoneIn(evq[b], Connects)
    /\ Announced(evq[b], bud[b].paired)

\* A bud that shares the phone has no pair timer once it has handled its events.
CalmInv(b) ==
    phoneAt # None /\ (phoneAt = b \/ Linked) =>
        Settles(evq[b], Noisy, Quieting, bud[b].timer = None)

\* Nor has a slave.
SlaveInv(b) ==
    Linked /\ b # master /\ NoneIn(evq[b], Enslaving) => bud[b].timer = None

\* A bud that is on knows that there is no link once it has handled its
\* events, and without a phone it is at work.
LostInv(b) ==
    bud[b].on = "on" /\ ~Linked =>
        /\ Settles(evq[b], Links, Detaches, ~bud[b].sib)
        /\ phoneAt # b => Settles(evq[b], Waking, Reviving, Active(bud[b]))

BudInv(b) == StackInv(b) /\ PairedInv(b) /\ CalmInv(b) /\ SlaveInv(b) /\ LostInv(b)

TypeInv ==
    /\ bud \in [Buds -> BudType]
    /\ evq \in [Buds -> Seq(Event)]
    /\ \A b \in Buds : Len(evq[b]) <= MaxBacklog + 3
    /\ master \in Buds \cup {None}
    /\ phoneAt \in Buds \cup {None}

BtInv == TypeInv /\ \A b \in Buds : BudInv(b)

-----------------------------------------------------------------------------
(* Sequences of events *)

\* Taking the first event: what settles is settled, unless it was that event
\* that settled it.
LEMMA Taken ==
    ASSUME NEW s \in Seq(Event), s # <<>>, NEW E, NEW F
    PROVE  /\ Head(s) \in Event /\ Tail(s) \in Seq(Event)
           /\ Len(Tail(s)) = Len(s) - 1
           /\ Head(s) = s[1]
           /\ \A i \in 1..Len(Tail(s)) : i + 1 \in 1..Len(s) /\ Tail(s)[i] = s[i + 1]
           /\ NoneIn(Tail(s), E) /\ Head(s) \notin E => NoneIn(s, E)
           /\ NoneIn(s, E) => NoneIn(Tail(s), E) /\ Head(s) \notin E
           /\ EndsIn(s, E, F) => \/ EndsIn(Tail(s), E, F)
                                 \/ NoneIn(Tail(s), E) /\ Head(s) \in F
<1>. DEFINE t == Tail(s)
<1>1. /\ Head(s) \in Event /\ t \in Seq(Event) /\ Head(s) = s[1]
      /\ Len(s) \in Nat \ {0} /\ Len(t) = Len(s) - 1
      /\ \A i \in 1..Len(t) : t[i] = s[i + 1]
  BY EmptySeq, HeadTailProperties
<1>. HIDE DEF t
<1>2. \A i \in 1..Len(t) : i + 1 \in 1..Len(s)
  BY <1>1
<1>3. \A j \in 1..Len(s) : j = 1 \/ (j - 1 \in 1..Len(t) /\ t[j - 1] = s[j])
  BY <1>1
<1>4. NoneIn(t, E) /\ Head(s) \notin E => NoneIn(s, E)
  BY <1>1, <1>3 DEF NoneIn
<1>5. NoneIn(s, E) => NoneIn(t, E) /\ Head(s) \notin E
  BY <1>1, <1>2 DEF NoneIn
<1>6. ASSUME EndsIn(s, E, F)
      PROVE  EndsIn(t, E, F) \/ (NoneIn(t, E) /\ Head(s) \in F)
  <2>1. PICK i \in 1..Len(s) : s[i] \in F /\ \A j \in (i + 1)..Len(s) : s[j] \notin E
    BY <1>6 DEF EndsIn
  <2>2. CASE i = 1
    <3>1. \A k \in 1..Len(t) : k + 1 \in (1 + 1)..Len(s)
      BY <1>1
    <3>. QED  BY <1>1, <2>1, <2>2, <3>1 DEF NoneIn
  <2>3. CASE i # 1
    <3>1. i - 1 \in 1..Len(t) /\ t[i - 1] = s[i]
      BY <1>3, <2>3
    <3>2. \A k \in ((i - 1) + 1)..Len(t) : k \in 1..Len(t) /\ k + 1 \in (i + 1)..Len(s)
      BY <1>1, <2>1, <3>1
    <3>3. \A k \in ((i - 1) + 1)..Len(t) : t[k] \notin E
      BY <1>1, <2>1, <3>2
    <3>. QED  BY <2>1, <3>1, <3>3 DEF EndsIn
  <2>. QED  BY <2>2, <2>3
<1>. QED  BY <1>1, <1>2, <1>4, <1>5, <1>6 DEF t

\* Adding events at the end.
LEMMA Added ==
    ASSUME NEW s \in Seq(Event), NEW t \in Seq(Event), NEW E, NEW F
    PROVE  /\ s \o t \in Seq(Event) /\ Len(s \o t) = Len(s) + Len(t)
           /\ \A i \in 1..Len(s) : i \in 1..Len(s \o t) /\ (s \o t)[i] = s[i]
           /\ \A i \in 1..Len(s \o t) :
                 \/ i \in 1..Len(s) /\ (s \o t)[i] = s[i]
                 \/ i - Len(s) \in 1..Len(t) /\ (s \o t)[i] = t[i - Len(s)]
           /\ NoneIn(s \o t, E) <=> NoneIn(s, E) /\ NoneIn(t, E)
           /\ EndsIn(t, E, F) => EndsIn(s \o t, E, F)
           /\ EndsIn(s, E, F) /\ NoneIn(t, E) => EndsIn(s \o t, E, F)
<1>. DEFINE u == s \o t
            n == Len(s)
<1>1. /\ u \in Seq(Event) /\ Len(u) = n + Len(t) /\ n \in Nat /\ Len(t) \in Nat
      /\ \A i \in 1..(n + Len(t)) : u[i] = IF i <= n THEN s[i] ELSE t[i - n]
  BY ConcatProperties
<1>. HIDE DEF u, n
<1>2. \A i \in 1..n : i \in 1..Len(u) /\ u[i] = s[i]
  BY <1>1
<1>3. \A i \in 1..Len(t) : n + i \in 1..Len(u) /\ u[n + i] = t[i]
  BY <1>1
<1>4. \A i \in 1..Len(u) : \/ i \in 1..n /\ u[i] = s[i]
                           \/ i - n \in 1..Len(t) /\ u[i] = t[i - n]
  BY <1>1
<1>5. NoneIn(u, E) <=> NoneIn(s, E) /\ NoneIn(t, E)
  BY <1>2, <1>3, <1>4 DEF NoneIn, n
<1>6. ASSUME EndsIn(t, E, F)  PROVE EndsIn(u, E, F)
  <2>1. PICK i \in 1..Len(t) : t[i] \in F /\ \A j \in (i + 1)..Len(t) : t[j] \notin E
    BY <1>6 DEF EndsIn
  <2>2. \A j \in ((n + i) + 1)..Len(u) : j - n \in (i + 1)..Len(t) /\ u[j] = t[j - n]
    BY <1>1, <2>1
  <2>3. \A j \in ((n + i) + 1)..Len(u) : u[j] \notin E
    BY <2>1, <2>2
  <2>. QED  BY <1>3, <2>1, <2>3 DEF EndsIn
<1>7. ASSUME EndsIn(s, E, F), NoneIn(t, E)  PROVE EndsIn(u, E, F)
  <2>1. PICK i \in 1..n : s[i] \in F /\ \A j \in (i + 1)..n : s[j] \notin E
    BY <1>7 DEF EndsIn, n
  <2>2. ASSUME NEW j \in (i + 1)..Len(u)  PROVE u[j] \notin E
    <3>1. j \in 1..Len(u)
      BY <1>1, <2>1
    <3>2. CASE j \in 1..n /\ u[j] = s[j]
      <4>1. j \in (i + 1)..n
        BY <1>1, <2>1, <3>2
      <4>. QED  BY <2>1, <3>2, <4>1
    <3>3. CASE j - n \in 1..Len(t) /\ u[j] = t[j - n]
      BY <1>7, <3>3 DEF NoneIn
    <3>. QED  BY <1>4, <3>1, <3>2, <3>3
  <2>. QED  BY <1>2, <2>1, <2>2 DEF EndsIn
<1>. QED  BY <1>1, <1>2, <1>4, <1>5, <1>6, <1>7 DEF u, n

\* One, two or three events.
LEMMA Few ==
    ASSUME NEW a \in Event, NEW b \in Event, NEW c \in Event, NEW E, NEW F
    PROVE  /\ <<a>> \in Seq(Event) /\ Len(<<a>>) = 1
           /\ <<a, b>> \in Seq(Event) /\ Len(<<a, b>>) = 2
           /\ <<a, b, c>> \in Seq(Event) /\ Len(<<a, b, c>>) = 3
           /\ NoneIn(<<a>>, E) <=> a \notin E
           /\ NoneIn(<<a, b>>, E) <=> a \notin E /\ b \notin E
           /\ NoneIn(<<a, b, c>>, E) <=> a \notin E /\ b \notin E /\ c \notin E
           /\ a \in F => EndsIn(<<a>>, E, F)
           /\ b \in F \/ (a \in F /\ b \notin E) => EndsIn(<<a, b>>, E, F)
           /\ c \in F => EndsIn(<<a, b, c>>, E, F)
<1>1. <<a>> \in Seq(Event) /\ Len(<<a>>) = 1 /\ <<a>>[1] = a
  OBVIOUS
<1>2. <<a, b>> \in Seq(Event) /\ Len(<<a, b>>) = 2 /\ <<a, b>>[1] = a /\ <<a, b>>[2] = b
  OBVIOUS
<1>3. /\ <<a, b, c>> \in Seq(Event) /\ Len(<<a, b, c>>) = 3
      /\ <<a, b, c>>[1] = a /\ <<a, b, c>>[2] = b /\ <<a, b, c>>[3] = c
  OBVIOUS
<1>. DEFINE t1 == <<a>>
            t2 == <<a, b>>
            t3 == <<a, b, c>>
<1>4. /\ Len(t1) = 1 /\ t1[1] = a
      /\ Len(t2) = 2 /\ t2[1] = a /\ t2[2] = b
      /\ Len(t3) = 3 /\ t3[1] = a /\ t3[2] = b /\ t3[3] = c
  BY <1>1, <1>2, <1>3
<1>. HIDE DEF t1, t2, t3
<1>5. 1..1 = {1} /\ 1..2 = {1, 2} /\ 1..3 = {1, 2, 3} /\ (1 + 1)..1 = {} /\ (1 + 1)..2 = {2}
      /\ (2 + 1)..2 = {} /\ (3 + 1)..3 = {}
  OBVIOUS
<1>6. NoneIn(t1, E) <=> a \notin E
  BY <1>4, <1>5 DEF NoneIn
<1>7. NoneIn(t2, E) <=> a \notin E /\ b \notin E
  BY <1>4, <1>5 DEF NoneIn
<1>8. NoneIn(t3, E) <=> a \notin E /\ b \notin E /\ c \notin E
  BY <1>4, <1>5 DEF NoneIn
<1>9. a \in F => EndsIn(t1, E, F)
  BY <1>4, <1>5 DEF EndsIn
<1>10. b \in F => EndsIn(t2, E, F)
  BY <1>4, <1>5 DEF EndsIn
<1>11. a \in F /\ b \notin E => EndsIn(t2, E, F)
  BY <1>4, <1>5 DEF EndsIn
<1>12. c \in F => EndsIn(t3, E, F)
  BY <1>4, <1>5 DEF EndsIn
<1>. QED  BY <1>1, <1>2, <1>3, <1>6, <1>7, <1>8, <1>9, <1>10, <1>11, <1>12 DEF t1, t2, t3

-----------------------------------------------------------------------------
(* The constants *)

\* Every bud is the one or its sibling.
LEMMA Pair ==
    \A b \in Buds : /\ Sibling(b) \in Buds /\ Sibling(b) # b
                    /\ \A x \in Buds : x = b \/ x = Sibling(b)
BY BudsAssumption DEF Sibling

\* The times are within the counter's bounds.
LEMMA Limits ==
    /\ MaxTime \in Nat /\ PairWindow \in Nat \ {0} /\ Phones \in Nat /\ MaxBacklog \in Nat
    /\ PoweronTime \in Nat \ {0} /\ PoweronTime <= MaxTime
    /\ ReconnTime \in Nat \ {0} /\ ReconnTime <= MaxTime
    /\ ExistTime \in Nat \ {0} /\ ExistTime <= MaxTime
    /\ None \notin Buds /\ None # 0 /\ None # 1
<1>. DEFINE T == {PoweronTime, ReconnTime, ExistTime}
<1>1. PoweronTime \in Nat /\ ReconnTime \in Nat /\ ExistTime \in Nat
  BY TimesAssumption
<1>2. \E t \in T : \A u \in T : u <= t
  <2>1. CASE PoweronTime <= ReconnTime /\ ExistTime <= ReconnTime
    BY <1>1, <2>1
  <2>2. CASE PoweronTime <= ExistTime /\ ReconnTime <= ExistTime
    BY <1>1, <2>2
  <2>3. CASE ReconnTime <= PoweronTime /\ ExistTime <= PoweronTime
    BY <1>1, <2>3
  <2>. QED  BY <1>1, <2>1, <2>2, <2>3
<1>3. MaxTime \in T /\ \A u \in T : u <= MaxTime
  BY <1>2 DEF MaxTime
<1>. QED  BY <1>1, <1>3, TimesAssumption

\* Within the bounds of the counter.
LEMMA Counters ==
    /\ {0, PoweronTime, ReconnTime, ExistTime} \subseteq (-PairWindow)..MaxTime
    /\ \A c \in (-PairWindow)..MaxTime :
          c > 0 => c - 1 \in (-PairWindow)..MaxTime /\ c - PairWindow \in (-PairWindow)..MaxTime
BY Limits

-----------------------------------------------------------------------------
(* What the operators do to a record *)

\* They change nothing that the invariants speak of.
Same(r, s) ==
    /\ s \in BudType
    /\ s.on = r.on /\ s.paired = r.paired /\ s.sib = r.sib /\ s.timer = r.timer
    /\ s.page = r.page /\ s.create = r.create /\ s.scan = r.scan

\* They leave alone what the bud knows of its sibling, ask for nothing that the
\* stack could not do and start no search that ends by itself.
Tame(r, s) ==
    /\ s \in BudType
    /\ s.on = r.on /\ s.paired = r.paired /\ s.sib = r.sib
    /\ RecordInv(r) => RecordInv(s)
    /\ s.create = "timed" => r.create = "timed" \/ r.paired

\* The small operators and assignments.
LEMMA Small ==
    ASSUME NEW r \in BudType, NEW c \in (-PairWindow)..MaxTime
    PROVE  /\ Same(r, [r EXCEPT !.counter = c]) /\ [r EXCEPT !.counter = c].counter = c
           /\ Same(r, [r EXCEPT !.poweron = FALSE])
           /\ Same(r, [r EXCEPT !.poweron = FALSE, !.counter = c])
           /\ Same(r, ShutEnable(r)) /\ Same(r, ShutDisable(r))
           /\ \A up \in BOOLEAN : Same(r, SyncCall(r, "SyncShut", up))
           /\ ShutEnable(r).counter = r.counter /\ ShutDisable(r).counter = r.counter
<1>1. Same(r, [r EXCEPT !.counter = c]) /\ [r EXCEPT !.counter = c].counter = c
  BY DEF Same, BudType
<1>2. Same(r, [r EXCEPT !.poweron = FALSE])
  BY DEF Same, BudType
<1>3. Same(r, [r EXCEPT !.poweron = FALSE, !.counter = c])
  BY DEF Same, BudType
<1>4. Same(r, ShutEnable(r)) /\ ShutEnable(r).counter = r.counter
  BY DEF Same, BudType, ShutEnable
<1>5. Same(r, ShutDisable(r)) /\ ShutDisable(r).counter = r.counter
  BY DEF Same, BudType, ShutDisable
<1>6. ASSUME NEW up \in BOOLEAN  PROVE Same(r, SyncCall(r, "SyncShut", up))
  <2>1. Same(r, r)
    BY DEF Same
  <2>2. r.sync \cup {"SyncShut"} \in SUBSET {"SyncOff", "SyncShut"}
    BY DEF BudType
  <2>3. Same(r, [r EXCEPT !.sync = @ \cup {"SyncShut"}])
    BY <2>2 DEF Same, BudType
  <2>. QED  BY <2>1, <2>3 DEF SyncCall
<1>. QED  BY <1>1, <1>2, <1>3, <1>4, <1>5, <1>6

\* The calls of the stack and the pair timer.
LEMMA Calls ==
    ASSUME NEW r \in BudType, NEW t \in {"timed", "untimed"}
    PROVE  /\ DeletePairTimer(r) \in BudType /\ Tame(r, DeletePairTimer(r))
           /\ DeletePairTimer(r).timer = None /\ DeletePairTimer(r).counter = r.counter
           /\ DeletePairTimer(r).create = r.create /\ DeletePairTimer(r).scan = r.scan
           /\ DeletePairTimer(r).page = r.page
           /\ WaitSibling(r) \in BudType /\ Tame(r, WaitSibling(r))
           /\ WaitSibling(r).timer = None
           /\ CreateConnection(r, t) \in BudType /\ CreateConnection(r, t).create = t
           /\ CreateConnection(r, t).timer = r.timer /\ CreateConnection(r, t).on = r.on
           /\ CreateConnection(r, t).paired = r.paired /\ CreateConnection(r, t).sib = r.sib
           /\ CreateConnection(r, t).scan = r.scan /\ ~CreateConnection(r, t).page
           /\ CreateConnection(r, t).counter = r.counter
           /\ WaitPair(r) \in BudType /\ WaitPair(r).on = r.on /\ WaitPair(r).scan = "pair"
           /\ WaitPair(r).paired = r.paired /\ WaitPair(r).sib = r.sib
           /\ WaitPair(r).create = r.create /\ ~WaitPair(r).page
           /\ WaitPair(r).timer = r.timer /\ WaitPair(r).counter = r.counter
<1>1. DeletePairTimer(r) \in BudType /\ DeletePairTimer(r).timer = None
  BY DEF BudType, DeletePairTimer
<1>2. /\ DeletePairTimer(r).counter = r.counter /\ DeletePairTimer(r).on = r.on
      /\ DeletePairTimer(r).create = r.create /\ DeletePairTimer(r).scan = r.scan
      /\ DeletePairTimer(r).page = r.page /\ DeletePairTimer(r).sib = r.sib
      /\ DeletePairTimer(r).paired = r.paired
  BY DEF BudType, DeletePairTimer
<1>3. Tame(r, DeletePairTimer(r))
  BY <1>1, <1>2 DEF Tame, RecordInv
<1>4. WaitSibling(r) \in BudType /\ WaitSibling(r).timer = None
  BY DEF BudType, DeletePairTimer, WaitSibling, WaitConnection
<1>5. /\ WaitSibling(r).on = r.on /\ WaitSibling(r).paired = r.paired
      /\ WaitSibling(r).sib = r.sib /\ WaitSibling(r).create = "no"
      /\ WaitSibling(r).page = FALSE
  BY DEF BudType, DeletePairTimer, WaitSibling, WaitConnection
<1>6. Tame(r, WaitSibling(r))
  BY <1>4, <1>5 DEF Tame, RecordInv
<1>7. CreateConnection(r, t) \in BudType
  BY DEF BudType, CreateConnection
<1>8. /\ CreateConnection(r, t).create = t /\ CreateConnection(r, t).page = FALSE
      /\ CreateConnection(r, t).timer = r.timer /\ CreateConnection(r, t).on = r.on
      /\ CreateConnection(r, t).paired = r.paired /\ CreateConnection(r, t).sib = r.sib
      /\ CreateConnection(r, t).scan = r.scan /\ CreateConnection(r, t).counter = r.counter
  BY DEF BudType, CreateConnection
<1>9. WaitPair(r) \in BudType
  BY DEF BudType, WaitPair
<1>10. /\ WaitPair(r).on = r.on /\ WaitPair(r).scan = "pair" /\ WaitPair(r).page = FALSE
       /\ WaitPair(r).paired = r.paired /\ WaitPair(r).sib = r.sib
       /\ WaitPair(r).create = r.create /\ WaitPair(r).timer = r.timer
       /\ WaitPair(r).counter = r.counter
  BY DEF BudType, WaitPair
<1>. QED  BY <1>1, <1>2, <1>3, <1>4, <1>6, <1>7, <1>8, <1>9, <1>10

\* SearchIndex, and the windows of the alternation.
LEMMA SearchIndexKeeps ==
    ASSUME NEW r \in BudType
    PROVE  Same(r, SearchIndex(r)) /\ SearchIndex(r).counter \in {r.counter, PoweronTime}
<1>1. Same(r, r)
  BY DEF Same
<1>2. ASSUME r.mem > 0
      PROVE  LET s == [r EXCEPT !.mem = @ - 1, !.counter = PoweronTime]
             IN  Same(r, s) /\ s.counter = PoweronTime
  <2>1. r.mem - 1 \in 0..Phones
    BY <1>2, Limits DEF BudType
  <2>2. PoweronTime \in (-PairWindow)..MaxTime
    BY Counters
  <2>. QED  BY <2>1, <2>2 DEF Same, BudType
<1>. QED  BY <1>1, <1>2 DEF SearchIndex

LEMMA PageWindowKeeps ==
    ASSUME NEW r \in BudType, r.counter > 0
    PROVE  /\ Tame(r, PageWindow(r)) /\ PageWindow(r).timer = 1
           /\ PageWindow(r).create = "no" /\ PageWindow(r).scan = "none"
<1>. DEFINE c == r.counter - (IF r.sib THEN PairWindow ELSE 1)
            s == [r EXCEPT !.counter = c, !.scan = "none", !.create = "no", !.timer = 1]
            p == [s EXCEPT !.page = TRUE]
<1>1. r.counter \in (-PairWindow)..MaxTime
  BY DEF BudType
<1>2. c \in (-PairWindow)..MaxTime
  BY <1>1, Counters
<1>. HIDE DEF c
<1>3. s \in BudType
  BY <1>2 DEF BudType
<1>4. /\ s.on = r.on /\ s.paired = r.paired /\ s.sib = r.sib
      /\ s.timer = 1 /\ s.create = "no" /\ s.scan = "none"
  BY <1>2 DEF BudType
<1>. HIDE DEF s
<1>5. p \in BudType
  BY <1>3 DEF BudType
<1>6. /\ p.on = s.on /\ p.paired = s.paired /\ p.sib = s.sib
      /\ p.timer = s.timer /\ p.create = s.create /\ p.scan = s.scan
  BY <1>3 DEF BudType
<1>. HIDE DEF p
<1>7. Tame(r, p) /\ p.timer = 1 /\ p.create = "no" /\ p.scan = "none"
  BY <1>4, <1>5, <1>6 DEF Tame, RecordInv
<1>. QED  BY <1>7 DEF p, s, c, PageWindow, PagePhone

LEMMA ListenWindowKeeps ==
    ASSUME NEW r \in BudType
    PROVE  /\ Tame(r, ListenWindow(r))
           /\ ~r.sib => Active(ListenWindow(r))
<1>. DEFINE w == WaitPair(r)
            c == IF r.sib THEN w ELSE CreateConnection(w, "untimed")
            v == IF r.counter > 0 THEN 0 ELSE None
            s == [c EXCEPT !.timer = v]
<1>1. /\ w \in BudType /\ w.on = r.on /\ w.scan = "pair" /\ ~w.page
      /\ w.paired = r.paired /\ w.sib = r.sib /\ w.create = r.create
      /\ w.counter = r.counter
  BY Calls
<1>. HIDE DEF w
<1>2. /\ c \in BudType /\ c.on = r.on /\ c.scan = "pair" /\ ~c.page
      /\ c.paired = r.paired /\ c.sib = r.sib /\ c.counter = r.counter
      /\ c.create = IF r.sib THEN r.create ELSE "untimed"
  BY <1>1, Calls
<1>. HIDE DEF c
<1>3. v \in {None, 0, 1}
  OBVIOUS
<1>. HIDE DEF v
<1>4. s \in BudType
  BY <1>2, <1>3 DEF BudType
<1>5. /\ s.on = c.on /\ s.scan = c.scan /\ s.page = c.page /\ s.paired = c.paired
      /\ s.sib = c.sib /\ s.create = c.create
  BY <1>2, <1>3 DEF BudType
<1>. HIDE DEF s
<1>6. Tame(r, s)
  BY <1>2, <1>4, <1>5 DEF Tame, RecordInv
<1>7. ~r.sib => Active(s)
  BY <1>2, <1>5 DEF Active
<1>8. ListenWindow(r) = s
  BY <1>1 DEF ListenWindow, s, c, v, w
<1>. QED  BY <1>6, <1>7, <1>8

\* One after the other.
LEMMA Chain ==
    /\ \A r, s : Same(r, s) => Tame(r, s)
    /\ \A r, s, t : Tame(r, s) /\ Tame(s, t) => Tame(r, t)
    /\ \A r, s, t : Same(r, s) /\ Tame(s, t) => Tame(r, t)
    /\ \A r, s, t : Same(r, s) /\ Same(s, t) => Same(r, t)
<1>1. ASSUME NEW r, NEW s, Same(r, s)  PROVE Tame(r, s)
  BY <1>1 DEF Same, Tame, RecordInv
<1>2. ASSUME NEW r, NEW s, NEW t, Tame(r, s), Tame(s, t)  PROVE Tame(r, t)
  BY <1>2 DEF Tame
<1>3. ASSUME NEW r, NEW s, NEW t, Same(r, s), Same(s, t)  PROVE Same(r, t)
  BY <1>3 DEF Same
<1>. QED  BY <1>1, <1>2, <1>3

LEMMA TimeOverKeeps ==
    ASSUME NEW r \in BudType
    PROVE  Tame(r, TimeOver(r)) /\ (~r.sib => Active(TimeOver(r)))
<1>. DEFINE z == [r EXCEPT !.counter = 0]
            n == IF r.poweron /\ r.mem > 0 THEN SearchIndex(z) ELSE [z EXCEPT !.poweron = FALSE]
<1>1. Same(r, z)
  BY Small, Counters
<1>2. z \in BudType
  BY <1>1 DEF Same
<1>. HIDE DEF z
<1>3. Same(z, n)
  BY <1>2, Small, Counters, SearchIndexKeeps
<1>4. n \in BudType /\ Same(r, n) /\ n.sib = r.sib
  BY <1>1, <1>3, Chain DEF Same
<1>. HIDE DEF n
<1>5. CASE n.counter > 0
  <2>1. Tame(n, PageWindow(n)) /\ PageWindow(n).timer = 1
    BY <1>4, <1>5, PageWindowKeeps
  <2>2. TimeOver(r) = PageWindow(n)
    BY <1>5 DEF TimeOver, n, z
  <2>. QED  BY <1>4, <2>1, <2>2, Chain, Limits DEF Active
<1>6. CASE ~(n.counter > 0) /\ n.sib
  <2>1. Tame(n, WaitPair(n))
    <3>1. /\ WaitPair(n) \in BudType /\ WaitPair(n).on = n.on /\ WaitPair(n).scan = "pair"
          /\ WaitPair(n).paired = n.paired /\ WaitPair(n).sib = n.sib
          /\ WaitPair(n).create = n.create /\ ~WaitPair(n).page
      BY <1>4, Calls
    <3>. QED  BY <1>6, <3>1 DEF Tame, RecordInv
  <2>2. TimeOver(r) = WaitPair(n)
    BY <1>6 DEF TimeOver, n, z
  <2>. QED  BY <1>4, <1>6, <2>1, <2>2, Chain
<1>7. CASE ~(n.counter > 0) /\ ~n.sib
  <2>1. TimeOver(r) = ListenWindow(n)
    BY <1>7 DEF TimeOver, n, z
  <2>. QED  BY <1>4, <1>7, <2>1, ListenWindowKeeps, Chain
<1>. QED  BY <1>5, <1>6, <1>7

\* The alternation leaves a bud without sibling at work.
LEMMA SwitchStepKeeps ==
    ASSUME NEW r \in BudType, NEW sw
    PROVE  Tame(r, SwitchStep(r, sw)) /\ (~r.sib => Active(SwitchStep(r, sw)))
<1>. DEFINE z == DeletePairTimer(r)
<1>1. z \in BudType /\ Tame(r, z) /\ z.sib = r.sib /\ z.counter = r.counter
  BY Calls DEF Tame
<1>. HIDE DEF z
<1>2. CASE sw = 1
  <2>1. SwitchStep(r, sw) = ListenWindow(z)
    BY <1>2 DEF SwitchStep, z
  <2>. QED  BY <1>1, <2>1, ListenWindowKeeps, Chain
<1>3. CASE sw # 1 /\ r.counter > 0
  <2>1. SwitchStep(r, sw) = PageWindow(z)
    BY <1>3 DEF SwitchStep, z
  <2>2. Tame(z, PageWindow(z)) /\ PageWindow(z).timer = 1
    BY <1>1, <1>3, PageWindowKeeps
  <2>. QED  BY <1>1, <2>1, <2>2, Chain, Limits DEF Active
<1>4. CASE sw # 1 /\ ~(r.counter > 0)
  <2>1. SwitchStep(r, sw) = TimeOver(z)
    BY <1>4 DEF SwitchStep, z
  <2>. QED  BY <1>1, <2>1, TimeOverKeeps, Chain
<1>. QED  BY <1>2, <1>3, <1>4

\* By its role: a slave deletes the pair timer, a master is at work.
LEMMA SwitchKeeps ==
    ASSUME NEW r \in BudType, NEW m \in BOOLEAN
    PROVE  /\ Tame(r, Switch(r, m))
           /\ ~m => Switch(r, m).timer = None
           /\ m /\ ~r.sib => Active(Switch(r, m))
BY Calls, SwitchStepKeeps DEF Switch

\* A search for the sibling of a bud that is paired and not linked.
LEMMA ConnectSiblingKeeps ==
    ASSUME NEW r \in BudType, NEW m \in BOOLEAN, NEW up \in BOOLEAN, r.paired
    PROVE  /\ Tame(r, ConnectSibling(r, m, up))
           /\ ~m => ConnectSibling(r, m, up).timer = None
           /\ ~up => Active(ConnectSibling(r, m, up))
<1>. DEFINE d == DeletePairTimer(r)
            c == CreateConnection(d, "timed")
<1>1. /\ d \in BudType /\ Tame(r, d) /\ d.timer = None /\ d.paired /\ d.on = r.on
      /\ d.sib = r.sib
  BY Calls DEF Tame
<1>. HIDE DEF d
<1>2. CASE up
  BY <1>1, <1>2, SwitchKeeps, Chain DEF ConnectSibling, d
<1>3. CASE ~up
  <2>1. /\ c \in BudType /\ c.create = "timed" /\ c.timer = None /\ c.on = d.on
        /\ c.paired = d.paired /\ c.sib = d.sib /\ ~c.page
    BY <1>1, Calls
  <2>2. ConnectSibling(r, m, up) = c
    BY <1>3 DEF ConnectSibling, d
  <2>. HIDE DEF c
  <2>. QED  BY <1>1, <2>1, <2>2 DEF Tame, RecordInv, Active
<1>. QED  BY <1>2, <1>3

-----------------------------------------------------------------------------
(* What handling an event e does to a record r, for a bud with the role m    *)
(* and the link up, while the phone is connected or not                      *)

\* The bud stays paired, knows of its sibling what e says, and asks for nothing
\* that the stack could not do.
RecordRight(r, e, s) ==
    /\ s \in BudType
    /\ s.on = r.on \/ s.on = "leaving"
    /\ RecordInv(r) => RecordInv(s)
    /\ r.paired => s.paired
    /\ s.create = "timed" => r.create = "timed" \/ s.paired
    /\ e \in Connects => s.paired
    /\ e \in Detaches /\ r.on = "on" => ~s.sib
    /\ e \notin Links => s.sib = r.sib

\* A slave arms no pair timer, nor does a bud with the phone.
TimerRight(r, e, m, talking, s) ==
    /\ ~m => s.timer \in {r.timer, None}
    /\ ~m /\ e \in Enslaving => s.timer = None
    /\ e \in Quieting => s.timer = None
    /\ e \in Quiet /\ talking => s.timer \in {r.timer, None}

\* A bud on its own is at work afterwards.
WorkRight(r, e, m, up, s) ==
    /\ m /\ ~up /\ r.on = "on" /\ s.on = "on" /\ ~s.sib
    /\ e \in Reviving \/ (e \notin Waking /\ Active(r))
    => Active(s)

Right(r, e, m, up, talking, s) ==
    RecordRight(r, e, s) /\ TimerRight(r, e, m, talking, s) /\ WorkRight(r, e, m, up, s)

\* Which event is in which set.
LEMMA Kinds ==
    ASSUME NEW e \in Event
    PROVE  /\ e \in Connects <=> e.type = "TwsConnected"
           /\ e \in Detaches <=> e.type = "TwsDetach"
           /\ e \in Misses <=> e.type = "TwsTimeout" /\ e.phone
           /\ e \in Links <=> e.type \in {"TwsConnected", "TwsDetach"}
           /\ e \in Enslaving <=> e.type \in {"TwsConnected", "HciConnect"}
           /\ e \in Quieting => e.type \in {"TwsConnected", "HciConnect"}
           /\ e.type = "TwsConnected" => (e \in Quieting <=> e.phone)
           /\ e \in Quiet => \/ e.type \in {"SyncOff", "SyncShut", "HciConnect",
                                            "PhoneConnected", "RoleSwitch"}
                             \/ e.type \in {"TwsConnected", "TwsTimeout", "TwsDetach"} /\ e.phone
           /\ e \in Reviving <=>
                \/ e.type \in {"PhoneDetach", "HciDisconnect", "HciTimeout", "HciExist"}
                \/ e.type \in {"TwsDetach", "TwsTimeout"} /\ ~e.phone
           /\ e \in Silencing <=>
                \/ e.type \in {"HciConnect", "PhoneConnected", "TwsConnected"}
                \/ e.type \in {"TwsDetach", "TwsTimeout"} /\ e.phone
BY DEF Connects, Detaches, Links, Misses, Enslaving, Quieting, Quiet, Reviving, Silencing

\* A handler that is told nothing of the link.
LEMMA TameRight ==
    ASSUME NEW r, NEW e \in Event, NEW s, Tame(r, s),
           e.type # "TwsConnected", e.type # "TwsDetach"
    PROVE  RecordRight(r, e, s)
BY Kinds DEF Tame, RecordRight

\* The flags and times that TwsConnected and TwsDetach change as well.
LEMMA PairedFlag ==
    ASSUME NEW r \in BudType
    PROVE  LET s == [r EXCEPT !.paired = TRUE, !.poweron = FALSE]
           IN /\ s \in BudType /\ s.on = r.on /\ s.paired /\ s.sib = r.sib
              /\ s.timer = r.timer /\ s.page = r.page /\ s.create = r.create
              /\ s.scan = r.scan
<1>1. LET s == [r EXCEPT !.paired = TRUE, !.poweron = FALSE]
      IN /\ s \in BudType /\ s.on = r.on /\ s.paired = TRUE /\ s.sib = r.sib
         /\ s.timer = r.timer /\ s.page = r.page /\ s.create = r.create
         /\ s.scan = r.scan
  BY DEF BudType
<1>. QED  BY <1>1

LEMMA SiblingFlag ==
    ASSUME NEW r \in BudType, NEW c \in (-PairWindow)..MaxTime
    PROVE  LET s == [r EXCEPT !.counter = c, !.saved = 0, !.tmo = FALSE, !.sib = TRUE,
                              !.timer = None]
           IN /\ s \in BudType /\ s.on = r.on /\ s.paired = r.paired /\ s.sib
              /\ s.timer = None /\ s.page = r.page /\ s.create = r.create
              /\ s.scan = r.scan
<1>1. 0 \in (-PairWindow)..MaxTime
  BY Counters
<1>2. LET s == [r EXCEPT !.counter = c, !.saved = 0, !.tmo = FALSE, !.sib = TRUE,
                         !.timer = None]
      IN /\ s \in BudType /\ s.on = r.on /\ s.paired = r.paired /\ s.sib = TRUE
         /\ s.timer = None /\ s.page = r.page /\ s.create = r.create
         /\ s.scan = r.scan
  BY <1>1 DEF BudType
<1>. QED  BY <1>2

LEMMA ScanFlag ==
    ASSUME NEW r \in BudType
    PROVE  LET s == [r EXCEPT !.scan = "none"]
           IN /\ s \in BudType /\ s.on = r.on /\ s.paired = r.paired /\ s.sib = r.sib
              /\ s.timer = r.timer /\ s.page = r.page /\ s.create = r.create
              /\ s.scan = "none"
BY DEF BudType

LEMMA AloneFlag ==
    ASSUME NEW r \in BudType
    PROVE  LET s == [r EXCEPT !.sib = FALSE]
           IN /\ s \in BudType /\ s.on = r.on /\ s.paired = r.paired /\ ~s.sib
              /\ s.timer = r.timer /\ s.page = r.page /\ s.create = r.create
              /\ s.scan = r.scan
<1>1. LET s == [r EXCEPT !.sib = FALSE]
      IN /\ s \in BudType /\ s.on = r.on /\ s.paired = r.paired /\ s.sib = FALSE
         /\ s.timer = r.timer /\ s.page = r.page /\ s.create = r.create
         /\ s.scan = r.scan
  BY DEF BudType
<1>. QED  BY <1>1

LEMMA SavedTime ==
    ASSUME NEW r \in BudType, NEW b \in BOOLEAN
    PROVE  Same(r, [r EXCEPT !.tmo = b, !.saved = r.counter, !.counter = 0])
<1>1. 0 \in (-PairWindow)..MaxTime
  BY Counters
<1>2. r.counter \in (-PairWindow)..MaxTime
  BY DEF BudType
<1>. QED  BY <1>1, <1>2 DEF Same, BudType

\* The first link pairs the bud; a phone deletes its pair timer, and so does
\* the role of a slave.
LEMMA TwsConnectedRight ==
    ASSUME NEW r \in BudType, NEW e \in Event, NEW m \in BOOLEAN, NEW up \in BOOLEAN,
           NEW talking \in BOOLEAN, e.type = "TwsConnected"
    PROVE  Right(r, e, m, up, talking, TwsConnected(r, e, m))
<1>. DEFINE p == IF r.paired THEN r ELSE [r EXCEPT !.paired = TRUE, !.poweron = FALSE]
            c == IF p.saved # 0 /\ e.master THEN p.saved ELSE p.counter
            t == [p EXCEPT !.counter = c, !.saved = 0, !.tmo = FALSE, !.sib = TRUE,
                           !.timer = None]
            n == [t EXCEPT !.scan = "none"]
            s == IF e.master THEN Switch(t, m) ELSE n
            u == ShutEnable(ShutDisable(s))
            h == TwsConnected(r, e, m)
<1>1. /\ p \in BudType /\ p.on = r.on /\ p.paired /\ p.sib = r.sib /\ p.page = r.page
      /\ p.create = r.create /\ p.scan = r.scan
  <2>1. CASE r.paired
    BY <2>1
  <2>2. CASE ~r.paired
    BY <2>2, PairedFlag
  <2>. QED  BY <2>1, <2>2
<1>2. c \in (-PairWindow)..MaxTime
  <2>1. p.saved \in (-PairWindow)..MaxTime /\ p.counter \in (-PairWindow)..MaxTime
    BY <1>1 DEF BudType
  <2>. QED  BY <2>1
<1>3. h = IF e.phone THEN t ELSE u
  BY DEF TwsConnected
<1>. HIDE DEF p, c, h
<1>4. /\ t \in BudType /\ t.on = r.on /\ t.paired = p.paired /\ t.sib /\ t.timer = None
      /\ t.page = r.page /\ t.create = r.create /\ t.scan = r.scan
  BY <1>1, <1>2, SiblingFlag
<1>. HIDE DEF t
<1>5. /\ n \in BudType /\ n.on = t.on /\ n.paired = t.paired /\ n.sib = t.sib
      /\ n.timer = t.timer /\ n.page = t.page /\ n.create = t.create /\ n.scan = "none"
  BY <1>4, ScanFlag
<1>. HIDE DEF n
<1>6. Tame(t, n)
  BY <1>4, <1>5 DEF Tame, RecordInv
<1>7. Tame(t, s) /\ (~m => s.timer = None)
  BY <1>4, <1>5, <1>6, SwitchKeeps
<1>. HIDE DEF s
<1>8. Same(s, u)
  <2>1. s \in BudType
    BY <1>7 DEF Tame
  <2>2. Same(s, ShutDisable(s)) /\ ShutDisable(s) \in BudType
    BY <2>1, Small, Counters DEF Same
  <2>3. Same(ShutDisable(s), ShutEnable(ShutDisable(s)))
    BY <2>2, Small, Counters
  <2>. QED  BY <2>2, <2>3, Chain
<1>. HIDE DEF u
<1>9. Tame(t, t)
  BY <1>4 DEF Tame
<1>10. Tame(t, h) /\ (~m => h.timer = None) /\ (e.phone => h.timer = None)
  BY <1>3, <1>4, <1>7, <1>8, <1>9, Chain DEF Same
<1>11. h \in BudType /\ h.on = r.on /\ h.paired /\ h.sib
  BY <1>1, <1>4, <1>10 DEF Tame
<1>12. RecordInv(r) => RecordInv(h)
  BY <1>1, <1>4, <1>10 DEF Tame, RecordInv
<1>13. RecordRight(r, e, h)
  BY <1>11, <1>12, Kinds DEF RecordRight
<1>14. TimerRight(r, e, m, talking, h)
  BY <1>10, Kinds DEF TimerRight
<1>15. WorkRight(r, e, m, up, h)
  BY <1>11 DEF WorkRight
<1>. QED  BY <1>13, <1>14, <1>15 DEF Right, h

LEMMA TwsTimeoutRight ==
    ASSUME NEW r \in BudType, NEW e \in Event, NEW m \in BOOLEAN, NEW up \in BOOLEAN,
           NEW talking \in BOOLEAN, e.type = "TwsTimeout", e.phone => r.paired
    PROVE  Right(r, e, m, up, talking, TwsTimeout(r, e, m))
<1>. DEFINE z == IF r.tmo THEN [r EXCEPT !.tmo = FALSE, !.saved = r.counter, !.counter = 0]
                 ELSE r
            h == TwsTimeout(r, e, m)
<1>1. Same(r, r)
  BY DEF Same
<1>2. Same(r, z) /\ z \in BudType /\ z.sib = r.sib
  BY <1>1, SavedTime DEF Same
<1>3. /\ ~r.paired => h = Switch(r, m)
      /\ r.paired /\ e.phone => h = WaitSibling(r)
      /\ r.paired /\ ~e.phone => h = Switch(z, m)
  BY DEF TwsTimeout
<1>. HIDE DEF z, h
<1>4. /\ Tame(r, Switch(r, m)) /\ (~m => Switch(r, m).timer = None)
      /\ m /\ ~r.sib => Active(Switch(r, m))
  BY SwitchKeeps
<1>5. Tame(r, WaitSibling(r)) /\ WaitSibling(r).timer = None
  BY Calls
<1>6. /\ Tame(r, Switch(z, m)) /\ (~m => Switch(z, m).timer = None)
      /\ m /\ ~r.sib => Active(Switch(z, m))
  BY <1>2, SwitchKeeps, Chain
<1>7. Tame(r, h) /\ (~m => h.timer = None) /\ (e.phone => h.timer = None)
  BY <1>3, <1>4, <1>5, <1>6
<1>8. m /\ ~r.sib /\ ~e.phone => Active(h)
  BY <1>3, <1>4, <1>6
<1>9. RecordRight(r, e, h)
  BY <1>7, TameRight
<1>10. TimerRight(r, e, m, talking, h)
  BY <1>7, Kinds DEF TimerRight
<1>11. WorkRight(r, e, m, up, h)
  BY <1>7, <1>8, Kinds DEF WorkRight, Tame, Waking
<1>. QED  BY <1>9, <1>10, <1>11 DEF Right, h

\* The end of a link: the bud looks for its sibling, waits for it, or alternates.
LEMMA TwsDetachRight ==
    ASSUME NEW r \in BudType, NEW e \in Event, NEW m \in BOOLEAN, NEW up \in BOOLEAN,
           NEW talking \in BOOLEAN, e.type = "TwsDetach", r.paired
    PROVE  Right(r, e, m, up, talking, TwsDetach(r, e, m, up))
<1>. DEFINE d == [r EXCEPT !.sib = FALSE]
            s == [d EXCEPT !.tmo = TRUE, !.saved = r.counter, !.counter = 0]
            z == IF e.master THEN d ELSE s
            h == TwsDetach(r, e, m, up)
<1>1. /\ d \in BudType /\ d.on = r.on /\ d.paired = r.paired /\ ~d.sib /\ d.timer = r.timer
      /\ d.page = r.page /\ d.create = r.create /\ d.scan = r.scan
  BY AloneFlag
<1>2. r.counter = d.counter
  BY DEF BudType
<1>3. /\ r.on = "leaving" => h = r
      /\ r.on # "leaving" /\ e.phone => h = WaitSibling(d)
      /\ r.on # "leaving" /\ ~e.phone /\ e.why = "timeout" => h = ConnectSibling(z, m, up)
      /\ r.on # "leaving" /\ ~e.phone /\ e.why # "timeout" => h = Switch(d, m)
  BY DEF TwsDetach
<1>. HIDE DEF d, h
<1>4. Same(d, s)
  BY <1>1, <1>2, SavedTime
<1>5. Same(d, d)
  BY <1>1 DEF Same
<1>. HIDE DEF s
<1>6. Same(d, z) /\ z \in BudType /\ z.paired
  BY <1>1, <1>4, <1>5 DEF Same
<1>. HIDE DEF z
<1>7. Tame(d, WaitSibling(d)) /\ WaitSibling(d).timer = None
  BY <1>1, Calls
<1>8. /\ Tame(d, ConnectSibling(z, m, up))
      /\ ~m => ConnectSibling(z, m, up).timer = None
      /\ ~up => Active(ConnectSibling(z, m, up))
  BY <1>6, ConnectSiblingKeeps, Chain
<1>9. /\ Tame(d, Switch(d, m))
      /\ ~m => Switch(d, m).timer = None
      /\ m => Active(Switch(d, m))
  BY <1>1, SwitchKeeps
<1>10. CASE r.on = "leaving"
  <2>1. RecordRight(r, e, r)
    BY <1>10, Kinds DEF RecordRight
  <2>2. TimerRight(r, e, m, talking, r)
    BY Kinds DEF TimerRight
  <2>3. WorkRight(r, e, m, up, r)
    BY <1>10 DEF WorkRight
  <2>. QED  BY <1>3, <1>10, <2>1, <2>2, <2>3 DEF Right, h
<1>11. CASE r.on # "leaving"
  <2>1. Tame(d, h) /\ (~m => h.timer = None) /\ (e.phone => h.timer = None)
    BY <1>3, <1>7, <1>8, <1>9, <1>11
  <2>2. m /\ ~up /\ ~e.phone => Active(h)
    BY <1>3, <1>8, <1>9, <1>11
  <2>3. h \in BudType /\ h.on = r.on /\ h.paired /\ ~h.sib
    BY <1>1, <2>1 DEF Tame
  <2>4. RecordInv(r) => RecordInv(h)
    BY <1>1, <2>1 DEF Tame, RecordInv
  <2>5. RecordRight(r, e, h)
    BY <2>3, <2>4, Kinds DEF RecordRight
  <2>6. TimerRight(r, e, m, talking, h)
    BY <2>1, Kinds DEF TimerRight
  <2>7. WorkRight(r, e, m, up, h)
    BY <2>2, Kinds DEF WorkRight, Waking
  <2>. QED  BY <2>5, <2>6, <2>7 DEF Right, h
<1>. QED  BY <1>10, <1>11

\* A handler that alternates by the bud's role, or keeps a bud that is at work
\* as it is, is right for every event that says nothing of the link and leaves
\* the pair timer to the role.
LEMMA AlternatingRight ==
    ASSUME NEW r \in BudType, NEW e \in Event, NEW m \in BOOLEAN, NEW up \in BOOLEAN,
           NEW talking \in BOOLEAN, NEW s, Tame(r, s), ~m => s.timer \in {r.timer, None},
           m /\ ~up /\ ~r.sib => Active(s),
           e.type \in {"PhoneDetach", "HciDisconnect", "HciTimeout", "HciExist", "PageTimeout"}
    PROVE  Right(r, e, m, up, talking, s)
<1>1. RecordRight(r, e, s)
  BY TameRight
<1>2. TimerRight(r, e, m, talking, s)
  BY Kinds DEF TimerRight
<1>3. WorkRight(r, e, m, up, s)
  BY DEF WorkRight, Tame
<1>. QED  BY <1>1, <1>2, <1>3 DEF Right

LEMMA PhoneConnectTimeoutKeeps ==
    ASSUME NEW r \in BudType, NEW m \in BOOLEAN, NEW up \in BOOLEAN
    PROVE  LET s == PhoneConnectTimeout(r, m, up)
           IN  /\ Tame(r, s)
               /\ ~m => s.timer = None
               /\ m /\ ~up /\ ~r.sib => Active(s)
<1>1. CASE ~r.paired \/ r.sib
  BY <1>1, SwitchKeeps DEF PhoneConnectTimeout
<1>2. CASE ~(~r.paired \/ r.sib)
  BY <1>2, ConnectSiblingKeeps DEF PhoneConnectTimeout
<1>. QED  BY <1>1, <1>2

LEMMA PhoneDisconnectedKeeps ==
    ASSUME NEW r \in BudType, NEW m \in BOOLEAN, NEW up \in BOOLEAN
    PROVE  LET s == PhoneDisconnected(r, m, up)
           IN  /\ Tame(r, s)
               /\ ~m => s.timer \in {r.timer, None}
               /\ m /\ ~r.sib => Active(s)
<1>. DEFINE y == IF m THEN SyncCall(r, "SyncShut", up) ELSE r
            z == [y EXCEPT !.counter = 0]
            s == PhoneDisconnected(r, m, up)
<1>1. Same(r, r)
  BY DEF Same
<1>2. Same(r, y) /\ y \in BudType
  BY <1>1, Small, Counters DEF Same
<1>3. s = IF r.sib THEN z ELSE Switch(z, m)
  BY DEF PhoneDisconnected
<1>. HIDE DEF y, s
<1>4. Same(y, z)
  BY <1>2, Small, Counters
<1>. HIDE DEF z
<1>5. Same(r, z) /\ z \in BudType /\ z.sib = r.sib /\ z.timer = r.timer
  BY <1>2, <1>4, Chain DEF Same
<1>6. /\ Tame(r, Switch(z, m))
      /\ ~m => Switch(z, m).timer = None
      /\ m /\ ~r.sib => Active(Switch(z, m))
  BY <1>5, SwitchKeeps, Chain
<1>7. Tame(r, s) /\ (~m => s.timer \in {r.timer, None}) /\ (m /\ ~r.sib => Active(s))
  BY <1>3, <1>5, <1>6, Chain
<1>. QED  BY <1>7 DEF s

\* The end of the phone's link.
LEMMA PhoneLinkDetachRight ==
    ASSUME NEW r \in BudType, NEW e \in Event, NEW m \in BOOLEAN, NEW up \in BOOLEAN,
           NEW talking \in BOOLEAN, e.type = "PhoneDetach"
    PROVE  Right(r, e, m, up, talking, PhoneLinkDetach(r, e, m))
<1>. DEFINE s == ShutEnable(r)
            c == CASE e.why = "user" -> 0 [] e.why = "exists" -> ExistTime [] OTHER -> s.counter
            z == [s EXCEPT !.counter = c]
            h == PhoneLinkDetach(r, e, m)
<1>1. Same(r, s) /\ s \in BudType
  BY Small, Counters DEF Same
<1>2. c \in (-PairWindow)..MaxTime
  <2>1. s.counter \in (-PairWindow)..MaxTime
    BY <1>1 DEF BudType
  <2>2. c \in {0, ExistTime, s.counter}
    OBVIOUS
  <2>. QED  BY <2>1, <2>2, Counters
<1>3. h = IF r.on = "leaving" THEN r ELSE Switch(z, m)
  BY DEF PhoneLinkDetach
<1>. HIDE DEF s, c, h
<1>4. Same(s, z)
  BY <1>1, <1>2, Small
<1>. HIDE DEF z
<1>5. Same(r, z) /\ z \in BudType /\ z.sib = r.sib
  BY <1>1, <1>4, Chain DEF Same
<1>6. /\ Tame(r, Switch(z, m))
      /\ ~m => Switch(z, m).timer = None
      /\ m /\ ~r.sib => Active(Switch(z, m))
  BY <1>5, SwitchKeeps, Chain
<1>7. CASE r.on = "leaving"
  <2>1. Tame(r, r)
    BY DEF Tame
  <2>2. RecordRight(r, e, r)
    BY <2>1, TameRight
  <2>3. TimerRight(r, e, m, talking, r)
    BY Kinds DEF TimerRight
  <2>4. WorkRight(r, e, m, up, r)
    BY <1>7 DEF WorkRight
  <2>. QED  BY <1>3, <1>7, <2>2, <2>3, <2>4 DEF Right, h
<1>8. CASE r.on # "leaving"
  BY <1>3, <1>6, <1>8, AlternatingRight DEF h
<1>. QED  BY <1>7, <1>8

LEMMA HciDisconnectRight ==
    ASSUME NEW r \in BudType, NEW e \in Event, NEW m \in BOOLEAN, NEW up \in BOOLEAN,
           NEW talking \in BOOLEAN, e.type = "HciDisconnect"
    PROVE  Right(r, e, m, up, talking, HciDisconnect(r, e, m, up))
<1>. DEFINE s == ShutEnable(r)
            h == HciDisconnect(r, e, m, up)
            x == PhoneConnectTimeout(s, m, up)
            y == PhoneDisconnected(s, m, up)
<1>1. Same(r, s) /\ s \in BudType /\ s.sib = r.sib /\ s.timer = r.timer
  BY Small, Counters DEF Same
<1>2. h = IF r.on = "leaving" THEN r ELSE IF e.why = "timeout" THEN x ELSE y
  BY DEF HciDisconnect
<1>. HIDE DEF s, h
<1>3. Tame(r, x) /\ (~m => x.timer \in {r.timer, None}) /\ (m /\ ~up /\ ~r.sib => Active(x))
  BY <1>1, PhoneConnectTimeoutKeeps, Chain
<1>4. Tame(r, y) /\ (~m => y.timer \in {r.timer, None}) /\ (m /\ ~up /\ ~r.sib => Active(y))
  BY <1>1, PhoneDisconnectedKeeps, Chain
<1>5. CASE r.on = "leaving"
  <2>1. Tame(r, r)
    BY DEF Tame
  <2>2. RecordRight(r, e, r)
    BY <2>1, TameRight
  <2>3. TimerRight(r, e, m, talking, r)
    BY Kinds DEF TimerRight
  <2>4. WorkRight(r, e, m, up, r)
    BY <1>5 DEF WorkRight
  <2>. QED  BY <1>2, <1>5, <2>2, <2>3, <2>4 DEF Right, h
<1>6. CASE r.on # "leaving"
  BY <1>2, <1>3, <1>4, <1>6, AlternatingRight DEF h
<1>. QED  BY <1>5, <1>6

LEMMA HciReconnectRight ==
    ASSUME NEW r \in BudType, NEW e \in Event, NEW m \in BOOLEAN, NEW up \in BOOLEAN,
           NEW talking \in BOOLEAN, NEW time \in {ReconnTime, ExistTime},
           e.type \in {"HciTimeout", "HciExist"}
    PROVE  Right(r, e, m, up, talking, HciReconnect(r, time, m, up))
<1>. DEFINE z == [r EXCEPT !.counter = time]
            x == PhoneConnectTimeout(z, m, up)
<1>1. Same(r, z) /\ z \in BudType /\ z.sib = r.sib
  <2>1. time \in (-PairWindow)..MaxTime
    BY Counters
  <2>. QED  BY <2>1, Small DEF Same
<1>2. HciReconnect(r, time, m, up) = x
  BY DEF HciReconnect
<1>. HIDE DEF z
<1>3. Tame(r, x) /\ (~m => x.timer = None) /\ (m /\ ~up /\ ~r.sib => Active(x))
  BY <1>1, PhoneConnectTimeoutKeeps, Chain
<1>. HIDE DEF x
<1>. QED  BY <1>2, <1>3, AlternatingRight

LEMMA PageTimeoutRight ==
    ASSUME NEW r \in BudType, NEW e \in Event, NEW m \in BOOLEAN, NEW up \in BOOLEAN,
           NEW talking \in BOOLEAN, e.type = "PageTimeout"
    PROVE  Right(r, e, m, up, talking, PhoneDisconnected(r, m, up))
BY PhoneDisconnectedKeeps, AlternatingRight

\* The events that leave a bud at work as it is, those that connect it, and the
\* one that makes it leave.
LEMMA SimpleRight ==
    ASSUME NEW r \in BudType, NEW e \in Event, NEW m \in BOOLEAN, NEW up \in BOOLEAN,
           NEW talking \in BOOLEAN
    PROVE  /\ e.type = "RoleSwitch" =>
                  Right(r, e, m, up, talking, IF talking THEN r ELSE Switch(r, m))
           /\ e.type = "SyncOff" => Right(r, e, m, up, talking, SyncOff(r))
           /\ e.type = "SyncShut" => Right(r, e, m, up, talking, ShutEnable(ShutDisable(r)))
           /\ e.type = "HciConnect" => Right(r, e, m, up, talking, HciConnect(r))
           /\ e.type = "PhoneConnected" =>
                  Right(r, e, m, up, talking, PhoneConnected(ShutDisable(r)))
<1>1. ASSUME e.type = "RoleSwitch"
      PROVE  Right(r, e, m, up, talking, IF talking THEN r ELSE Switch(r, m))
  <2>. DEFINE s == IF talking THEN r ELSE Switch(r, m)
  <2>1. Tame(r, r)
    BY DEF Tame
  <2>2. /\ Tame(r, s) /\ (~m => s.timer \in {r.timer, None})
        /\ talking => s = r
        /\ ~talking /\ m /\ ~r.sib => Active(s)
    BY <2>1, SwitchKeeps
  <2>. HIDE DEF s
  <2>3. RecordRight(r, e, s)
    BY <1>1, <2>2, TameRight
  <2>4. TimerRight(r, e, m, talking, s)
    BY <1>1, <2>2, Kinds DEF TimerRight
  <2>5. WorkRight(r, e, m, up, s)
    BY <1>1, <2>2, Kinds DEF WorkRight, Tame
  <2>6. Right(r, e, m, up, talking, s)
    BY <2>3, <2>4, <2>5 DEF Right
  <2>. QED  BY <2>6 DEF s
<1>2. ASSUME e.type = "SyncOff"
      PROVE  Right(r, e, m, up, talking, SyncOff(r))
  <2>. DEFINE y == ShutDisable(r)
              l == [y EXCEPT !.on = "leaving"]
              s == SyncOff(r)
  <2>1. Same(r, y) /\ y \in BudType
    BY Small, Counters DEF Same
  <2>2. s = IF r.on = "leaving" THEN r ELSE l
    BY DEF SyncOff
  <2>. HIDE DEF y, s
  <2>3. /\ l \in BudType /\ l.on = "leaving" /\ l.paired = y.paired /\ l.sib = y.sib
        /\ l.timer = y.timer /\ l.page = y.page /\ l.create = y.create /\ l.scan = y.scan
    BY <2>1 DEF BudType
  <2>. HIDE DEF l
  <2>4. /\ s \in BudType /\ s.on = "leaving" /\ s.paired = r.paired /\ s.sib = r.sib
        /\ s.timer = r.timer /\ s.page = r.page /\ s.create = r.create /\ s.scan = r.scan
    BY <2>1, <2>2, <2>3 DEF Same
  <2>5. RecordRight(r, e, s)
    BY <1>2, <2>4, Kinds DEF RecordRight, RecordInv
  <2>6. TimerRight(r, e, m, talking, s)
    BY <1>2, <2>4, Kinds DEF TimerRight
  <2>7. WorkRight(r, e, m, up, s)
    BY <2>4 DEF WorkRight
  <2>. QED  BY <2>5, <2>6, <2>7 DEF Right, s
<1>3. ASSUME e.type = "SyncShut"
      PROVE  Right(r, e, m, up, talking, ShutEnable(ShutDisable(r)))
  <2>. DEFINE y == ShutDisable(r)
              s == ShutEnable(y)
  <2>1. Same(r, y) /\ y \in BudType
    BY Small, Counters DEF Same
  <2>. HIDE DEF y
  <2>2. Same(y, s)
    BY <2>1, Small, Counters
  <2>. HIDE DEF s
  <2>3. Same(r, s) /\ Tame(r, s)
    BY <2>1, <2>2, Chain
  <2>4. RecordRight(r, e, s)
    BY <1>3, <2>3, TameRight
  <2>5. TimerRight(r, e, m, talking, s)
    BY <1>3, <2>3, Kinds DEF TimerRight, Same
  <2>6. WorkRight(r, e, m, up, s)
    BY <1>3, <2>3, Kinds DEF WorkRight, Same, Active
  <2>. QED  BY <2>4, <2>5, <2>6 DEF Right, s, y
<1>4. ASSUME e.type = "HciConnect"
      PROVE  Right(r, e, m, up, talking, HciConnect(r))
  <2>. DEFINE d == DeletePairTimer(r)
              y == [d EXCEPT !.poweron = FALSE, !.counter = 0]
              s == ShutDisable(y)
  <2>1. d \in BudType /\ Tame(r, d) /\ d.timer = None
    BY Calls
  <2>. HIDE DEF d
  <2>2. Same(d, y) /\ y \in BudType
    <3>1. 0 \in (-PairWindow)..MaxTime
      BY Counters
    <3>2. Same(d, y)
      BY <2>1, <3>1, Small
    <3>. QED  BY <3>2 DEF Same
  <2>. HIDE DEF y
  <2>3. Same(y, s)
    BY <2>2, Small, Counters
  <2>4. HciConnect(r) = s
    BY DEF HciConnect, s, y, d
  <2>. HIDE DEF s
  <2>5. Tame(r, s) /\ s.timer = None
    BY <2>1, <2>2, <2>3, Chain DEF Same
  <2>6. RecordRight(r, e, s)
    BY <1>4, <2>5, TameRight
  <2>7. TimerRight(r, e, m, talking, s)
    BY <2>5 DEF TimerRight
  <2>8. WorkRight(r, e, m, up, s)
    BY <1>4, Kinds DEF WorkRight, Waking
  <2>. QED  BY <2>4, <2>6, <2>7, <2>8 DEF Right
<1>5. ASSUME e.type = "PhoneConnected"
      PROVE  Right(r, e, m, up, talking, PhoneConnected(ShutDisable(r)))
  <2>. DEFINE y == ShutDisable(r)
              s == PhoneConnected(y)
  <2>1. Same(r, y) /\ y \in BudType /\ y.timer = r.timer
    BY Small, Counters DEF Same
  <2>. HIDE DEF y
  <2>2. Tame(y, WaitSibling(y)) /\ WaitSibling(y).timer = None
    BY <2>1, Calls
  <2>3. Tame(r, y)
    BY <2>1, Chain
  <2>4. Tame(r, s) /\ s.timer \in {r.timer, None}
    BY <2>1, <2>2, <2>3, Chain DEF PhoneConnected
  <2>. HIDE DEF s
  <2>5. RecordRight(r, e, s)
    BY <1>5, <2>4, TameRight
  <2>6. TimerRight(r, e, m, talking, s)
    BY <1>5, <2>4, Kinds DEF TimerRight
  <2>7. WorkRight(r, e, m, up, s)
    BY <1>5, Kinds DEF WorkRight, Waking
  <2>. QED  BY <2>5, <2>6, <2>7 DEF Right, s, y
<1>. QED  BY <1>1, <1>2, <1>3, <1>4, <1>5

\* Every handler is right.
LEMMA HandledRight ==
    ASSUME NEW r \in BudType, NEW e \in Event, NEW m \in BOOLEAN, NEW up \in BOOLEAN,
           NEW talking \in BOOLEAN,
           e \in Detaches => r.paired,
           e.type = "TwsTimeout" /\ e.phone => r.paired
    PROVE  Right(r, e, m, up, talking, Handled(r, e, m, up, talking))
<1>1. CASE e.type = "TwsConnected"
  BY <1>1, TwsConnectedRight DEF Handled
<1>2. CASE e.type = "TwsTimeout"
  BY <1>2, TwsTimeoutRight DEF Handled
<1>3. CASE e.type = "TwsDetach"
  BY <1>3, TwsDetachRight, Kinds DEF Handled
<1>4. CASE e.type = "PhoneDetach"
  BY <1>4, PhoneLinkDetachRight DEF Handled
<1>5. CASE e.type = "HciDisconnect"
  BY <1>5, HciDisconnectRight DEF Handled
<1>6. CASE e.type = "HciTimeout"
  BY <1>6, HciReconnectRight DEF Handled
<1>7. CASE e.type = "HciExist"
  BY <1>7, HciReconnectRight DEF Handled
<1>8. CASE e.type = "PageTimeout"
  BY <1>8, PageTimeoutRight DEF Handled
<1>9. CASE e.type = "RoleSwitch"
  BY <1>9, SimpleRight DEF Handled
<1>10. CASE e.type = "SyncOff"
  BY <1>10, SimpleRight DEF Handled
<1>11. CASE e.type = "SyncShut"
  BY <1>11, SimpleRight DEF Handled
<1>12. CASE e.type = "HciConnect"
  BY <1>12, SimpleRight DEF Handled
<1>13. CASE e.type = "PhoneConnected"
  BY <1>13, SimpleRight DEF Handled
<1>14. e.type \in EventTypes
  BY DEF Event
<1>. QED  BY <1>1, <1>2, <1>3, <1>4, <1>5, <1>6, <1>7, <1>8, <1>9, <1>10, <1>11, <1>12, <1>13,
             <1>14 DEF EventTypes

-----------------------------------------------------------------------------
(* Queues and what is settled in them *)

\* Taking an event, and adding some, with the bud's flag right or not.
LEMMA SettlesTaken ==
    ASSUME NEW s \in Seq(Event), s # <<>>, NEW E, NEW F, NEW right,
           Settles(s, E, F, right)
    PROVE  \/ EndsIn(Tail(s), E, F)
           \/ NoneIn(Tail(s), E) /\ Head(s) \in F
           \/ NoneIn(Tail(s), E) /\ Head(s) \notin E /\ right
BY Taken DEF Settles

LEMMA SettlesAdded ==
    ASSUME NEW s \in Seq(Event), NEW t \in Seq(Event), NEW E, NEW F, NEW old, NEW new
    PROVE  /\ EndsIn(t, E, F) => Settles(s \o t, E, F, new)
           /\ Settles(s, E, F, old) /\ NoneIn(t, E) /\ (old => new) => Settles(s \o t, E, F, new)
           /\ Settles(s, E, F, old) /\ (old => new) => Settles(s, E, F, new)
BY Added DEF Settles

LEMMA AnnouncedTaken ==
    ASSUME NEW s \in Seq(Event), s # <<>>, NEW p \in BOOLEAN, NEW n \in BOOLEAN,
           Announced(s, p), p => n, Head(s) \in Connects => n
    PROVE  /\ Announced(Tail(s), n)
           /\ Head(s) \in Detaches => p
           /\ Head(s) \in Misses => p
<1>. DEFINE t == Tail(s)
<1>1. /\ Head(s) = s[1] /\ Len(t) = Len(s) - 1 /\ Len(s) \in Nat /\ Len(t) \in Nat
      /\ \A i \in 1..Len(t) : i + 1 \in 1..Len(s) /\ t[i] = s[i + 1]
  BY Taken
<1>2. NoneIn(s, Misses) => NoneIn(t, Misses) /\ Head(s) \notin Misses
  BY Taken
<1>. HIDE DEF t
<1>3. 1 \in 1..Len(s)
  BY <1>1
<1>4. Head(s) \in Misses => p
  BY <1>2 DEF Announced
<1>5. Head(s) \in Detaches => p
  <2>1. ~\E j \in 1..(1 - 1) : s[j] \in Connects
    OBVIOUS
  <2>. QED  BY <1>1, <1>3, <2>1 DEF Announced
<1>6. ASSUME ~n, NEW i \in 1..Len(t), t[i] \in Detaches
      PROVE  \E j \in 1..(i - 1) : t[j] \in Connects
  <2>1. i + 1 \in 1..Len(s) /\ s[i + 1] \in Detaches
    BY <1>1, <1>6
  <2>2. PICK j \in 1..((i + 1) - 1) : s[j] \in Connects
    BY <1>6, <2>1 DEF Announced
  <2>3. j # 1
    BY <1>1, <1>6, <2>2
  <2>4. j - 1 \in 1..(i - 1) /\ j - 1 \in 1..Len(t) /\ (j - 1) + 1 = j
    BY <1>1, <2>2, <2>3
  <2>. QED  BY <1>1, <2>2, <2>4
<1>7. ~n => NoneIn(t, Misses)
  BY <1>2 DEF Announced
<1>8. Announced(t, n)
  BY <1>6, <1>7 DEF Announced
<1>. QED  BY <1>4, <1>5, <1>8 DEF t

LEMMA AnnouncedAdded ==
    ASSUME NEW s \in Seq(Event), NEW t \in Seq(Event), NEW p \in BOOLEAN, Announced(s, p),
           p \/ NoneIn(t, Detaches) \/ ~NoneIn(s, Connects),
           p \/ NoneIn(t, Misses)
    PROVE  Announced(s \o t, p)
<1>. DEFINE u == s \o t
<1>1. /\ \A i \in 1..Len(s) : i \in 1..Len(u) /\ u[i] = s[i]
      /\ \A i \in 1..Len(u) : \/ i \in 1..Len(s) /\ u[i] = s[i]
                              \/ i - Len(s) \in 1..Len(t) /\ u[i] = t[i - Len(s)]
  BY Added
<1>4. NoneIn(u, Misses) <=> NoneIn(s, Misses) /\ NoneIn(t, Misses)
  BY Added
<1>. HIDE DEF u
<1>2. ~p => NoneIn(u, Misses)
  BY <1>4 DEF Announced
<1>3. ASSUME ~p, NEW i \in 1..Len(u), u[i] \in Detaches
      PROVE  \E j \in 1..(i - 1) : u[j] \in Connects
  <2>1. CASE i \in 1..Len(s) /\ u[i] = s[i]
    <3>1. PICK j \in 1..(i - 1) : s[j] \in Connects
      BY <1>3, <2>1 DEF Announced
    <3>2. j \in 1..Len(s)
      BY <1>1, <2>1, <3>1
    <3>. QED  BY <1>1, <3>1, <3>2
  <2>2. CASE i - Len(s) \in 1..Len(t) /\ u[i] = t[i - Len(s)]
    <3>1. PICK j \in 1..Len(s) : s[j] \in Connects
      BY <1>3, <2>2 DEF NoneIn
    <3>2. j \in 1..(i - 1)
      BY <1>1, <2>2, <3>1
    <3>. QED  BY <1>1, <3>1, <3>2
  <2>. QED  BY <1>1, <1>3, <2>1, <2>2
<1>. QED  BY <1>2, <1>3 DEF Announced, u

\* The events that the stack posts.
LEMMA Posts ==
    /\ \A t \in EventTypes : Ev(t) \in Event /\ Ev(t).type = t /\ Ev(t).phone = FALSE
    /\ \A t \in EventTypes, w \in {"none", "user", "timeout", "exists", "poweroff"} :
          /\ [Ev(t) EXCEPT !.why = w] \in Event
          /\ [Ev(t) EXCEPT !.why = w].type = t
          /\ [Ev(t) EXCEPT !.why = w].phone = FALSE
<1>1. \A t \in EventTypes : Ev(t) \in Event /\ Ev(t).type = t /\ Ev(t).phone = FALSE
  BY DEF Event, Ev
<1>2. ASSUME NEW t \in EventTypes, NEW w \in {"none", "user", "timeout", "exists", "poweroff"}
      PROVE  /\ [Ev(t) EXCEPT !.why = w] \in Event
             /\ [Ev(t) EXCEPT !.why = w].type = t
             /\ [Ev(t) EXCEPT !.why = w].phone = FALSE
  BY DEF Event, Ev
<1>. QED  BY <1>1, <1>2

-----------------------------------------------------------------------------
(* The actions of a bud *)

\* What the stack accepts keeps a right record right.
LEMMA AcceptedKeeps ==
    ASSUME NEW b \in Buds, NEW s \in BudType
    PROVE  LET a == Accepted(b, s)
           IN  /\ a \in BudType
               /\ a.on = s.on /\ a.paired = s.paired /\ a.sib = s.sib /\ a.timer = s.timer
               /\ a.scan = s.scan
               /\ a.page => s.page /\ phoneAt = None /\ Role(b)
               /\ a.create = IF Linked THEN "no" ELSE s.create
               /\ RecordInv(s) => RecordInv(a)
<1>. DEFINE p == s.page /\ phoneAt = None /\ Role(b)
            c == IF Linked THEN "no" ELSE s.create
            a == [s EXCEPT !.page = p, !.create = c]
<1>1. p \in BOOLEAN
  OBVIOUS
<1>2. c \in {"no", "timed", "untimed"}
  BY DEF BudType
<1>3. p => s.page /\ phoneAt = None /\ Role(b)
  OBVIOUS
<1>4. Accepted(b, s) = a
  BY DEF Accepted
<1>. HIDE DEF p
<1>5. a \in BudType
  BY <1>1, <1>2 DEF BudType
<1>6. /\ a.on = s.on /\ a.paired = s.paired /\ a.sib = s.sib /\ a.timer = s.timer
      /\ a.scan = s.scan /\ a.page = p /\ a.create = c
  BY DEF BudType
<1>. HIDE DEF a
<1>7. RecordInv(s) => RecordInv(a)
  BY <1>3, <1>6 DEF RecordInv
<1>. QED  BY <1>3, <1>4, <1>5, <1>6, <1>7

\* Nothing that the invariants of x speak of has changed.
LEMMA Untouched ==
    ASSUME NEW x \in Buds, BudInv(x), Same(bud[x], bud'[x]), evq'[x] = evq[x],
           UNCHANGED <<master, phoneAt>>
    PROVE  BudInv(x)'
<1>1. StackInv(x)'
  BY DEF BudInv, StackInv, Same, RecordInv, OffInv, Linked, Role
<1>2. PairedInv(x)'
  BY DEF BudInv, PairedInv, Same, Announced, Linked
<1>3. CalmInv(x)' /\ SlaveInv(x)'
  BY DEF BudInv, CalmInv, SlaveInv, Same, Linked
<1>4. LostInv(x)'
  BY DEF BudInv, LostInv, Same, Linked, Active, Settles
<1>. QED  BY <1>1, <1>2, <1>3, <1>4 DEF BudInv

\* The task of b takes its next event.
LEMMA HandleBud ==
    ASSUME TypeInv, NEW b \in Buds, BudInv(b), Handle(b)
    PROVE  BudInv(b)' /\ bud'[b] \in BudType
<1>. DEFINE r == bud[b]
            q == evq[b]
            e == Head(q)
            m == Role(b)
            s == Handled(r, e, m, Linked, Talking)
            a == bud'[b]
<1>1. r \in BudType /\ q \in Seq(Event) /\ q # <<>> /\ e \in Event /\ Tail(q) \in Seq(Event)
  BY Taken DEF TypeInv, Handle
<1>2. m \in BOOLEAN /\ Linked \in BOOLEAN /\ Talking \in BOOLEAN
  BY DEF Linked, Talking, Role
<1>3. a = Accepted(b, s) /\ evq'[b] = Tail(q) /\ UNCHANGED <<master, phoneAt>>
  BY DEF Handle, TypeInv, Env
<1>4. /\ StackInv(b) /\ PairedInv(b) /\ CalmInv(b) /\ SlaveInv(b) /\ LostInv(b)
      /\ RecordInv(r) /\ r.on # "off"
  BY <1>1 DEF BudInv, StackInv
<1>5. r.paired \in BOOLEAN
  BY <1>1 DEF BudType
<1>. HIDE DEF r, q, e, m, s, a
<1>6. (e \in Detaches => r.paired) /\ (e \in Misses => r.paired)
  <2>1. Announced(q, r.paired)
    BY <1>4 DEF PairedInv, q, r
  <2>. QED  BY <1>1, <1>5, <2>1, AnnouncedTaken DEF e
<1>7. Right(r, e, m, Linked, Talking, s)
  <2>1. e.type = "TwsTimeout" /\ e.phone => r.paired
    BY <1>1, <1>6, Kinds
  <2>. QED  BY <1>1, <1>2, <1>6, <2>1, HandledRight DEF s
<1>8. /\ s \in BudType /\ (s.on = r.on \/ s.on = "leaving") /\ RecordInv(s)
      /\ r.paired => s.paired
      /\ s.create = "timed" => r.create = "timed" \/ s.paired
      /\ e \in Connects => s.paired
      /\ e \in Detaches /\ r.on = "on" => ~s.sib
      /\ e \notin Links => s.sib = r.sib
  BY <1>4, <1>7 DEF Right, RecordRight
<1>9. TimerRight(r, e, m, Talking, s) /\ WorkRight(r, e, m, Linked, s)
  BY <1>7 DEF Right
<1>10. /\ a \in BudType
       /\ a.on = s.on /\ a.paired = s.paired /\ a.sib = s.sib /\ a.timer = s.timer
       /\ a.scan = s.scan
       /\ a.page => s.page /\ phoneAt = None /\ Role(b)
       /\ a.create = IF Linked THEN "no" ELSE s.create
       /\ RecordInv(a)
  BY <1>3, <1>8, AcceptedKeeps
<1>11. a.paired \in BOOLEAN /\ s.paired \in BOOLEAN
  BY <1>8, <1>10 DEF BudType
<1>12. StackInv(b)'
  <2>1. a.on # "off"
    BY <1>4, <1>8, <1>10
  <2>2. Linked => a.create = "no"
    BY <1>10
  <2>3. phoneAt = b => Role(b)
    BY <1>4 DEF StackInv
  <2>4. phoneAt = b /\ a.create = "timed" => a.paired
    BY <1>4, <1>8, <1>10 DEF StackInv, r
  <2>5. a.page => phoneAt # b /\ Role(b)
    BY <1>10, Limits
  <2>. QED  BY <1>3, <1>10, <2>1, <2>2, <2>3, <2>4, <2>5 DEF StackInv, Linked, Role, a
<1>13. PairedInv(b)'
  <2>1. Announced(Tail(q), a.paired)
    BY <1>1, <1>4, <1>5, <1>8, <1>10, <1>11, AnnouncedTaken DEF PairedInv, q, r, e
  <2>2. Linked /\ ~a.paired => ~NoneIn(Tail(q), Connects)
    <3>1. Linked /\ ~r.paired => ~NoneIn(q, Connects)
      BY <1>4 DEF PairedInv, q, r
    <3>2. NoneIn(Tail(q), Connects) /\ e \notin Connects => NoneIn(q, Connects)
      BY <1>1, Taken DEF e
    <3>. QED  BY <1>8, <1>10, <3>1, <3>2
  <2>. QED  BY <1>3, <2>1, <2>2 DEF PairedInv, Linked, a
<1>14. CalmInv(b)'
  <2>. SUFFICES ASSUME phoneAt # None, phoneAt = b \/ Linked
                PROVE  Settles(Tail(q), Noisy, Quieting, a.timer = None)
    BY <1>3 DEF CalmInv, Linked, a
  <2>1. Settles(q, Noisy, Quieting, r.timer = None)
    BY <1>4 DEF CalmInv, q, r
  <2>2. CASE EndsIn(Tail(q), Noisy, Quieting)
    BY <2>2 DEF Settles
  <2>3. CASE NoneIn(Tail(q), Noisy) /\ e \in Quieting
    BY <1>9, <1>10, <2>3 DEF Settles, TimerRight
  <2>4. CASE NoneIn(Tail(q), Noisy) /\ e \notin Noisy /\ r.timer = None
    <3>1. e \in Quiet /\ Talking
      BY <1>1, <2>4 DEF Noisy, Talking
    <3>2. s.timer = None
      BY <1>9, <2>4, <3>1 DEF TimerRight
    <3>. QED  BY <1>10, <2>4, <3>2 DEF Settles
  <2>. QED  BY <1>1, <2>1, <2>2, <2>3, <2>4, SettlesTaken DEF e
<1>15. SlaveInv(b)'
  <2>. SUFFICES ASSUME Linked, b # master, NoneIn(Tail(q), Enslaving)
                PROVE  a.timer = None
    BY <1>3 DEF SlaveInv, Linked, a
  <2>1. ~m
    BY DEF m, Role, Linked
  <2>2. CASE e \in Enslaving
    BY <1>9, <1>10, <2>1, <2>2 DEF TimerRight
  <2>3. CASE e \notin Enslaving
    <3>1. NoneIn(q, Enslaving)
      BY <1>1, <2>3, Taken DEF e
    <3>2. r.timer = None
      BY <1>4, <3>1 DEF SlaveInv, q, r
    <3>. QED  BY <1>9, <1>10, <2>1, <3>2 DEF TimerRight
  <2>. QED  BY <2>2, <2>3
<1>16. LostInv(b)'
  <2>. SUFFICES ASSUME a.on = "on", ~Linked
                PROVE  /\ Settles(Tail(q), Links, Detaches, ~a.sib)
                       /\ phoneAt # b => Settles(Tail(q), Waking, Reviving, Active(a))
    BY <1>3 DEF LostInv, Linked, a
  <2>1. r.on = "on" /\ s.on = "on"
    BY <1>8, <1>10
  <2>2. /\ Settles(q, Links, Detaches, ~r.sib)
        /\ phoneAt # b => Settles(q, Waking, Reviving, Active(r))
    BY <1>4, <2>1 DEF LostInv, q, r
  <2>3. EndsIn(Tail(q), Links, Detaches) \/ (NoneIn(Tail(q), Links) /\ ~s.sib)
    <3>1. \/ EndsIn(Tail(q), Links, Detaches)
          \/ NoneIn(Tail(q), Links) /\ e \in Detaches
          \/ NoneIn(Tail(q), Links) /\ e \notin Links /\ ~r.sib
      BY <1>1, <2>2, SettlesTaken DEF e
    <3>. QED  BY <1>8, <2>1, <3>1
  <2>4. ASSUME phoneAt # b
        PROVE  Settles(Tail(q), Waking, Reviving, Active(a))
    <3>1. \/ EndsIn(Tail(q), Waking, Reviving)
          \/ NoneIn(Tail(q), Waking) /\ e \in Reviving
          \/ NoneIn(Tail(q), Waking) /\ e \notin Waking /\ Active(r)
      BY <1>1, <2>2, <2>4, SettlesTaken DEF e
    <3>2. ASSUME NoneIn(Tail(q), Waking), e \in Reviving \/ (e \notin Waking /\ Active(r))
          PROVE  Active(a)
      <4>1. ~EndsIn(Tail(q), Links, Detaches)
        <5>1. Detaches \subseteq Waking
          BY DEF Detaches, Waking, Reviving, Silencing
        <5>. QED  BY <3>2, <5>1 DEF EndsIn, NoneIn
      <4>2. m
        BY DEF m, Role, Linked
      <4>3. Active(s)
        BY <1>9, <2>1, <2>3, <3>2, <4>1, <4>2 DEF WorkRight
      <4>. QED  BY <1>10, <4>3 DEF Active
    <3>. QED  BY <3>1, <3>2 DEF Settles
  <2>. QED  BY <1>10, <2>3, <2>4 DEF Settles
<1>. QED  BY <1>10, <1>12, <1>13, <1>14, <1>15, <1>16 DEF BudInv, a

\* Its pair timer expires.
LEMMA PairTimerBud ==
    ASSUME TypeInv, NEW b \in Buds, BudInv(b), PairTimer(b)
    PROVE  BudInv(b)' /\ bud'[b] \in BudType
<1>. DEFINE r == bud[b]
            q == evq[b]
            s == SwitchStep(r, r.timer)
            a == bud'[b]
<1>1. r \in BudType /\ r.timer # None
  BY DEF TypeInv, PairTimer
<1>2. a = Accepted(b, s) /\ UNCHANGED <<evq, master, phoneAt>>
  BY DEF PairTimer, TypeInv, Env
<1>3. /\ StackInv(b) /\ PairedInv(b) /\ CalmInv(b) /\ SlaveInv(b) /\ LostInv(b)
      /\ RecordInv(r) /\ r.on # "off"
  BY <1>1 DEF BudInv, StackInv, OffInv
<1>. HIDE DEF r, q, s, a
<1>4. Tame(r, s) /\ (~r.sib => Active(s))
  BY <1>1, SwitchStepKeeps DEF s
<1>5. /\ s \in BudType /\ s.on = r.on /\ s.paired = r.paired /\ s.sib = r.sib /\ RecordInv(s)
      /\ s.create = "timed" => r.create = "timed" \/ r.paired
  BY <1>3, <1>4 DEF Tame
<1>6. /\ a \in BudType
      /\ a.on = s.on /\ a.paired = s.paired /\ a.sib = s.sib /\ a.timer = s.timer
      /\ a.scan = s.scan
      /\ a.page => s.page /\ phoneAt = None /\ Role(b)
      /\ a.create = IF Linked THEN "no" ELSE s.create
      /\ RecordInv(a)
  BY <1>2, <1>5, AcceptedKeeps
<1>7. StackInv(b)'
  <2>1. a.on # "off"
    BY <1>3, <1>5, <1>6
  <2>2. Linked => a.create = "no"
    BY <1>6
  <2>3. phoneAt = b => Role(b)
    BY <1>3 DEF StackInv
  <2>4. phoneAt = b /\ a.create = "timed" => a.paired
    BY <1>3, <1>5, <1>6 DEF StackInv, r
  <2>5. a.page => phoneAt # b /\ Role(b)
    BY <1>6, Limits
  <2>. QED  BY <1>2, <1>6, <2>1, <2>2, <2>3, <2>4, <2>5 DEF StackInv, Linked, Role, a
<1>8. PairedInv(b)'
  BY <1>2, <1>3, <1>5, <1>6 DEF PairedInv, Linked, a, r
<1>9. CalmInv(b)'
  BY <1>1, <1>2, <1>3 DEF CalmInv, Linked, r, Settles
<1>10. SlaveInv(b)'
  BY <1>1, <1>2, <1>3 DEF SlaveInv, Linked, r
<1>11. LostInv(b)'
  <2>. SUFFICES ASSUME a.on = "on", ~Linked
                PROVE  /\ Settles(q, Links, Detaches, ~a.sib)
                       /\ phoneAt # b => Settles(q, Waking, Reviving, Active(a))
    BY <1>2 DEF LostInv, Linked, a, q
  <2>1. r.on = "on"
    BY <1>5, <1>6
  <2>2. /\ Settles(q, Links, Detaches, ~r.sib)
        /\ phoneAt # b => Settles(q, Waking, Reviving, Active(r))
    BY <1>3, <2>1 DEF LostInv, q, r
  <2>3. NoneIn(q, Waking) => ~r.sib
    <3>1. Detaches \subseteq Waking
      BY DEF Detaches, Waking, Reviving, Silencing
    <3>. QED  BY <2>2, <3>1 DEF Settles, EndsIn, NoneIn
  <2>4. NoneIn(q, Waking) => Active(a)
    BY <1>4, <1>6, <2>3 DEF Active
  <2>. QED  BY <1>5, <1>6, <2>2, <2>4 DEF Settles
<1>. QED  BY <1>6, <1>7, <1>8, <1>9, <1>10, <1>11 DEF BudInv, a

\* The end of the link, as a bud is told of it.
LEMMA DetachPosts ==
    ASSUME TypeInv, NEW x \in Buds, NEW why \in {"timeout", "poweroff"},
           Linked, phoneAt # None => master = phoneAt
    PROVE  LET t == DetachEvents(x, why)
           IN  /\ t \in Seq(Event) /\ Len(t) \in 0..3 /\ NoneIn(t, Misses)
               /\ EndsIn(t, Links, Detaches)
               /\ phoneAt # x => EndsIn(t, Waking, Reviving)
               /\ phoneAt = x => NoneIn(t, Noisy)
<1>. DEFINE m == x = master
            p == phoneAt = x
            d == [Ev("TwsDetach") EXCEPT !.master = m, !.phone = p, !.why = why]
            h == [Ev("HciDisconnect") EXCEPT !.why = "user"]
            t == DetachEvents(x, why)
<1>1. t = <<d>> \o IF phoneAt = master /\ x # master THEN <<h>> ELSE <<>>
  BY DEF DetachEvents
<1>2. m \in BOOLEAN /\ p \in BOOLEAN
  OBVIOUS
<1>. HIDE DEF m, p
<1>3. d \in Event /\ d.type = "TwsDetach" /\ d.phone = p
  BY <1>2 DEF Event, EventTypes, Ev
<1>4. h \in Event /\ h.type = "HciDisconnect" /\ h.phone = FALSE
  <2>1. "HciDisconnect" \in EventTypes
    BY DEF EventTypes
  <2>. QED  BY <2>1, Posts
<1>. HIDE DEF d, h, t
<1>5. d \in Detaches /\ d \in Links /\ d \notin Misses
  BY <1>3, Kinds
<1>6. h \notin Links /\ h \notin Misses /\ h \in Reviving
  BY <1>4, Kinds
<1>7. phoneAt # x => d \in Reviving
  BY <1>3, Kinds DEF p
<1>8. phoneAt = x => d \notin Noisy
  BY <1>3, Kinds DEF Noisy, Quiet, p
<1>9. /\ <<d>> \in Seq(Event) /\ Len(<<d>>) = 1
      /\ NoneIn(<<d>>, Misses) /\ EndsIn(<<d>>, Links, Detaches)
      /\ phoneAt # x => EndsIn(<<d>>, Waking, Reviving)
      /\ phoneAt = x => NoneIn(<<d>>, Noisy)
  BY <1>3, <1>5, <1>7, <1>8, Few
<1>10. CASE phoneAt = master /\ x # master
  <2>1. t = <<d>> \o <<h>>
    BY <1>1, <1>10
  <2>2. /\ <<h>> \in Seq(Event) /\ Len(<<h>>) = 1
        /\ NoneIn(<<h>>, Misses) /\ NoneIn(<<h>>, Links) /\ EndsIn(<<h>>, Waking, Reviving)
    BY <1>4, <1>6, Few
  <2>3. t \in Seq(Event) /\ Len(t) = 1 + 1
    BY <1>9, <2>1, <2>2, Added
  <2>4. NoneIn(t, Misses)
    BY <1>9, <2>1, <2>2, Added
  <2>5. EndsIn(t, Links, Detaches)
    BY <1>9, <2>1, <2>2, Added
  <2>6. EndsIn(t, Waking, Reviving)
    BY <1>9, <2>1, <2>2, Added
  <2>. QED  BY <1>10, <2>3, <2>4, <2>5, <2>6 DEF t
<1>11. CASE ~(phoneAt = master /\ x # master)
  <2>1. t = <<d>>
    BY <1>1, <1>9, <1>11, ConcatEmptySeq
  <2>. QED  BY <1>9, <2>1 DEF t
<1>. QED  BY <1>10, <1>11

\* Linked buds share one phone, the master's.
LEMMA MastersPhone ==
    ASSUME TypeInv, \A b \in Buds : BudInv(b), Linked, phoneAt # None
    PROVE  master = phoneAt
BY DEF TypeInv, BudInv, StackInv, Linked, Role

\* A bud whose link has ended and that has been told so.
LEMMA LinkGone ==
    ASSUME TypeInv, \A b \in Buds : BudInv(b), NEW x \in Buds,
           NEW why \in {"timeout", "poweroff"}, Linked, Same(bud[x], bud'[x]),
           evq'[x] = evq[x] \o DetachEvents(x, why), master' = None, UNCHANGED phoneAt
    PROVE  BudInv(x)'
<1>. DEFINE t == DetachEvents(x, why)
            q == evq[x]
<1>1. /\ t \in Seq(Event) /\ Len(t) \in 0..3 /\ NoneIn(t, Misses)
      /\ EndsIn(t, Links, Detaches)
      /\ phoneAt # x => EndsIn(t, Waking, Reviving)
      /\ phoneAt = x => NoneIn(t, Noisy)
  BY DetachPosts, MastersPhone
<1>2. q \in Seq(Event) /\ bud[x] \in BudType /\ bud[x].paired \in BOOLEAN
  BY DEF TypeInv, BudType
<1>3. evq'[x] = q \o t
  OBVIOUS
<1>. HIDE DEF t
<1>4. /\ StackInv(x) /\ PairedInv(x) /\ CalmInv(x)
      /\ bud[x].on # "off" /\ ~Linked'
  BY DEF BudInv, StackInv, Linked
<1>5. StackInv(x)'
  BY <1>4 DEF StackInv, Same, RecordInv, Role, Linked
<1>6. PairedInv(x)'
  <2>1. Announced(q \o t, bud[x].paired)
    BY <1>1, <1>2, <1>4, AnnouncedAdded DEF PairedInv
  <2>. QED  BY <1>3, <1>4, <2>1 DEF PairedInv, Same
<1>7. CalmInv(x)'
  <2>1. ASSUME phoneAt = x  PROVE Settles(q \o t, Noisy, Quieting, bud'[x].timer = None)
    <3>1. Settles(q, Noisy, Quieting, bud[x].timer = None)
      BY <1>4, <2>1, Limits DEF CalmInv
    <3>. QED  BY <1>1, <1>2, <2>1, <3>1, SettlesAdded DEF Same
  <2>. QED  BY <1>3, <1>4, <2>1 DEF CalmInv
<1>8. SlaveInv(x)'
  BY <1>4 DEF SlaveInv
<1>9. LostInv(x)'
  <2>1. Settles(q \o t, Links, Detaches, ~bud'[x].sib)
    BY <1>1, <1>2, SettlesAdded
  <2>2. phoneAt # x => Settles(q \o t, Waking, Reviving, Active(bud'[x]))
    BY <1>1, <1>2, SettlesAdded
  <2>. QED  BY <1>3, <2>1, <2>2 DEF LostInv
<1>. QED  BY <1>5, <1>6, <1>7, <1>8, <1>9 DEF BudInv

\* The synchronised calls under way are lost with the link.
LEMMA SyncLost ==
    ASSUME NEW r \in BudType
    PROVE  Same(r, [r EXCEPT !.sync = {}])
BY DEF Same, BudType

\* What a queue may hold after a post.
LEMMA Room ==
    ASSUME NEW s \in Seq(Event), NEW t \in Seq(Event), Len(s) <= MaxBacklog, Len(t) \in 0..3
    PROVE  s \o t \in Seq(Event) /\ Len(s \o t) <= MaxBacklog + 3
<1>. DEFINE u == s \o t
            n == Len(u)
            i == Len(s)
            k == Len(t)
<1>1. u \in Seq(Event) /\ n = i + k
  BY Added
<1>2. i \in Nat /\ k \in 0..3
  OBVIOUS
<1>. HIDE DEF u, n, i, k
<1>3. i <= MaxBacklog
  BY DEF i
<1>4. n <= MaxBacklog + 3
  BY <1>1, <1>2, <1>3, Limits
<1>. QED  BY <1>1, <1>4 DEF u, n

\* b goes away, as r: it leaves, or is off, and asks nothing of the stack.
LEMMA DetachByKeeps ==
    ASSUME TypeInv, \A x \in Buds : BudInv(x), NEW b \in Buds, NEW r \in BudType,
           DetachBy(b, r), r.on \in {"leaving", "off"},
           r.on = "off" => phoneAt # b /\ ~r.sib, r.sib => bud[b].sib,
           r.paired = bud[b].paired, r.timer = None, ~r.page, r.scan = "none", r.create = "no"
    PROVE  TypeInv' /\ \A x \in Buds : BudInv(x)'
<1>. DEFINE o == Sibling(b)
            d == DetachEvents(o, "poweroff")
<1>1. o \in Buds /\ o # b /\ \A x \in Buds : x = b \/ x = o
  BY Pair
<1>2. master' = None /\ UNCHANGED phoneAt
  BY DEF DetachBy
<1>3. /\ bud' = [x \in Buds |-> [(IF x = b THEN r ELSE bud[x]) EXCEPT !.sync = {}]]
      /\ Linked => /\ Ready({o})
                   /\ evq' = [evq EXCEPT ![o] = Posted(o, d),
                                         ![b] = IF r.on = "off" THEN <<>> ELSE @]
      /\ ~Linked => evq' = [evq EXCEPT ![b] = IF r.on = "off" THEN <<>> ELSE @]
  BY DEF DetachBy
<1>. HIDE DEF o, d
<1>4. Same(r, bud'[b]) /\ Same(bud[o], bud'[o])
  BY <1>1, <1>3, SyncLost DEF TypeInv
<1>5. /\ evq \in [Buds -> Seq(Event)]
      /\ evq'[b] = IF r.on = "off" THEN <<>> ELSE evq[b]
      /\ Linked => evq'[o] = Posted(o, d) /\ Ready({o})
      /\ ~Linked => evq'[o] = evq[o]
  BY <1>1, <1>3 DEF TypeInv
<1>6. Linked => evq'[o] = evq[o] \o d
  BY <1>1, <1>5 DEF BudInv, StackInv, Posted
<1>7. evq'[b] \in Seq(Event) /\ Len(evq'[b]) <= MaxBacklog + 3
  <2>1. <<>> \in Seq(Event) /\ Len(<<>>) = 0
    OBVIOUS
  <2>. QED  BY <1>5, <2>1, Limits DEF TypeInv
<1>8. evq'[o] \in Seq(Event) /\ Len(evq'[o]) <= MaxBacklog + 3
  <2>1. CASE Linked
    <3>1. d \in Seq(Event) /\ Len(d) \in 0..3
      BY <1>1, <2>1, DetachPosts, MastersPhone DEF d
    <3>2. Len(evq[o]) <= MaxBacklog /\ evq[o] \in Seq(Event)
      BY <1>1, <1>5, <2>1 DEF Ready
    <3>. QED  BY <1>6, <2>1, <3>1, <3>2, Room
  <2>2. CASE ~Linked
    BY <1>1, <1>5, <2>2 DEF TypeInv
  <2>. QED  BY <2>1, <2>2
<1>9. TypeInv'
  <2>1. bud' \in [Buds -> BudType]
    <3>1. \A x \in Buds : bud'[x] \in BudType
      BY <1>1, <1>4 DEF Same
    <3>. QED  BY <1>3, <3>1
  <2>2. evq' \in [Buds -> Seq(Event)]
    <3>1. \A x \in Buds : evq'[x] \in Seq(Event)
      BY <1>1, <1>7, <1>8
    <3>2. evq' = [x \in Buds |-> evq'[x]]
      BY <1>3, <1>5
    <3>. QED  BY <3>1, <3>2
  <2>3. \A x \in Buds : Len(evq'[x]) <= MaxBacklog + 3
    BY <1>1, <1>7, <1>8
  <2>. QED  BY <1>2, <2>1, <2>2, <2>3 DEF TypeInv
<1>10. BudInv(b)'
  <2>1. /\ StackInv(b) /\ PairedInv(b) /\ CalmInv(b) /\ RecordInv(bud[b])
        /\ bud[b] \in BudType /\ bud[b].paired \in BOOLEAN
    BY DEF BudInv, StackInv, TypeInv, BudType
  <2>2. /\ bud'[b].on = r.on /\ bud'[b].paired = bud[b].paired /\ bud'[b].timer = None
        /\ bud'[b].sib = r.sib /\ ~bud'[b].page /\ bud'[b].scan = "none"
        /\ bud'[b].create = "no"
    BY <1>4 DEF Same
  <2>3. ~Linked'
    BY <1>2 DEF Linked
  <2>4. StackInv(b)'
    <3>1. RecordInv(bud'[b])
      BY <2>1, <2>2 DEF RecordInv
    <3>. QED  BY <1>2, <1>5, <2>2, <2>3, <3>1 DEF StackInv, OffInv, Role
  <2>5. PairedInv(b)'
    <3>1. Announced(<<>>, bud[b].paired)
      BY DEF Announced, NoneIn
    <3>. QED  BY <1>5, <2>1, <2>2, <2>3, <3>1 DEF PairedInv
  <2>6. CalmInv(b)'
    <3>1. phoneAt = b => Settles(evq[b], Noisy, Quieting, bud[b].timer = None)
      BY <2>1, Limits DEF CalmInv
    <3>. QED  BY <1>2, <1>5, <2>2, <2>3, <3>1 DEF CalmInv, Settles
  <2>7. SlaveInv(b)' /\ LostInv(b)'
    BY <2>2, <2>3 DEF SlaveInv, LostInv
  <2>. QED  BY <2>4, <2>5, <2>6, <2>7 DEF BudInv
<1>11. BudInv(o)'
  <2>1. CASE Linked
    BY <1>1, <1>2, <1>4, <1>6, <2>1, LinkGone DEF d
  <2>2. CASE ~Linked
    <3>1. UNCHANGED <<master, phoneAt>>
      BY <1>2, <2>2 DEF Linked
    <3>. QED  BY <1>1, <1>4, <1>5, <2>2, <3>1, Untouched
  <2>. QED  BY <2>1, <2>2
<1>. QED  BY <1>1, <1>9, <1>10, <1>11

\* Who goes away, and how: in the shut down time, at the key, or for good.
LEMMA SoftPoweroffRecord ==
    ASSUME NEW r \in BudType
    PROVE  LET s == SoftPoweroff(r)
           IN  /\ s \in BudType /\ s.on = "leaving" /\ s.paired = r.paired /\ s.sib = r.sib
               /\ s.timer = None /\ ~s.page /\ s.scan = "none" /\ s.create = "no"
<1>. DEFINE y == ShutDisable(r)
            s == [y EXCEPT !.on = "leaving", !.timer = None, !.page = FALSE,
                           !.scan = "none", !.create = "no"]
<1>1. y \in BudType /\ y.paired = r.paired /\ y.sib = r.sib
  BY DEF ShutDisable, BudType
<1>. HIDE DEF y
<1>2. s \in BudType
  BY <1>1 DEF BudType
<1>3. /\ s.on = "leaving" /\ s.paired = y.paired /\ s.sib = y.sib
      /\ s.timer = None /\ s.page = FALSE /\ s.scan = "none" /\ s.create = "no"
  BY <1>1 DEF BudType
<1>4. SoftPoweroff(r) = s
  BY DEF SoftPoweroff, y
<1>. HIDE DEF s
<1>. QED  BY <1>1, <1>2, <1>3, <1>4

LEMMA AutoShutDownKeeps ==
    ASSUME BtInv, NEW b \in Buds, AutoShutDown(b)
    PROVE  BtInv'
<1>. DEFINE r == [bud[b] EXCEPT !.shut = "fired"]
            s == IF r.sib /\ Role(b) THEN SyncCall(r, "SyncOff", Linked) ELSE r
<1>1. bud[b] \in BudType /\ TypeInv /\ \A x \in Buds : BudInv(x)
  BY DEF BtInv, TypeInv
<1>2. Same(bud[b], r)
  BY <1>1 DEF Same, BudType
<1>3. r \in BudType /\ r.sib = bud[b].sib /\ r.paired = bud[b].paired
  BY <1>2 DEF Same
<1>4. \/ bud' = [bud EXCEPT ![b] = s] /\ UNCHANGED <<evq, Env>>
      \/ DetachBy(b, SoftPoweroff(r))
  BY DEF AutoShutDown
<1>. HIDE DEF r
<1>5. CASE bud' = [bud EXCEPT ![b] = s] /\ UNCHANGED <<evq, Env>>
  <2>1. Same(r, s)
    <3>1. Same(r, r)
      BY <1>3 DEF Same
    <3>2. r.sync \cup {"SyncOff"} \in SUBSET {"SyncOff", "SyncShut"}
      BY <1>3 DEF BudType
    <3>3. Same(r, [r EXCEPT !.sync = @ \cup {"SyncOff"}])
      BY <1>3, <3>2 DEF Same, BudType
    <3>. QED  BY <3>1, <3>3 DEF SyncCall
  <2>. HIDE DEF s
  <2>2. Same(bud[b], s) /\ s \in BudType
    BY <1>2, <2>1, Chain DEF Same
  <2>3. \A x \in Buds : Same(bud[x], bud'[x])
    BY <1>1, <1>5, <2>2 DEF TypeInv, Same
  <2>4. \A x \in Buds : BudInv(x)'
    BY <1>1, <1>5, <2>3, Untouched DEF Env
  <2>5. TypeInv'
    BY <1>1, <1>5, <2>2 DEF TypeInv, Env
  <2>. QED  BY <2>4, <2>5 DEF BtInv
<1>6. CASE DetachBy(b, SoftPoweroff(r))
  <2>. DEFINE t == SoftPoweroff(r)
  <2>1. /\ t \in BudType /\ t.on = "leaving" /\ t.paired = r.paired /\ t.sib = r.sib
        /\ t.timer = None /\ ~t.page /\ t.scan = "none" /\ t.create = "no"
    BY <1>3, SoftPoweroffRecord
  <2>2. DetachBy(b, t)
    BY <1>6
  <2>. HIDE DEF t
  <2>. QED  BY <1>1, <1>3, <2>1, <2>2, DetachByKeeps DEF BtInv
<1>. QED  BY <1>4, <1>5, <1>6

LEMMA PowerKeyKeeps ==
    ASSUME BtInv, NEW b \in Buds, PowerKey(b)
    PROVE  BtInv'
<1>. DEFINE t == SoftPoweroff(bud[b])
<1>1. bud[b] \in BudType /\ TypeInv /\ \A x \in Buds : BudInv(x)
  BY DEF BtInv, TypeInv
<1>2. /\ t \in BudType /\ t.on = "leaving" /\ t.paired = bud[b].paired /\ t.sib = bud[b].sib
      /\ t.timer = None /\ ~t.page /\ t.scan = "none" /\ t.create = "no"
  BY <1>1, SoftPoweroffRecord
<1>3. DetachBy(b, t)
  BY DEF PowerKey
<1>. HIDE DEF t
<1>. QED  BY <1>1, <1>2, <1>3, DetachByKeeps DEF BtInv

LEMMA PowerOffKeeps ==
    ASSUME BtInv, NEW b \in Buds, PowerOff(b)
    PROVE  BtInv'
<1>. DEFINE p == bud[b].paired
            t == PoweredOff(p)
<1>1. p \in BOOLEAN /\ TypeInv /\ \A x \in Buds : BudInv(x)
  BY DEF BtInv, TypeInv, BudType
<1>2. DetachBy(b, t) /\ phoneAt # b
  BY DEF PowerOff
<1>. HIDE DEF p
<1>3. t \in BudType
  BY <1>1, Limits DEF PoweredOff, BudType
<1>4. /\ t.on = "off" /\ t.paired = p /\ t.sib = FALSE /\ t.timer = None
      /\ t.page = FALSE /\ t.scan = "none" /\ t.create = "no"
  BY DEF PoweredOff
<1>. HIDE DEF t
<1>. QED  BY <1>1, <1>2, <1>3, <1>4, DetachByKeeps DEF BtInv, p

LEMMA PowerOnKeeps ==
    ASSUME BtInv, NEW b \in Buds, PowerOn(b)
    PROVE  BtInv'
<1>. DEFINE f == [bud[b] EXCEPT !.mem = Phones]
            i == SearchIndex(f)
            n == [i EXCEPT !.on = "on", !.poweron = TRUE, !.shut = "armed"]
            c == CreateConnection(n, "timed")
            a == bud'[b]
<1>1. /\ bud[b] \in BudType /\ TypeInv /\ \A x \in Buds : BudInv(x)
      /\ bud[b].on = "off"
  BY DEF BtInv, TypeInv, PowerOn
<1>2. /\ bud' = [bud EXCEPT ![b] = c] /\ UNCHANGED <<evq, Env>> /\ a = c
  BY <1>1 DEF PowerOn, TypeInv
<1>3. Same(bud[b], f) /\ f \in BudType
  BY <1>1, Limits DEF Same, BudType
<1>. HIDE DEF f, a
<1>4. Same(bud[b], i) /\ i \in BudType
  BY <1>3, SearchIndexKeeps, Chain DEF Same
<1>. HIDE DEF i
<1>5. /\ n \in BudType /\ n.on = "on" /\ n.paired = i.paired /\ n.sib = i.sib
      /\ n.timer = i.timer /\ n.scan = i.scan
  BY <1>4 DEF BudType
<1>. HIDE DEF n
<1>6. /\ c \in BudType /\ c.create = "timed" /\ c.timer = n.timer /\ c.on = n.on
      /\ c.paired = n.paired /\ c.sib = n.sib /\ c.scan = n.scan /\ ~c.page
  BY <1>5, Calls
<1>. HIDE DEF c
<1>7. /\ StackInv(b) /\ PairedInv(b) /\ CalmInv(b) /\ OffInv(bud[b])
      /\ evq[b] = <<>> /\ ~Linked /\ phoneAt # b
  BY <1>1 DEF BudInv, StackInv
<1>8. /\ a \in BudType /\ a.on = "on" /\ a.create = "timed" /\ a.timer = None
      /\ a.paired = bud[b].paired /\ ~a.sib /\ a.scan = "none" /\ ~a.page
  BY <1>2, <1>4, <1>5, <1>6, <1>7 DEF Same, OffInv
<1>9. UNCHANGED <<master, phoneAt>> /\ evq' = evq /\ ~Linked'
  BY <1>2, <1>7 DEF Env, Linked
<1>10. BudInv(b)'
  <2>1. StackInv(b)'
    BY <1>7, <1>8, <1>9 DEF StackInv, RecordInv, a
  <2>2. PairedInv(b)'
    BY <1>7, <1>8, <1>9 DEF PairedInv, a
  <2>3. CalmInv(b)' /\ SlaveInv(b)'
    BY <1>7, <1>9 DEF CalmInv, SlaveInv
  <2>4. LostInv(b)'
    <3>1. \A E : NoneIn(<<>>, E)
      BY DEF NoneIn
    <3>2. Active(a)
      BY <1>8 DEF Active
    <3>. QED  BY <1>7, <1>8, <1>9, <3>1, <3>2 DEF LostInv, Settles, a
  <2>. QED  BY <2>1, <2>2, <2>3, <2>4 DEF BudInv
<1>11. ASSUME NEW x \in Buds, x # b  PROVE BudInv(x)'
  <2>1. Same(bud[x], bud'[x])
    BY <1>1, <1>2, <1>11 DEF TypeInv, Same
  <2>. QED  BY <1>1, <1>9, <2>1, Untouched
<1>12. TypeInv'
  BY <1>1, <1>2, <1>6, <1>9 DEF TypeInv
<1>. QED  BY <1>10, <1>11, <1>12 DEF BtInv

LEMMA HandleKeeps ==
    ASSUME BtInv, NEW b \in Buds, Handle(b)
    PROVE  BtInv'
<1>1. TypeInv /\ \A x \in Buds : BudInv(x)
  BY DEF BtInv
<1>2. BudInv(b)' /\ bud'[b] \in BudType
  BY <1>1, HandleBud
<1>3. \E s : bud' = [bud EXCEPT ![b] = s]
  BY DEF Handle
<1>4. evq' = [evq EXCEPT ![b] = Tail(@)] /\ UNCHANGED <<master, phoneAt>>
  BY DEF Handle, Env
<1>5. ASSUME NEW x \in Buds, x # b  PROVE BudInv(x)'
  <2>1. Same(bud[x], bud'[x]) /\ evq'[x] = evq[x]
    BY <1>1, <1>3, <1>4, <1>5 DEF TypeInv, Same
  <2>. QED  BY <1>1, <1>4, <2>1, Untouched
<1>6. /\ Tail(evq[b]) \in Seq(Event) /\ Len(Tail(evq[b])) = Len(evq[b]) - 1
      /\ Len(evq[b]) \in Nat
  BY <1>1, Taken DEF TypeInv, Handle
<1>7. TypeInv'
  <2>1. bud' \in [Buds -> BudType]
    BY <1>1, <1>2, <1>3 DEF TypeInv
  <2>2. evq' \in [Buds -> Seq(Event)]
    BY <1>1, <1>4, <1>6 DEF TypeInv
  <2>3. Len(Tail(evq[b])) <= MaxBacklog + 3
    BY <1>1, <1>6, Limits DEF TypeInv
  <2>4. \A x \in Buds : evq'[x] = IF x = b THEN Tail(evq[b]) ELSE evq[x]
    BY <1>1, <1>4 DEF TypeInv
  <2>5. \A x \in Buds : Len(evq'[x]) <= MaxBacklog + 3
    BY <1>1, <2>3, <2>4 DEF TypeInv
  <2>. QED  BY <1>1, <1>4, <2>1, <2>2, <2>5 DEF TypeInv
<1>. QED  BY <1>2, <1>5, <1>7 DEF BtInv

LEMMA PairTimerKeeps ==
    ASSUME BtInv, NEW b \in Buds, PairTimer(b)
    PROVE  BtInv'
<1>1. TypeInv /\ \A x \in Buds : BudInv(x)
  BY DEF BtInv
<1>2. BudInv(b)' /\ bud'[b] \in BudType
  BY <1>1, PairTimerBud
<1>3. \E s : bud' = [bud EXCEPT ![b] = s]
  BY DEF PairTimer
<1>4. evq' = evq /\ UNCHANGED <<master, phoneAt>>
  BY DEF PairTimer, Env
<1>5. ASSUME NEW x \in Buds, x # b  PROVE BudInv(x)'
  <2>1. Same(bud[x], bud'[x]) /\ evq'[x] = evq[x]
    BY <1>1, <1>3, <1>4, <1>5 DEF TypeInv, Same
  <2>. QED  BY <1>1, <1>4, <2>1, Untouched
<1>6. TypeInv'
  <2>1. bud' \in [Buds -> BudType]
    BY <1>1, <1>2, <1>3 DEF TypeInv
  <2>. QED  BY <1>1, <1>4, <2>1 DEF TypeInv
<1>. QED  BY <1>2, <1>5, <1>6 DEF BtInv

-----------------------------------------------------------------------------
(* The actions of the stack *)

\* The queues after a post.
LEMMA QueueTypes ==
    ASSUME TypeInv, evq' = [x \in Buds |-> evq'[x]],
           \A x \in Buds : \/ evq'[x] = evq[x]
                           \/ /\ Len(evq[x]) <= MaxBacklog
                              /\ \E t \in Seq(Event) : Len(t) \in 0..3 /\ evq'[x] = evq[x] \o t
    PROVE  evq' \in [Buds -> Seq(Event)] /\ \A x \in Buds : Len(evq'[x]) <= MaxBacklog + 3
<1>1. ASSUME NEW x \in Buds
      PROVE  evq'[x] \in Seq(Event) /\ Len(evq'[x]) <= MaxBacklog + 3
  <2>1. evq[x] \in Seq(Event) /\ Len(evq[x]) <= MaxBacklog + 3
    BY DEF TypeInv
  <2>2. CASE evq'[x] = evq[x]
    BY <2>1, <2>2
  <2>3. CASE /\ Len(evq[x]) <= MaxBacklog
             /\ \E t \in Seq(Event) : Len(t) \in 0..3 /\ evq'[x] = evq[x] \o t
    BY <2>1, <2>3, Room
  <2>. QED  BY <2>2, <2>3
<1>. QED  BY <1>1

\* The buds find each other.
LEMMA LinkFormsKeeps ==
    ASSUME BtInv, LinkForms
    PROVE  BtInv'
<1>1. TypeInv /\ \A x \in Buds : BudInv(x) /\ RecordInv(bud[x])
  BY DEF BtInv, BudInv, StackInv
<1>2. PICK w \in IF phoneAt = None THEN Buds ELSE {phoneAt} :
         /\ master' = w
         /\ PostAll(Buds, LAMBDA x : <<[Ev("TwsConnected") EXCEPT
                              !.master = x = w, !.phone = phoneAt # None]>>)
  BY DEF LinkForms
<1>. DEFINE p == phoneAt # None
            e(x) == [Ev("TwsConnected") EXCEPT !.master = x = w, !.phone = p]
<1>3. w \in Buds /\ (p => w = phoneAt) /\ master' = w /\ Linked' /\ ~Linked
  BY <1>1, <1>2, Limits DEF TypeInv, LinkForms, Linked
<1>4. /\ bud' = [x \in Buds |-> [bud[x] EXCEPT !.create = "no"]]
      /\ \A x \in Buds : bud[x].on = "on"
      /\ UNCHANGED phoneAt
  BY DEF LinkForms
<1>5. /\ evq' = [x \in Buds |-> Posted(x, <<e(x)>>)]
      /\ \A x \in Buds : Len(evq[x]) <= MaxBacklog
  BY <1>2 DEF PostAll, Ready
<1>6. \A x \in Buds : /\ e(x) \in Event /\ e(x).type = "TwsConnected" /\ e(x).phone = p
  <2>. SUFFICES ASSUME NEW x \in Buds
                PROVE  /\ e(x) \in Event /\ e(x).type = "TwsConnected" /\ e(x).phone = p
    OBVIOUS
  <2>. DEFINE n == x = w
              d == [Ev("TwsConnected") EXCEPT !.master = n, !.phone = p]
  <2>1. n \in BOOLEAN /\ p \in BOOLEAN
    OBVIOUS
  <2>. HIDE DEF n, p
  <2>2. d \in Event /\ d.type = "TwsConnected" /\ d.phone = p
    BY <2>1 DEF Event, EventTypes, Ev
  <2>. QED  BY <2>2 DEF n, p
<1>. HIDE DEF e
<1>7. \A x \in Buds : evq'[x] = evq[x] \o <<e(x)>>
  BY <1>4, <1>5 DEF Posted
<1>8. \A x \in Buds : ~bud[x].page
  <2>1. PICK b \in Buds : /\ bud[b].create # "no"
                          /\ \/ bud[Sibling(b)].create # "no"
                             \/ bud[Sibling(b)].scan # "none"
    BY DEF LinkForms
  <2>2. ~bud[b].page /\ ~bud[Sibling(b)].page
    BY <1>1, <2>1, Pair DEF RecordInv
  <2>. QED  BY <2>2, Pair
<1>9. ASSUME NEW x \in Buds  PROVE BudInv(x)' /\ bud'[x] \in BudType
  <2>. DEFINE r == bud[x]
              q == evq[x]
              a == bud'[x]
              s == [r EXCEPT !.create = "no"]
              t == <<e(x)>>
  <2>1. r \in BudType /\ q \in Seq(Event) /\ r.paired \in BOOLEAN /\ PairedInv(x)
        /\ r.on = "on" /\ ~r.page /\ RecordInv(r)
    BY <1>1, <1>4, <1>8 DEF TypeInv, BudType, BudInv
  <2>2. a = s /\ evq'[x] = q \o t
    BY <1>4, <1>7
  <2>3. e(x) \in Event /\ e(x).type = "TwsConnected" /\ e(x).phone = p
    BY <1>6
  <2>. HIDE DEF r, q, a
  <2>4. /\ s \in BudType /\ s.on = r.on /\ s.paired = r.paired /\ s.sib = r.sib
        /\ s.create = "no" /\ s.page = r.page
    BY <2>1 DEF BudType
  <2>. HIDE DEF s
  <2>5. t \in Seq(Event) /\ Len(t) = 1
    BY <2>3, Few
  <2>6. NoneIn(t, Detaches) /\ NoneIn(t, Misses) /\ ~NoneIn(t, Connects) /\ ~NoneIn(t, Enslaving)
    BY <2>3, Few, Kinds
  <2>7. p => EndsIn(t, Noisy, Quieting)
    BY <2>3, Few, Kinds
  <2>. HIDE DEF t
  <2>8. StackInv(x)'
    <3>1. RecordInv(a)
      BY <2>1, <2>2, <2>4 DEF RecordInv
    <3>2. phoneAt = x => x = w
      BY <1>3, Limits
    <3>. QED  BY <1>3, <1>4, <2>1, <2>2, <2>4, <3>1, <3>2 DEF StackInv, Role, a
  <2>9. PairedInv(x)'
    <3>1. Announced(q \o t, r.paired)
      BY <2>1, <2>5, <2>6, AnnouncedAdded DEF PairedInv, q, r
    <3>2. ~NoneIn(q \o t, Connects)
      BY <2>1, <2>5, <2>6, Added
    <3>. QED  BY <2>2, <2>4, <3>1, <3>2 DEF PairedInv, a
  <2>10. CalmInv(x)'
    <3>1. p => Settles(q \o t, Noisy, Quieting, a.timer = None)
      BY <2>1, <2>5, <2>7, SettlesAdded
    <3>. QED  BY <1>4, <2>2, <3>1 DEF CalmInv, a
  <2>11. SlaveInv(x)'
    <3>1. ~NoneIn(q \o t, Enslaving)
      BY <2>1, <2>5, <2>6, Added
    <3>. QED  BY <2>2, <3>1 DEF SlaveInv
  <2>12. LostInv(x)'
    BY <1>3 DEF LostInv
  <2>. QED  BY <2>2, <2>4, <2>8, <2>9, <2>10, <2>11, <2>12 DEF BudInv, a
<1>10. TypeInv'
  <2>1. bud' \in [Buds -> BudType]
    BY <1>4, <1>9
  <2>2. ASSUME NEW x \in Buds
        PROVE  \E t \in Seq(Event) : Len(t) \in 0..3 /\ evq'[x] = evq[x] \o t
    <3>1. <<e(x)>> \in Seq(Event) /\ Len(<<e(x)>>) = 1
      BY <1>6, Few
    <3>2. Len(<<e(x)>>) \in 0..3
      BY <3>1
    <3>. QED  BY <1>7, <3>1, <3>2
  <2>3. evq' \in [Buds -> Seq(Event)] /\ \A x \in Buds : Len(evq'[x]) <= MaxBacklog + 3
    BY <1>1, <1>5, <2>2, QueueTypes
  <2>. QED  BY <1>1, <1>3, <1>4, <2>1, <2>3 DEF TypeInv
<1>. QED  BY <1>9, <1>10 DEF BtInv

\* They lose each other.
LEMMA LinkLostKeeps ==
    ASSUME BtInv, LinkLost
    PROVE  BtInv'
<1>1. TypeInv /\ \A x \in Buds : BudInv(x)
  BY DEF BtInv
<1>2. /\ Linked /\ master' = None /\ UNCHANGED phoneAt
      /\ bud' = [x \in Buds |-> [bud[x] EXCEPT !.sync = {}]]
      /\ evq' = [x \in Buds |-> Posted(x, DetachEvents(x, "timeout"))]
      /\ \A x \in Buds : Len(evq[x]) <= MaxBacklog
  BY DEF LinkLost, PostAll, Ready
<1>3. \A x \in Buds : evq'[x] = evq[x] \o DetachEvents(x, "timeout")
  BY <1>1, <1>2 DEF BudInv, StackInv, Posted
<1>4. \A x \in Buds : Same(bud[x], bud'[x])
  BY <1>1, <1>2, SyncLost DEF TypeInv
<1>5. \A x \in Buds : BudInv(x)'
  BY <1>1, <1>2, <1>3, <1>4, LinkGone
<1>6. TypeInv'
  <2>1. bud' \in [Buds -> BudType]
    BY <1>2, <1>4 DEF Same
  <2>2. ASSUME NEW x \in Buds
        PROVE  \E t \in Seq(Event) : Len(t) \in 0..3 /\ evq'[x] = evq[x] \o t
    BY <1>1, <1>2, <1>3, DetachPosts, MastersPhone
  <2>3. evq' \in [Buds -> Seq(Event)] /\ \A x \in Buds : Len(evq'[x]) <= MaxBacklog + 3
    BY <1>1, <1>2, <2>2, QueueTypes
  <2>. QED  BY <1>1, <1>2, <2>1, <2>3 DEF TypeInv
<1>. QED  BY <1>5, <1>6 DEF BtInv

\* Only b is told something.
LEMMA OneTold ==
    ASSUME BtInv, NEW b \in Buds, NEW s \in BudType, NEW t \in Seq(Event), Len(t) \in 0..3,
           Len(evq[b]) <= MaxBacklog, bud' = [bud EXCEPT ![b] = s],
           evq' = [x \in Buds |-> IF x \in {b} THEN Posted(x, t) ELSE evq[x]],
           UNCHANGED <<master, phoneAt>>, BudInv(b)'
    PROVE  BtInv'
<1>1. TypeInv /\ \A x \in Buds : BudInv(x)
  BY DEF BtInv
<1>2. ASSUME NEW x \in Buds, x # b  PROVE BudInv(x)'
  <2>1. Same(bud[x], bud'[x]) /\ evq'[x] = evq[x]
    BY <1>1, <1>2 DEF TypeInv, Same
  <2>. QED  BY <1>1, <2>1, Untouched
<1>3. TypeInv'
  <2>1. bud' \in [Buds -> BudType]
    BY <1>1 DEF TypeInv
  <2>2. evq'[b] = evq[b] \/ evq'[b] = evq[b] \o t
    BY DEF Posted
  <2>3. evq' \in [Buds -> Seq(Event)] /\ \A x \in Buds : Len(evq'[x]) <= MaxBacklog + 3
    BY <1>1, <2>2, QueueTypes
  <2>. QED  BY <1>1, <2>1, <2>3 DEF TypeInv
<1>. QED  BY <1>2, <1>3 DEF BtInv

\* A search of b ends in vain.
LEMMA CreateTimesOutKeeps ==
    ASSUME BtInv, NEW b \in Buds, CreateTimesOut(b)
    PROVE  BtInv'
<1>. DEFINE r == bud[b]
            q == evq[b]
            s == [r EXCEPT !.create = "no"]
            p == phoneAt = b
            e == [Ev("TwsTimeout") EXCEPT !.phone = p]
            t == <<e>>
<1>1. /\ TypeInv /\ BudInv(b) /\ r \in BudType /\ q \in Seq(Event) /\ r.paired \in BOOLEAN
      /\ StackInv(b) /\ PairedInv(b) /\ CalmInv(b) /\ LostInv(b) /\ RecordInv(r)
  BY DEF BtInv, TypeInv, BudType, BudInv, StackInv
<1>2. /\ r.create = "timed" /\ bud' = [bud EXCEPT ![b] = s] /\ bud'[b] = s
      /\ evq' = [x \in Buds |-> IF x \in {b} THEN Posted(x, t) ELSE evq[x]]
      /\ Len(q) <= MaxBacklog /\ UNCHANGED <<master, phoneAt>>
  BY <1>1 DEF CreateTimesOut, PostAll, Ready, Env, TypeInv
<1>3. e \in Event /\ e.type = "TwsTimeout" /\ e.phone = p
  <2>1. p \in BOOLEAN
    OBVIOUS
  <2>. HIDE DEF p
  <2>. QED  BY <2>1 DEF Event, EventTypes, Ev
<1>. HIDE DEF e, p, r
<1>4. /\ s \in BudType /\ s.on = r.on /\ s.paired = r.paired /\ s.sib = r.sib
      /\ s.create = "no" /\ s.page = r.page /\ s.timer = r.timer /\ s.scan = r.scan
  BY <1>1 DEF BudType
<1>5. t \in Seq(Event) /\ Len(t) = 1
  BY <1>3, Few
<1>6. NoneIn(t, Detaches) /\ NoneIn(t, Links)
  BY <1>3, Few, Kinds
<1>7. (p => NoneIn(t, Noisy)) /\ (~p => NoneIn(t, Misses))
  <2>1. p => e \notin Noisy
    BY <1>3, Kinds DEF Noisy, Quiet
  <2>2. ~p => e \notin Misses
    BY <1>3, Kinds
  <2>. QED  BY <1>3, <2>1, <2>2, Few
<1>8. ~p => EndsIn(t, Waking, Reviving)
  BY <1>3, Few, Kinds
<1>9. ~Linked /\ ~Linked' /\ (p => r.paired)
  BY <1>1, <1>2 DEF StackInv, Linked, r, p
<1>. HIDE DEF s, t, q
<1>10. evq'[b] = IF r.on = "off" THEN q ELSE q \o t
  BY <1>2 DEF Posted, r, q
<1>11. StackInv(b)'
  <2>1. RecordInv(s)
    BY <1>1, <1>4 DEF RecordInv
  <2>. QED  BY <1>1, <1>2, <1>4, <1>9, <1>10, <2>1 DEF StackInv, OffInv, Role, r, q
<1>12. PairedInv(b)'
  <2>1. Announced(q, r.paired)
    BY <1>1 DEF PairedInv, q, r
  <2>2. Announced(q \o t, r.paired)
    BY <1>1, <1>5, <1>6, <1>7, <1>9, <2>1, AnnouncedAdded
  <2>. QED  BY <1>2, <1>4, <1>9, <1>10, <2>1, <2>2 DEF PairedInv
<1>13. CalmInv(b)'
  <2>1. ASSUME phoneAt # None, phoneAt = b
        PROVE  Settles(evq'[b], Noisy, Quieting, s.timer = None)
    <3>1. Settles(q, Noisy, Quieting, r.timer = None)
      BY <1>1, <2>1 DEF CalmInv, q, r
    <3>. QED  BY <1>1, <1>4, <1>5, <1>7, <1>10, <2>1, <3>1, SettlesAdded DEF p
  <2>. QED  BY <1>2, <1>9, <2>1 DEF CalmInv
<1>14. SlaveInv(b)'
  BY <1>9 DEF SlaveInv
<1>15. LostInv(b)'
  <2>. SUFFICES ASSUME s.on = "on"
                PROVE  /\ Settles(q \o t, Links, Detaches, ~s.sib)
                       /\ phoneAt # b => Settles(q \o t, Waking, Reviving, Active(s))
    BY <1>2, <1>4, <1>10 DEF LostInv
  <2>1. Settles(q, Links, Detaches, ~r.sib)
    BY <1>1, <1>4, <1>9 DEF LostInv, q, r
  <2>2. Settles(q \o t, Links, Detaches, ~s.sib)
    BY <1>1, <1>4, <1>5, <1>6, <2>1, SettlesAdded
  <2>3. phoneAt # b => Settles(q \o t, Waking, Reviving, Active(s))
    BY <1>1, <1>5, <1>8, SettlesAdded DEF p
  <2>. QED  BY <2>2, <2>3
<1>16. BudInv(b)'
  BY <1>11, <1>12, <1>13, <1>14, <1>15 DEF BudInv
<1>17. Len(t) \in 0..3
  BY <1>5
<1>. QED  BY <1>2, <1>4, <1>5, <1>16, <1>17, OneTold DEF q

\* A page of b finds no phone.
LEMMA PageTimesOutKeeps ==
    ASSUME BtInv, NEW b \in Buds, PageTimesOut(b)
    PROVE  BtInv'
<1>. DEFINE r == bud[b]
            q == evq[b]
            s == [r EXCEPT !.page = FALSE]
            e == Ev("PageTimeout")
            t == <<e>>
<1>1. /\ TypeInv /\ BudInv(b) /\ r \in BudType /\ q \in Seq(Event) /\ r.paired \in BOOLEAN
      /\ StackInv(b) /\ PairedInv(b) /\ SlaveInv(b) /\ LostInv(b) /\ RecordInv(r)
  BY DEF BtInv, TypeInv, BudType, BudInv, StackInv
<1>2. /\ r.page /\ bud' = [bud EXCEPT ![b] = s] /\ bud'[b] = s
      /\ evq' = [x \in Buds |-> IF x \in {b} THEN Posted(x, t) ELSE evq[x]]
      /\ Len(q) <= MaxBacklog /\ UNCHANGED <<master, phoneAt>>
  BY <1>1 DEF PageTimesOut, PostAll, Ready, Env, TypeInv
<1>3. e \in Event /\ e.type = "PageTimeout"
  BY Posts DEF EventTypes
<1>. HIDE DEF e, r
<1>4. /\ s \in BudType /\ s.on = r.on /\ s.paired = r.paired /\ s.sib = r.sib
      /\ s.create = r.create /\ s.page = FALSE /\ s.timer = r.timer /\ s.scan = r.scan
  BY <1>1 DEF BudType
<1>5. t \in Seq(Event) /\ Len(t) = 1
  BY <1>3, Few
<1>6. NoneIn(t, Detaches) /\ NoneIn(t, Links) /\ NoneIn(t, Misses)
  BY <1>3, Few, Kinds
<1>7. NoneIn(t, Waking)
  BY <1>3, Few, Kinds DEF Waking
\* Its bud is the master of the pair, or has no link: so the phone is neither
\* its own nor its sibling's.
<1>8. ~(phoneAt # None /\ (phoneAt = b \/ Linked))
  <2>1. phoneAt # b /\ Role(b)
    BY <1>1, <1>2 DEF StackInv, r
  <2>2. Linked /\ phoneAt # None => master = phoneAt
    BY MastersPhone DEF BtInv
  <2>. QED  BY <2>1, <2>2 DEF Role, Linked
<1>. HIDE DEF s, t, q
<1>9. evq'[b] = IF r.on = "off" THEN q ELSE q \o t
  BY <1>2 DEF Posted, r, q
<1>10. UNCHANGED <<Linked, Role(b)>>
  BY <1>2 DEF Linked, Role
<1>11. StackInv(b)'
  <2>1. RecordInv(s)
    BY <1>1, <1>4 DEF RecordInv
  <2>. QED  BY <1>1, <1>2, <1>4, <1>9, <1>10, <2>1 DEF StackInv, OffInv, r, q
<1>12. PairedInv(b)'
  <2>1. Announced(q, r.paired) /\ (Linked /\ ~r.paired => ~NoneIn(q, Connects))
    BY <1>1 DEF PairedInv, q, r
  <2>2. Announced(q \o t, r.paired)
    BY <1>1, <1>5, <1>6, <2>1, AnnouncedAdded
  <2>3. NoneIn(q \o t, Connects) => NoneIn(q, Connects)
    BY <1>1, <1>5, Added
  <2>. QED  BY <1>2, <1>4, <1>9, <1>10, <2>1, <2>2, <2>3 DEF PairedInv
<1>13. CalmInv(b)'
  BY <1>2, <1>8, <1>10 DEF CalmInv
<1>14. SlaveInv(b)'
  <2>1. NoneIn(q \o t, Enslaving) => NoneIn(q, Enslaving)
    BY <1>1, <1>5, Added
  <2>2. Linked /\ b # master /\ NoneIn(q, Enslaving) => r.timer = None
    BY <1>1 DEF SlaveInv, q, r
  <2>. QED  BY <1>2, <1>4, <1>9, <1>10, <2>1, <2>2 DEF SlaveInv
<1>15. LostInv(b)'
  <2>. SUFFICES ASSUME s.on = "on", ~Linked
                PROVE  /\ Settles(q \o t, Links, Detaches, ~s.sib)
                       /\ phoneAt # b => Settles(q \o t, Waking, Reviving, Active(s))
    BY <1>2, <1>4, <1>9, <1>10 DEF LostInv
  <2>1. /\ Settles(q, Links, Detaches, ~r.sib)
        /\ phoneAt # b => Settles(q, Waking, Reviving, Active(r))
    BY <1>1, <1>4 DEF LostInv, q, r
  <2>2. Settles(q \o t, Links, Detaches, ~s.sib)
    BY <1>1, <1>4, <1>5, <1>6, <2>1, SettlesAdded
  <2>3. Active(r) => Active(s)
    BY <1>4 DEF Active
  <2>4. ASSUME phoneAt # b  PROVE Settles(q \o t, Waking, Reviving, Active(s))
    <3>1. Settles(q, Waking, Reviving, Active(r))
      BY <2>1, <2>4
    <3>2. EndsIn(q, Waking, Reviving) => EndsIn(q \o t, Waking, Reviving)
      BY <1>1, <1>5, <1>7, Added
    <3>3. NoneIn(q, Waking) => NoneIn(q \o t, Waking)
      BY <1>1, <1>5, <1>7, Added
    <3>. QED  BY <2>3, <3>1, <3>2, <3>3 DEF Settles
  <2>. QED  BY <2>2, <2>4
<1>16. BudInv(b)'
  BY <1>11, <1>12, <1>13, <1>14, <1>15 DEF BudInv
<1>17. Len(t) \in 0..3
  BY <1>5
<1>. QED  BY <1>2, <1>4, <1>5, <1>16, <1>17, OneTold DEF q

\* The phone connects to b.
LEMMA PhoneConnectsKeeps ==
    ASSUME BtInv, NEW b \in Buds, PhoneConnects(b)
    PROVE  BtInv'
<1>. DEFINE f == Ev("HciConnect")
            g == Ev("PhoneConnected")
            t == <<f, g>>
            s == [bud[b] EXCEPT !.page = FALSE, !.scan = "none"]
<1>1. TypeInv /\ \A x \in Buds : BudInv(x)
  BY DEF BtInv
<1>2. /\ phoneAt = None /\ phoneAt' = b /\ bud[b].on = "on" /\ Role(b)
      /\ bud[b].page \/ bud[b].scan # "none"
      /\ bud' = [bud EXCEPT ![b] = s] /\ UNCHANGED master
  BY <1>1 DEF PhoneConnects, TypeInv
<1>3. /\ evq' = [x \in Buds |-> IF x \in Listeners(b) THEN Posted(x, t) ELSE evq[x]]
      /\ \A x \in Listeners(b) : Len(evq[x]) <= MaxBacklog
  BY DEF PhoneConnects, PostAll, Ready
<1>4. f \in Event /\ f.type = "HciConnect" /\ g \in Event /\ g.type = "PhoneConnected"
  BY Posts DEF EventTypes
<1>. HIDE DEF f, g, s
<1>5. t \in Seq(Event) /\ Len(t) = 2
  BY <1>4, Few
<1>6. NoneIn(t, Detaches) /\ NoneIn(t, Links) /\ NoneIn(t, Misses) /\ ~NoneIn(t, Enslaving)
  BY <1>4, Few, Kinds
<1>7. EndsIn(t, Noisy, Quieting)
  <2>1. f \in Quieting
    BY <1>4 DEF Quieting
  <2>2. g \notin Noisy
    BY <1>4, Kinds DEF Noisy, Quiet
  <2>. QED  BY <1>4, <2>1, <2>2, Few
<1>. HIDE DEF t
<1>8. \A x \in Buds : x \in Listeners(b) <=> x = b \/ Linked
  BY DEF Listeners
<1>9. \A x \in Buds : evq'[x] = IF x = b \/ Linked THEN evq[x] \o t ELSE evq[x]
  BY <1>1, <1>2, <1>3, <1>8 DEF BudInv, StackInv, Posted
<1>10. /\ s \in BudType /\ s.on = bud[b].on /\ s.paired = bud[b].paired /\ s.sib = bud[b].sib
       /\ s.create = bud[b].create /\ s.page = FALSE /\ s.timer = bud[b].timer
       /\ s.scan = "none"
  <2>1. bud[b] \in BudType
    BY <1>1 DEF TypeInv
  <2>. QED  BY <2>1 DEF BudType, s
<1>11. Linked' = Linked
  BY <1>2 DEF Linked
<1>12. ASSUME NEW x \in Buds  PROVE BudInv(x)'
  <2>. DEFINE r == bud[x]
              q == evq[x]
              a == bud'[x]
  <2>1. /\ r \in BudType /\ q \in Seq(Event) /\ r.paired \in BOOLEAN /\ BudInv(x)
        /\ StackInv(x) /\ PairedInv(x) /\ SlaveInv(x) /\ LostInv(x) /\ RecordInv(r)
    BY <1>1 DEF TypeInv, BudType, BudInv, StackInv
  <2>2. /\ a.on = r.on /\ a.paired = r.paired /\ a.sib = r.sib /\ a.create = r.create
        /\ a.timer = r.timer /\ (a.page => r.page /\ x # b)
        /\ a.scan = r.scan \/ a.scan = "none"
        /\ x # b => a = r
    BY <1>1, <1>2, <1>10 DEF TypeInv
  <2>3. evq'[x] = IF x = b \/ Linked THEN q \o t ELSE q
    BY <1>9
  <2>4. StackInv(x)'
    <3>1. RecordInv(a)
      BY <2>1, <2>2 DEF RecordInv
    <3>2. x = b /\ r.create = "timed" => r.paired
      BY <1>2, <2>1 DEF RecordInv
    <3>3. r.on # "off" \/ (q = <<>> /\ ~Linked /\ x # b /\ OffInv(r))
      BY <1>2, <2>1 DEF StackInv
    <3>4. a.page => phoneAt' # x /\ Role(x)'
      BY <1>2, <2>1, <2>2 DEF StackInv, Role
    <3>5. Linked => a.on # "off" /\ a.create = "no"
      BY <2>1, <2>2 DEF StackInv
    <3>6. phoneAt' = x => a.on # "off" /\ Role(x)'
      BY <1>2, <2>2 DEF Role
    <3>7. a.on = "off" => evq'[x] = <<>> /\ OffInv(a)
      BY <2>2, <2>3, <3>3
    <3>. QED  BY <1>2, <1>11, <2>2, <3>1, <3>2, <3>4, <3>5, <3>6, <3>7 DEF StackInv
  <2>. HIDE DEF r, q, a
  <2>5. PairedInv(x)'
    <3>1. Announced(q, r.paired) /\ (Linked /\ ~r.paired => ~NoneIn(q, Connects))
      BY <2>1 DEF PairedInv, q, r
    <3>2. Announced(q \o t, r.paired)
      BY <1>5, <1>6, <2>1, <3>1, AnnouncedAdded
    <3>3. NoneIn(q \o t, Connects) => NoneIn(q, Connects)
      BY <1>5, <2>1, Added
    <3>. QED  BY <1>11, <2>2, <2>3, <3>1, <3>2, <3>3 DEF PairedInv, a
  <2>6. CalmInv(x)'
    <3>1. Settles(q \o t, Noisy, Quieting, a.timer = None)
      BY <1>5, <1>7, <2>1, SettlesAdded
    <3>. QED  BY <1>2, <1>11, <2>3, <3>1 DEF CalmInv, a
  <2>7. SlaveInv(x)'
    <3>1. ~NoneIn(q \o t, Enslaving)
      BY <1>5, <1>6, <2>1, Added
    <3>. QED  BY <1>11, <2>3, <3>1 DEF SlaveInv
  <2>8. LostInv(x)'
    <3>. SUFFICES ASSUME a.on = "on", ~Linked
                  PROVE  /\ Settles(evq'[x], Links, Detaches, ~a.sib)
                         /\ b # x => Settles(evq'[x], Waking, Reviving, Active(a))
      BY <1>2, <1>11 DEF LostInv, a
    <3>1. Settles(q, Links, Detaches, ~r.sib)
      BY <2>1, <2>2 DEF LostInv, q, r
    <3>2. Settles(q \o t, Links, Detaches, ~a.sib)
      BY <1>5, <1>6, <2>1, <2>2, <3>1, SettlesAdded
    <3>3. b # x => Settles(q, Waking, Reviving, Active(a))
      BY <1>2, <2>1, <2>2, Limits DEF LostInv, q, r, a
    <3>. QED  BY <2>2, <2>3, <3>1, <3>2, <3>3
  <2>. QED  BY <2>4, <2>5, <2>6, <2>7, <2>8 DEF BudInv
<1>13. TypeInv'
  <2>1. bud' \in [Buds -> BudType]
    BY <1>1, <1>2, <1>10 DEF TypeInv
  <2>2. Len(t) \in 0..3
    BY <1>5
  <2>3. evq' \in [Buds -> Seq(Event)] /\ \A x \in Buds : Len(evq'[x]) <= MaxBacklog + 3
    BY <1>1, <1>3, <1>5, <1>8, <1>9, <2>2, QueueTypes
  <2>. QED  BY <1>1, <1>2, <2>1, <2>3 DEF TypeInv
<1>. QED  BY <1>12, <1>13 DEF BtInv

\* What the end of the phone's link tells a bud.
LEMMA PhonePosts ==
    ASSUME NEW why \in PhoneEnds
    PROVE  LET hci == [Ev("HciDisconnect") EXCEPT !.why = why]
               tws == [Ev("PhoneDetach") EXCEPT !.why = why]
               all == CASE why = "user"    -> <<hci>>
                        [] why = "timeout" -> <<hci, Ev("HciTimeout")>>
                        [] why = "exists"  -> <<Ev("HciExist")>>
               t   == IF Linked THEN Append(all, tws) ELSE all
           IN  /\ t \in Seq(Event) /\ Len(t) \in 0..3
               /\ NoneIn(t, Links) /\ NoneIn(t, Detaches) /\ NoneIn(t, Misses)
               /\ EndsIn(t, Waking, Reviving)
<1>. DEFINE hci == [Ev("HciDisconnect") EXCEPT !.why = why]
            tws == [Ev("PhoneDetach") EXCEPT !.why = why]
            tmo == Ev("HciTimeout")
            exs == Ev("HciExist")
            all == CASE why = "user"    -> <<hci>>
                     [] why = "timeout" -> <<hci, tmo>>
                     [] why = "exists"  -> <<exs>>
            t   == IF Linked THEN Append(all, tws) ELSE all
            Fine(u) == /\ NoneIn(u, Links) /\ NoneIn(u, Detaches) /\ NoneIn(u, Misses)
                       /\ EndsIn(u, Waking, Reviving)
<1>1. why \in {"user", "timeout", "exists"}
  BY TimesAssumption
<1>2. /\ hci \in Event /\ hci.type = "HciDisconnect"
      /\ tws \in Event /\ tws.type = "PhoneDetach"
      /\ tmo \in Event /\ tmo.type = "HciTimeout"
      /\ exs \in Event /\ exs.type = "HciExist"
  <2>1. {"HciDisconnect", "PhoneDetach", "HciTimeout", "HciExist"} \subseteq EventTypes
    BY DEF EventTypes
  <2>2. hci \in Event /\ hci.type = "HciDisconnect"
    BY <1>1, <2>1, Posts
  <2>3. tws \in Event /\ tws.type = "PhoneDetach"
    BY <1>1, <2>1, Posts
  <2>4. tmo \in Event /\ tmo.type = "HciTimeout" /\ exs \in Event /\ exs.type = "HciExist"
    BY <2>1, Posts
  <2>. QED  BY <2>2, <2>3, <2>4
<1>. HIDE DEF hci, tws, tmo, exs
<1>3. all = <<hci>> \/ all = <<hci, tmo>> \/ all = <<exs>>
  BY <1>1
<1>. HIDE DEF all
<1>4. \A e \in {hci, tws, tmo, exs} :
         e \in Event /\ e \notin Links /\ e \notin Detaches /\ e \notin Misses /\ e \in Reviving
  BY <1>2, Kinds
<1>5. Fine(<<hci>>) /\ Fine(<<exs>>) /\ Fine(<<tws>>)
  BY <1>4, Few
<1>6. Fine(<<hci, tmo>>)
  BY <1>4, Few
<1>7. all \in Seq(Event) /\ Len(all) \in 1..2
  <2>1. /\ <<hci>> \in Seq(Event) /\ Len(<<hci>>) = 1
        /\ <<exs>> \in Seq(Event) /\ Len(<<exs>>) = 1
        /\ <<hci, tmo>> \in Seq(Event) /\ Len(<<hci, tmo>>) = 2
    BY <1>2, Few
  <2>2. 1 \in 1..2 /\ 2 \in 1..2
    OBVIOUS
  <2>. QED  BY <1>3, <2>1, <2>2
<1>8. Fine(all)
  BY <1>3, <1>5, <1>6
<1>9. <<tws>> \in Seq(Event) /\ Len(<<tws>>) = 1
  BY <1>2, Few
<1>10. Append(all, tws) = all \o <<tws>>
  BY <1>2, <1>7, AppendIsConcat
<1>11. all \o <<tws>> \in Seq(Event) /\ Len(all \o <<tws>>) = Len(all) + 1
  BY <1>7, <1>9, Added
<1>12. Fine(all \o <<tws>>)
  BY <1>5, <1>7, <1>8, <1>9, Added
<1>13. Len(all) \in 0..3 /\ Len(all) + 1 \in 0..3
  <2>. DEFINE n == Len(all)
  <2>1. n \in 1..2
    BY <1>7
  <2>. HIDE DEF n
  <2>2. n \in 0..3 /\ n + 1 \in 0..3
    BY <2>1
  <2>. QED  BY <2>2 DEF n
<1>14. t \in Seq(Event) /\ Len(t) \in 0..3 /\ Fine(t)
  BY <1>7, <1>8, <1>10, <1>11, <1>12, <1>13
<1>. QED  BY <1>14 DEF t, all, hci, tws, tmo, exs

\* The phone's link ends.
LEMMA PhoneLostKeeps ==
    ASSUME BtInv, PhoneLost
    PROVE  BtInv'
<1>. DEFINE T(why) ==
              LET hci == [Ev("HciDisconnect") EXCEPT !.why = why]
                  tws == [Ev("PhoneDetach") EXCEPT !.why = why]
                  all == CASE why = "user"    -> <<hci>>
                           [] why = "timeout" -> <<hci, Ev("HciTimeout")>>
                           [] why = "exists"  -> <<Ev("HciExist")>>
              IN IF Linked THEN Append(all, tws) ELSE all
<1>1. TypeInv /\ (\A x \in Buds : BudInv(x)) /\ phoneAt \in Buds
  BY DEF BtInv, TypeInv, PhoneLost
<1>2. phoneAt' = None /\ UNCHANGED <<bud, master>>
  BY DEF PhoneLost
<1>3. PICK why \in PhoneEnds :
         /\ evq' = [x \in Buds |-> IF x \in Listeners(phoneAt) THEN Posted(x, T(why)) ELSE evq[x]]
         /\ \A x \in Listeners(phoneAt) : Len(evq[x]) <= MaxBacklog
  BY DEF PhoneLost, PostAll, Ready
<1>. DEFINE t == T(why)
<1>4. /\ t \in Seq(Event) /\ Len(t) \in 0..3
      /\ NoneIn(t, Links) /\ NoneIn(t, Detaches) /\ NoneIn(t, Misses)
      /\ EndsIn(t, Waking, Reviving)
  BY PhonePosts
<1>. HIDE DEF T
<1>5. \A x \in Buds : x \in Listeners(phoneAt) <=> x = phoneAt \/ Linked
  BY DEF Listeners
<1>6. \A x \in Buds : evq'[x] = IF x = phoneAt \/ Linked THEN evq[x] \o t ELSE evq[x]
  BY <1>1, <1>3, <1>5 DEF BudInv, StackInv, Posted
<1>. HIDE DEF t
<1>7. Linked' = Linked
  BY <1>2 DEF Linked
<1>8. ASSUME NEW x \in Buds  PROVE BudInv(x)'
  <2>. DEFINE r == bud[x]
              q == evq[x]
  <2>1. /\ r \in BudType /\ q \in Seq(Event) /\ r.paired \in BOOLEAN /\ BudInv(x)
        /\ StackInv(x) /\ PairedInv(x) /\ SlaveInv(x) /\ LostInv(x) /\ RecordInv(r)
    BY <1>1 DEF TypeInv, BudType, BudInv, StackInv
  <2>2. bud'[x] = r /\ phoneAt' # x
    BY <1>2, Limits
  <2>3. evq'[x] = IF x = phoneAt \/ Linked THEN q \o t ELSE q
    BY <1>6
  <2>4. StackInv(x)'
    <3>1. r.on = "off" => evq'[x] = <<>> /\ OffInv(r)
      BY <2>1, <2>3 DEF StackInv
    <3>. QED  BY <1>2, <1>7, <2>1, <2>2, <3>1 DEF StackInv, Role
  <2>. HIDE DEF r, q
  <2>5. PairedInv(x)'
    <3>1. Announced(q, r.paired) /\ (Linked /\ ~r.paired => ~NoneIn(q, Connects))
      BY <2>1 DEF PairedInv, q, r
    <3>2. Announced(q \o t, r.paired)
      BY <1>4, <2>1, <3>1, AnnouncedAdded
    <3>3. NoneIn(q \o t, Connects) => NoneIn(q, Connects)
      BY <1>4, <2>1, Added
    <3>. QED  BY <1>7, <2>2, <2>3, <3>1, <3>2, <3>3 DEF PairedInv
  <2>6. CalmInv(x)'
    BY <1>2 DEF CalmInv
  <2>7. SlaveInv(x)'
    <3>1. NoneIn(q \o t, Enslaving) => NoneIn(q, Enslaving)
      BY <1>4, <2>1, Added
    <3>2. Linked /\ x # master /\ NoneIn(q, Enslaving) => r.timer = None
      BY <2>1 DEF SlaveInv, q, r
    <3>. QED  BY <1>2, <1>7, <2>2, <2>3, <3>1, <3>2 DEF SlaveInv
  <2>8. LostInv(x)'
    <3>. SUFFICES ASSUME r.on = "on", ~Linked
                  PROVE  /\ Settles(evq'[x], Links, Detaches, ~r.sib)
                         /\ Settles(evq'[x], Waking, Reviving, Active(r))
      BY <1>7, <2>2 DEF LostInv
    <3>1. Settles(q, Links, Detaches, ~r.sib)
      BY <2>1 DEF LostInv, q, r
    <3>2. Settles(q \o t, Links, Detaches, ~r.sib)
      BY <1>4, <2>1, <3>1, SettlesAdded
    <3>3. Settles(q \o t, Waking, Reviving, Active(r))
      BY <1>4, <2>1, SettlesAdded
    <3>4. x # phoneAt => Settles(q, Waking, Reviving, Active(r))
      BY <2>1 DEF LostInv, q, r
    <3>. QED  BY <2>3, <3>1, <3>2, <3>3, <3>4
  <2>. QED  BY <2>4, <2>5, <2>6, <2>7, <2>8 DEF BudInv
<1>9. TypeInv'
  <2>1. evq' \in [Buds -> Seq(Event)] /\ \A x \in Buds : Len(evq'[x]) <= MaxBacklog + 3
    BY <1>1, <1>3, <1>4, <1>5, <1>6, QueueTypes
  <2>. QED  BY <1>1, <1>2, <2>1 DEF TypeInv
<1>. QED  BY <1>8, <1>9 DEF BtInv

\* The master hands the phone over.
LEMMA RoleSwitchKeeps ==
    ASSUME BtInv, RoleSwitch
    PROVE  BtInv'
<1>. DEFINE e == Ev("RoleSwitch")
            t == <<e>>
<1>1. TypeInv /\ \A x \in Buds : BudInv(x)
  BY DEF BtInv
<1>2. /\ Linked /\ phoneAt = master /\ phoneAt' = master' /\ master' \in Buds
      /\ \A x \in Buds : bud[x].on = "on"
      /\ UNCHANGED bud /\ phoneAt # None /\ Linked'
  BY <1>1, Pair, Limits DEF RoleSwitch, TypeInv, Linked
<1>3. /\ evq' = [x \in Buds |-> IF x \in Buds THEN Posted(x, t) ELSE evq[x]]
      /\ \A x \in Buds : Len(evq[x]) <= MaxBacklog
  BY DEF RoleSwitch, PostAll, Ready
<1>4. e \in Event /\ e.type = "RoleSwitch"
  BY Posts DEF EventTypes
<1>. HIDE DEF e
<1>5. t \in Seq(Event) /\ Len(t) \in 0..3
  <2>1. t \in Seq(Event) /\ Len(t) = 1
    BY <1>4, Few
  <2>. QED  BY <2>1
<1>6. NoneIn(t, Detaches) /\ NoneIn(t, Misses)
  BY <1>4, Few, Kinds
<1>7. NoneIn(t, Noisy)
  <2>1. e \notin Noisy
    BY <1>4, Kinds DEF Noisy, Quiet
  <2>. QED  BY <1>4, <2>1, Few
<1>. HIDE DEF t
<1>8. \A x \in Buds : evq'[x] = evq[x] \o t
  BY <1>2, <1>3 DEF Posted
<1>9. ASSUME NEW x \in Buds  PROVE BudInv(x)'
  <2>. DEFINE r == bud[x]
              q == evq[x]
  <2>1. /\ r \in BudType /\ q \in Seq(Event) /\ r.paired \in BOOLEAN
        /\ StackInv(x) /\ PairedInv(x) /\ CalmInv(x) /\ RecordInv(r)
    BY <1>1 DEF TypeInv, BudType, BudInv, StackInv
  <2>2. bud'[x] = r /\ evq'[x] = q \o t
    BY <1>2, <1>8
  <2>3. StackInv(x)'
    <3>1. ~r.page
      BY <1>2, <2>1 DEF StackInv, Role, Linked
    <3>2. r.create = "no" /\ r.on = "on"
      BY <1>2, <2>1 DEF StackInv
    <3>. QED  BY <1>2, <2>1, <2>2, <3>1, <3>2 DEF StackInv, Role
  <2>. HIDE DEF r, q
  <2>4. PairedInv(x)'
    <3>1. Announced(q, r.paired) /\ (~r.paired => ~NoneIn(q, Connects))
      BY <1>2, <2>1 DEF PairedInv, q, r
    <3>2. Announced(q \o t, r.paired)
      BY <1>5, <1>6, <2>1, <3>1, AnnouncedAdded
    <3>3. NoneIn(q \o t, Connects) => NoneIn(q, Connects)
      BY <1>5, <2>1, Added
    <3>. QED  BY <2>2, <3>1, <3>2, <3>3 DEF PairedInv
  <2>5. Settles(q, Noisy, Quieting, r.timer = None)
    BY <1>2, <2>1 DEF CalmInv, q, r
  <2>6. CalmInv(x)'
    <3>1. Settles(q \o t, Noisy, Quieting, r.timer = None)
      BY <1>5, <1>7, <2>1, <2>5, SettlesAdded
    <3>. QED  BY <2>2, <3>1 DEF CalmInv
  <2>7. SlaveInv(x)'
    <3>1. NoneIn(q \o t, Enslaving) => NoneIn(q, Enslaving)
      BY <1>5, <2>1, Added
    <3>2. Quieting \subseteq Enslaving
      BY DEF Quieting, Enslaving
    <3>3. NoneIn(q, Enslaving) => r.timer = None
      BY <2>5, <3>2 DEF Settles, EndsIn, NoneIn
    <3>. QED  BY <2>2, <3>1, <3>3 DEF SlaveInv
  <2>8. LostInv(x)'
    BY <1>2 DEF LostInv
  <2>. QED  BY <2>3, <2>4, <2>6, <2>7, <2>8 DEF BudInv
<1>10. TypeInv'
  <2>1. evq' \in [Buds -> Seq(Event)] /\ \A x \in Buds : Len(evq'[x]) <= MaxBacklog + 3
    BY <1>1, <1>3, <1>5, <1>8, QueueTypes
  <2>. QED  BY <1>1, <1>2, <2>1 DEF TypeInv
<1>. QED  BY <1>9, <1>10 DEF BtInv

\* A synchronised call of b reaches the buds.
LEMMA SyncCallsKeeps ==
    ASSUME BtInv, NEW b \in Buds, SyncCalls(b)
    PROVE  BtInv'
<1>1. TypeInv /\ (\A x \in Buds : BudInv(x)) /\ bud[b] \in BudType
  BY DEF BtInv, TypeInv
<1>2. PICK c \in bud[b].sync :
         /\ bud' = [bud EXCEPT ![b].sync = @ \ {c}]
         /\ PostAll(Buds, LAMBDA x : <<Ev(c)>>)
  BY DEF SyncCalls
<1>. DEFINE e == Ev(c)
            t == <<e>>
            s == [bud[b] EXCEPT !.sync = @ \ {c}]
<1>3. c \in {"SyncOff", "SyncShut"}
  BY <1>1 DEF BudType
<1>4. /\ evq' = [x \in Buds |-> IF x \in Buds THEN Posted(x, t) ELSE evq[x]]
      /\ \A x \in Buds : Len(evq[x]) <= MaxBacklog
  BY <1>2 DEF PostAll, Ready
<1>5. UNCHANGED <<master, phoneAt>> /\ Linked' = Linked /\ bud' = [bud EXCEPT ![b] = s]
  BY <1>2 DEF SyncCalls, Env, Linked
<1>6. e \in Event /\ e.type = c
  BY <1>3, Posts DEF EventTypes
<1>. HIDE DEF e
<1>7. t \in Seq(Event) /\ Len(t) \in 0..3
  <2>1. t \in Seq(Event) /\ Len(t) = 1
    BY <1>6, Few
  <2>. QED  BY <2>1
<1>8. NoneIn(t, Detaches) /\ NoneIn(t, Misses) /\ NoneIn(t, Links)
  BY <1>3, <1>6, Few, Kinds
<1>9. NoneIn(t, Noisy) /\ NoneIn(t, Waking)
  <2>1. e \notin Noisy /\ e \notin Waking
    BY <1>3, <1>6, Kinds DEF Noisy, Quiet, Waking
  <2>. QED  BY <1>6, <2>1, Few
<1>. HIDE DEF t
<1>10. \A x \in Buds : evq'[x] = IF bud[x].on = "off" THEN evq[x] ELSE evq[x] \o t
  BY <1>4 DEF Posted
<1>11. Same(bud[b], s)
  <2>1. bud[b].sync \ {c} \in SUBSET {"SyncOff", "SyncShut"}
    BY <1>1 DEF BudType
  <2>. QED  BY <1>1, <2>1 DEF Same, BudType
<1>. HIDE DEF s
<1>12. \A x \in Buds : Same(bud[x], bud'[x])
  BY <1>1, <1>5, <1>11 DEF TypeInv, Same
<1>13. ASSUME NEW x \in Buds  PROVE BudInv(x)'
  <2>. DEFINE r == bud[x]
              q == evq[x]
              a == bud'[x]
  <2>1. /\ r \in BudType /\ q \in Seq(Event) /\ r.paired \in BOOLEAN /\ BudInv(x)
        /\ StackInv(x) /\ PairedInv(x) /\ CalmInv(x) /\ SlaveInv(x) /\ LostInv(x)
        /\ RecordInv(r)
    BY <1>1 DEF TypeInv, BudType, BudInv, StackInv
  <2>2. CASE r.on = "off"
    BY <1>5, <1>10, <1>12, <2>1, <2>2, Untouched
  <2>3. CASE r.on # "off"
    <3>1. Same(r, a) /\ evq'[x] = q \o t
      BY <1>10, <1>12, <2>3
    <3>2. StackInv(x)'
      BY <1>5, <2>1, <2>3, <3>1 DEF StackInv, Same, RecordInv, Role
    <3>. HIDE DEF r, q, a
    <3>3. PairedInv(x)'
      <4>1. Announced(q, r.paired) /\ (Linked /\ ~r.paired => ~NoneIn(q, Connects))
        BY <2>1 DEF PairedInv, q, r
      <4>2. Announced(q \o t, r.paired)
        BY <1>7, <1>8, <2>1, <4>1, AnnouncedAdded
      <4>3. NoneIn(q \o t, Connects) => NoneIn(q, Connects)
        BY <1>7, <2>1, Added
      <4>. QED  BY <1>5, <3>1, <4>1, <4>2, <4>3 DEF PairedInv, Same, a
    <3>4. CalmInv(x)'
      <4>1. ASSUME phoneAt # None, phoneAt = x \/ Linked
            PROVE  Settles(q \o t, Noisy, Quieting, a.timer = None)
        <5>1. Settles(q, Noisy, Quieting, r.timer = None)
          BY <2>1, <4>1 DEF CalmInv, q, r
        <5>. QED  BY <1>7, <1>9, <2>1, <3>1, <5>1, SettlesAdded DEF Same
      <4>. QED  BY <1>5, <3>1, <4>1 DEF CalmInv, a
    <3>5. SlaveInv(x)'
      <4>1. NoneIn(q \o t, Enslaving) => NoneIn(q, Enslaving)
        BY <1>7, <2>1, Added
      <4>2. Linked /\ x # master /\ NoneIn(q, Enslaving) => r.timer = None
        BY <2>1 DEF SlaveInv, q, r
      <4>. QED  BY <1>5, <3>1, <4>1, <4>2 DEF SlaveInv, Same, a
    <3>6. LostInv(x)'
      <4>. SUFFICES ASSUME a.on = "on", ~Linked
                    PROVE  /\ Settles(q \o t, Links, Detaches, ~a.sib)
                           /\ phoneAt # x => Settles(q \o t, Waking, Reviving, Active(a))
        BY <1>5, <3>1 DEF LostInv, a
      <4>1. Settles(q, Links, Detaches, ~r.sib)
        BY <2>1, <3>1 DEF LostInv, Same, q, r
      <4>2. Settles(q \o t, Links, Detaches, ~a.sib)
        BY <1>7, <1>8, <2>1, <3>1, <4>1, SettlesAdded DEF Same
      <4>3. ASSUME phoneAt # x  PROVE Settles(q \o t, Waking, Reviving, Active(a))
        <5>1. Settles(q, Waking, Reviving, Active(r))
          BY <2>1, <3>1, <4>3 DEF LostInv, Same, q, r
        <5>2. Active(r) => Active(a)
          BY <3>1 DEF Same, Active
        <5>3. EndsIn(q, Waking, Reviving) => EndsIn(q \o t, Waking, Reviving)
          BY <1>7, <1>9, <2>1, Added
        <5>4. NoneIn(q, Waking) => NoneIn(q \o t, Waking)
          BY <1>7, <1>9, <2>1, Added
        <5>. QED  BY <5>1, <5>2, <5>3, <5>4 DEF Settles
      <4>. QED  BY <4>2, <4>3
    <3>. QED  BY <3>2, <3>3, <3>4, <3>5, <3>6 DEF BudInv
  <2>. QED  BY <2>2, <2>3
<1>14. TypeInv'
  <2>1. bud' \in [Buds -> BudType]
    BY <1>1, <1>5, <1>12 DEF TypeInv, Same
  <2>2. evq' \in [Buds -> Seq(Event)] /\ \A x \in Buds : Len(evq'[x]) <= MaxBacklog + 3
    BY <1>1, <1>4, <1>7, <1>10, QueueTypes
  <2>. QED  BY <1>1, <1>5, <2>1, <2>2 DEF TypeInv
<1>. QED  BY <1>13, <1>14 DEF BtInv

-----------------------------------------------------------------------------
(* The theorems *)

LEMMA InitBtInv == Init => BtInv
<1>. SUFFICES ASSUME Init  PROVE BtInv
  OBVIOUS
<1>1. PICK p \in BOOLEAN : bud = [b \in Buds |-> PoweredOff(p)]
  BY DEF Init
<1>2. evq = [b \in Buds |-> <<>>] /\ master = None /\ phoneAt = None
  BY DEF Init
<1>3. PoweredOff(p) \in BudType
  BY Limits DEF PoweredOff, BudType
<1>4. /\ PoweredOff(p).on = "off" /\ PoweredOff(p).sib = FALSE /\ PoweredOff(p).page = FALSE
      /\ PoweredOff(p).create = "no" /\ PoweredOff(p).scan = "none"
      /\ PoweredOff(p).timer = None
  BY DEF PoweredOff
<1>5. TypeInv
  <2>1. <<>> \in Seq(Event) /\ Len(<<>>) = 0
    OBVIOUS
  <2>2. 0 <= MaxBacklog + 3
    BY Limits
  <2>. QED  BY <1>1, <1>2, <1>3, <2>1, <2>2 DEF TypeInv
<1>6. ASSUME NEW b \in Buds  PROVE BudInv(b)
  <2>1. bud[b] = PoweredOff(p) /\ evq[b] = <<>> /\ phoneAt # b
    BY <1>1, <1>2, Limits
  <2>2. StackInv(b)
    BY <1>2, <1>4, <2>1 DEF StackInv, RecordInv, OffInv, Linked
  <2>3. PairedInv(b)
    BY <1>2, <2>1 DEF PairedInv, Announced, NoneIn, Linked
  <2>4. CalmInv(b) /\ SlaveInv(b) /\ LostInv(b)
    BY <1>2, <1>4, <2>1 DEF CalmInv, SlaveInv, LostInv, Linked
  <2>. QED  BY <2>2, <2>3, <2>4 DEF BudInv
<1>. QED  BY <1>5, <1>6 DEF BtInv

LEMMA NextBtInv == BtInv /\ [Next]_vars => BtInv'
<1>. SUFFICES ASSUME BtInv, [Next]_vars  PROVE BtInv'
  OBVIOUS
<1>1. ASSUME NEW b \in Buds, Bud(b)  PROVE BtInv'
  BY <1>1, HandleKeeps, PairTimerKeeps, AutoShutDownKeeps, PowerKeyKeeps, PowerOffKeeps,
     PowerOnKeeps DEF Bud
<1>2. ASSUME Stack  PROVE BtInv'
  BY <1>2, LinkFormsKeeps, LinkLostKeeps, CreateTimesOutKeeps, PhoneConnectsKeeps,
     PhoneLostKeeps, PageTimesOutKeeps, RoleSwitchKeeps, SyncCallsKeeps DEF Stack
<1>3. CASE UNCHANGED vars
  <2>1. UNCHANGED <<bud, evq, master, phoneAt>>
    BY <1>3 DEF vars
  <2>2. TypeInv'
    BY <2>1 DEF BtInv, TypeInv
  <2>3. ASSUME NEW x \in Buds  PROVE BudInv(x)'
    <3>1. Same(bud[x], bud'[x]) /\ BudInv(x)
      BY <2>1 DEF BtInv, TypeInv, Same
    <3>. QED  BY <2>1, <3>1, Untouched
  <2>. QED  BY <2>2, <2>3 DEF BtInv
<1>. QED  BY <1>1, <1>2, <1>3 DEF Next

LEMMA BtInvHolds == Spec => []BtInv
BY InitBtInv, NextBtInv, PTL DEF Spec

\* The records of the buds, the counters of paging time among them, keep their
\* types and bounds, and no queue grows beyond its bound, through any sequence
\* of the handlers of bt_tws.c and earphone.c.
THEOREM TypeCorrect == Spec => []TypeOK
<1>1. BtInv => TypeOK
  BY DEF BtInv, TypeInv, TypeOK
<1>. QED  BY <1>1, BtInvHolds, PTL

\* Of two linked buds with nothing left to handle, only the master has a pair
\* timer: connect_and_connectable_switch never runs on both.
THEOREM OnlyMasterDrives == Spec => []OneDriver
<1>1. BtInv => OneDriver
  <2>. SUFFICES ASSUME BtInv, NEW b \in Buds, Linked, evq[b] = <<>>, b # master
                PROVE  bud[b].timer = None
    BY DEF OneDriver
  <2>1. SlaveInv(b) /\ NoneIn(evq[b], Enslaving)
    BY DEF BtInv, BudInv, NoneIn
  <2>. QED  BY <2>1 DEF SlaveInv
<1>. QED  BY <1>1, BtInvHolds, PTL

\* A bud that has handled the connection of its phone leaves it alone: no pair
\* timer is armed and no other phone is paged (bt_tws_hci_event_connect).
THEOREM PhoneIsLeftAlone == Spec => []PhoneLeftAlone
<1>1. BtInv => PhoneLeftAlone
  <2>. SUFFICES ASSUME BtInv, NEW b \in Buds, phoneAt = b, evq[b] = <<>>
                PROVE  bud[b].timer = None /\ ~bud[b].page
    BY DEF PhoneLeftAlone
  <2>1. StackInv(b) /\ CalmInv(b)
    BY DEF BtInv, BudInv
  <2>2. Settles(<<>>, Noisy, Quieting, bud[b].timer = None)
    BY <2>1, Limits DEF CalmInv
  <2>3. ~EndsIn(<<>>, Noisy, Quieting)
    BY DEF EndsIn
  <2>. QED  BY <2>1, <2>2, <2>3 DEF StackInv, Settles
<1>. QED  BY <1>1, BtInvHolds, PTL

\* A bud that is on, without sibling and phone, with nothing left to handle, is
\* at work: no order of the handlers of bt_tws.c stops its alternation.
THEOREM NoneStranded == Spec => []NeverStranded
<1>1. BtInv => NeverStranded
  <2>. SUFFICES ASSUME BtInv, NEW b \in Buds, bud[b].on = "on", evq[b] = <<>>, ~Linked,
                       phoneAt # b
                PROVE  Active(bud[b])
    BY DEF NeverStranded, Active
  <2>1. LostInv(b)
    BY DEF BtInv, BudInv
  <2>2. Settles(<<>>, Waking, Reviving, Active(bud[b]))
    BY <2>1 DEF LostInv
  <2>3. ~EndsIn(<<>>, Waking, Reviving)
    BY DEF EndsIn
  <2>. QED  BY <2>2, <2>3 DEF Settles
<1>. QED  BY <1>1, BtInvHolds, PTL

=============================================================================
