-------------------------------- MODULE BtTws --------------------------------
(***************************************************************************)
(* The connections of a pair of earbuds: which of them looks for the other *)
(* one or for the phone, when each can be found, and when they switch off  *)
(* for want of a phone (apps/earphone/bt_tws.c and the bluetooth events of *)
(* apps/earphone/earphone.c), for two buds that run the same code.         *)
(*                                                                         *)
(* bud[b] is what bud b keeps: the flags of gtws.state, the timers, and    *)
(* what it last asked of the closed bluetooth stack.  A handler of the     *)
(* code is an operator from that record to the next one, given the role    *)
(* the stack reports (m: MASTER) and whether the buds are linked (up).     *)
(* The stack answers with events; each bud's application task takes them   *)
(* from its queue one at a time, and its timers run between two of them.   *)
(*                                                                         *)
(* Assumed of the stack: a bud without a link reports the role MASTER;     *)
(* looking for the sibling, paging the phone and listening exclude one     *)
(* another as bt_tws.c alternates them; linked buds both get the events of *)
(* the phone's connection, as the role tests in their handlers expect, and *)
(* a slave that loses its master loses its share of the phone's link too;  *)
(* a synchronised call reaches both buds or neither.                       *)
(*                                                                         *)
(* Calls, sniff mode, the test box, the noise cancelling box and the       *)
(* removal of a pairing are left out: every handler is modelled as it runs *)
(* without them; so is BT_TWS_PHONE_CONNECTED, which only they read.       *)
(***************************************************************************)
EXTENDS Integers, Sequences

CONSTANTS
    Buds,          \* the two earbuds
    None,          \* no timer, no phone
    PoweronTime,   \* POWERON_AUTO_CONN_TIME, in page windows of a lone bud
    ReconnTime,    \* TIMEOUT_CONN_TIME, likewise
    ExistTime,     \* the 8 s after ACL_CONNECTION_ALREADY_EXISTS, likewise
    PairWindow,    \* a page window of a linked bud, likewise
    Phones,        \* phones the bud remembers at power on
    PhoneEnds,     \* how the phone's link may end, see PhoneLost
    MaxBacklog     \* bound on the events a bud may still have to handle when
                   \* the stack reports the next thing

ASSUME BudsAssumption == \E x, y \in Buds : x # y /\ Buds = {x, y}
ASSUME TimesAssumption ==
    /\ PoweronTime \in Nat \ {0} /\ ReconnTime \in Nat \ {0}
    /\ ExistTime \in Nat \ {0} /\ PairWindow \in Nat \ {0}
    /\ PairWindow < ReconnTime                  \* 8 s and 60 s
    /\ Phones \in Nat /\ MaxBacklog \in Nat
    /\ None \notin Buds \cup {0, 1}             \* BudType: no timer is no argument
    /\ PhoneEnds \subseteq {"user", "timeout", "exists"}

VARIABLES
    bud,       \* the record of each bud, see BudType
    evq,       \* the events each bud has not handled yet
    master,    \* the master of the stack's link between the buds, None: no link
    phoneAt    \* the bud that holds the phone's link, or None

vars == <<bud, evq, master, phoneAt>>

Sibling(b) == CHOOSE o \in Buds : o # b

MaxTime == CHOOSE t \in {PoweronTime, ReconnTime, ExistTime} :
               \A u \in {PoweronTime, ReconnTime, ExistTime} : u <= t

BudType ==
    [on      : {"off", "on", "leaving"},     \* leaving: goto_poweroff_flag
     paired  : BOOLEAN,                      \* BT_TWS_PAIRED, else UNPAIRED
     sib     : BOOLEAN,                      \* BT_TWS_SIBLING_CONNECTED
     poweron : BOOLEAN,                      \* BT_TWS_POWER_ON
     tmo     : BOOLEAN,                      \* BT_TWS_TIMEOUT
     counter : (-PairWindow)..MaxTime,       \* auto_connection_counter
     saved   : (-PairWindow)..MaxTime,       \* connect_time
     timer   : {None, 0, 1},                 \* pair_timer and its argument sw
     shut    : {"none", "armed", "fired"},   \* auto_shut_down_timer
     mem     : 0..Phones,                    \* remembered phones not yet tried
     page    : BOOLEAN,                      \* stack: paging the phone
     create  : {"no", "timed", "untimed"},   \* stack: looking for the sibling
     scan    : {"none", "pair", "conn"},     \* stack: what it listens for
     sync    : SUBSET {"SyncOff", "SyncShut"}] \* synchronised calls under way

-----------------------------------------------------------------------------
(* Calls of the closed stack and timer library *)

WaitPair(r)       == [r EXCEPT !.scan = "pair", !.page = FALSE]
WaitConnection(r) == [r EXCEPT !.scan = "conn", !.create = "no", !.page = FALSE]
CreateConnection(r, t) == [r EXCEPT !.create = t, !.page = FALSE]
PagePhone(r)      == [r EXCEPT !.page = TRUE]
SyncCall(r, c, up) == IF up THEN [r EXCEPT !.sync = @ \cup {c}] ELSE r

DeletePairTimer(r) == [r EXCEPT !.timer = None]

\* sys_auto_shut_down_enable does nothing while the handle is set, and a
\* handle stays set when its timer has fired.
ShutEnable(r)  == IF r.shut = "none" THEN [r EXCEPT !.shut = "armed"] ELSE r
ShutDisable(r) == [r EXCEPT !.shut = "none"]

-----------------------------------------------------------------------------
(* connect_and_connectable_switch: phone, then sibling and discoverable *)

\* bt_init_ok_search_index: the next remembered phone, if no time is left.
SearchIndex(r) ==
    IF r.counter = 0 /\ r.mem > 0
    THEN [r EXCEPT !.mem = @ - 1, !.counter = PoweronTime]
    ELSE r

\* The part of sw = 0 that pages the phone for one window.
PageWindow(r) ==
    PagePhone([r EXCEPT !.counter = @ - (IF r.sib THEN PairWindow ELSE 1),
                        !.scan = "none", !.create = "no", !.timer = 1])

\* sw = 1: discoverable, and a lone bud looks for its sibling; back to the
\* phone after a window if time is left for it.
ListenWindow(r) ==
    LET w == WaitPair(r)
        c == IF r.sib THEN w ELSE CreateConnection(w, "untimed")
    IN [c EXCEPT !.timer = IF r.counter > 0 THEN 0 ELSE None]

\* Mutant: a linked bud whose time is over does not become discoverable.
TimeOverHidden(r) ==
    LET z == [r EXCEPT !.counter = 0, !.poweron = FALSE]
    IN IF z.sib THEN z ELSE ListenWindow(z)

\* The part of sw = 0 for a bud whose time for the phone is over.
TimeOver(r) ==
    LET z == [r EXCEPT !.counter = 0]
        n == IF r.poweron /\ r.mem > 0 THEN SearchIndex(z)
             ELSE [z EXCEPT !.poweron = FALSE]
    IN IF n.counter > 0 THEN PageWindow(n)
       ELSE IF n.sib THEN WaitPair(n)
       ELSE ListenWindow(n)

\* Mutant: the time left for the phone is not looked at.
SwitchStepNoLimit(r, sw) ==
    IF sw = 1 THEN ListenWindow(DeletePairTimer(r)) ELSE PageWindow(r)

SwitchStep(r, sw) ==
    LET z == DeletePairTimer(r)
    IN IF sw = 1 THEN ListenWindow(z)
       ELSE IF r.counter > 0 THEN PageWindow(z)
       ELSE TimeOver(z)

\* bt_tws_connect_and_connectable_switch
Switch(r, m) == IF m THEN SwitchStep(r, 0) ELSE DeletePairTimer(r)

\* bt_tws_connect_sibling: the stack refuses when the buds are linked.
ConnectSibling(r, m, up) ==
    LET d == DeletePairTimer(r)
    IN IF up THEN Switch(d, m) ELSE CreateConnection(d, "timed")

WaitSibling(r) == WaitConnection(DeletePairTimer(r))

\* Mutant: the bud with the phone does not wait for its sibling.
PhoneConnectedAlone(r) == r

PhoneConnected(r) ==
    IF r.paired /\ ~r.sib THEN WaitSibling(r) ELSE r

\* Mutant: it is left to the other events to look for the phone again.
PhoneDisconnectedNoSwitch(r, m, up) ==
    [(IF m THEN SyncCall(r, "SyncShut", up) ELSE r) EXCEPT !.counter = 0]

\* Mutant: the sibling is not told to start its shut down time again.
PhoneDisconnectedNoSync(r, m, up) ==
    LET z == [r EXCEPT !.counter = 0]
    IN IF r.sib THEN z ELSE Switch(z, m)

PhoneDisconnected(r, m, up) ==
    LET z == [(IF m THEN SyncCall(r, "SyncShut", up) ELSE r) EXCEPT !.counter = 0]
    IN IF r.sib THEN z ELSE Switch(z, m)

PhoneConnectTimeout(r, m, up) ==
    IF ~r.paired \/ r.sib THEN Switch(r, m) ELSE ConnectSibling(r, m, up)

\* sys_enter_soft_poweroff and the bt_tws_poweroff it calls.
SoftPoweroff(r) ==
    [ShutDisable(r) EXCEPT !.on = "leaving", !.timer = None, !.page = FALSE,
                           !.scan = "none", !.create = "no"]

-----------------------------------------------------------------------------
(* The handlers of the application task: record, event, role, link *)

\* Mutant: the pair timer of the time without sibling stays.
TwsConnectedKeepsTimer(r, e, m) ==
    LET t == [r EXCEPT !.paired = TRUE, !.saved = 0, !.tmo = FALSE, !.sib = TRUE]
    IN IF e.phone THEN t
       ELSE ShutEnable(ShutDisable(
              IF e.master THEN Switch(t, m) ELSE [t EXCEPT !.scan = "none"]))

\* TWS_EVENT_CONNECTED.  The first link of an unpaired bud stores the pair
\* and overwrites all other flags of gtws.state.
TwsConnected(r, e, m) ==
    LET p == IF r.paired THEN r
             ELSE [r EXCEPT !.paired = TRUE, !.poweron = FALSE]
        t == [p EXCEPT !.counter = IF p.saved # 0 /\ e.master THEN p.saved ELSE @,
                       !.saved = 0, !.tmo = FALSE, !.sib = TRUE, !.timer = None]
        s == IF e.master THEN Switch(t, m) ELSE [t EXCEPT !.scan = "none"]
    IN IF e.phone THEN t ELSE ShutEnable(ShutDisable(s))

\* TWS_EVENT_CONNECTION_TIMEOUT
TwsTimeout(r, e, m) ==
    IF ~r.paired THEN Switch(r, m)
    ELSE IF e.phone THEN WaitSibling(r)
    ELSE Switch(IF r.tmo
                THEN [r EXCEPT !.tmo = FALSE, !.saved = r.counter, !.counter = 0]
                ELSE r, m)

\* TWS_EVENT_CONNECTION_DETACH
TwsDetach(r, e, m, up) ==
    LET d == [r EXCEPT !.sib = FALSE]
        s == [d EXCEPT !.tmo = TRUE, !.saved = r.counter, !.counter = 0]
    IN IF r.on = "leaving" THEN r
       ELSE IF e.phone THEN WaitSibling(d)
       ELSE IF e.why = "timeout"
            THEN ConnectSibling(IF e.master THEN d ELSE s, m, up)
            ELSE Switch(d, m)

\* TWS_EVENT_PHONE_LINK_DETACH
PhoneLinkDetach(r, e, m) ==
    IF r.on = "leaving" THEN r
    ELSE LET s == ShutEnable(r)
         IN Switch([s EXCEPT !.counter = CASE e.why = "user" -> 0
                                           [] e.why = "exists" -> ExistTime
                                           [] OTHER -> @], m)

\* Mutant: the pair timer is not deleted for the phone.
HciConnectKeepsTimer(r) ==
    ShutDisable([r EXCEPT !.poweron = FALSE, !.counter = 0])

\* bt_hci_event_connection with bt_tws_hci_event_connect
HciConnect(r) ==
    ShutDisable([DeletePairTimer(r) EXCEPT !.poweron = FALSE, !.counter = 0])

\* bt_hci_event_disconnect
HciDisconnect(r, e, m, up) ==
    IF r.on = "leaving" THEN r
    ELSE LET s == ShutEnable(r)
         IN IF e.why = "timeout" THEN PhoneConnectTimeout(s, m, up)
            ELSE PhoneDisconnected(s, m, up)

\* bt_hci_event_connection_timeout and bt_hci_event_connection_exist
HciReconnect(r, time, m, up) ==
    PhoneConnectTimeout([r EXCEPT !.counter = time], m, up)

\* SYNC_CMD_POWER_OFF_TOGETHER: sys_enter_soft_poweroff(3) leaves the links
\* and the pair timer alone.
SyncOff(r) ==
    IF r.on = "leaving" THEN r ELSE [ShutDisable(r) EXCEPT !.on = "leaving"]

Handled(r, e, m, up, talking) ==
    CASE e.type = "TwsConnected"   -> TwsConnected(r, e, m)
      [] e.type = "TwsTimeout"     -> TwsTimeout(r, e, m)
      [] e.type = "TwsDetach"      -> TwsDetach(r, e, m, up)
      [] e.type = "PhoneDetach"    -> PhoneLinkDetach(r, e, m)
      [] e.type = "RoleSwitch"     -> IF talking THEN r ELSE Switch(r, m)
      [] e.type = "SyncOff"        -> SyncOff(r)
      [] e.type = "SyncShut"       -> ShutEnable(ShutDisable(r))
      [] e.type = "HciConnect"     -> HciConnect(r)
      [] e.type = "PhoneConnected" -> PhoneConnected(ShutDisable(r))
      [] e.type = "HciDisconnect"  -> HciDisconnect(r, e, m, up)
      [] e.type = "HciTimeout"     -> HciReconnect(r, ReconnTime, m, up)
      [] e.type = "HciExist"       -> HciReconnect(r, ExistTime, m, up)
      [] e.type = "PageTimeout"    -> PhoneDisconnected(r, m, up)

-----------------------------------------------------------------------------
(* Actions of a bud *)

Linked    == master # None
Role(b)   == master \in {None, b}          \* tws_api_get_role() = MASTER
Talking   == phoneAt # None
Ev(t)     == [type |-> t, master |-> FALSE, phone |-> FALSE, why |-> "none"]
\* What the stack accepts of r's requests: no page by a slave or beside a
\* connected phone (TCFG_BD_NUM is 1), no search for a linked sibling.
Accepted(b, r) ==
    [r EXCEPT !.page = @ /\ phoneAt = None /\ Role(b),
              !.create = IF Linked THEN "no" ELSE @]

Ready(who) == \A x \in who : Len(evq[x]) <= MaxBacklog

\* The queue of b once es has been posted to it: a bud that is off gets nothing.
Posted(b, es) == IF bud[b].on = "off" THEN evq[b] ELSE evq[b] \o es

Env == <<master, phoneAt>>

\* The application task takes its next event.
Handle(b) ==
    /\ evq[b] # <<>>
    /\ bud' = [bud EXCEPT ![b] =
                 Accepted(b, Handled(@, Head(evq[b]), Role(b), Linked, Talking))]
    /\ evq' = [evq EXCEPT ![b] = Tail(@)]
    /\ UNCHANGED Env

\* pair_timer expires.  The 8 s of a linked bud outlast the page timeout.
PairTimer(b) ==
    /\ bud[b].timer # None
    /\ ~(bud[b].sib /\ bud[b].page)
    /\ bud' = [bud EXCEPT ![b] = Accepted(b, SwitchStep(@, @.timer))]
    /\ UNCHANGED <<evq, Env>>

\* What x is told when the link of the buds ends.  A slave loses its share of
\* the master's phone with it and is told that too.
DetachEvents(x, why) ==
    <<[Ev("TwsDetach") EXCEPT !.master = x = master, !.phone = phoneAt = x,
                              !.why = why]>>
    \o IF phoneAt = master /\ x # master
       THEN <<[Ev("HciDisconnect") EXCEPT !.why = "user"]>> ELSE <<>>

\* The link ends, if there is one, because b, which becomes r, goes away.
DetachBy(b, r) ==
    LET o == Sibling(b)
    IN /\ IF Linked
          THEN /\ Ready({o})
               /\ evq' = [evq EXCEPT ![o] = Posted(o, DetachEvents(o, "poweroff")),
                                     ![b] = IF r.on = "off" THEN <<>> ELSE @]
          ELSE evq' = [evq EXCEPT ![b] = IF r.on = "off" THEN <<>> ELSE @]
       /\ bud' = [x \in Buds |-> [(IF x = b THEN r ELSE bud[x]) EXCEPT !.sync = {}]]
       /\ master' = None
       /\ UNCHANGED phoneAt

\* sys_auto_shut_down_deal: the timer has fired, its handle stays set.
AutoShutDown(b) ==
    LET r == [bud[b] EXCEPT !.shut = "fired"]
    IN /\ bud[b].shut = "armed"
       /\ \/ /\ r.sib \/ r.on = "leaving"
             /\ bud' = [bud EXCEPT ![b] = IF r.sib /\ Role(b)
                                          THEN SyncCall(r, "SyncOff", Linked) ELSE r]
             /\ UNCHANGED <<evq, Env>>
          \/ /\ ~r.sib /\ r.on = "on"
             /\ DetachBy(b, SoftPoweroff(r))

\* The user switches b off with its key, or its battery does.
PowerKey(b) ==
    /\ bud[b].on = "on" /\ evq[b] = <<>>
    /\ DetachBy(b, SoftPoweroff(bud[b]))

PoweredOff(paired) ==
    [on |-> "off", paired |-> paired, sib |-> FALSE, poweron |-> FALSE,
     tmo |-> FALSE, counter |-> 0, saved |-> 0, timer |-> None, shut |-> "none",
     mem |-> 0, page |-> FALSE, create |-> "no", scan |-> "none", sync |-> {}]

\* The rest of a power off, see AppCharge: it waits for the phone to go.
PowerOff(b) ==
    /\ bud[b].on = "leaving"
    /\ phoneAt # b
    /\ DetachBy(b, PoweredOff(bud[b].paired))

\* BT_STATUS_INIT_OK: bt_init_ok_search_index, then bt_tws_poweron.
PowerOn(b) ==
    /\ bud[b].on = "off"
    /\ bud' = [bud EXCEPT ![b] =
         CreateConnection(
           [SearchIndex([@ EXCEPT !.mem = Phones]) EXCEPT
              !.on = "on", !.poweron = TRUE, !.shut = "armed"], "timed")]
    /\ UNCHANGED <<evq, Env>>

-----------------------------------------------------------------------------
(* The closed stack, the phone and the distance between the buds *)

Listeners(b) == IF Linked THEN Buds ELSE {b}

\* es(x) are the events that x gets.
PostAll(who, es(_)) ==
    /\ Ready(who)
    /\ evq' = [x \in Buds |-> IF x \in who THEN Posted(x, es(x)) ELSE evq[x]]

\* One bud looks for the other, which looks for it too or listens.  The bud
\* that has the phone becomes the master.
LinkForms ==
    /\ ~Linked
    /\ \A b \in Buds : bud[b].on = "on"
    /\ \E b \in Buds : /\ bud[b].create # "no"
                      /\ \/ bud[Sibling(b)].create # "no"
                         \/ bud[Sibling(b)].scan # "none"
    /\ \E m \in IF phoneAt = None THEN Buds ELSE {phoneAt} :
         /\ master' = m
         /\ PostAll(Buds, LAMBDA x : <<[Ev("TwsConnected") EXCEPT
                              !.master = x = m, !.phone = phoneAt # None]>>)
    /\ bud' = [x \in Buds |-> [bud[x] EXCEPT !.create = "no"]]
    /\ UNCHANGED phoneAt

\* TWS_DETACH_BY_SUPER_TIMEOUT
LinkLost ==
    /\ Linked
    /\ PostAll(Buds, LAMBDA x : DetachEvents(x, "timeout"))
    /\ master' = None
    /\ bud' = [x \in Buds |-> [bud[x] EXCEPT !.sync = {}]]
    /\ UNCHANGED <<phoneAt>>

\* A search with a timeout ends.
CreateTimesOut(b) ==
    /\ bud[b].create = "timed"
    /\ PostAll({b}, LAMBDA x : <<[Ev("TwsTimeout") EXCEPT !.phone = phoneAt = b]>>)
    /\ bud' = [bud EXCEPT ![b].create = "no"]
    /\ UNCHANGED Env

\* The phone answers a page of b, or connects to b on its own.
PhoneConnects(b) ==
    /\ phoneAt = None
    /\ bud[b].on = "on" /\ Role(b)
    /\ bud[b].page \/ bud[b].scan # "none"
    /\ PostAll(Listeners(b), LAMBDA x : <<Ev("HciConnect"), Ev("PhoneConnected")>>)
    /\ phoneAt' = b
    /\ bud' = [bud EXCEPT ![b].page = FALSE, ![b].scan = "none"]
    /\ UNCHANGED master

\* The phone's link ends: the user, the phone or the distance.  Linked buds
\* get PHONE_LINK_DETACH besides.
PhoneLost ==
    /\ phoneAt # None
    /\ \E why \in PhoneEnds :
         LET hci == [Ev("HciDisconnect") EXCEPT !.why = why]
             tws == [Ev("PhoneDetach") EXCEPT !.why = why]
             all == CASE why = "user"    -> <<hci>>
                      [] why = "timeout" -> <<hci, Ev("HciTimeout")>>
                      [] why = "exists"  -> <<Ev("HciExist")>>
         IN PostAll(Listeners(phoneAt), LAMBDA x :
                      IF Linked THEN Append(all, tws) ELSE all)
    /\ phoneAt' = None
    /\ UNCHANGED <<bud, master>>

\* The 7.5 s of lmp_hci_write_page_timeout pass.  The window of a lone bud,
\* at most 6 s, is over before.
PageTimesOut(b) ==
    /\ bud[b].page /\ bud[b].sib
    /\ PostAll({b}, LAMBDA x : <<Ev("PageTimeout")>>)
    /\ bud' = [bud EXCEPT ![b].page = FALSE]
    /\ UNCHANGED Env

\* The master hands the phone over to its sibling.
RoleSwitch ==
    /\ Linked /\ phoneAt = master
    /\ \A b \in Buds : bud[b].on = "on"
    /\ master' = Sibling(master) /\ phoneAt' = Sibling(master)
    /\ PostAll(Buds, LAMBDA x : <<Ev("RoleSwitch")>>)
    /\ UNCHANGED bud

\* A synchronised call reaches both buds.
SyncCalls(b) ==
    /\ \E c \in bud[b].sync :
         /\ bud' = [bud EXCEPT ![b].sync = @ \ {c}]
         /\ PostAll(Buds, LAMBDA x : <<Ev(c)>>)
    /\ UNCHANGED Env

-----------------------------------------------------------------------------

Init ==
    /\ \E p \in BOOLEAN : bud = [b \in Buds |-> PoweredOff(p)]
    /\ evq = [b \in Buds |-> <<>>]
    /\ master = None
    /\ phoneAt = None

Bud(b) == \/ Handle(b)
          \/ PairTimer(b)
          \/ AutoShutDown(b)
          \/ PowerKey(b)
          \/ PowerOff(b)
          \/ PowerOn(b)

Stack == \/ LinkForms
         \/ LinkLost
         \/ \E b \in Buds : CreateTimesOut(b)
         \/ \E b \in Buds : PhoneConnects(b)
         \/ PhoneLost
         \/ \E b \in Buds : PageTimesOut(b)
         \/ RoleSwitch
         \/ \E b \in Buds : SyncCalls(b)

Next == (\E b \in Buds : Bud(b)) \/ Stack

Spec == Init /\ [][Next]_vars

\* A task that has an event handles it, a timer that is armed expires, the
\* stack delivers what it has taken and ends a search that has a timeout.
Fairness ==
    /\ \A b \in Buds : /\ WF_vars(Handle(b))
                       /\ WF_vars(PairTimer(b))
                       /\ WF_vars(AutoShutDown(b))
                       /\ WF_vars(CreateTimesOut(b))
                       /\ WF_vars(PageTimesOut(b))
                       /\ SF_vars(SyncCalls(b))

FairSpec == Spec /\ Fairness

\* The types; the counter of paging time stays within one window of its bounds.
TypeOK ==
    /\ bud \in [Buds -> BudType]
    /\ \A b \in Buds : Len(evq[b]) <= MaxBacklog + 3
    /\ master \in Buds \cup {None}
    /\ phoneAt \in Buds \cup {None}

\* A bud that is on, without sibling and phone, with nothing left to handle,
\* will do something: a timer is armed, a search will report its end, or it
\* looks for its sibling and can be found by the phone.  No order in which the
\* handlers of bt_tws.c run stops the switching between them.
NeverStranded ==
    \A b \in Buds :
        bud[b].on = "on" /\ evq[b] = <<>> /\ ~Linked /\ phoneAt # b
        => \/ bud[b].timer # None
           \/ bud[b].create = "timed"
           \/ bud[b].create = "untimed" /\ bud[b].scan = "pair"

\* Linked buds with nothing left to handle: only the master has a pair timer,
\* so the slave's connect_and_connectable_switch, which does not look at the
\* role, never runs beside the master's.
OneDriver ==
    \A b \in Buds :
        Linked /\ evq[b] = <<>> /\ b # master /\ bud[b].on = "on"
        => bud[b].timer = None

\* A bud that has handled the connection of its phone neither pages another
\* one nor has the timer armed that would (bt_tws_hci_event_connect).
PhoneLeftAlone ==
    \A b \in Buds :
        phoneAt = b /\ evq[b] = <<>>
        => bud[b].timer = None /\ ~bud[b].page

\* Paired buds that stay on, within reach of each other, get linked whether a
\* phone is connected or not: their alternation of searching, paging and
\* listening meets in a search of one and a listening of the other.
Reunion ==
    /\ SF_vars(LinkForms)
    /\ <>[][UNCHANGED phoneAt /\ (master # None => master' # None)]_vars
    /\ <>[](\A b \in Buds : bud[b].on = "on" /\ bud[b].paired)
    => <>[]Linked

\* Linked buds do not stay on without a phone: whatever restarts of the time
\* the two buds ordered, SYNC_CMD_POWER_OFF_TOGETHER is sent in the end.
PairSwitchesOff ==
    ~<>[](Linked /\ phoneAt = None /\ \A b \in Buds : bud[b].on = "on")

\* A bud without a phone can be found by one again and again, unless it is
\* the slave of a bud that can: no path through bt_tws.c leaves a bud that is
\* neither paging for ever nor discoverable.
Discoverable ==
    \A b \in Buds :
        ~<>[](/\ bud[b].on = "on" /\ phoneAt = None /\ bud[b].scan # "pair"
              /\ Role(b))

\* A bud does not stay on without any bluetooth connection: TCFG_AUTO_SHUT_
\* DOWN_TIME is, in board_ac700n_demo_cfg.h, the time after which it is
\* switched off.  The code does not keep this: a shut down timer that fires
\* while the bud counts as linked leaves its handle set, and the next
\* sys_auto_shut_down_enable starts none.
LoneSwitchesOff ==
    \A b \in Buds : ~<>[](bud[b].on = "on" /\ phoneAt # b /\ ~Linked)

=============================================================================
