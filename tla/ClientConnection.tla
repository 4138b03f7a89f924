-------------------------- MODULE ClientConnection --------------------------
(***************************************************************************)
(* The connection of the clients of one central to their backend:          *)
(* hahomematic/client/__init__.py (Client, ClientCCU, ClientJsonCCU,       *)
(* ClientHomegear), the check loop of central/__init__.py (_Scheduler) and *)
(* the connection issues an XmlRpcProxy records (client/xml_rpc.py).       *)
(*                                                                         *)
(* Every `await' ends an action: an action runs from the answer of one     *)
(* call to the start of the next, as the event loop does.  A call answers  *)
(* (or fails) within the tick it was made in, but for the calls of the     *)
(* reconnects of the clients in Slow, which may outlast checker intervals. *)
(* The clients are already created and have been through proxy_init once;  *)
(* starting, stopping and restarting them is the subject of                *)
(* CentralLifecycle.                                                       *)
(***************************************************************************)
EXTENDS Integers, FiniteSets

CONSTANTS
  Clients,          \* interface ids with a client (central._clients)
  Kind,             \* [Clients -> Kinds]: the class of the client
  Push,             \* the clients with supports_push_updates
  MaxFailedChecks,  \* the 3 in `self._connection_error_count > 3'
  WarnTicks,        \* CALLBACK_WARN_INTERVAL in checker intervals (40)
  ReconnectTicks,   \* RECONNECT_WAIT in checker intervals (8)
  Slow,             \* the clients whose reconnects may hang in a call
  Slots,            \* bound: reconnect() calls of one client alive at once
  Outages,          \* per client, how its calls can fail: see Reach
  Flaky,            \* the clients whose backend may restart again and again
  MaxFaults         \* bound: other faults of the backend in a behaviour

Kinds == {"CCU", "Homegear", "JsonCCU"}

ASSUME ClientsAssumption == IsFiniteSet(Clients) /\ Kind \in [Clients -> Kinds]
                            /\ Push \subseteq Clients /\ Slow \subseteq Clients
                            /\ Flaky \subseteq Clients
ASSUME BoundsAssumption == /\ MaxFailedChecks \in Nat /\ WarnTicks \in Nat \ {0}
                           /\ ReconnectTicks \in Nat \ {0} /\ MaxFaults \in Nat
                           /\ Slots # {}
                           /\ Outages \in [Clients -> SUBSET {"down", "fault", "denied"}]

VARIABLES
  \* the backend, as far as the client can tell
  reach,         \* what a call meets: see Reach
  registered,    \* the backend sends its events to this central
  missed,        \* a value changed and the central was never told
  faults,        \* the faults so far that count
  \* the client
  issue,         \* interface_id is in connection_state._xml_proxy_issues
  errorCount,    \* _connection_error_count, saturating just above the limit
  modifiedAt,    \* age of modified_at in ticks, or InitDatetime
  available,     \* _available
  forced,        \* the forced availabilities that occur among its devices
  callbackAlive, \* _is_callback_alive
  lastEvent,     \* age of central._last_events in ticks, or NoEvent
  pong,          \* a PONG event of the backend is on its way
  \* the check loop and the reconnects it has started
  pc,            \* where _run_check_connection is
  todo,          \* interface ids this round has still to look at
  current,       \* the set holding the client whose is_connected() is awaited
  reconnects,    \* the clients collected in `reconnects' and `reloads'
  awaited,       \* the reconnect() calls asyncio.gather waits for
  rec,           \* [Clients \X Slots -> RecStages]: progress of a reconnect()
  left           \* ticks its sleep(RECONNECT_WAIT) has left

backendVars == <<reach, registered, missed, faults>>
clientVars  == <<issue, errorCount, modifiedAt, available, forced,
                 callbackAlive, lastEvent, pong>>
schedVars   == <<pc, todo, current, reconnects, awaited, rec, left>>
vars        == <<backendVars, clientVars, schedVars>>

(* "up" answers; "down" is an OSError of _OS_ERROR_CODES; "fault" an XML-RPC
   Fault; "denied" a ProtocolError of the web server in front of the
   interface, as while a CCU boots. *)
Reach     == {"up", "down", "fault", "denied"}
RecStages == {"none", "ping", "wait", "deinit", "init"}
PcStages  == {"sleep", "check", "gather", "reload"}
Forced    == {"NOT_SET", "FORCE_FALSE"}
Tasks     == Clients \X Slots

InitDatetime == WarnTicks + 1       \* INIT_DATETIME: older than any interval
NoEvent      == -1                  \* get_last_event_dt() is None

SupportsXmlRpc(c)   == Kind[c] # "JsonCCU"
SupportsPingPong(c) == Kind[c] = "CCU"
CentralAvailable    == \A c \in Clients : available[c]

TypeOK ==
  /\ reach \in [Clients -> Reach]
  /\ registered \in [Clients -> BOOLEAN]
  /\ missed \in [Clients -> BOOLEAN]
  /\ faults \in 0..MaxFaults
  /\ issue \in [Clients -> BOOLEAN]
  /\ errorCount \in [Clients -> 0..(MaxFailedChecks + 1)]
  /\ modifiedAt \in [Clients -> 0..InitDatetime]
  /\ available \in [Clients -> BOOLEAN]
  /\ forced \in [Clients -> SUBSET Forced]
  /\ callbackAlive \in [Clients -> BOOLEAN]
  /\ lastEvent \in [Clients -> -1..(WarnTicks + 1)]
  /\ pong \in [Clients -> BOOLEAN]
  /\ pc \in PcStages
  /\ todo \subseteq Clients
  /\ current \subseteq Clients
  /\ reconnects \subseteq Clients
  /\ awaited \subseteq Tasks
  /\ rec \in [Tasks -> RecStages]
  /\ left \in [Tasks -> 0..ReconnectTicks]

(***************************************************************************)
(* After _init_clients: proxy_init has succeeded or failed for each client *)
(* (a failure is logged and the client kept).                              *)
(***************************************************************************)
Init ==
  /\ reach = [c \in Clients |-> "up"]
  /\ registered \in {r \in [Clients -> BOOLEAN] :
                       \A c \in Clients : r[c] => SupportsXmlRpc(c)}
  /\ missed = [c \in Clients |-> FALSE]
  /\ faults = 0
  /\ issue = [c \in Clients |-> FALSE]
  /\ errorCount = [c \in Clients |-> 0]
  /\ modifiedAt = [c \in Clients |-> IF registered[c] THEN 0 ELSE InitDatetime]
  /\ available = [c \in Clients |-> TRUE]
  /\ forced = [c \in Clients |-> {"NOT_SET"}]
  /\ callbackAlive = [c \in Clients |-> TRUE]
  /\ lastEvent = [c \in Clients |-> NoEvent]
  /\ pong = [c \in Clients |-> FALSE]
  /\ pc = "sleep"
  /\ todo = {} /\ current = {} /\ reconnects = {} /\ awaited = {}
  /\ rec = [t \in Tasks |-> "none"]
  /\ left = [t \in Tasks |-> 0]

-----------------------------------------------------------------------------
(* Calls.  ping, init and clientServerInitialized are sent even while an
   issue is recorded.  A ProtocolError that meets a recorded issue is
   swallowed: the call returns None and raises nothing. *)
Raises(c) == reach[c] \in {"down", "fault"} \/ (reach[c] = "denied" /\ ~issue[c])

IssueAfterCall(c) == CASE reach[c] = "up"   -> FALSE
                       [] reach[c] = "down" -> TRUE
                       [] OTHER             -> issue[c]

NoteIssue(c) == issue' = IF SupportsXmlRpc(c)
                         THEN [issue EXCEPT ![c] = IssueAfterCall(c)]
                         ELSE issue

(* The backend has executed init(url, id) or init(url): certainly when it
   answers, perhaps when the connection broke before the answer came. *)
Register(c, on) ==
  registered' \in {[registered EXCEPT ![c] = v] :
                     v \in CASE reach[c] = "up"   -> {on}
                             [] reach[c] = "down" -> {on, registered[c]}
                             [] OTHER             -> {registered[c]}}

(* For comparison, what the runs must notice: devices that are marked only when
   the client goes away, and a flag that is only ever cleared. *)
MarkDevicesLost(c, avail) ==
  /\ available' = [available EXCEPT ![c] = avail]
  /\ forced' = IF avail \/ forced[c] = {} THEN forced
               ELSE [forced EXCEPT ![c] = {"FORCE_FALSE"}]

MarkDevicesOneWay(c, avail) ==
  /\ available' = [available EXCEPT ![c] = available[c] /\ avail]
  /\ forced' = IF avail \/ forced[c] = {} THEN forced
               ELSE [forced EXCEPT ![c] = {"FORCE_FALSE"}]

(* _mark_all_devices_forced_availability *)
MarkAllDevices(c, avail) ==
  /\ available' = [available EXCEPT ![c] = avail]
  /\ forced' = IF available[c] = avail \/ forced[c] = {} THEN forced
               ELSE [forced EXCEPT ![c] =
                       {IF avail THEN "NOT_SET" ELSE "FORCE_FALSE"}]

(* check_connection_availability and the counting of is_connected, at the
   moment the answer of the ping is there. *)
FailedChecks(c) == IF ~Raises(c) THEN 0
                   ELSE IF errorCount[c] > MaxFailedChecks THEN errorCount[c]
                   ELSE errorCount[c] + 1

ModifiedAfterCheck(c) == IF ~SupportsXmlRpc(c) THEN modifiedAt[c]
                         ELSE IF Raises(c) THEN InitDatetime ELSE 0

\* off by one
NotConnectedLate(c) == FailedChecks(c) > MaxFailedChecks + 1

NotConnected(c) == FailedChecks(c) > MaxFailedChecks

IsConnectedResult(c) == /\ ~NotConnected(c)
                        /\ c \in Push => ModifiedAfterCheck(c) < WarnTicks

IsConnected(c) ==
  /\ NoteIssue(c)
  /\ errorCount' = [errorCount EXCEPT ![c] = FailedChecks(c)]
  /\ modifiedAt' = [modifiedAt EXCEPT ![c] = ModifiedAfterCheck(c)]
  /\ pong' = [pong EXCEPT ![c] = \/ pong[c]
                                 \/ /\ SupportsPingPong(c) /\ registered[c]
                                    /\ reach[c] = "up"]
  /\ IF NotConnected(c) THEN MarkAllDevices(c, FALSE)
                        ELSE UNCHANGED <<available, forced>>

\* the time of the last contact in the place of the last event
CallbackOverdueByContact(c) == SupportsPingPong(c) /\ modifiedAt[c] >= WarnTicks

(* is_callback_alive *)
CallbackOverdue(c) == SupportsPingPong(c) /\ lastEvent[c] > WarnTicks

\* never taken back
NoteCallbackDead(c) ==
  callbackAlive' = [callbackAlive EXCEPT ![c] = @ /\ ~CallbackOverdue(c)]

NoteCallbackAlive(c) ==
  callbackAlive' = IF SupportsPingPong(c) /\ lastEvent[c] # NoEvent
                   THEN [callbackAlive EXCEPT ![c] = ~CallbackOverdue(c)]
                   ELSE callbackAlive

-----------------------------------------------------------------------------
(* The check loop: _Scheduler._check_connection. *)
(* A client already known to be unavailable is not asked again. *)
CheckUnavailable(c) ==
  /\ pc = "check" /\ current = {} /\ c \in todo
  /\ ~available[c]
  /\ todo' = todo \ {c}
  /\ reconnects' = reconnects \cup {c}
  /\ UNCHANGED <<backendVars, clientVars, pc, current, awaited, rec, left>>

CheckAvailable(c) ==
  /\ pc = "check" /\ current = {} /\ c \in todo
  /\ available[c]
  /\ todo' = todo \ {c}
  /\ current' = {c}
  /\ UNCHANGED <<backendVars, clientVars, pc, reconnects, awaited, rec, left>>

CheckAnswered(c) ==
  /\ pc = "check" /\ current = {c}
  /\ IsConnected(c)
  /\ IF IsConnectedResult(c) THEN NoteCallbackAlive(c)
                             ELSE UNCHANGED callbackAlive
  /\ reconnects' = IF IsConnectedResult(c) /\ ~CallbackOverdue(c)
                   THEN reconnects ELSE reconnects \cup {c}
  /\ current' = {}
  /\ UNCHANGED <<backendVars, lastEvent, pc, todo, awaited, rec, left>>

(* asyncio.gather wraps every reconnect() in a task of its own.  Which free slot
   it gets says nothing. *)
FreeSlots(c) == {s \in Slots : rec[<<c, s>>] = "none"}
FreeSlot(c) == CHOOSE s \in FreeSlots(c) : TRUE
Started == {<<c, FreeSlot(c)>> : c \in reconnects}

StartReconnects ==
  /\ pc = "check" /\ todo = {} /\ current = {} /\ reconnects # {}
  /\ \A c \in reconnects : FreeSlots(c) # {}
  /\ rec' = [t \in Tasks |-> IF t \in Started THEN "ping" ELSE rec[t]]
  /\ awaited' = Started
  /\ pc' = "gather"
  /\ UNCHANGED <<backendVars, clientVars, todo, current, reconnects, left>>

NothingToReconnect ==
  /\ pc = "check" /\ todo = {} /\ current = {} /\ reconnects = {}
  /\ pc' = "sleep"
  /\ UNCHANGED <<backendVars, clientVars, todo, current, reconnects, awaited,
                 rec, left>>

\* gather not awaited; the reload condition inverted
ReconnectsDetached == pc = "gather"
MayReloadInverted == ~CentralAvailable

ReconnectsDone == \A t \in awaited : rec[t] = "none"
MayReload == CentralAvailable

(* All reconnects have returned: the affected interfaces are reloaded, but
   only when no client of the central is unavailable. *)
GatherDone ==
  /\ pc = "gather" /\ ReconnectsDone
  /\ awaited' = {}
  /\ IF MayReload
     THEN pc' = "reload" /\ UNCHANGED reconnects
     ELSE pc' = "sleep" /\ reconnects' = {}
  /\ UNCHANGED <<backendVars, clientVars, todo, current, rec, left>>

(* load_and_refresh_data_point_data of one interface has finished. *)
Reload(c) ==
  /\ pc = "reload" /\ c \in reconnects
  /\ missed' = [missed EXCEPT ![c] = missed[c] /\ reach[c] # "up"]
  /\ reconnects' = reconnects \ {c}
  /\ pc' = IF reconnects' = {} THEN "sleep" ELSE "reload"
  /\ UNCHANGED <<reach, registered, faults, clientVars, todo, current, awaited,
                 rec, left>>

-----------------------------------------------------------------------------
(* Client.reconnect, one call t = <<client, slot>>. *)
ReconnectAnswered(t) ==
  LET c == t[1] IN
  /\ rec[t] = "ping"
  /\ IsConnected(c)
  /\ IF IsConnectedResult(c)
     THEN /\ rec' = [rec EXCEPT ![t] = "wait"]
          /\ left' = [left EXCEPT ![t] = ReconnectTicks]
     ELSE rec' = [rec EXCEPT ![t] = "none"] /\ UNCHANGED left
  /\ UNCHANGED <<backendVars, callbackAlive, lastEvent, pc, todo, current,
                 reconnects, awaited>>

(* After the sleep proxy_re_init starts: proxy_de_init has nothing to do for
   a JSON client and skips one whose modified_at is INIT_DATETIME. *)
ReInit(t) ==
  LET c == t[1] IN
  /\ rec[t] = "wait" /\ left[t] = 0
  /\ rec' = [rec EXCEPT ![t] = IF SupportsXmlRpc(c) /\ modifiedAt[c] # InitDatetime
                               THEN "deinit" ELSE "init"]
  /\ UNCHANGED <<backendVars, clientVars, pc, todo, current, reconnects, awaited,
                 left>>

(* init(url): DE_INIT_FAILED ends the reconnect, success goes on to
   proxy_init. *)
DeInitAnswered(t) ==
  LET c == t[1] IN
  /\ rec[t] = "deinit"
  /\ NoteIssue(c)
  /\ Register(c, FALSE)
  /\ IF Raises(c)
     THEN rec' = [rec EXCEPT ![t] = "none"] /\ UNCHANGED modifiedAt
     ELSE /\ rec' = [rec EXCEPT ![t] = "init"]
          /\ modifiedAt' = [modifiedAt EXCEPT ![c] = InitDatetime]
  /\ UNCHANGED <<reach, missed, faults, errorCount, available, forced,
                 callbackAlive, lastEvent, pong, pc, todo, current, reconnects,
                 awaited, left>>

(* proxy_init of an XML-RPC client: init(url, interface_id). *)
InitAnswered(t) ==
  LET c == t[1] IN
  /\ rec[t] = "init" /\ SupportsXmlRpc(c)
  /\ NoteIssue(c)
  /\ Register(c, TRUE)
  /\ IF Raises(c)
     THEN /\ modifiedAt' = [modifiedAt EXCEPT ![c] = InitDatetime]
          /\ UNCHANGED <<available, forced>>
     ELSE /\ modifiedAt' = [modifiedAt EXCEPT ![c] = 0]
          /\ MarkAllDevices(c, TRUE)
  /\ rec' = [rec EXCEPT ![t] = "none"]
  /\ UNCHANGED <<reach, missed, faults, errorCount, callbackAlive, lastEvent, pong,
                 pc, todo, current, reconnects, awaited, left>>

(* proxy_init of a JSON client: the devices are listed and the new ones
   added; the wrapper of add_new_devices notes the time. *)
JsonInitAnswered(t) ==
  LET c == t[1] IN
  /\ rec[t] = "init" /\ ~SupportsXmlRpc(c)
  /\ ~Raises(c)
  /\ forced' \in {forced, [forced EXCEPT ![c] = @ \cup {"NOT_SET"}]}
  /\ modifiedAt' = [modifiedAt EXCEPT ![c] = 0]
  /\ rec' = [rec EXCEPT ![t] = "none"]
  /\ UNCHANGED <<backendVars, issue, errorCount, available, callbackAlive,
                 lastEvent, pong, pc, todo, current, reconnects, awaited, left>>

\* nobody catches the exception: the check loop has ended
JsonInitFailedForGood(t) ==
  /\ rec[t] = "init" /\ ~SupportsXmlRpc(t[1])
  /\ Raises(t[1])
  /\ rec' = [rec EXCEPT ![t] = "none"]
  /\ IF t \in awaited
     THEN pc' = "ended" /\ awaited' = {} /\ reconnects' = {}
     ELSE UNCHANGED <<pc, awaited, reconnects>>
  /\ UNCHANGED <<backendVars, clientVars, todo, current, left>>

(* list_devices() returned None: len(None) is a TypeError that leaves the
   gather, and with it the round, at once.  The other reconnects go on. *)
JsonInitFailed(t) ==
  /\ rec[t] = "init" /\ ~SupportsXmlRpc(t[1])
  /\ Raises(t[1])
  /\ rec' = [rec EXCEPT ![t] = "none"]
  /\ IF t \in awaited
     THEN pc' = "sleep" /\ awaited' = {} /\ reconnects' = {}
     ELSE UNCHANGED <<pc, awaited, reconnects>>
  /\ UNCHANGED <<backendVars, clientVars, todo, current, left>>

-----------------------------------------------------------------------------
(* Time: CONNECTION_CHECKER_INTERVAL passes while the check loop and every
   reconnect sleep, or hang in a call that takes its time: as long as there
   is a slot left for the next reconnect of the client.  A time nobody compares
   does not age. *)
MaySleep(t) == \/ rec[t] = "none"
               \/ rec[t] = "wait" /\ left[t] > 0
               \/ rec[t] # "wait" /\ t[1] \in Slow /\ FreeSlots(t[1]) # {}

OlderForever(age, top) == age + 1    \* an age that is not bounded
Older(age, top) == IF age < top THEN age + 1 ELSE top

Tick ==
  /\ \/ pc = "sleep"
     \/ pc = "gather" /\ \E t \in awaited : rec[t] # "none"
  /\ \A t \in Tasks : MaySleep(t)
  /\ modifiedAt' = [c \in Clients |->
                      IF modifiedAt[c] = InitDatetime \/ c \notin Push
                      THEN modifiedAt[c] ELSE Older(modifiedAt[c], WarnTicks)]
  /\ lastEvent' = [c \in Clients |->
                     IF lastEvent[c] = NoEvent \/ ~SupportsPingPong(c)
                     THEN lastEvent[c] ELSE Older(lastEvent[c], WarnTicks + 1)]
  /\ left' = [t \in Tasks |-> IF left[t] > 0 THEN left[t] - 1 ELSE 0]
  /\ IF pc = "sleep" THEN pc' = "check" /\ todo' = Clients
                     ELSE UNCHANGED <<pc, todo>>
  /\ UNCHANGED <<backendVars, issue, errorCount, available, forced, callbackAlive,
                 pong, current, reconnects, awaited, rec>>

(* An event of the backend: data_point_event sets the time of the last event,
   its wrapper callback_event the client's modified_at. *)
NoteEvent(c) ==
  /\ lastEvent' = [lastEvent EXCEPT ![c] = 0]
  /\ modifiedAt' = [modifiedAt EXCEPT ![c] = 0]

PongEvent(c) ==
  /\ pong[c]
  /\ pong' = [pong EXCEPT ![c] = FALSE]
  /\ NoteEvent(c)
  /\ UNCHANGED <<backendVars, issue, errorCount, available, forced, callbackAlive,
                 schedVars>>

ValueEvent(c) ==
  /\ reach[c] # "down"
  /\ registered[c] \/ (~SupportsXmlRpc(c) /\ c \in Push)
  /\ NoteEvent(c)
  /\ UNCHANGED <<backendVars, issue, errorCount, available, forced, callbackAlive,
                 pong, schedVars>>

(* A value changes that nobody tells the central about. *)
ValueMissed(c) ==
  /\ ~registered[c] /\ (SupportsXmlRpc(c) \/ c \notin Push)
  /\ missed' = [missed EXCEPT ![c] = TRUE]
  /\ UNCHANGED <<reach, registered, faults, clientVars, schedVars>>

(* newDevices: new devices are available whatever the client is. *)
NewDevices(c) ==
  /\ registered[c] /\ reach[c] # "down"
  /\ forced' = [forced EXCEPT ![c] = @ \cup {"NOT_SET"}]
  /\ modifiedAt' = [modifiedAt EXCEPT ![c] = 0]
  /\ UNCHANGED <<backendVars, issue, errorCount, available, callbackAlive,
                 lastEvent, pong, schedVars>>

(* The scheduler polls a client that has no push updates. *)
PollClient(c) ==
  /\ c \notin Push /\ CentralAvailable
  /\ missed' = [missed EXCEPT ![c] = missed[c] /\ reach[c] # "up"]
  /\ lastEvent' = [lastEvent EXCEPT ![c] = 0]
  /\ UNCHANGED <<reach, registered, faults, issue, errorCount, modifiedAt,
                 available, forced, callbackAlive, pong, schedVars>>

(* central.is_alive is a property with a side effect. *)
AskIsAlive(c) ==
  /\ NoteCallbackAlive(c)
  /\ callbackAlive' # callbackAlive
  /\ UNCHANGED <<backendVars, issue, errorCount, modifiedAt, available, forced,
                 lastEvent, pong, schedVars>>

(* Any other call of a proxy, e.g. setValue.  It is refused while an issue is
   recorded; one that was under way before may still be answered. *)
ApiCall(c) ==
  /\ SupportsXmlRpc(c)
  /\ reach[c] = "down" => ~issue[c]
  /\ NoteIssue(c)
  /\ issue' # issue
  /\ UNCHANGED <<backendVars, errorCount, modifiedAt, available, forced,
                 callbackAlive, lastEvent, pong, schedVars>>

-----------------------------------------------------------------------------
(* The environment. *)
Fault(c) ==
  /\ faults < MaxFaults
  /\ faults' = faults + 1
  /\ \E r \in Outages[c] \ {reach[c]} : reach' = [reach EXCEPT ![c] = r]
  /\ UNCHANGED <<registered, missed, clientVars, schedVars>>

Recover(c) ==
  /\ reach[c] # "up"
  /\ reach' = [reach EXCEPT ![c] = "up"]
  /\ UNCHANGED <<registered, missed, faults, clientVars, schedVars>>

(* The interface process restarts and forgets who wanted its events. *)
BackendRestart(c) ==
  /\ registered[c]
  /\ \/ faults < MaxFaults /\ faults' = faults + 1
     \/ c \in Flaky /\ UNCHANGED faults
  /\ registered' = [registered EXCEPT ![c] = FALSE]
  /\ UNCHANGED <<reach, missed, clientVars, schedVars>>

-----------------------------------------------------------------------------
CheckStep == \/ NothingToReconnect \/ StartReconnects \/ GatherDone
             \/ \E c \in Clients : \/ CheckUnavailable(c) \/ CheckAvailable(c)
                                  \/ CheckAnswered(c) \/ Reload(c)

ReconnectStep(t) == \/ ReconnectAnswered(t) \/ ReInit(t) \/ DeInitAnswered(t)
                    \/ InitAnswered(t) \/ JsonInitAnswered(t) \/ JsonInitFailed(t)

EventStep(c) == \/ PongEvent(c) \/ ValueEvent(c) \/ ValueMissed(c) \/ NewDevices(c)
                \/ PollClient(c) \/ AskIsAlive(c) \/ ApiCall(c)

BackendStep(c) == Fault(c) \/ Recover(c) \/ BackendRestart(c)

Next == \/ CheckStep
        \/ \E t \in Tasks : ReconnectStep(t)
        \/ Tick
        \/ \E c \in Clients : EventStep(c) \/ BackendStep(c)

Spec == Init /\ [][Next]_vars

(* The event loop runs every task that is ready and time passes; a PONG that
   was sent arrives; the scheduler polls; an outage of the backend ends. *)
Fairness ==
  /\ WF_vars(CheckStep) /\ WF_vars(Tick)
  /\ \A t \in Tasks : WF_vars(ReconnectStep(t))
  /\ \A c \in Clients : /\ WF_vars(PongEvent(c)) /\ WF_vars(PollClient(c))
                        /\ WF_vars(Recover(c))

FairSpec == Spec /\ Fairness

-----------------------------------------------------------------------------
(* A device is never left forced unavailable by a client that is available
   (_mark_all_devices_forced_availability is the only one that forces). *)
NoStuckDevice == \A c \in Clients : available[c] => "FORCE_FALSE" \notin forced[c]

(* A client whose checks have failed beyond the limit is not shown as
   available, whatever reconnect is under way (is_connected, proxy_init). *)
FailingIsUnavailable ==
  \A c \in Clients : errorCount[c] > MaxFailedChecks => ~available[c]

(* The check loop does not look at a client while it is being reconnected. *)
ChecksAndReconnectsAlternate ==
  pc # "gather" => \A t \in Tasks : rec[t] = "none"

(* A client that has had an event is registered again after the backend has
   lost its registration ("Reconnect clients based on outstanding xml callback
   events": is_callback_alive, reconnect, proxy_re_init), also when the failure
   of another client ends a round early and two of its reconnects overlap
   (_check_connection). *)
RegistrationRestored ==
  \A c \in Clients :
    (SupportsXmlRpc(c) /\ ~registered[c] /\ lastEvent[c] # NoEvent)
      ~> registered[c]

(* A client that was marked unavailable is marked available again once the
   backend answers (is_connected, reconnect, proxy_init). *)
AvailabilityRestored == \A c \in Clients : ~available[c] ~> available[c]

(* Values that changed while the backend did not know the central are reloaded,
   as long as the client's own backend keeps answering (the reloads of
   _check_connection). *)
ValuesReloaded ==
  \A c \in Clients :
    [](reach[c] = "up") => ((missed[c] /\ lastEvent[c] # NoEvent) ~> ~missed[c])

(* A CALLBACK event that reported the server as silent is taken back
   (is_callback_alive). *)
CallbackRestored == \A c \in Clients : ~callbackAlive[c] ~> callbackAlive[c]

=============================================================================
