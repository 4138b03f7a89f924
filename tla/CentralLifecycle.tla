-------------------------- MODULE CentralLifecycle --------------------------
(***************************************************************************)
(* Starting, stopping and restarting the clients of a central:             *)
(* start, stop, restart_clients and what they call in                      *)
(* hahomematic/central/__init__.py, beside the check loop of _Scheduler.   *)
(*                                                                         *)
(* The caller of start() and stop() and the check loop are two processes   *)
(* of one event loop: an action runs from one answered `await' to the next *)
(* call.  Both may be inside _stop_clients, or one of them there and the   *)
(* other in _start_clients, working on the same dictionary of clients.     *)
(* Clients are XML-RPC clients.  Whether a client needs a reconnect is     *)
(* left open here; ClientConnection says when it does.                     *)
(***************************************************************************)
EXTENDS Integers, FiniteSets

CONSTANTS
  Interfaces,   \* the configured interfaces
  Candidates,   \* those in PRIMARY_CLIENT_CANDIDATE_INTERFACES
  Listings,     \* what system_information.available_interfaces may be
  MaxStarts,    \* bound: calls of start() in a behaviour
  MaxFaults     \* bound: outages of the backend in a behaviour

ASSUME InterfacesAssumption ==
  /\ IsFiniteSet(Interfaces) /\ Interfaces # {}
  /\ Candidates \subseteq Interfaces /\ Listings \subseteq SUBSET Interfaces
ASSUME BoundsAssumption == MaxStarts \in Nat /\ MaxFaults \in Nat

VARIABLES
  \* the backend
  up,          \* the interface answers
  listed,      \* available_interfaces
  registered,  \* it sends its events to this central
  faults,      \* outages so far
  \* the central
  enabled,     \* the enabled interface configs
  client,      \* _clients: "none", "live", or "stopped" (executors shut down)
  modified,    \* modified_at of that client is not INIT_DATETIME
  primary,     \* a client is cached in _primary_client
  device,      \* the client the devices of the interface hold on to
  leaked,      \* interfaces with a live client that no dictionary holds
  \* the processes
  user,        \* the caller of start() and stop()
  starts,      \* calls of start() so far
  check,       \* the check loop
  active,      \* _Scheduler._active
  at,          \* per process, where in _stop_clients or _start_clients it is
  todo,        \* per process, the interfaces its loop has not done yet
  size,        \* per process, the size of the dictionary its loop began with
  rec,         \* the reconnect() of the interface's client
  recOld       \* that client is no longer the one in _clients

backendVars == <<up, listed, registered, faults>>
clientVars  == <<enabled, client, modified, primary, device, leaked>>
procVars    == <<user, starts, check, active, at, todo, size>>
recVars     == <<rec, recOld>>
vars        == <<backendVars, clientVars, procVars, recVars>>

Procs  == {"user", "check"}
Stages == {"idle", "deinit", "stop", "create", "load", "init"}
Uses   == {"none", "current", "old"}    \* none yet, the one in _clients, a former one

Present == {i \in Interfaces : client[i] # "none"}
\* one client would be enough
HasSomeClient        == Present # {}
HasAllEnabledClients == Present # {} /\ Cardinality(Present) = Cardinality(enabled)

TypeOK ==
  /\ up \in [Interfaces -> BOOLEAN] /\ listed \in Listings
  /\ registered \in [Interfaces -> BOOLEAN] /\ faults \in 0..MaxFaults
  /\ enabled \subseteq Interfaces
  /\ client \in [Interfaces -> {"none", "live", "stopped"}]
  /\ modified \in [Interfaces -> BOOLEAN]
  /\ primary \in BOOLEAN /\ device \in [Interfaces -> Uses]
  /\ leaked \subseteq Interfaces
  /\ user \in {"down", "starting", "up", "stopping", "draining", "broken"}
  /\ starts \in 0..MaxStarts
  /\ check \in {"off", "asleep", "ping", "gather", "restarting", "ended"}
  /\ active \in BOOLEAN
  /\ at \in [Procs -> Stages] /\ todo \in [Procs -> SUBSET Interfaces]
  /\ size \in [Procs -> 0..Cardinality(Interfaces)]
  /\ rec \in [Interfaces -> {"none", "chosen", "ping", "wait", "deinit", "init"}]
  /\ recOld \in [Interfaces -> BOOLEAN]

Init ==
  /\ up \in [Interfaces -> BOOLEAN] /\ listed \in Listings
  /\ registered = [i \in Interfaces |-> FALSE] /\ faults = 0
  /\ enabled = Interfaces
  /\ client = [i \in Interfaces |-> "none"]
  /\ modified = [i \in Interfaces |-> FALSE]
  /\ primary = FALSE /\ device = [i \in Interfaces |-> "none"] /\ leaked = {}
  /\ user = "down" /\ starts = 0 /\ check = "off" /\ active = TRUE
  /\ at = [p \in Procs |-> "idle"] /\ todo = [p \in Procs |-> {}]
  /\ size = [p \in Procs |-> 0]
  /\ rec = [i \in Interfaces |-> "none"] /\ recOld = [i \in Interfaces |-> FALSE]

-----------------------------------------------------------------------------
(* A call of the client of i is executed by the backend. *)
Works(i) == up[i] /\ client[i] = "live"

Goto(p, stage, work, count) ==
  /\ at' = [at EXCEPT ![p] = stage]
  /\ todo' = [todo EXCEPT ![p] = work]
  /\ size' = [size EXCEPT ![p] = count]

(* The process leaves _stop_clients or _start_clients by an exception: stop()
   and start() end with it, the check loop logs it. *)
Raise(p) ==
  /\ Goto(p, "idle", {}, 0)
  /\ IF p = "user"
     THEN user' = (IF user = "starting" THEN "down" ELSE "broken") /\ UNCHANGED check
     ELSE check' = "asleep" /\ UNCHANGED user

(* _start_clients has returned.  A thread can be started once only. *)
Started(p) ==
  /\ Goto(p, "idle", {}, 0)
  /\ IF p = "check" THEN check' = "asleep" /\ UNCHANGED user
     ELSE IF check = "off" THEN check' = "asleep" /\ user' = "up"
     ELSE user' = "down" /\ UNCHANGED check

(* `for client in self._clients.values()' after the body has run for i: a
   dictionary of another size raises.  The loop goes on in the same stage. *)
SizeChanged(p, now) == Cardinality(now) # size[p]
Rest(p, i, now)     == (todo[p] \ {i}) \cap now

\* a loop that ends after one client; a check loop nobody stops
EndAtOnce(p, i) == TRUE
KeepChecker     == active' = active

EndOfLoop(p, i) == Rest(p, i, Present) = {}

NextItem(p, i) == Goto(p, at[p], Rest(p, i, Present), size[p])

(* _stop_connection_checker *)
StopConnectionChecker == active' = FALSE

(* start(): clients that exist are not created again, and then not initialised
   either. *)
Start ==
  /\ user = "down" /\ starts < MaxStarts
  /\ starts' = starts + 1
  /\ IF Present # {} THEN Started("user")
     ELSE Goto("user", "create", enabled, 0) /\ user' = "starting" /\ UNCHANGED check
  /\ UNCHANGED <<backendVars, clientVars, active, recVars>>

(* stop(), once save_caches has returned *)
Stop ==
  /\ user \in {"up", "broken"}
  /\ StopConnectionChecker
  /\ IF Present # {}
     THEN Goto("user", "deinit", Present, Cardinality(Present)) /\ user' = "stopping"
     ELSE user' = "draining" /\ UNCHANGED <<at, todo, size>>
  /\ UNCHANGED <<backendVars, clientVars, starts, check, recVars>>

-----------------------------------------------------------------------------
(* _stop_clients *)
(* proxy_de_init of one client has returned; it does nothing for a client that
   counts as not initialised. *)
DeInitClient(p, i) ==
  /\ at[p] = "deinit" /\ i \in todo[p]
  /\ registered' \in {[registered EXCEPT ![i] = v] :
                        v \in IF ~modified[i] \/ client[i] # "live" THEN {registered[i]}
                              ELSE IF up[i] THEN {FALSE} ELSE {FALSE, registered[i]}}
  /\ modified' = [modified EXCEPT ![i] = @ /\ ~Works(i)]
  /\ IF SizeChanged(p, Present) THEN Raise(p)
     ELSE /\ IF EndOfLoop(p, i) THEN Goto(p, "stop", Present, Cardinality(Present))
                                ELSE NextItem(p, i)
          /\ UNCHANGED <<user, check>>
  /\ UNCHANGED <<up, listed, faults, enabled, client, primary, device, leaked,
                 starts, active, recVars>>

\* executors left running; executors shut down without waiting; a former client
\* that is lost
LeftRunning(i)  == client
NobodyWaits(i)  == TRUE
FormerLost(use) == IF use = "current" THEN "gone" ELSE use

Former(use) == IF use = "current" THEN "old" ELSE use

(* XmlRpcProxy.stop waits for the calls of the client. *)
CallsDone(i) == recOld[i] \/ rec[i] \notin {"deinit", "init"}

(* client.stop() has waited for the calls of the client and shut its executor
   down. *)
StoppedClient(i) == IF client[i] = "none" THEN client
                    ELSE [client EXCEPT ![i] = "stopped"]

(* After the last one _clients is cleared; what was in it remains the client of
   its devices.  restart_clients goes on with _start_clients, stop() waits for
   the tasks. *)
ClearClients(p, stopped) ==
  /\ client' = [i \in Interfaces |-> "none"]
  /\ leaked' = leaked \cup {i \in Interfaces : stopped[i] = "live"}
  /\ device' = [i \in Interfaces |-> Former(device[i])]
  /\ recOld' = [i \in Interfaces |-> recOld[i] \/ rec[i] # "none"]
  /\ IF p = "user" THEN Goto(p, "idle", {}, 0) /\ user' = "draining"
                   ELSE Goto(p, "create", enabled, 0) /\ UNCHANGED user
  /\ UNCHANGED check

StopClient(p, i) ==
  /\ at[p] = "stop" /\ i \in todo[p]
  /\ CallsDone(i)
  /\ IF ~SizeChanged(p, Present) /\ EndOfLoop(p, i) THEN ClearClients(p, StoppedClient(i))
     ELSE /\ client' = StoppedClient(i)
          /\ IF SizeChanged(p, Present) THEN Raise(p)
             ELSE NextItem(p, i) /\ UNCHANGED <<user, check>>
          /\ UNCHANGED <<leaked, device, recOld>>
  /\ UNCHANGED <<backendVars, enabled, modified, primary, starts, active, rec>>

(* block_till_done: the check loop, and with it every reconnect, has ended. *)
Drained ==
  /\ user = "draining" /\ check \in {"off", "ended"}
  /\ user' = "down"
  /\ UNCHANGED <<backendVars, clientVars, starts, check, active, at, todo, size,
                 recVars>>

-----------------------------------------------------------------------------
(* _start_clients *)
(* primary_client caches a candidate, and for want of one whatever client the
   loop of _get_primary_client saw last. *)
PrimaryKnown == primary \/ Present # {}

(* A secondary interface the primary client's backend does not list is
   disabled. *)
Unavailable(i) == i \notin Candidates /\ PrimaryKnown /\ i \notin listed

CreateClient(p, i) ==
  /\ at[p] = "create" /\ i \in todo[p]
  /\ i \in Candidates \/ todo[p] \cap Candidates = {}
  /\ primary' = IF i \in Candidates THEN primary ELSE PrimaryKnown
  /\ IF Unavailable(i)
     THEN enabled' = enabled \ {i} /\ UNCHANGED <<client, modified, leaked, device>>
     ELSE IF up[i]
     THEN /\ client' = [client EXCEPT ![i] = "live"]
          /\ modified' = [modified EXCEPT ![i] = TRUE]
          /\ leaked' = IF client[i] = "live" THEN leaked \cup {i} ELSE leaked
          /\ device' = [device EXCEPT ![i] = Former(@)]
          /\ UNCHANGED enabled
     ELSE UNCHANGED <<enabled, client, modified, leaked, device>>
  /\ Goto(p, "create", todo[p] \ {i}, 0)
  /\ UNCHANGED <<backendVars, user, starts, check, active, recVars>>

(* All clients are created, or a primary client is known; or _start_clients gives
   up. *)
ClientsCreated(p) ==
  /\ at[p] = "create" /\ todo[p] = {}
  /\ primary' = PrimaryKnown
  /\ IF HasAllEnabledClients \/ PrimaryKnown
     THEN Goto(p, "load", {}, 0) /\ UNCHANGED <<user, check>>
     ELSE Started(p)
  /\ UNCHANGED <<backendVars, enabled, client, modified, device, leaked, starts,
                 active, recVars>>

(* The caches are loaded, the devices they describe created for the clients that
   exist, the hub initialised; then _init_clients begins.  A device that exists
   keeps the client it has. *)
BeginInit(p) ==
  /\ at[p] = "load"
  /\ \E new \in SUBSET {i \in Present : device[i] = "none"} :
       device' = [i \in Interfaces |-> IF i \in new THEN "current" ELSE device[i]]
  /\ IF Present = {} THEN Started(p)
     ELSE /\ Goto(p, "init", Present, Cardinality(Present))
          /\ UNCHANGED <<user, check>>
  /\ UNCHANGED <<backendVars, enabled, client, modified, primary, leaked, starts,
                 active, recVars>>

(* proxy_init of one client has returned. *)
InitClient(p, i) ==
  /\ at[p] = "init" /\ i \in todo[p]
  /\ PrimaryKnown /\ i \in listed
  /\ primary' = PrimaryKnown
  /\ registered' \in {[registered EXCEPT ![i] = v] :
                        v \in IF client[i] # "live" THEN {registered[i]}
                              ELSE IF up[i] THEN {TRUE} ELSE {TRUE, registered[i]}}
  /\ modified' = [modified EXCEPT ![i] = Works(i)]
  /\ IF SizeChanged(p, Present) THEN Raise(p)
     ELSE IF EndOfLoop(p, i) THEN Started(p)
     ELSE NextItem(p, i) /\ UNCHANGED <<user, check>>
  /\ UNCHANGED <<up, listed, faults, enabled, client, device, leaked, starts, active,
                 recVars>>

(* A client whose interface is not listed is deleted while the loop runs over
   the dictionary: the next iteration raises. *)
DropClient(p, i) ==
  /\ at[p] = "init" /\ i \in todo[p]
  /\ ~PrimaryKnown \/ i \notin listed
  /\ primary' = PrimaryKnown
  /\ client' = [client EXCEPT ![i] = "none"]
  /\ leaked' = IF client[i] = "live" THEN leaked \cup {i} ELSE leaked
  /\ device' = [device EXCEPT ![i] = Former(@)]
  /\ Raise(p)
  /\ UNCHANGED <<backendVars, enabled, modified, starts, active, recVars>>

-----------------------------------------------------------------------------
(* The check loop *)
CheckRestarts ==
  /\ check = "asleep" /\ active /\ ~HasAllEnabledClients
  /\ check' = "restarting"
  /\ IF Present # {} THEN Goto("check", "deinit", Present, Cardinality(Present))
                     ELSE Goto("check", "create", enabled, 0)
  /\ UNCHANGED <<backendVars, clientVars, user, starts, active, recVars>>

CheckPings ==
  /\ check = "asleep" /\ active /\ HasAllEnabledClients
  /\ check' = "ping"
  /\ Goto("check", "idle", Present, 0)
  /\ UNCHANGED <<backendVars, clientVars, user, starts, active, recVars>>

CheckEnds ==
  /\ check = "asleep" /\ ~active
  /\ check' = "ended"
  /\ UNCHANGED <<backendVars, clientVars, user, starts, active, at, todo, size,
                 recVars>>

(* is_connected has answered for i.  A client that is gone raises in
   get_client and ends the round. *)
PingAnswered(i) ==
  /\ check = "ping" /\ i \in todo["check"]
  /\ IF client[i] = "none"
     THEN /\ check' = "asleep"
          /\ Goto("check", "idle", {}, 0)
          /\ rec' = [j \in Interfaces |-> "none"]
          /\ UNCHANGED modified
     ELSE /\ modified' = [modified EXCEPT ![i] = Works(i)]
          /\ rec' \in {rec, [rec EXCEPT ![i] = "chosen"]}
          /\ Goto("check", "idle", todo["check"] \ {i}, 0)
          /\ UNCHANGED check
  /\ UNCHANGED <<backendVars, enabled, client, primary, device, leaked, user, starts,
                 active, recOld>>

BeginGather ==
  /\ check = "ping" /\ todo["check"] = {}
  /\ check' = "gather"
  /\ rec' = [i \in Interfaces |-> IF rec[i] = "chosen" THEN "ping" ELSE "none"]
  /\ UNCHANGED <<backendVars, clientVars, user, starts, active, at, todo, size, recOld>>

GatherDone ==
  /\ check = "gather" /\ \A i \in Interfaces : rec[i] = "none"
  /\ check' = "asleep"
  /\ recOld' = [i \in Interfaces |-> FALSE]
  /\ UNCHANGED <<backendVars, clientVars, user, starts, active, at, todo, size, rec>>

(* reconnect(): its client may have been stopped, and taken out of _clients,
   at any `await'.  A stopped client raises in every call. *)
RecWorks(i) == Works(i) /\ ~recOld[i]

RecPinged(i) ==
  /\ rec[i] = "ping"
  /\ rec' = [rec EXCEPT ![i] = IF RecWorks(i) THEN "wait" ELSE "none"]
  /\ modified' = IF recOld[i] THEN modified ELSE [modified EXCEPT ![i] = Works(i)]
  /\ UNCHANGED <<backendVars, enabled, client, primary, device, leaked, procVars, recOld>>

(* RECONNECT_WAIT is over: proxy_re_init *)
RecWakes(i) ==
  /\ rec[i] = "wait"
  /\ rec' = [rec EXCEPT ![i] = IF recOld[i] \/ client[i] # "live" THEN "none"
                               ELSE IF modified[i] THEN "deinit" ELSE "init"]
  /\ UNCHANGED <<backendVars, clientVars, procVars, recOld>>

RecDeInit(i) ==
  /\ rec[i] = "deinit"
  /\ registered' \in {[registered EXCEPT ![i] = v] :
                        v \in IF up[i] THEN {FALSE} ELSE {FALSE, registered[i]}}
  /\ modified' = [modified EXCEPT ![i] = @ /\ ~up[i]]
  /\ rec' = [rec EXCEPT ![i] = IF up[i] THEN "init" ELSE "none"]
  /\ UNCHANGED <<up, listed, faults, enabled, client, primary, device, leaked,
                 procVars, recOld>>

RecInit(i) ==
  /\ rec[i] = "init"
  /\ registered' \in {[registered EXCEPT ![i] = v] :
                        v \in IF up[i] THEN {TRUE} ELSE {TRUE, registered[i]}}
  /\ modified' = [modified EXCEPT ![i] = up[i]]
  /\ rec' = [rec EXCEPT ![i] = "none"]
  /\ UNCHANGED <<up, listed, faults, enabled, client, primary, device, leaked,
                 procVars, recOld>>

-----------------------------------------------------------------------------
(* The environment *)
(* newDevices: the devices of an interface are created with its client. *)
NewDevices(i) ==
  /\ registered[i] /\ up[i] /\ client[i] # "none" /\ device[i] = "none"
  /\ device' = [device EXCEPT ![i] = "current"]
  /\ UNCHANGED <<backendVars, enabled, client, modified, primary, leaked, procVars,
                 recVars>>

Fault(i) ==
  /\ up[i] /\ faults < MaxFaults
  /\ up' = [up EXCEPT ![i] = FALSE]
  /\ faults' = faults + 1
  /\ UNCHANGED <<listed, registered, clientVars, procVars, recVars>>

Recover(i) ==
  /\ ~up[i]
  /\ up' = [up EXCEPT ![i] = TRUE]
  /\ UNCHANGED <<listed, registered, faults, clientVars, procVars, recVars>>

-----------------------------------------------------------------------------
StopStep(p)  == \E i \in Interfaces : DeInitClient(p, i) \/ StopClient(p, i)
StartStep(p) == \/ ClientsCreated(p) \/ BeginInit(p)
                \/ \E i \in Interfaces : \/ CreateClient(p, i) \/ InitClient(p, i)
                                         \/ DropClient(p, i)
CheckStep    == \/ CheckRestarts \/ CheckPings \/ CheckEnds \/ BeginGather \/ GatherDone
                \/ \E i \in Interfaces : PingAnswered(i)
RecStep(i)   == RecPinged(i) \/ RecWakes(i) \/ RecDeInit(i) \/ RecInit(i)

Next == \/ Start \/ Stop \/ Drained
        \/ \E p \in Procs : StopStep(p) \/ StartStep(p)
        \/ CheckStep
        \/ \E i \in Interfaces : RecStep(i) \/ NewDevices(i) \/ Fault(i) \/ Recover(i)

Spec == Init /\ [][Next]_vars

(* The event loop runs what is ready, calls return, outages end.  Nobody has to
   call start() or stop(). *)
Fairness ==
  /\ WF_vars(CheckStep) /\ WF_vars(Drained)
  /\ \A p \in Procs : WF_vars(StopStep(p)) /\ WF_vars(StartStep(p))
  /\ \A i \in Interfaces : WF_vars(RecStep(i)) /\ WF_vars(Recover(i))

FairSpec == Spec /\ Fairness

-----------------------------------------------------------------------------
(* While nobody has called stop(), a client is never dropped with its executors
   running: every restart stops the clients it replaces (_stop_clients).  The
   backend has to list every interface; see DropClient. *)
NoClientLost == user = "up" /\ listed = Interfaces => leaked = {}

(* The executors of a client are not shut down below a call that is under way
   (XmlRpcProxy.stop). *)
NoCallCutOff ==
  \A i \in Interfaces : rec[i] \in {"deinit", "init"} => client[i] = "live" /\ ~recOld[i]

(* A central that runs gets all its clients, however many of them could not be
   created when it was started (_check_connection, restart_clients). *)
ClientsRestored ==
  user = "up" /\ Candidates \subseteq listed ~> user # "up" \/ Present = enabled

(* stop() comes to an end, by an exception if not otherwise: the check loop, its
   restarts and its reconnects all end. *)
StopEnds == user \in {"stopping", "draining"} ~> user \in {"down", "broken"}

(* A stop() that finds the check loop asleep and the backend reachable for good
   leaves neither a registration nor a client behind. *)
CleanStop ==
  (/\ user = "stopping" /\ at["user"] = "deinit" /\ todo["user"] = Present
   /\ size["user"] = Cardinality(Present)
   /\ check = "asleep" /\ leaked = {} /\ faults = MaxFaults
   /\ \A i \in Interfaces : /\ up[i]
                            /\ registered[i] => client[i] = "live" /\ modified[i])
  ~> (user = "down" /\ leaked = {} /\ \A i \in Interfaces : ~registered[i] /\ client[i] = "none")
=============================================================================
