--------------------------- MODULE DeviceRegistry ---------------------------
(***************************************************************************)
(* How a device of one interface becomes known, stays known and is         *)
(* forgotten: newDevices and deleteDevices of the XML-RPC server,          *)
(* _add_new_devices, _create_devices, delete_devices and the loading and   *)
(* saving of the two persistent caches around them, in                     *)
(* hahomematic/central/__init__.py.                                        *)
(*                                                                         *)
(* Coroutines of one event loop: "add" is the _add_new_devices inside      *)
(* _sema_add_devices (the others queue), "boot" is start(), stop() or a    *)
(* restart of the clients, "user" is clear_caches.  An action runs from    *)
(* one answered await to the next call.  A device stands for itself and    *)
(* its channels, one description and one paramset fetch for all of them.   *)
(***************************************************************************)
EXTENDS Integers, Sequences, FiniteSets, SequencesExt

CONSTANTS
  Devices,      \* addresses of devices
  MaxPairs,     \* bound: devices paired with the backend
  Troubles,     \* what may happen to it otherwise
  MaxTroubles   \* bound: how often, all of them together

ASSUME DevicesAssumption == IsFiniteSet(Devices)
ASSUME BoundsAssumption ==
  /\ MaxPairs \in Nat /\ MaxTroubles \in Nat
  /\ Troubles \subseteq {"unpair", "crash", "restart", "stop", "fault", "clear"}

VARIABLES
  \* the backend
  paired,      \* devices it has
  registered,  \* it sends its calls to this central
  announce,    \* it is to compare its devices with those of list_devices
  \* the caches
  dMem, dSaved, dDisk, dIo, dHash,  \* of device descriptions
  pMem, pSaved, pDisk, pIo, pHash,  \* of paramset descriptions
  known,       \* _addresses: what the description cache has an entry for
  \* the central
  client,      \* _clients holds the interface
  devices,     \* _devices
  objects,     \* Device objects whose data points are subscribed
  \* the coroutines
  inbox,       \* calls of the backend whose task has not begun
  queue,       \* tasks waiting for _sema_add_devices
  at,          \* per coroutine, where it is
  todo,        \* per coroutine, the devices its loop has not done
  cur,         \* per coroutine, the device it is on ({} or a singleton)
  before,      \* known_addresses of the add
  served,      \* the client of the add takes calls
  fetched,     \* save_paramset_descriptions of the add
  pairs,       \* devices paired so far
  troubles,    \* kinds of trouble so far
  left         \* how many more there may be

backendVars == <<paired, registered, announce>>
dVars       == <<dMem, dSaved, dDisk, dIo, dHash>>
pVars       == <<pMem, pSaved, pDisk, pIo, pHash>>
cacheVars   == <<dVars, pVars, known>>
centralVars == <<client, devices, objects>>
loopVars    == <<at, todo, cur>>
addVars     == <<before, served, fetched>>
taskVars    == <<inbox, queue>>
countVars   == <<pairs, troubles, left>>
vars == <<backendVars, cacheVars, centralVars, taskVars, loopVars, addVars, countVars>>

Procs  == {"add", "boot", "user"}
Stages == {"off", "idle", "running", "describe", "fetch", "dSave", "dSaving",
           "pSave", "pSaving", "check", "details", "create", "values",
           "dLoad", "dLoading", "pLoad", "pLoading", "dWipe", "pWipe",
           "init", "client", "stopping", "ending"}

\* One of the troubles the bound leaves room for.
Trouble(t) ==
  /\ t \in Troubles /\ left > 0
  /\ troubles' = troubles \cup {t}
  /\ left' = left - 1
  /\ UNCHANGED pairs

\* One interface of a persistent cache: whether the dictionary has its key,
\* and the entries below: a list of descriptions, or a dictionary of paramsets,
\* those fetched by this process with members of ParamsetKey for keys.  A file
\* has strings instead, of which the hash is another.
Descriptions == [key : BOOLEAN, of : UNION {[1..n -> Devices] : n \in 0..Cardinality(Devices)}]
Paramsets    == [key : BOOLEAN, of : SUBSET Devices, typed : SUBSET Devices]
NoDescr      == [key |-> FALSE, of |-> <<>>]
NoParam      == [key |-> FALSE, of |-> {}, typed |-> {}]
AsIs(content)    == content
Untyped(content) == [key |-> content.key, of |-> content.of, typed |-> {}]

D == INSTANCE PersistentCache WITH Content <- Descriptions, Empty <- NoDescr,
       Users <- Procs, Stored <- AsIs, mem <- dMem, saved <- dSaved, disk <- dDisk, io <- dIo, hash <- dHash
P == INSTANCE PersistentCache WITH Content <- Paramsets, Empty <- NoParam,
       Users <- Procs, Stored <- Untyped, mem <- pMem, saved <- pSaved, disk <- pDisk, io <- pIo, hash <- pHash

Described(content) == ToSet(content.of)

\* The list without the elements in ds: SelectSeq as a recursive function, which
\* DeviceRegistryProofs reasons about.
Dropping(list, ds) ==
  LET kept[n \in 0..Len(list)] ==
        IF n = 0 THEN <<>>
        ELSE IF list[n] \in ds THEN kept[n - 1] ELSE Append(kept[n - 1], list[n])
  IN kept[Len(list)]
Without(content, ds) == [key |-> TRUE, of |-> Dropping(content.of, ds)]
With(content, d)     == [key |-> TRUE, of |-> Append(Without(content, {d}).of, d)]

New(ds)    == [kind |-> "new", of |-> ds]
Delete(ds) == [kind |-> "delete", of |-> ds]

TypeOK ==
  /\ paired \subseteq Devices /\ {registered, announce, client, served, fetched} \subseteq BOOLEAN
  /\ D!TypeOK /\ P!TypeOK
  /\ known \subseteq Devices /\ devices \subseteq Devices /\ before \subseteq Devices
  /\ objects \in [Devices -> Nat]
  /\ \A i \in DOMAIN inbox : inbox[i] \in [kind : {"new", "delete"}, of : SUBSET Devices]
  /\ \A i \in DOMAIN queue : queue[i] \subseteq Devices
  /\ at \in [Procs -> Stages] /\ todo \in [Procs -> SUBSET Devices]
  /\ cur \in [Procs -> SUBSET Devices]
  /\ pairs \in 0..MaxPairs /\ troubles \subseteq Troubles \cup {"fault"} /\ left \in 0..MaxTroubles

\* A process that has not begun.
NewProcess ==
  [known |-> {}, client |-> FALSE, devices |-> {}, objects |-> [d \in Devices |-> 0],
   inbox |-> <<>>, queue |-> <<>>, todo |-> [p \in Procs |-> {}],
   cur |-> [p \in Procs |-> {}],
   at |-> [p \in Procs |-> IF p = "boot" THEN "off" ELSE "idle"]]

Init ==
  /\ paired = {} /\ registered = FALSE /\ announce = FALSE
  /\ D!Init /\ P!Init
  /\ known = NewProcess.known /\ client = NewProcess.client
  /\ devices = NewProcess.devices /\ objects = NewProcess.objects
  /\ inbox = NewProcess.inbox /\ queue = NewProcess.queue
  /\ at = NewProcess.at /\ todo = NewProcess.todo /\ cur = NewProcess.cur
  /\ before = {} /\ served = FALSE /\ fetched = FALSE
  /\ pairs = 0 /\ troubles = {} /\ left = MaxTroubles

Reset ==
  /\ D!Crash /\ P!Crash
  /\ known' = NewProcess.known /\ client' = NewProcess.client
  /\ devices' = NewProcess.devices /\ objects' = NewProcess.objects
  /\ inbox' = NewProcess.inbox /\ queue' = NewProcess.queue
  /\ at' = NewProcess.at /\ todo' = NewProcess.todo /\ cur' = NewProcess.cur
  /\ before' = {} /\ served' = FALSE /\ fetched' = FALSE

\* Coroutine p goes on to stage s, with nothing but its place changed.
Goto(p, s) == at' = [at EXCEPT ![p] = s] /\ UNCHANGED <<todo, cur>>

---------------------------------------------------------------------------
(* The backend: its device list, and the calls it makes.                   *)

\* A call is a new task of the event loop where the server finds the client of
\* the interface, and lost otherwise.
Call(calls) == inbox' = IF registered /\ client THEN inbox \o calls ELSE inbox

Pair(d) ==
  /\ d \notin paired
  /\ pairs < MaxPairs /\ pairs' = pairs + 1 /\ UNCHANGED <<troubles, left>>
  /\ paired' = paired \cup {d}
  /\ Call(<<New({d})>>)
  /\ UNCHANGED <<registered, announce, cacheVars, centralVars, queue, loopVars, addVars>>

Unpair(d) ==
  /\ d \in paired
  /\ Trouble("unpair")
  /\ paired' = paired \ {d}
  /\ Call(<<Delete({d})>>)
  /\ UNCHANGED <<registered, announce, cacheVars, centralVars, queue, loopVars, addVars>>

ListedByIndex == known    \* variant: the index survives clear()

\* list_devices: the raw descriptions.
Listed == Described(dMem)

\* After init the backend asks listDevices and sends what differs.
Announce ==
  LET missing == IF paired \subseteq Listed THEN <<>> ELSE <<New(paired \ Listed)>>
      surplus == IF Listed \subseteq paired THEN <<>> ELSE <<Delete(Listed \ paired)>>
  IN /\ announce
     /\ announce' = FALSE
     /\ Call(missing \o surplus)
     /\ UNCHANGED <<paired, registered, cacheVars, centralVars, queue, loopVars, addVars, countVars>>

---------------------------------------------------------------------------
(* Removing devices.                                                       *)

RemovableAny(ds) == ds    \* variant: devices never created are removed too
Removable(ds) == ds \cap devices

KeepSubscribed(ds) == objects    \* variant: no device.remove()
Unsubscribed(ds) == [d \in Devices |-> IF d \in ds THEN objects[d] - 1 ELSE objects[d]]

\* delete_devices with remove_device: only devices in _devices are removed,
\* and save_caches() without its flags saves nothing.
DeleteDevices ==
  /\ inbox # <<>> /\ Head(inbox).kind = "delete"
  /\ LET gone == Removable(Head(inbox).of)
     IN IF gone = {} THEN UNCHANGED <<cacheVars, centralVars>>
        ELSE /\ D!Change(Without(dMem, gone))
             /\ P!Change([pMem EXCEPT !.of = @ \ gone, !.typed = @ \ gone])
             /\ known' = known \ gone
             /\ devices' = devices \ gone
             /\ objects' = Unsubscribed(gone)
             /\ UNCHANGED client
  /\ inbox' = Tail(inbox)
  /\ UNCHANGED <<backendVars, queue, loopVars, addVars, countVars>>

---------------------------------------------------------------------------
(* Adding devices.                                                         *)

\* A variant that gives up where another holds the semaphore
NewDevicesIfFree ==
  /\ inbox # <<>> /\ Head(inbox).kind = "new"
  /\ queue' = IF client /\ at["add"] = "idle" /\ queue = <<>>
                THEN Append(queue, Head(inbox).of) ELSE queue
  /\ inbox' = Tail(inbox)
  /\ UNCHANGED <<backendVars, cacheVars, centralVars, loopVars, addVars, countVars>>

\* The task of newDevices begins: without a client it gives up.
NewDevices ==
  /\ inbox # <<>> /\ Head(inbox).kind = "new"
  /\ queue' = IF client THEN Append(queue, Head(inbox).of) ELSE queue
  /\ inbox' = Tail(inbox)
  /\ UNCHANGED <<backendVars, cacheVars, centralVars, loopVars, addVars, countVars>>

\* The semaphore is free.  A client lost while waiting is a KeyError.  The one
\* found is kept until all devices are described.
AddBegin ==
  /\ at["add"] = "idle" /\ queue # <<>>
  /\ queue' = Tail(queue)
  /\ IF client
       THEN /\ at' = [at EXCEPT !["add"] = "describe"]
            /\ todo' = [todo EXCEPT !["add"] = Head(queue)]
            /\ before' = Described(dMem)
            /\ served' = TRUE /\ fetched' = FALSE
            /\ UNCHANGED cur
       ELSE UNCHANGED <<loopVars, addVars>>
  /\ UNCHANGED <<backendVars, cacheVars, centralVars, inbox, countVars>>

\* add_device_description, then the fetch for an address not known before.
AddDescription(d) ==
  /\ at["add"] = "describe" /\ d \in todo["add"]
  /\ D!Change(With(dMem, d))
  /\ known' = known \cup {d}
  /\ todo' = [todo EXCEPT !["add"] = @ \ {d}]
  /\ IF d \in before
       THEN UNCHANGED <<at, cur>>
       ELSE /\ at' = [at EXCEPT !["add"] = "fetch"]
            /\ cur' = [cur EXCEPT !["add"] = {d}]
  /\ UNCHANGED <<backendVars, pVars, centralVars, taskVars, addVars, countVars>>

FetchEnds ==
  /\ at["add"] = "fetch"
  /\ at' = [at EXCEPT !["add"] = "describe"]
  /\ cur' = [cur EXCEPT !["add"] = {}]
  /\ fetched' = TRUE
  /\ UNCHANGED <<backendVars, dVars, known, centralVars, taskVars, todo, before, served>>

\* fetch_paramset_descriptions; a key that is already there stays the object it is.
Fetched ==
  /\ FetchEnds
  /\ served
  /\ P!Change([key   |-> TRUE,
               of    |-> pMem.of \cup cur["add"],
               typed |-> pMem.typed \cup (cur["add"] \ pMem.of)])
  /\ UNCHANGED countVars

\* Its errors are logged and swallowed, and so are those of every call after the
\* executor of the client has been shut down.
FetchFailed ==
  /\ FetchEnds
  /\ \/ served /\ Trouble("fault")
     \/ ~served /\ troubles' = troubles \cup {"fault"} /\ UNCHANGED <<pairs, left>>
  /\ UNCHANGED pVars

DescribedAll ==
  /\ at["add"] = "describe" /\ todo["add"] = {}
  /\ Goto("add", "dSave")
  /\ served' = FALSE
  /\ UNCHANGED <<backendVars, cacheVars, centralVars, taskVars, before, fetched, countVars>>

---------------------------------------------------------------------------
(* save_caches, called by "add" and by "boot" (in stop()).                 *)

AfterSave(p) == IF p = "boot" THEN "stopping" ELSE "check"
OnlyOnStop(p) == p = "boot"    \* variant: the flag is never set
WantsParamsets(p) == p = "boot" \/ fetched

SaveDescriptions(p) ==
  /\ at[p] = "dSave"
  /\ IF D!Dirty THEN D!SaveBegin(p) /\ Goto(p, "dSaving")
     ELSE Goto(p, "pSave") /\ UNCHANGED dVars
  /\ UNCHANGED <<backendVars, pVars, known, centralVars, taskVars, addVars, countVars>>

SavingDescriptions(p) ==
  /\ at[p] = "dSaving"
  /\ \/ (D!SaveWake(p) \/ D!SaveOpen(p)) /\ UNCHANGED loopVars
     \/ D!SaveWrite(p) /\ Goto(p, "pSave")
  /\ UNCHANGED <<backendVars, pVars, known, centralVars, taskVars, addVars, countVars>>

SaveParamsets(p) ==
  /\ at[p] = "pSave"
  /\ IF WantsParamsets(p) /\ P!Dirty THEN P!SaveBegin(p) /\ Goto(p, "pSaving")
     ELSE Goto(p, AfterSave(p)) /\ UNCHANGED pVars
  /\ UNCHANGED <<backendVars, dVars, known, centralVars, taskVars, addVars, countVars>>

SavingParamsets(p) ==
  /\ at[p] = "pSaving"
  /\ \/ (P!SaveWake(p) \/ P!SaveOpen(p)) /\ UNCHANGED loopVars
     \/ P!SaveWrite(p) /\ Goto(p, AfterSave(p))
  /\ UNCHANGED <<backendVars, dVars, known, centralVars, taskVars, addVars, countVars>>

---------------------------------------------------------------------------
(* Creating devices, called by "add" and by "boot" (in _start_clients).    *)

\* _check_for_new_device_addresses
NewAddresses == IF client /\ pMem.key THEN known \ devices ELSE {}

AfterCreate(p) == IF p = "boot" THEN "init" ELSE "idle"
CreateStage(p) == IF p = "boot" THEN "create" ELSE "details"

Check(p) ==
  /\ at[p] = "check"
  /\ at' = [at EXCEPT ![p] = IF NewAddresses = {} THEN AfterCreate(p) ELSE CreateStage(p)]
  /\ todo' = [todo EXCEPT ![p] = NewAddresses]
  /\ UNCHANGED <<backendVars, cacheVars, centralVars, taskVars, cur, addVars, countVars>>

\* The device details and the data of all devices have been loaded.
DetailsLoaded ==
  /\ at["add"] = "details"
  /\ IF client THEN Goto("add", "create")
     ELSE /\ at' = [at EXCEPT !["add"] = "idle"]    \* no clients initialized
          /\ todo' = [todo EXCEPT !["add"] = {}]
          /\ UNCHANGED cur
  /\ UNCHANGED <<backendVars, cacheVars, centralVars, taskVars, addVars, countVars>>

\* A device already there is passed over; without its client or its
\* description it cannot be created.  load_value_cache is awaited before the
\* device enters _devices.
CreateBegin(p, d) ==
  /\ at[p] = "create" /\ d \in todo[p]
  /\ todo' = [todo EXCEPT ![p] = @ \ {d}]
  /\ IF d \in devices \/ ~client \/ d \notin known
       THEN UNCHANGED <<at, cur, objects>>
       ELSE /\ objects' = [objects EXCEPT ![d] = @ + 1]
            /\ at' = [at EXCEPT ![p] = "values"]
            /\ cur' = [cur EXCEPT ![p] = {d}]
  /\ UNCHANGED <<backendVars, cacheVars, client, devices, taskVars, addVars, countVars>>

CreateEnd(p) ==
  /\ at[p] = "values"
  /\ devices' = devices \cup cur[p]
  /\ at' = [at EXCEPT ![p] = "create"]
  /\ cur' = [cur EXCEPT ![p] = {}]
  /\ UNCHANGED <<backendVars, cacheVars, client, objects, taskVars, todo, addVars, countVars>>

Created(p) ==
  /\ at[p] = "create" /\ todo[p] = {}
  /\ Goto(p, AfterCreate(p))
  /\ UNCHANGED <<backendVars, cacheVars, centralVars, taskVars, addVars, countVars>>

---------------------------------------------------------------------------
(* start(), stop() and the restart of the clients.                         *)

Start ==
  /\ at["boot"] = "off"
  /\ client' = TRUE
  /\ Goto("boot", "dLoad")
  /\ UNCHANGED <<backendVars, cacheVars, devices, objects, taskVars, addVars, countVars>>

IndexAsBefore(content) == known    \* variant: what was loaded is not converted
Indexed(content) == known \cup Described(content)

\* A file deleted since load() looked for it cannot be opened: the error ends the
\* restart, and the check loop has to initialise the client.
AfterLoad(disk, s) ==
  CASE disk.file = "whole"   -> s
    [] disk.file = "cut"     -> "dWipe"    \* JSONDecodeError
    [] OTHER                 -> "init"     \* FileNotFoundError

\* DeviceDescriptionCache.load: the file, if there is one, and then, unless that
\* failed, the entries of _addresses.
LoadDescriptions ==
  /\ \/ /\ at["boot"] = "dLoad" /\ dDisk # D!Absent
        /\ D!LoadBegin("boot") /\ Goto("boot", "dLoading")
        /\ UNCHANGED known
     \/ /\ at["boot"] = "dLoad" /\ dDisk = D!Absent
        /\ Goto("boot", "pLoad")
        /\ known' = Indexed(dMem)
        /\ UNCHANGED dVars
     \/ /\ at["boot"] = "dLoading"
        /\ D!LoadRead("boot") /\ Goto("boot", AfterLoad(dDisk, "pLoad"))
        /\ known' = IF dDisk.file = "whole" THEN Indexed(dMem') ELSE known
  /\ UNCHANGED <<backendVars, pVars, centralVars, taskVars, addVars, countVars>>

\* ParamsetDescriptionCache.load; the loads after it do not concern devices.
LoadParamsets ==
  /\ \/ /\ at["boot"] = "pLoad" /\ pDisk # P!Absent
        /\ P!LoadBegin("boot") /\ Goto("boot", "pLoading")
     \/ /\ at["boot"] = "pLoad" /\ pDisk = P!Absent
        /\ Goto("boot", "check")
        /\ UNCHANGED pVars
     \/ /\ at["boot"] = "pLoading"
        /\ P!LoadRead("boot") /\ Goto("boot", AfterLoad(pDisk, "check"))
  /\ UNCHANGED <<backendVars, dVars, known, centralVars, taskVars, addVars, countVars>>

\* clear_caches, by the user or by _load_caches.
ClearCaches ==
  /\ at["boot"] = "running" /\ at["user"] = "idle"
  /\ Trouble("clear")
  /\ Goto("user", "dWipe")
  /\ UNCHANGED <<backendVars, cacheVars, centralVars, taskVars, addVars>>

Wipe(p) ==
  /\ \/ /\ at[p] = "dWipe" /\ D!Clear /\ Goto(p, "pWipe")
        /\ UNCHANGED pVars
     \/ /\ at[p] = "pWipe" /\ P!Clear /\ Goto(p, IF p = "boot" THEN "check" ELSE "idle")
        /\ UNCHANGED dVars
  /\ UNCHANGED <<backendVars, known, centralVars, taskVars, addVars, countVars>>

\* _init_clients: the backend registers the callback and compares.
InitClient ==
  /\ at["boot"] = "init"
  /\ registered' = TRUE /\ announce' = TRUE
  /\ Goto("boot", "running")
  /\ UNCHANGED <<paired, cacheVars, centralVars, taskVars, addVars, countVars>>

\* _stop_clients: a client waits for its call in flight and takes none after it.
ClientsStopped ==
  /\ at["add"] # "fetch"
  /\ registered' = FALSE /\ announce' = FALSE
  /\ client' = FALSE /\ served' = FALSE
  /\ UNCHANGED <<paired, cacheVars, devices, objects, taskVars, before, fetched>>

\* restart_clients: _stop_clients, then _start_clients in the same process.
Restart ==
  /\ at["boot"] = "running"
  /\ Trouble("restart")
  /\ ClientsStopped
  /\ Goto("boot", "client")

ClientCreated ==
  /\ at["boot"] = "client"
  /\ client' = TRUE
  /\ Goto("boot", "dLoad")
  /\ UNCHANGED <<backendVars, cacheVars, devices, objects, taskVars, addVars, countVars>>

\* stop() saves both caches before it stops the clients.
Stop ==
  /\ at["boot"] = "running"
  /\ Trouble("stop")
  /\ Goto("boot", "dSave")
  /\ UNCHANGED <<backendVars, cacheVars, centralVars, taskVars, addVars>>

StopClients ==
  /\ at["boot"] = "stopping"
  /\ ClientsStopped
  /\ Goto("boot", "ending")
  /\ UNCHANGED countVars

\* block_till_done: the process ends when its tasks have.
Stopped ==
  /\ at["boot"] = "ending" /\ at["add"] = "idle" /\ at["user"] = "idle"
  /\ inbox = <<>> /\ queue = <<>>
  /\ Reset
  /\ UNCHANGED <<backendVars, countVars>>

Crash ==
  /\ at["boot"] # "off"
  /\ Trouble("crash")
  /\ Reset
  /\ UNCHANGED backendVars

---------------------------------------------------------------------------
Backend == Announce \/ \E d \in Devices : Pair(d) \/ Unpair(d)

Add ==
  \/ NewDevices \/ DeleteDevices \/ AddBegin \/ DescribedAll \/ Fetched \/ FetchFailed
  \/ \E d \in Devices : AddDescription(d)
  \/ DetailsLoaded

Shared(p) ==
  \/ SaveDescriptions(p) \/ SavingDescriptions(p)
  \/ SaveParamsets(p) \/ SavingParamsets(p)
  \/ Check(p) \/ CreateEnd(p) \/ Created(p)
  \/ \E d \in Devices : CreateBegin(p, d)

Boot ==
  \/ Start \/ LoadDescriptions \/ LoadParamsets \/ InitClient
  \/ Restart \/ ClientCreated \/ Stop \/ StopClients \/ Stopped

Next ==
  \/ Backend \/ Add \/ Boot \/ Crash \/ ClearCaches
  \/ \E p \in {"add", "boot"} : Shared(p)
  \/ \E p \in {"boot", "user"} : Wipe(p)

\* A task of the event loop, a call and a job of the pool go on; that devices
\* are paired, caches cleared and processes stopped is not owed.
Fairness ==
  /\ WF_vars(Announce)
  /\ WF_vars(NewDevices \/ DeleteDevices)
  /\ WF_vars(AddBegin \/ DescribedAll \/ Fetched \/ FetchFailed \/ DetailsLoaded
             \/ (\E d \in Devices : AddDescription(d)) \/ Shared("add"))
  /\ WF_vars(Start \/ LoadDescriptions \/ LoadParamsets \/ InitClient \/ ClientCreated
             \/ StopClients \/ Stopped \/ Wipe("boot") \/ Shared("boot"))
  /\ WF_vars(Wipe("user"))

Spec == Init /\ [][Next]_vars /\ Fairness

---------------------------------------------------------------------------
(* Properties.                                                             *)

\* None of these troubles has happened so far.
Spared(ts) == troubles \cap ts = {}

\* The caches have been loaded.
Started == at["boot"] \in {"running", "dSave", "dSaving", "pSave", "pSaving", "stopping", "ending"}

\* Nothing is on its way.
Quiet ==
  /\ at["boot"] = "running" /\ at["add"] = "idle" /\ at["user"] = "idle"
  /\ inbox = <<>> /\ queue = <<>> /\ ~announce

\* "Do we check for duplicates here? For now, we do.": a device has one Device
\* object whose data points are subscribed.
NoDuplicates == \A d \in Devices : objects[d] <= 1

\* _create_devices looks into _devices before load_value_cache and writes to it
\* afterwards; as long as one coroutine at a time creates devices, which a crash
\* or a restart of the clients upsets, no device is created twice.
OneObjectPerDevice == Spared({"crash", "restart"}) => NoDuplicates

\* Every device there is has its descriptions in the files once nothing is
\* going on, so that the next start creates it from them, although both caches
\* are saved before the device is created and by coroutines that overlap.  A
\* restart of the clients spares the descriptions alone: it replaces paramsets
\* not yet saved by those of the file, and a client it has stopped fetches none.
CreatedIsStored ==
  (Quiet /\ Spared({"unpair", "crash", "clear"})) =>
    /\ devices \subseteq Described(dDisk.of)
    /\ Spared({"fault", "restart"}) => devices \subseteq pDisk.of.of

\* data_changed: where the hash says there is nothing to save, the file holds
\* what the dictionary holds, but for the order of the descriptions and the type
\* of the keys.
UnchangedDescriptions ==
  (D!Holders = {} /\ ~D!Dirty) => Described(dDisk.of) = Described(dMem)
UnchangedParamsets ==
  (P!Holders = {} /\ ~P!Dirty) => pDisk.of = Untyped(pMem)
UnchangedMeansStored ==
  (Started /\ Spared({"unpair", "crash", "clear"})) =>
    UnchangedDescriptions /\ UnchangedParamsets

\* A removal and a restart of the clients do not meet: the call of a removal may
\* wait in the inbox over a restart, and what it leaves in the dictionary may be
\* replaced by what the restart loads.
Ordered == Spared({"unpair"}) \/ Spared({"restart"})

\* _addresses and the list of raw descriptions are kept side by side and agree,
\* until clear() empties the list alone.
IndexAgrees == (Ordered /\ Spared({"crash", "clear"})) => known = Described(dMem)

\* The backend's devices are described again, over crashes, failed fetches,
\* stops, and removals or restarts of the clients.
DescribedAgain ==
  (Quiet /\ Ordered /\ Spared({"clear"})) => paired \subseteq Described(dMem)

\* A paired device gets its Device object, over restarts of the clients and of
\* the process or beside the removal of others.
PairedAppears ==
  \A d \in Devices : d \in paired ~>
    (d \notin paired \/ d \in devices \/ ~Ordered \/ ~Spared({"crash", "fault", "clear"}))

\* Every add, start and save comes to its end.
Settles == []<>Quiet
=============================================================================
