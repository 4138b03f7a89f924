# hahomematic in TLA+

hahomematic connects a home automation to one or more HomeMatic backends (CCU,
Homegear). It is an asyncio program with a few threads: a *central* owns one
*client* per interface of the backend, talks XML-RPC and JSON-RPC to it,
receives its events through an XML-RPC call-back server, and keeps *devices*
made of *data points*. This directory holds TLA+ models of its control, TLC
configurations that check them, and TLAPS proofs.

Paths below are relative to `hahomematic/`.

## 1. Inventory

| Part | State | Operations | Talks to |
|---|---|---|---|
| Client (`client/__init__.py`) | `_available`, `_connection_error_count`, `_is_callback_alive`, `modified_at` | `is_connected`, `is_callback_alive`, `reconnect`, `proxy_init`, `proxy_de_init`, `stop`; reads and writes of values | backend; marks the devices |
| XML-RPC proxy (`client/xml_rpc.py`) | executor, supported methods, issues in `CentralConnectionState` | every call of the backend | backend, threads of its executor |
| Central (`central/__init__.py`) | `_clients`, `_devices`, `_last_events`, `_primary_client`, `_started`, subscriptions | `start`, `stop`, `restart_clients`, `add_new_devices`, `delete_devices`, `data_point_event` | everything |
| Scheduler (`_Scheduler`) | `_active` | the check loop (15 s), polling, fetching of programs and variables | clients, central |
| Ping/pong record (`caches/dynamic.py`) | pending and unknown PONGs, two log flags | ping sent, PONG received, clear | central events |
| Data caches (`caches/dynamic.py`) | values, names, rooms, last commands | load, get, expire | clients |
| Persistent caches (`caches/persistent.py`) | descriptions in memory and on disk, hash of what was saved | add, remove, load, save, clear | executor threads, disk |
| Visibility rules (`caches/visibility.py`) | tables, the lines of the user | load, the questions ignored? un-ignored? hidden? relevant? | creation of data points |
| Devices and data points (`model/`) | value, temporary value, time stamps, operations, usage | create, event, load, send, reload, remove | clients, central |
| Custom data points (`model/custom/`) | derived from several data points; a timer, unconfirmed values | commands of lights, covers, climate, locks, sirens | data points |
| Hub (`model/hub/`) | system variables and programs | fetch, add, remove, send | JSON-RPC |
| JSON-RPC client (`client/json_rpc.py`) | session id and its age, supported methods | login, renew, logout, post | backend |
| Call-back server (`central/xml_rpc_server.py`) | the centrals of the process | events, new and deleted devices | loops of the centrals |
| Looper (`async_support.py`) | the tasks under way | create a task from a thread, wait for all | event loop |

All state of a central is touched from one event loop, so the unit of atomicity
is the stretch between two `await`s. What runs concurrently: the check loop, a
task for each reconnect it starts, the polling loops, one task per event of the
backend, and whoever calls `start()`, `stop()` or a service. What makes this
hard:

* an outage of the backend shows in three ways (the connection fails, the
  interface answers with a fault, the web server in front of it refuses), and the
  proxy treats each differently;
* a backend that restarts forgets who wanted its events and tells nobody;
* a reconnect sleeps for two minutes between its check and its `init`;
* `stop()` does not wait for the check loop before it dismantles the clients;
* dictionaries are iterated over across an `await` and changed meanwhile;
* the clock is a local clock that can be set, and ages are compared without
  their days;
* a value is known in five places (backend, two caches, current, temporary), and
  a command compares with one of them and is reported back late;
* what is shown of a device is decided by tables, profiles, lines of the user and
  the device's own mode, in an order that is spread over seven files.

## 2. Modules

| Module | Models | Checked by | Proved in |
|---|---|---|---|
| `ClientConnection` | the connection of existing clients: checks, reconnects, registration, availability | `MCClientConnection` | `ClientConnectionProofs` |
| `CentralLifecycle` | `start`, `stop`, `restart_clients` beside the check loop | `MCCentralLifecycle` | `CentralLifecycleProofs` |
| `PingPongCache` | the record of pings and PONGs | itself | `PingPongCacheProofs` |
| `PersistentCache` | one file-backed cache: save, load, clear, crash | within `DeviceRegistry` | `PersistentCacheProofs` |
| `DeviceRegistry` | new and deleted devices over two instances of `PersistentCache` | itself | `DeviceRegistryProofs` |
| `DataPoint` | one value: events, polling, two caches, commands, confirmation | itself | `DataPointProofs` |
| `JsonRpcSession` | the session of the JSON-RPC client, shared by its calls | itself | - |
| `Hub` | system variables and programs against the CCU | `MCHub` | `HubProofs` |
| `Collector` | the requests that the sends of one call are grouped into | within `CustomCommands` | `DataPointProofs` |
| `Covers`, `Lights`, `Locks`, `Climates`, `Schedules` | per family: the fields a call sends, when it is skipped or refused, what the device makes of it | within `CustomCommands` | `DataPointProofs` |
| `CustomCommands` | calls of one custom data point beside each other, its device, reports | itself | `DataPointProofs` |
| `Visibility` | the tables and lines that decide about a parameter | within `Creation` | - |
| `Creation` | the data points, events and custom data points of a device, through edits, reloads, removal and restart | `MCCreation` | `CreationProofs` |

Each action is the code from the answer of one call to the start of the next; its
comment names the function when its own name does not. A definition marked "a
variant" is a plausible mistake in the one below it, kept to show that a property
notices it; no specification uses it.

**ClientConnection.** One record of variables per client. `errorCount` is
`_connection_error_count`, saturating above the limit (the code compares it with
`> 3` and otherwise only resets it); `modifiedAt` and `lastEvent` are ages in
intervals of the check loop, saturating where the code can no longer tell them
apart; `forced` is the *set* of forced availabilities among the devices of the
client, so that devices added in between matter. `pc`, `todo`, `current`,
`reconnects` and `awaited` are where `_check_connection` is; `rec[<<c, s>>]` is one
call of `reconnect()` of client `c`. The backend is `reach` (what a call meets),
`registered` and `missed` (a value changed that the central was not told). A call
that breaks off may have been executed or not (`Register`).
Not in this module: starting and stopping, which it assumes done.

**CentralLifecycle.** Two processes, the caller of `start()`/`stop()` and the check
loop, both of which may be in `_stop_clients` or `_start_clients`
(`at`, `todo`). `size` is the length a Python dictionary had when a loop over it
began: the next iteration raises when it differs. `client[i]` is the entry of
`_clients`; `device[i]` is the client the devices of the interface hold
(`Device._client`); `leaked` collects clients that left the dictionary with
their executors running. Whether a client needs a reconnect is a free choice here;
`ClientConnection` says when it does. Not in this module: `start_direct` and a
central without a server (no check loop), the call-back server, JSON clients.

**PingPongCache.** A ping is its time stamp (the string that travels is the
time stamp to the microsecond and is parsed back to the same). `Age` is
`timedelta.seconds`, which drops whole days and makes a time stamp in the future
look old. `ClockSet` sets the clock, `flight` holds the PONGs under way.

**PersistentCache.** `mem` is the dictionary, `disk` the file: missing, cut short or
whole. A hash is represented by the content it was computed from, and `Stored` is what a dump and a load
make of a content: what is read need not have the hash of what was written. `io[p]` is where
coroutine `p` is in `save()` or `load()`; a job of the pool opens (and so truncates)
the file in one step and dumps the dictionary *of that moment* in another, while
the hash to remember was taken before the semaphore. The semaphore may be handed
to any waiter. A file deleted by `clear()` while it is being written stays deleted.

**DeviceRegistry.** Composes two caches, `D` (descriptions) and `P` (paramsets), for
one interface; a device stands for its channels as well. Coroutines: the add that
holds `_sema_add_devices` (others wait in `queue`), `start`/`stop`/restart, and a user
who clears the caches; a deletion has no `await` and is one action. The dictionary
of the descriptions holds a *list* below the interface, kept in its order because
the hash depends on it (`Dropping` is the removal, a recursive function over the list). Paramsets are a set
of devices and, of these, the ones `typed`, whose keys are members of `ParamsetKey` since this process fetched
them: the file has strings, and the hash is over the `repr` of both (`Untyped`). `known` is the index `_addresses` beside it. `objects[d]` counts
`Device` objects of `d` that are subscribed to events, those lost from
`devices` included. `Restart` and `StopClients` merge the awaits inside `_stop_clients`
with the removal of the client (`CentralLifecycle` has them apart). `clear_caches` is
called by a user only while the central runs. Calls of the backend reach the
central where the server finds the client, and are lost otherwise; `Announce` is the
comparison the backend makes after an `init`.
`served` says that the client an add captured at its start still takes calls: `ClientsStopped` waits for its call
in flight and lets every later fetch of that add fail, which is swallowed (`FetchFailed`, recorded as a fault).
`AfterLoad` is how a load ends: a file that does not parse clears both caches, one deleted between the look and
the opening ends the restart with an error and leaves the `init` to the check loop.
Not in this module: `start_direct`, firmware data, and the operations that the creation of a device patches in
the cached paramsets (`model/__init__.py:71`; they make one more save, and are in `Creation`).

**DataPoint.** A time stamp is its age in ticks, compared modulo `Day`. The stamps
of `point` are Booleans, because the defaults that set them are evaluated at import
(`imported` is the age of that moment). `central` and `device` are the two cache
entries, the second of which also remembers that a request failed. `readers[r]` is
a load: the poll loop, a reload or a call of the API; one at a time holds the
semaphore of the device. `command` is a `send_value` up to the confirmation
it may wait for.

**JsonRpcSession.** `calls[t]` is one `_post`: login or renewal, the list of methods once, the
request, and the logout that any failure starts, which is itself a request that can be
refused and log out. The backend keeps a bounded set of `sessions`, may
end one, and refuses a login when full. Which request it is makes no difference
but to the error it may end in.

**Hub.** `ccu` and `programs` are the other side; `points`, `subs` and `buttons` are what the
central keeps. A fetch is two requests, of the loop or of a caller, under one
semaphore; an MQTT message and a `send_variable` may be under way beside it.
`Parse` is `parse_sys_var` on four kinds of variables, with its errors.

**CustomCommands.** `kind` is one of 24 custom data points. A call is skipped, refused,
or its values are grouped into requests by `Collector` and sent one after the other
(`Acquire`, `Answered`); a request may be lost. `at`, `goal` and `off` are the device: blinds
and covers run, and report only when they rest; lights have timers. `shown`,
`unconfirmed`, `uncertain` and `timer` are the data points. The families say what is special:
`<Family>Calls`, `<Family>Entries` (field, value and order of what is sent),
`<Family>Changes` (`is_state_change`), `<Family>Refuses`, `<Family>Applied`. A schedule has three slots
and a day of four time units instead of 13 and 1440. Calls overlap only for
blinds, which have a lock of their own. Levels are counted in half percents, the steps of the
combined value of a BidCos blind (`Half`, `Percent` for HmIP, exact for the one without; `Coordinate`): a product of floats
truncated, so that `Half(116) = 115` stands for `int(0.58 * 100 * 2)`.
Not modelled here: party modes with a start in the future, the RGBW lights' device modes
beside those listed, channel groups (the `channel_*` values).

**Visibility.** Constant operators over tables quoted in part. A model is a sequence
of name pieces so that `startswith` is a prefix. A line of the user is a record of
what `_get_un_ignore_line_details` makes of it; `Raises`, `Refused` and `Malformed` are the lines it
does not take.

**Creation.** A run is about one device out of several. `ops` are the operations in the
*cached* description, which creation changes; `points[k]` is a generic data
point, `forced[k]` the usage that custom data points gave it (`force_usage`), `custom[c]` the custom data point of a channel, `subs[k]` the handlers for an event,
marked with the `Device` object they belong to. A configuration is profile, channels
and extension as in `definition.py`; `InitDataPoints` is the chain of additions and marks in
which the last one decides. `Usage` is evaluated when asked, as in the code, so that the
operation mode acts at once. `reload` holds the running `reload_paramset_descriptions`, request
by request. `Start` and `Stop` are clean (`DeviceRegistry` has crashes); the lines are edited
while nothing runs; the parts of a device are fetched in a fixed order; the
usage of events and the announcement to the user of the library are left out.

## 3. Runs

| Run | Instance | Shows |
|---|---|---|
| `conn_ccu` | one CCU client, all outages, 3 faults, 4 failing checks to be unavailable, 2 ticks of silence | no device stays forced unavailable; a failing client is not shown available; the check loop and the reconnects alternate; registration, availability, values and call-back state come back |
| `conn_mixed` | a CCU client with hanging calls and any number of restarts, a JSON client with 2 outages, one failing check to be unavailable, two reconnects each | the registration comes back although a JSON client ends rounds early and two reconnects of the other overlap |
| `lifecycle` | two interfaces, one of them a candidate for the primary client, any listing, 2 starts, 1 outage | no client is dropped running, no call is cut off, missing clients appear later, `stop()` ends, a quiet `stop()` is clean |
| `ping_pong` | allowed mismatch 2, expiry 2 of a 4-unit day, one jump of the clock | a mismatch is reported with at least its number |
| `registry` | two devices, two pairings, one trouble: unpair, crash, restart of the clients, stop, failed fetch or clear | one object per device, what is created is stored, an unchanged hash means a stored content, index and list agree, paired devices are described and created, everything settles |
| `values` | two values, the poll and one more reader, a pushed or a polled interface, one change, two calls, one failing request | a request answered or failed is not repeated within the age of the cache; a polled value that stays is shown and certain in the end |
| `session` | two tasks, a backend with room for three sessions, two faults | every call ends; calls in turn are served again |
| `hub` | two variables or two programs, two changes or calls, one fault | no subscription outlives its variable; variables and programs catch up |
| `commands` | 24 kinds, two positions, two calls (blinds: two that overlap), one lost request | what was answered has taken effect; what was skipped had been done; a call for one coordinate of a blind keeps the other, but for what the combined value truncates |
| `creation` | seven devices, up to two lines of the user, three edits or removals, one fault | a line of the user takes effect (an impulse stays an event); only what the profiles list is shown beside a custom data point; events reach the living objects; the operation mode catches up |
| `hub_loop`, `creation_reload` | one property each | expected to fail: see the findings |

**Bounds.** The intervals matter by their order only: a reconnect sleeps (120 s, 8
ticks) less than the silence that makes a client overdue (600 s, 40 ticks), and
the checks come more often than both. The runs keep that order with 1 or 2 ticks.
`MaxFaults` allows an outage during another's recovery: the second fault can
fall into a reconnect, the third into the round after it. In `conn_mixed` both
clients reconnect: the JSON client when it has failed, the other when it is silent. The second failure
of the JSON client ends the round with an exception, and `Slow = {hmip}` lets a call of the other outlast it:
the next round starts a second reconnect of that client (`Slots = {1, 2}`; time waits before a third).
Without a call that hangs they cannot overlap, since all reconnects of a round sleep equally long; so
one slot is enough in `conn_ccu`. Two interfaces are enough in
`CentralLifecycle` for a loop over the clients to be interrupted between two
items, and for one client to be missing. In `PingPongCache` the clock has 5
values against an expiry of 2 and a limit of 2, so the limit is passed, pings
expire, and the day wraps.
In `DeviceRegistry` two devices let an add be overtaken by another and by a removal,
and one trouble of any kind can fall between any two steps of them. A property
that a kind of trouble breaks, by what the code does, names it (`Spared`): such a
property says nothing once that trouble has happened, but everything about the
other kinds. `Ordered` excludes two kinds together: a removal and a restart of the clients, which one
trouble never combines (see the findings). `OneObjectPerDevice` without its exception is `NoDuplicates`, which the
code breaks.
In `DataPoint` the ages keep their order (a load younger than the cache, the cache younger
than a poll interval, which is younger than a day), and the day wraps within the
run. Three sessions for two tasks can be used up by logins that race and sessions that are left behind.
Two variables let one be renamed to the other's old name; the order of the list
matters when one raises. In `commands` the second call can meet the first one's requests,
its unconfirmed values, its timer or its late report; the positions 0 and 58 are an end and one that
loses a percent on its way into an integer. The devices of `creation` are chosen so
that every table and every part of a profile has a device that it decides for; three edits allow a
removal, a pairing and a change of the configuration in any order.

**Fairness.** The event loop runs every task that is ready (weak fairness of
the check loop, of each reconnect, of the steps of `start` and `stop`, of an add, a
removal, a save and a load, of a reader, a fetch and a call), time
passes, and the polling loops poll. Of the backend we assume that an outage ends
(`Recover`), that a PONG it has sent arrives (`PongEvent`), and that it forgets a session that
nobody uses; nothing is assumed
of value events in `ClientConnection`, of calls of the user, or of `stop()` being called; in `DataPoint` and
`Creation` an event that is not lost is handled. The semaphore of a device is handed on in order: strong
fairness of the reader that waits (`ReadCached`). In `DeviceRegistry`
a process that has ended is started again, a fetch that may fail need not, and the
backend does compare its devices after an `init`.
A call is taken to end: the sockets have timeouts.
`ValuesReloaded` is claimed only while the backend of the client keeps answering:
a reload that meets a new outage is not retried.

**Deadlock** is checked for `ClientConnection` and `DataPoint`, which never stop. A stopped
central, a `PingPongCache` at the end of its clock, a registry or a device with no edit
and trouble left, and a hub whose loop is dead rest.

## 4. Proofs

TLC checks the instances; the theorems hold for every set of clients and all
values of the constants.

*ClientConnectionProofs.* `TypeCorrect` by cases over the actions, with lemmas for
`MarkAllDevices`, `IsConnected` and `Register`. `NoDeviceStuck` is inductive given
the types: the flag and the devices change together. `FailingShown`
and `RoundsAlternate` follow from the invariant `ConnInv`:

* reconnects run only while the loop gathers them, and are awaited by it
  (`OnlyAwaitedRun`);
* what it awaits has one reconnect per client (`OnePerClient`);
* a reconnect past its ping belongs to a client within the limit
  (`PastPingWithinLimit`): without it the `init` at its end could mark
  a failing client available;
* `FailingIsUnavailable` itself.

`ConnInv` is inductive if every client speaks XML-RPC (`OnlyXml`, an assumption of
these two theorems): a JSON client can end the gather with other reconnects
still running, so that `OnlyAwaitedRun` fails and, with a call that hangs, a client is even
reconnected twice at once. What is left with JSON clients is model-checked (`conn_mixed`).

*PingPongCacheProofs.* The four properties together are inductive: what is pending
beyond the limit has been shown at its latest change, since expiry only removes
(`CleanedShrinks`) and every addition goes through the check.

*PersistentCacheProofs.* `CacheTypes` for one cache, whose empty dictionary and whose dumps are among its contents. Its
lemmas say for any order of contents, in which a content and its dump are below each other, which steps keep hash, file
and dictionary in a chain (`Chain`; `Exact` where a dump changes nothing), that the file holds a dump (`Dumped`), and when it
can be cut short (`CutWhileWriting`); the registry cites them for both caches.

*CentralLifecycleProofs.* One inductive invariant, `IInv`, carries the three theorems: the types,
`NoCallCutOff` itself, and

* `Linked`: where a process is in its loops says what it does, and the check loop lives between the
  end of the first `start()` and the end of a `stop()`;
* `Gathered`: a reconnect runs only while the check loop waits for it;
* `StoppedBeside`: while `stop()` works beside reconnects, the clients its loop has passed are
  stopped, so that none is in the middle of a reconnect's call when the end of the loop clears
  the dictionary (`NoCallCutOff`);
* `NothingLost`: as long as one process at a time works on the dictionary (`Alone`), what the
  loop of `_stop_clients` has passed is stopped, what that of `_create_clients` has not reached is
  free, and nothing has leaked.

*DeviceRegistryProofs.* The longest argument, in layers; each is inductive given those above it.

* **Lists.** `Dropping` is a recursive function. What it returns is shown by the lemma `Induction`, which
  says of a *set* of numbers what the library says of an operator, and follows from the library's
  well-founded order of finite sets (`LeastNumber`). So a list stays free of repetitions, and
  no longer than there are devices.
* **Refinement.** `CachesImplemented`: every step of the registry is, for each of the two caches, one step
  of `PersistentCache` or leaves it. `TypeCorrect` also needs `Owed`: a device has at least the objects that `_devices` and the
  coroutines know of.
* **One object.** `NoSecondObject` needs that start and add are never both in the part that creates devices (`Alone`: calls
  reach the central only once it is registered, the last step of a start), and that
  a device has as many objects as it has entries in `_devices`, plus one while
  a coroutine awaits its values (`Counted`). `Alone` is where the proof
  fails for a restart: the client is back and the start creates devices while
  the add, which holds the semaphore, still does.
* **Hash and file.** `NothingToSave`. Without removals, crashes and `clear()` the hash saved, the file and the
  dictionary form a chain that only grows (`Grown`; of the paramsets, without a restart of the clients, which may
  replace them by less), and outside `stop()` the file is exactly what the hash
  stands for: the only save is that of the add, which changes nothing meanwhile. During `stop()` the add goes on
  beside a save; the chain is then what keeps an old hash from standing for a newer dictionary. For the
  paramsets beside a restart the property is left to TLC, which checks `UnchangedMeansStored` with restarts.
* **Index.** `IndexTrue`: list and index change together; only a load could separate them, and what it
  loads over a loaded list is not smaller.
* **Created and stored.** `CreatedSurvive`: the files follow the dictionaries except while an add has not yet
  saved (`StoredD`, `StoredP`), devices are created from what is described (`FromIndex`), and, without a failed
  fetch and a restart, what is described has its paramsets or is just being fetched (`Paramsetted`).
* **Nothing forgotten.** `NothingForgotten`: a paired device is described, announced by a call in the inbox, in a
  task of the queue, or in the list of the running add (`Covered`); a call that removes it is followed by one that announces
  it again (`InOrder`), and the comparison after an `init` covers what a crash or a start lost.

*DataPointProofs*, in two parts. For a generic data point (`DataPoint`, under the name `Point`, whose assumptions
`Ages` and `NoneIsNoEntry` are hypotheses here) `NotAskedAgain`: until the last answer of the backend is MAX_CACHE_AGE old,
the entry of the device's cache is that answer and as old (`AnswerKept`; one more tick does not
wrap, as a day is longer), and what a cache holds is never `None` (`CachesTyped`), so a
read that finds nothing finds no young entry.

For a custom data point, of every kind, with any positions, callers and number of calls and faults:

* **Requests.** `RequestsAre`: what a call collects makes a sequence of requests, each of which has the parameters of one
  channel and order and for each of them a value the call put there (`Makes`, `ListedAre`), in the order of
  the keys (`KeysOrdered`, by the library's facts on extremes). Per family it follows which values a
  request carries (`CoverSends`, `LightSends`).
* **Skipped.** `SkipsAreDone`: per family, a call that `is_state_change` finds nothing in is done where the values shown are
  those of the device (`CoverSkips`, `LightSkips`, `ClimateSkips`); and nothing being on its way they are, since what a
  device has been told it reports (`Told`). It needs the ranges of what is shown (`Typed`).
* **Coordinates.** `CoordinatesKept`, by the invariant `Steered`: only the caller that holds the lock of the blind sends; for a coordinate that
  was not stopped, either it still has a request with it, or neither the goal of the device, nor the value sent and not
  confirmed, nor, if that is forgotten, the one shown or reported next differs from what the callers wanted
  (`Resting`): whichever the next call for the other coordinate takes, it is right. "Differs" is up to the combined value:
  `Kept` holds the position and what is left of it after any number of conversions, and is closed under one more (`KeptIs`). The
  step that needs it is the lock (`AcquireSteers`), and without the lock it is false.
* **Taking effect.** `SentReachesAim`, by the invariant `Sent`: while none of its requests has failed, what a caller has
  still to send reaches the aim of its call (`Reaches`). A cover, blind or light is sent levels and colours that add
  up: each parameter of the goal suits the call or is in a request to come, and nothing to come spoils it
  (`Fitting`); the duration after which a light turns off comes in the request that sets its level, or has come
  (`Timely`). A blind that is stopped first loses its goal, but gets both coordinates after that (`Steered`). The other kinds send one
  request that is enough on its own (`Alone`), or none. This is shown per family when a call begins to send (`CallReaches`:
  `LightReaches`, `CoverReaches`, `GarageReaches`, `LockReaches`, `ClimateReaches`, `ScheduleReaches`)
  and kept by each answer (`AnsweredReaches`). It rests on the device keeping its parameters (`Shaped`), and for a thermostat on its temperatures
  lying in 4..30 and its values being loaded (`Warmed`): a mode is sent with the temperature shown. For a
  week schedule, `SimpleMeans` says that the slots made of the simple form heat at every time
  as its periods ask: the periods of the module are at most two, so the sorted list and the flattened slots are
  written out (`SortedAre`, `Flattened`, `PeriodsAre`), and the slots cover the day in order (`SlotsAre`, `HeatedIs`).

*HubProofs.* `SubscriptionsAgree` is inductive with the types of points, messages and lists, and with
`SendingKnown`: a command that awaits its answer finds its point unless a fetch has removed it and told it so.
`UpdateStep` is the fetch: points that go take their subscriptions along, kept points keep
their id, and a new subscription leads to a point just created.

*CreationProofs.* For any device, profiles and lines; one inductive invariant (`IInv`) beside the types:

* `Cached`: a cached description is that of the backend, but for a MASTER parameter without operations, which
  creation may have given some; a reload keeps that;
* `Absent`: without a process there is no device, without a device no data point and no event;
* `Reporting`: a data point reports what its parameter reports, after any reload. `EventsReach` needs it:
  removal looks for subscriptions of what *now* supports events, and would leave others behind;
* `Granted`: what the lines ask for was un-ignored when the device was created. `LinesWin` follows, since such a point is shown
  before the mode, the forced usage and the hidden parameters are asked. That a line wins at creation is the lemma `LineCreates`,
  over `AskedUnIgnored`, `MasterEntry` and `AskedConsidered`.

* `Forced`: beside custom data points, creation forces exactly what their profiles list to be shown. `OnlyListed` follows;
  for it the loops of `CreateCustom` over profiles and channels are recursive functions, and what they force is shown by an
  induction over a *set* of numbers (`Induction`). It assumes of the tables that a channel belongs to
  one group of its device and that what a profile lists for one group no other profile hides there; both hold for the
  library's tables (110 models).

Assumed are the named `ASSUME`s of the modules only: finite sets, natural bounds,
positive intervals, a day longer than the expiry, models and lines of the form the code reads
(`LineKinds`), operations among READ, WRITE and EVENT, and that `None` is neither a value nor an entry. TLC evaluates them in every run.

Only model-checked: everything under fairness (`RegistrationRestored`,
`AvailabilityRestored`, `ValuesReloaded`, `CallbackRestored`, `ClientsRestored`,
`StopEnds`, `CleanStop`, `PairedAppears`, `Settles`, `PolledCatchesUp`, `CallsEnd`, `RecoversInTurn`,
`SysvarsCatchUp`, `ProgramsCatchUp`, `ModeCatchesUp`), which these provers do not reach. Of the week
schedules, lists of more than two periods would need an induction over lists.

## 5. Findings

Each is the counterexample of a run; the quoted claims are in `PROJECT.json`.

1. `hub_loop`: a system variable that is given another type while its marker stays is kept, its new
   value is not one its data point takes, and the `TypeError` or `ValueError` ends the loop that refreshes the
   variables.
2. `creation_reload`: a MASTER parameter of a BidCos device becomes unreadable and
   unwriteable when the device was configured and `CONFIG_PENDING` goes off, until the next start.

Shown by earlier runs, which gave their place to other questions; the models still have the behaviour,
and properties that it would break name it:

* A JSON client (CUxD, CCU-Jack) that was marked unavailable
  never becomes available again, so `AvailabilityRestored` is run with an XML-RPC client: its `proxy_init` returns before the devices are
  marked (`client/__init__.py:192`). `central.available` stays false, and with it polling and reloads stop.
* A client without a single event so far never counts as
  overdue (`client/__init__.py:329`), so a registration that failed at start, or was lost early, is not
  repeated.
* A refused call (`ProtocolError`) that meets a recorded
  connection issue raises nothing (`client/xml_rpc.py:160`); `proxy_init` reports success.
* Interfaces that were reconnected are reloaded only if no
  other interface is unavailable (`central/__init__.py:1606`).
* `restart_clients` replaces all clients, the devices keep
  the stopped ones (`model/device.py:90`).
* `stop()` beside a restart or reconnect leaves a registration (`central/__init__.py:421`).
* A restart of the clients beside a running add creates a device
  twice (`central/__init__.py:848`); one object stays subscribed and belongs to nobody.
* The temporary value of a command is never shown once the data point has been read: both stamps are
  the moment of the import (`model/data_point.py:300`).
* A blind that was stopped on its way goes on to its old target with the next call for the
  other coordinate: `stop()` does not forget what was sent (`model/custom/cover.py:383`, against the comment at 327).
* A call for the slats of a blind sends its height too, in a combined value (`model/custom/cover.py:351`): half percents of a float for
  BidCos (`converter.py:29`), percents for HmIP (`cover.py:477`). At 14.5, 28.5, 29 and 56.5 to 58 % it is a step less: a blind at 58 % drives
  to 57.5 % when its slats are turned, and to 57 % the next time, against "we remain at the current level" at 325.
  `BlindKeepsCoordinates` is checked and proved up to this (`Kept`).

Seen on the way, without a run of their own. Connection and life cycle:

* "three consecutive checks" (`client/__init__.py:308`) are four: `> 3`.
* `_init_clients` deletes from the dictionary it iterates over, so an unlisted
  interface makes `start()` or the restart raise (`DropClient`).
* A second `start()` after `stop()` raises, since a thread starts only once
  (`Started`); a `start()` after a failed one finds its clients and initialises
  none of them (`Start`).
* The de-init of a client whose last check failed is skipped although the backend
  may have it registered (`ReInit`, `DeInitClient`).
* A thread still alive after `block_till_done` would make `stop()` wait for ever on an event that nobody sets (`central/__init__.py:448`).
* The clients to poll are captured when the scheduler starts (`central/__init__.py:1523`).
* A central whose name is taken is not added to the shared server, and on `stop()` it removes the other one (`central/xml_rpc_server.py:236`).

Registry and files:

* A restart of the clients reads the files into a process that has newer paramsets: fetched keys are members of an
  enumeration, those of the file strings, so the hashes differ always and what was not saved yet is lost
  (`caches/persistent.py:112`). And the add beside it goes on with the stopped client, whose fetches all fail
  (`central/__init__.py:954`). `CreatedIsStored` therefore claims the paramsets without a restart only.
* A file that `clear_caches` deletes between the look and the opening makes the load of a restart raise
  (`AfterLoad`): `_load_caches` catches what does not parse only.
* A fetch that fails (`FetchFailed`), or a crash between the saves of the two caches,
  leaves an address known and its paramsets missing, for good.
* The removal of a device that is still being created is lost (`Removable`).
* A removal that falls into a write leaves the file under the hash of before; the load of a restart takes it for new
  and puts it over what an add has recorded in the meantime, so that the index names a device the list has not. And
  a removal whose call waits in the inbox over a restart removes a device that has been paired again since. Both came up in
  the attempts to prove `IndexAgrees` and `DescribedAgain`, which hold in runs of one trouble; they now say `Ordered`.
* A removal is not saved (`DeleteDevices`): after a crash the device is back until the
  backend compares.
* `clear()` keeps `last_hash_saved`: identical descriptions fetched again are not
  written (`Clear`, `Dirty`).
* What a save writes may be newer than the hash it remembers (`SaveWrite`). When the
  dictionary then returns to the older content, as when a device that was added
  during the write is removed, it counts as saved while the file still has the device:
  why `UnchangedMeansStored` excludes removals.

Values, session and hub:

* For a pushed interface the answer to a read that is older than an event replaces the event's value.
* `CentralDataCache.load` returns at the first interface that is fresh and skips those after it.
* Calls that overlap can log each other's session out again and again.
* Hub: what was created before a fetch aborts is never announced; a variable created anew
  under its old name keeps the subscription of its former id; a renamed STRING variable keeps its point; unreadable
  descriptions re-create extended variables; a variable is looked up by the name it is displayed with
  (`central/__init__.py:1346`).

Commands:

* A thermostat set to off and then to heat before its report leaves the temperature out (`Settled`).
* A light that is off and asked to turn on with an argument it shows stays off (`LightLeftOff`).
* An RGBW light takes or resets its timer before it looks whether to send at all.
* A single `set_value` that fails within `bind_collector` is neither raised nor logged.
* A call back to the shown state while the first one runs is dropped.
* A blind without loaded values is closed by a call for its slats; the positions 29, 57 and 58
  are shown a percent too low; open and close with both coordinates do not stop first.
* The check for writeable operations in `Client._convert_value` has no effect.
* An IP thermostat in boost leaves it when a week profile is set in AUTO; `set_mode(auto)` while away or in boost is skipped.
* Paths that raise `ValueError` leave the token of `IN_SERVICE_VAR`.
* DALI and fixed-color lights omit the unit when it is seconds.
* Schedules: the 13th slot is never validated, an end time of 0 resets the check for rising times, 13 slots that end before
  24:00 lose the rest of the day, periods with the same start drop each other, 24:01 to 24:59 pass, one failed read
  marks schedules as unsupported, and copies are not validated.

Creation:

* `_get_value_from_dict_by_wildcard_key` looks for a key that starts with the model: HM-Sec-Key-S is not covered by HM-Sec-Key.
* A MASTER line for all models makes the channel of a model "all" relevant before it is refused; a MASTER line needs
  the exact model although relevance matches prefixes; an unknown paramset in a line makes `start()` raise.
* Subscriptions of points that are readable but send no events are never removed; points are not announced again
  when the operation mode changes what is shown.
* A binary sensor loses the type that creation gave it on a reload, as MASTER parameters lose their operations.
* `Channel._base_no` is always None; the look-ups of the visibility rules are cached per process, so a
  list changed in the same process is not seen.

## 6. Not modelled, and the plan

In this order:

1. An abstract file-backed cache (the file holds some earlier dictionary, or nothing)
   that `PersistentCache` implements, and the theorem of the refinement.
2. An abstract value ("shows the backend's value within a poll") that `DataPoint`
   implements, and a failure detector that `ClientConnection` implements.
3. `XmlRpcServer` with `Looper`: several centrals, dispatch from threads, stop.
4. Central links and firmware updates of a device (`model/device.py`), with their metadata.
5. Week schedules with more slots and lists of any length.

Left out for good: the command line tool, the test backend, logging and the export
of definitions; names, rooms and units; the mapping tables of custom data points, which are data.
