----------------------------- MODULE DataPoint -----------------------------
(***************************************************************************)
(* The value of one readable data point of paramset VALUES, from the       *)
(* backend to the entity that shows it: the events that are pushed, the    *)
(* periodic load that replaces them for an interface that pushes nothing,  *)
(* the reads through the cache of the central and that of the device, the  *)
(* commands that are sent, the cache of sent commands and the temporary    *)
(* value (model/data_point.py, model/generic/data_point.py,                *)
(* model/device.py, caches/dynamic.py, client/__init__.py).                *)
(*                                                                         *)
(* A time stamp is modelled by its age.  changed_within_seconds compares   *)
(* timedelta.seconds, which leaves the days out: ages count modulo Day.    *)
(***************************************************************************)
EXTENDS Integers, Sequences

CONSTANTS
    Values,      \* what the parameter may be
    None,        \* Python's None, and the lack of an entry
    NoValue,     \* _NO_VALUE_CACHE_ENTRY, NO_CACHE_ENTRY
    Readers,     \* tasks that load the value: "poll", and reloads and services
    LoadAge,     \* int(MAX_CACHE_AGE / 3)
    CacheAge,    \* MAX_CACHE_AGE
    CommandAge,  \* LAST_COMMAND_SEND_STORE_TIMEOUT
    PollTicks,   \* periodic_refresh_interval
    Day,         \* what timedelta.seconds counts up to
    MaxChanges,  \* bound: how often the value changes by itself
    MaxCalls,    \* bound: how many commands, loads and reads are called for
    MaxFaults    \* bound: how many requests fail

Ages ==
    /\ {LoadAge, CacheAge, CommandAge, PollTicks, Day} \subseteq Nat \ {0}
    /\ LoadAge <= CacheAge /\ CacheAge < PollTicks /\ PollTicks < Day
\* None is no value and no cache entry, and differs from NoValue.
NoneIsNoEntry ==
    /\ None \notin Values /\ NoValue # None
    /\ None \notin [value : Values \cup {NoValue}, age : Nat]

ASSUME AgesAssumption == Ages
ASSUME NoneAssumption == NoneIsNoEntry

VARIABLES
    push,        \* supports_push_updates: the client's interface sends events
    backend,     \* the value at the backend
    events,      \* the event messages on their way, oldest first
    point,       \* the data point: current, temporary, which of them was
                 \* refreshed, and state_uncertain
    lastSend,    \* the entry of the command cache: value and age
    central,     \* the entry of CentralDataCache
    device,      \* the entry of the device's _ValueCache
    readers,     \* per reader: where it stands and the answer it holds
    command,     \* the command on its way: where it stands and its value
    imported,    \* age of the import of model/data_point.py
    polled,      \* ticks since the last poll ended, up to PollTicks
    changes, calls, faults,       \* how much of the bounds is used
    asked        \* age of the last answer to a getValue

vars == <<push, backend, events, point, lastSend, central, device, readers, command,
          imported, polled, changes, calls, faults, asked>>
counters == <<changes, calls, faults>>

Idle == [pc |-> "idle", value |-> None]

Init ==
    /\ push \in BOOLEAN
    /\ backend \in Values
    /\ events = <<>>
    /\ point = [current |-> None, temporary |-> None, refreshed |-> FALSE,
                temporaryRefreshed |-> FALSE, uncertain |-> TRUE]
    /\ lastSend = None /\ central = None /\ device = None
    /\ readers = [r \in Readers |-> Idle]
    /\ command = Idle
    /\ imported = 0 /\ polled = PollTicks /\ asked = None
    /\ changes = 0 /\ calls = 0 /\ faults = 0

-----------------------------------------------------------------------------
(* The data point. *)

Younger(age, max) == age < max
Fresh(entry, max) == entry # None /\ Younger(entry.age, max)

\* _value: the temporary value shows when it was refreshed last.  Each stamp
\* is the moment of the import or INIT_DATETIME: it shows only while the
\* value itself was never refreshed.
Shown(p) == IF p.temporaryRefreshed /\ ~p.refreshed THEN p.temporary ELSE p.current

Called == calls < MaxCalls /\ calls' = calls + 1

\* is_state_change
IsStateChange(v) == v # Shown(point) \/ point.uncertain

\* write_value
Written(p, v) ==
    LET reset == [p EXCEPT !.temporary = None, !.temporaryRefreshed = FALSE]
    IN  IF v = NoValue THEN [reset EXCEPT !.uncertain = p.uncertain \/ p.refreshed]
        ELSE [reset EXCEPT !.current = v, !.refreshed = TRUE, !.uncertain = FALSE]

\* write_temporary_value
TemporaryWritten(p, v) ==
    LET reset == [p EXCEPT !.temporary = None, !.temporaryRefreshed = FALSE]
    IN  IF Shown(reset) = v THEN [reset EXCEPT !.temporaryRefreshed = TRUE]
        ELSE [reset EXCEPT !.temporary = v, !.temporaryRefreshed = TRUE,
                           !.uncertain = TRUE]

\* remove_last_value_send: a confirmed entry goes, and an expired one.
Confirmed(v) ==
    IF lastSend # None /\ (lastSend.value = v \/ ~Younger(lastSend.age, CommandAge))
    THEN None ELSE lastSend

\* unconfirmed_last_value_send
Unconfirmed == IF Fresh(lastSend, CommandAge) THEN lastSend.value ELSE None

-----------------------------------------------------------------------------
(* Events. *)

Emit(v) == events' = IF push THEN Append(events, v) ELSE events

\* data_point_event reaches GenericDataPoint.event.
ReceiveEvent ==
    /\ events # <<>>
    /\ events' = Tail(events)
    /\ lastSend' = Confirmed(Head(events))
    /\ point' = Written(point, Head(events))
    /\ command' = IF command.pc = "waiting" /\ command.value = Head(events)
                  THEN Idle ELSE command
    /\ UNCHANGED <<push, backend, central, device, readers, imported, polled,
                   counters, asked>>

Change ==
    /\ changes < MaxChanges
    /\ changes' = changes + 1
    /\ \E v \in Values \ {backend} : backend' = v /\ Emit(v)
    /\ UNCHANGED <<push, point, lastSend, central, device, readers, command, imported,
                   polled, calls, faults, asked>>

-----------------------------------------------------------------------------
(* Loading the value. *)

At(r, pc, v) == readers' = [readers EXCEPT ![r] = [pc |-> pc, value |-> v]]
SemaphoreFree == \A r \in Readers : readers[r].pc \notin {"ask", "answered"}

\* A value cached at the central, then at the device (_get_value_from_cache,
\* CentralDataCache.get_data, _is_empty).
Cached ==
    IF Fresh(central, CacheAge) THEN central.value
    ELSE IF Fresh(device, CacheAge) THEN device.value ELSE None
SweptCentral == IF Fresh(central, CacheAge) THEN central ELSE None

\* load_data_point_value is left early: what it calls _refreshed_at is the
\* moment of the import.
SkipsLoadForGood == point.refreshed \* a variant: a value once read is never loaded again
SkipsLoad == point.refreshed /\ Younger(imported, CacheAge)

\* load_and_refresh_data_point_data: CentralDataCache.load asks for all the
\* values of the interface unless they are fresh.
StartLoad(r) ==
    /\ readers[r].pc = "idle"
    /\ IF r = "poll" THEN ~push /\ polled = PollTicks /\ UNCHANGED calls ELSE Called
    /\ At(r, IF Fresh(central, LoadAge) THEN "fetched" ELSE "fetch", None)
    /\ UNCHANGED <<push, backend, events, point, lastSend, central, device, command,
                   imported, polled, changes, faults, asked>>

\* load_data_point_value, called for one data point.
StartRead(r) ==
    /\ readers[r].pc = "idle" /\ r # "poll" /\ Called
    /\ At(r, "fetched", None)
    /\ UNCHANGED <<push, backend, events, point, lastSend, central, device, command,
                   imported, polled, changes, faults, asked>>

\* fetch_all_device_data is answered: the value as the script has met it.
FetchAnswered(r) ==
    /\ readers[r].pc = "fetch"
    /\ \/ readers[r].value = None /\ At(r, "fetch", backend)
          /\ UNCHANGED <<central, faults>>
       \/ readers[r].value # None /\ At(r, "fetched", None)
          /\ central' = [value |-> readers[r].value, age |-> 0]
          /\ UNCHANGED faults
       \/ faults < MaxFaults /\ faults' = faults + 1
          /\ At(r, "fetched", None) /\ UNCHANGED central
    /\ UNCHANGED <<push, backend, events, point, lastSend, device, command, imported,
                   polled, changes, calls, asked>>

Ended(r) == /\ At(r, "idle", None)
            /\ polled' = IF r = "poll" THEN 0 ELSE polled

\* load_data_point_value: it returns, or get_value waits for the semaphore;
\* once it holds it, the value is cached, or it is asked for.
ReadCached(r) ==
    /\ \/ readers[r].pc = "fetched" /\ ~SkipsLoad
       \/ readers[r].pc = "queue"
    /\ SemaphoreFree
    /\ central' = SweptCentral
    /\ IF Cached # None THEN Ended(r) /\ point' = Written(point, Cached)
       ELSE At(r, "ask", None) /\ UNCHANGED <<point, polled>>
    /\ UNCHANGED <<push, backend, events, lastSend, device, command, imported,
                   counters, asked>>

EnterRead(r) ==
    /\ readers[r].pc = "fetched"
    /\ \/ SkipsLoad /\ Ended(r)
       \/ ~SkipsLoad /\ ~SemaphoreFree /\ At(r, "queue", None) /\ UNCHANGED polled
    /\ UNCHANGED <<push, backend, events, point, lastSend, central, device, command,
                   imported, counters, asked>>

\* The backend answers getValue, or the request fails.
Ask(r) ==
    /\ readers[r].pc = "ask"
    /\ \/ At(r, "answered", backend) /\ UNCHANGED faults
       \/ faults < MaxFaults /\ faults' = faults + 1 /\ At(r, "answered", NoValue)
    /\ UNCHANGED <<push, backend, events, point, lastSend, central, device, command,
                   imported, polled, changes, calls, asked>>

\* _add_entry_to_device_cache: what was read, or the lack of it, is kept.
RememberedUnlessFailed(r) ==  \* a variant: a failed read leaves no entry
    IF readers[r].value = NoValue THEN device ELSE [value |-> readers[r].value, age |-> 0]
Remembered(r) == [value |-> readers[r].value, age |-> 0]

ReadAnswered(r) ==
    /\ readers[r].pc = "answered"
    /\ device' = Remembered(r)
    /\ point' = Written(point, readers[r].value)
    /\ asked' = 0
    /\ Ended(r)
    /\ UNCHANGED <<push, backend, events, lastSend, central, command, imported, counters>>

-----------------------------------------------------------------------------
(* Sending a value. *)

\* send_value: set_value is called, when it would change the state.
SendValue(v) ==
    /\ command.pc = "idle" /\ Called
    /\ command' = IF IsStateChange(v) THEN [pc |-> "sent", value |-> v] ELSE Idle
    /\ UNCHANGED <<push, backend, events, point, lastSend, central, device, readers,
                   imported, polled, changes, faults, asked>>

\* The backend takes the value and reports it.
Obey ==
    /\ command.pc = "sent"
    /\ command' = [command EXCEPT !.pc = "done"]
    /\ backend' = command.value
    /\ Emit(command.value)
    /\ UNCHANGED <<push, point, lastSend, central, device, readers, imported, polled,
                   counters, asked>>

\* The request fails: neither cache learns of it.
SendFails ==
    /\ command.pc \in {"sent", "done"} /\ faults < MaxFaults
    /\ faults' = faults + 1
    /\ command' = Idle
    /\ UNCHANGED <<push, backend, events, point, lastSend, central, device, readers,
                   imported, polled, changes, calls, asked>>

\* _set_value, after the answer: the command cache, the temporary value, and
\* the wait for the event that confirms it, if the caller asks for one.
SendAnswered ==
    /\ command.pc = "done"
    /\ lastSend' = [value |-> command.value, age |-> 0]
    /\ point' = IF push THEN point ELSE TemporaryWritten(point, command.value)
    /\ command' \in {Idle, [command EXCEPT !.pc = "waiting"]}
    /\ UNCHANGED <<push, backend, events, central, device, readers, imported, polled,
                   counters, asked>>

\* _track_single_data_point_state_change_or_timeout: the time is up.
WaitTimeout ==
    /\ command.pc = "waiting"
    /\ command' = Idle
    /\ UNCHANGED <<push, backend, events, point, lastSend, central, device, readers,
                   imported, polled, counters, asked>>

\* get_last_value_send, asked for an expired entry, removes it.
ReadUnconfirmed ==
    /\ lastSend # None /\ Unconfirmed = None
    /\ lastSend' = None
    /\ UNCHANGED <<push, backend, events, point, central, device, readers, command,
                   imported, polled, counters, asked>>

-----------------------------------------------------------------------------
Aged(entry) == IF entry = None THEN None
               ELSE [entry EXCEPT !.age = (entry.age + 1) % Day]

\* The poll loop sleeps: it is on time, and its requests take less than a tick.
PollSleeps == readers["poll"].pc = "idle" /\ (polled < PollTicks \/ push)

Tick ==
    /\ PollSleeps
    /\ lastSend' = Aged(lastSend) /\ central' = Aged(central) /\ device' = Aged(device)
    /\ imported' = (imported + 1) % Day
    /\ polled' = IF polled < PollTicks THEN polled + 1 ELSE polled
    /\ asked' = IF asked = None \/ asked = CacheAge THEN asked ELSE asked + 1
    /\ UNCHANGED <<push, backend, events, point, readers, command, counters>>

Load(r) == \/ StartLoad(r) \/ FetchAnswered(r) \/ EnterRead(r)
           \/ ReadCached(r) \/ Ask(r) \/ ReadAnswered(r)

Next ==
    \/ \E r \in Readers : Load(r) \/ StartRead(r)
    \/ ReceiveEvent \/ Change
    \/ \E v \in Values : SendValue(v)
    \/ Obey \/ SendFails \/ SendAnswered \/ WaitTimeout \/ ReadUnconfirmed
    \/ Tick

Spec == Init /\ [][Next]_vars

\* Time passes, the poll loop goes on and what is asked is answered.
Fairness == /\ WF_vars(Tick) /\ WF_vars(Obey) /\ WF_vars(SendAnswered)
            /\ WF_vars(WaitTimeout) /\ WF_vars(ReceiveEvent)
            /\ \A r \in Readers : /\ WF_vars(StartLoad(r) /\ r = "poll")
                                  /\ WF_vars(FetchAnswered(r)) /\ WF_vars(EnterRead(r))
                                  /\ SF_vars(ReadCached(r))
                                  /\ WF_vars(Ask(r)) /\ WF_vars(ReadAnswered(r))
FairSpec == Spec /\ Fairness

-----------------------------------------------------------------------------
(* The cache spares the backend: once a getValue is answered, well or with  *)
(* an error, no load asks again before the entry is MAX_CACHE_AGE old,      *)
(* however many loads wait for the semaphore meanwhile ("to avoid           *)
(* repetitive calls to CCU within max_age", device.py).                     *)
NoRepeatedCalls ==
    [][\A r \in Readers : readers[r].pc # "ask" /\ readers'[r].pc = "ask"
                          => asked = None \/ asked = CacheAge]_vars

(* An interface without push catches up: once the value stays, the polls,   *)
(* through both caches, the failed requests they remember and the temporary *)
(* value of a command, end up showing it, and say that it is certain.       *)
PolledCatchesUp == ~push => <>[](Shown(point) = backend /\ ~point.uncertain)
=============================================================================
