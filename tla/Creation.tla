------------------------------ MODULE Creation ------------------------------
(***************************************************************************)
(* What becomes of the description of one device: its generic data points,  *)
(* events and custom data points (model/__init__.py, model/device.py,       *)
(* model/generic, model/event.py, model/custom/definition.py and            *)
(* data_point.py), which of them are shown, and what is left of that after  *)
(* the device was configured anew, read again, removed and paired again.    *)
(*                                                                         *)
(* A key is <<channel, paramset, parameter>>; DeviceRegistry models how the *)
(* descriptions come in and are stored, DataPoint how values do.            *)
(***************************************************************************)
EXTENDS Visibility, FiniteSets, SequencesExt

CONSTANTS
    Devices,      \* the devices, a run is about one of them
    Model,        \* per device, its model
    Channels,     \* per device, its channels, in order
    Multi,        \* per device, the channels of a type in _CONFIGURABLE_CHANNEL
    Description,  \* per device: key -> [ops, internal]
    Configs,      \* per device: what get_custom_configs returns, in order
    Lines,        \* per device, the lines that the user may write
    Modes,        \* values of CHANNEL_OPERATION_MODE
    Defaults,     \* DEFAULT_DPS, pairs of a channel and a parameter
    MaxLines,     \* bound: lines at a time
    MaxEdits,     \* bound: changes of lines and of the configuration, and removals
    MaxFaults     \* bound: requests that fail, events that get lost

Operations == {"R", "W", "E"}

\* what a line of the file can be, and what a generic data point keeps of its
\* description: a channel is counted, the device itself or all of them
LineKinds ==
    [form : {"plain"}, parameter : STRING]
    \cup [form : {"entry"}, parameter : STRING, paramset : STRING,
          model : Seq(STRING) \cup {All}, channel : Int \cup {None, All}]
    \cup [form : {"ignore"}, model : Seq(STRING)] \cup {Malformed}
Attributes == [ops : SUBSET Operations, sensor : BOOLEAN, unIgnored : BOOLEAN]

ASSUME DescriptionsAssumption ==
    \A d \in Devices :
      /\ Model[d] \in Seq(STRING)
      /\ \A k \in DOMAIN Description[d] : Description[d][k].ops \subseteq Operations
ASSUME LinesAssumption == \A d \in Devices : Lines[d] \subseteq LineKinds
ASSUME NoneAssumption ==
    /\ None \notin Attributes /\ None \notin Int /\ None \notin {"CDP_VISIBLE", "DATA_POINT"}
    /\ \A d \in Devices : \A lines \in SUBSET Lines[d] : lines # None

VARIABLES
    device,     \* the device of this run
    file,       \* the lines of the user
    raw,        \* _raw_un_ignore_list, or None: no central runs
    ops,        \* the cached descriptions: key -> OPERATIONS, or None
    points,     \* the generic data points: key -> its attributes, or None
    forced,     \* _forced_usage of the generic data points: key -> usage, or None
    events,     \* the keys that have an event
    custom,     \* channel -> its custom data point, or None
    subs,       \* key -> handlers of its events, of this and former objects
    created,    \* which Device object it is, 0: none
    mode,       \* the operation mode at the device
    shownMode,  \* the value of the data point for it
    pending,    \* the value of CONFIG_PENDING is True
    messages,   \* the events of CONFIG_PENDING on their way
    reload,     \* the running reload_paramset_descriptions
    edits, faults

vars == <<device, file, raw, ops, points, forced, events, custom, subs, created, mode,
          shownMode, pending, messages, reload, edits, faults>>
objects == <<points, forced, events, custom, subs, created>>
user == <<device, file>>

Keys == DOMAIN Description[device]
D(k) == Description[device][k]
ModeKey == <<1, "MASTER", "CHANNEL_OPERATION_MODE">>
PendingKey == <<0, "VALUES", "CONFIG_PENDING">>

-----------------------------------------------------------------------------
(* Custom data points (model/custom/definition.py).  A configuration has a  *)
(* profile: primary and secondary channels, allowUndefined, defaults, and   *)
(* the fields, repeatable ones on the channel of the custom data point,     *)
(* others on channels counted from the primary one.                         *)

Shift(channel, base) == IF channel = None \/ base = None THEN None ELSE channel + base

PrimaryChannels(config) ==
    IF config.profile.primary = None THEN config.channels
    ELSE {Shift(c, config.profile.primary) : c \in config.channels}

RelevantChannels(config) ==
    {Shift(d, c) : d \in {config.profile.primary} \cup config.profile.secondary,
                   c \in config.channels}

\* add_sub_device_channels_to_device: the first assignment of a channel stays;
\* the groups of one configuration do not overlap
SubDevices(base, config) ==
    LET new == {<<c + o, c + config.profile.primary>> :
                  o \in config.profile.secondary \cup {config.profile.primary},
                  c \in config.channels \ {None}}
    IN  IF config.profile.primary = None THEN base
        ELSE base \cup {n \in new : ~\E b \in base : b[1] = n[1]}

BaseOf(base, channel) ==
    IF \E b \in base : b[1] = channel THEN (CHOOSE b \in base : b[1] = channel)[2] ELSE None

\* a variant: the channels of a group are not counted from its first one
NotRebased(fields, base) == fields

\* _rebase_data_point_dict: the fields of a group, counted from its base
Counted(channel, base) == IF base = None THEN channel ELSE channel + base
Rebased(fields, base) == {<<Counted(f[1], base), f[2]>> : f \in fields}

\* get_generic_data_point: one of VALUES comes before one of MASTER
Found(made, channel, parameter) ==
    LET values == <<channel, "VALUES", parameter>>
        master == <<channel, "MASTER", parameter>>
    IN  {k \in {values, master} \cap DOMAIN made :
           made[k] # None /\ (k = master => values \notin DOMAIN made \/ made[values] = None)}

AllFound(made, fields) == UNION {Found(made, f[1], f[2]) : f \in fields}

\* force_usage: the later call overrides the earlier
ForceUsage(usages, keys, usage) ==
    [k \in DOMAIN usages |-> IF k \in keys THEN usage ELSE usages[k]]

\* a field that is a switch turned sensor keeps its usage
Switches(made, keys) == {k \in keys : ~made[k].sensor}

Repeated(channel, parameters) == {channel} \X parameters

\* The groups of a configuration, and what one lists of the parameters that
\* are no fields of its custom data points.
Group(config, c) == {Shift(c, o) : o \in {config.profile.primary} \cup config.profile.secondary}
ListedAt(config, channel) ==
    LET p == config.profile
        groups == {c \in config.channels : channel \in Group(config, c)}
    IN  config.additional \cup (IF p.defaults THEN Defaults ELSE {})
        \cup Repeated(channel, p.visibleRepeatable)
        \cup UNION {{<<Counted(f[1], Shift(c, p.primary)), f[2]>> : f \in p.visible \cup p.additional} :
                      c \in groups}

\* What the tables of the library have in common (definition.py, and DEVICES
\* of climate.py, cover.py, light.py, lock.py, siren.py, switch.py): a channel
\* belongs to one group, and what one group lists no other hides.
Fields == (Int \cup {None}) \X STRING
ConfigType ==
    [profile : [primary : Int \cup {None}, secondary : SUBSET Int, allowUndefined : BOOLEAN,
                repeatable : SUBSET STRING, visibleRepeatable : SUBSET STRING,
                fields : SUBSET Fields, visible : SUBSET Fields, additional : SUBSET Fields,
                defaults : BOOLEAN],
     channels : SUBSET (Int \cup {None}), additional : SUBSET Fields, fixed : SUBSET Fields]
ASSUME TablesAssumption ==
    /\ Defaults \subseteq Fields
    /\ \A d \in Devices : /\ Channels[d] \in Seq(Int \cup {None})
                           /\ Configs[d] \in Seq(ConfigType)
ASSUME GroupsAssumption ==
    \A d \in Devices : \A i, j \in DOMAIN Configs[d] :
      LET a == Configs[d][i]
          b == Configs[d][j]
      IN  /\ a.profile.primary = None => a.profile.secondary = {}
          /\ \A c \in a.channels \ {None}, e \in b.channels \ {None} :
               Group(a, c) \cap Group(b, e) \subseteq {None}
               \/ Shift(c, a.profile.primary) = Shift(e, b.profile.primary)
ASSUME HidingAssumption ==
    \A d \in Devices : \A i, j \in DOMAIN Configs[d] :
      LET a == Configs[d][i]
          b == Configs[d][j]
      IN  \A c \in RelevantChannels(a), e \in RelevantChannels(b) :
            Repeated(c, a.profile.repeatable) \cap ListedAt(b, e) \subseteq ListedAt(a, c)

\* a variant: the fields are taken in last
FieldsLast(made, usages, config, channel, base) ==
    LET p == config.profile
        hidden == AllFound(made, Repeated(channel, p.repeatable))
        visible == AllFound(made, Repeated(channel, p.visibleRepeatable))
        shown == AllFound(made, Rebased(p.visible, base))
        plain == AllFound(made, config.fixed \cup Rebased(p.fields, base))
        extended == ForceUsage(usages, AllFound(made, config.additional), "DATA_POINT")
        listed == Rebased(p.additional, base) \cup (IF p.defaults THEN Defaults ELSE {})
        marked == ForceUsage(extended, AllFound(made, listed), "DATA_POINT")
    IN  [fields |-> hidden \cup visible \cup plain \cup shown,
         forced |-> ForceUsage(ForceUsage(marked, Switches(made, visible \cup shown),
                                          "CDP_VISIBLE"),
                               Switches(made, hidden), "NO_CREATE")]

\* CustomDataPoint._init_data_points: what comes last decides
InitDataPoints(made, usages, config, channel, base) ==
    LET p == config.profile
        hidden == AllFound(made, Repeated(channel, p.repeatable))
        visible == AllFound(made, Repeated(channel, p.visibleRepeatable))
        shown == AllFound(made, Rebased(p.visible, base))
        plain == AllFound(made, config.fixed \cup Rebased(p.fields, base))
        repeated == ForceUsage(ForceUsage(usages, Switches(made, hidden), "NO_CREATE"),
                               Switches(made, visible), "CDP_VISIBLE")
        extended == ForceUsage(repeated, AllFound(made, config.additional), "DATA_POINT")
        marked == Rebased(p.additional, base) \cup (IF p.defaults THEN Defaults ELSE {})
    IN  [fields |-> hidden \cup visible \cup plain \cup shown,
         forced |-> ForceUsage(ForceUsage(extended, Switches(made, shown), "CDP_VISIBLE"),
                               AllFound(made, marked), "DATA_POINT")]

\* make_custom_data_point, of one channel: it replaces what the channel has
MakeCustom(acc, made, config, channel) ==
    LET subdevices == SubDevices(acc.base, config)
        base == BaseOf(subdevices, channel)
        fields == InitDataPoints(made, acc.forced, config, channel, base)
    IN  IF channel \notin RelevantChannels(config) THEN [acc EXCEPT !.base = subdevices]
        ELSE [base |-> subdevices,
              forced |-> fields.forced,
              custom |-> IF fields.fields = {} THEN acc.custom
                         ELSE [acc.custom EXCEPT ![channel] =
                                [usage |-> IF channel \in PrimaryChannels(config)
                                           THEN "CDP_PRIMARY" ELSE "CDP_SECONDARY",
                                 allow |-> config.profile.allowUndefined,
                                 fields |-> fields.fields]]]

HasCustomDefinition(l) == Configs[device] # <<>> /\ ~ModelIgnored(l, Model[device])

NoPoints == [k \in Keys |-> None]
NoCustom == [c \in {Channels[device][i] : i \in DOMAIN Channels[device]} |-> None]

\* create_custom_data_points: per configuration, per channel; the generic data
\* points exist, and some are forced to a usage
OfChannels(start, made, config) ==
    LET acc[n \in 0..Len(Channels[device])] ==
            IF n = 0 THEN start ELSE MakeCustom(acc[n - 1], made, config, Channels[device][n])
    IN  acc[Len(Channels[device])]

OfConfigs(start, made) ==
    LET acc[n \in 0..Len(Configs[device])] ==
            IF n = 0 THEN start ELSE OfChannels(acc[n - 1], made, Configs[device][n])
    IN  acc[Len(Configs[device])]

CreateCustom(l, made) ==
    LET none == [base |-> {}, forced |-> NoPoints, custom |-> NoCustom]
    IN  IF HasCustomDefinition(l) THEN OfConfigs(none, made) ELSE none

-----------------------------------------------------------------------------
(* Generic data points and events (model/__init__.py)                       *)

Required ==
    UNION {UNION {Configs[d][i].profile.repeatable \cup Configs[d][i].profile.visibleRepeatable
                  \cup {f[2] : f \in Configs[d][i].additional \cup Configs[d][i].fixed
                                     \cup Configs[d][i].profile.additional}
                    : i \in DOMAIN Configs[d]} : d \in Devices}
    \cup {f[2] : f \in Defaults}

\* the parameters of the relevant paramsets that are not ignored
Considered(l) ==
    {k \in Keys : /\ RelevantParamset(l, Model[device], k[1], k[2])
                  /\ ~Ignored(l, Model[device], k, Required)
                  /\ k[2] = "MASTER" => UnIgnored(l, Model[device], k)}

\* The cached description itself is changed: a MASTER parameter of a BidCos
\* device has no operations, it gets READ and WRITE.
Patched(l, known) ==
    [k \in Keys |-> IF k \in Considered(l) /\ k[2] = "MASTER" /\ known[k] = {}
                    THEN {"R", "W"} ELSE known[k]]

IsEvent(k, o) == "E" \in o /\ k[3] \in ClickEvents \cup ErrorEvents \cup ImpulseEvents

\* a variant: an internal parameter is left out though the user asks for it
InternalLeftOut(l, k, o) ==
    /\ {"E", "W"} \cap o # {}
    /\ D(k).internal => k[3] = "DIRECTION"
    /\ k[3] \notin ImpulseEvents
    /\ k[3] \in ErrorEvents => UnIgnored(l, Model[device], k)
    /\ "W" \in o \/ k[3] \notin ClickEvents

\* A parameter that can neither be written nor reports changes, and one that
\* is internal, gets no data point, and an impulse is an event only; a click can
\* only be a button.
IsPoint(l, k, o) ==
    /\ {"E", "W"} \cap o # {}
    /\ D(k).internal => k[3] = "DIRECTION" \/ UnIgnored(l, Model[device], k)
    /\ k[3] \notin ImpulseEvents
    /\ k[3] \in ErrorEvents => UnIgnored(l, Model[device], k)
    /\ "W" \in o \/ k[3] \notin ClickEvents

\* _check_switch_to_sensor
SwitchToSensor(l, k) ==
    /\ k[3] = "LEVEL" /\ StartsWith(Model[device], <<"HmIP-eTRV">>)
    /\ ~UnIgnored(l, Model[device], k)

\* create_data_points_and_events, of the descriptions o
Generic(l, o) ==
    [k \in Keys |->
       IF k \in Considered(l) /\ IsPoint(l, k, o[k])
       THEN [ops |-> o[k], sensor |-> SwitchToSensor(l, k),
             unIgnored |-> CustomUnIgnored(l, Model[device], k)]
       ELSE None]

Events(l, o) == {k \in Considered(l) : IsEvent(k, o[k])}

-----------------------------------------------------------------------------
(* What is shown                                                            *)

\* KEY_CHANNEL_OPERATION_MODE_VISIBILITY; None where the mode does not matter
EnabledByMode(k, value) ==
    IF k[1] \notin Multi[device] \/ value = None \/ k[3] \notin {"STATE", "PRESS_SHORT"} THEN None
    ELSE IF k[3] = "STATE" THEN value = "BINARY_BEHAVIOR"
         ELSE value \in {"KEY_BEHAVIOR", "SWITCH_BEHAVIOR"}

\* allow_undefined_generic_data_points: all its custom data points allow it
AllowUndefined == \A c \in DOMAIN custom : custom[c] # None => custom[c].allow

\* usage of a generic data point
Usage(k) ==
    LET p == points[k] IN
    IF p.sensor \/ p.unIgnored THEN "DATA_POINT"
    ELSE IF EnabledByMode(k, shownMode) # None
         THEN IF EnabledByMode(k, shownMode) THEN "DATA_POINT" ELSE "NO_CREATE"
    ELSE IF forced[k] # None THEN forced[k]
    ELSE IF Hidden(Lists(raw), Model[device], k) THEN "NO_CREATE"
    ELSE IF HasCustomDefinition(Lists(raw)) /\ ~AllowUndefined THEN "NO_CREATE" ELSE "DATA_POINT"

Shown == {k \in Keys : points[k] # None /\ Usage(k) # "NO_CREATE"}

-----------------------------------------------------------------------------
(* Actions                                                                  *)

Raw == [k \in Keys |-> D(k).ops]
Running == raw # None
Exists == created # 0
Handlers(k) == IF k \in DOMAIN subs THEN subs[k] ELSE {}

Init ==
    /\ device \in Devices
    /\ file \in {f \in SUBSET Lines[device] : Cardinality(f) <= MaxLines}
    /\ raw = None /\ ops = Raw
    /\ points = NoPoints /\ forced = NoPoints /\ events = {} /\ custom = NoCustom
    /\ subs = [k \in {} |-> {}] /\ created = 0
    /\ mode \in Modes /\ shownMode = None /\ pending = FALSE
    /\ messages = <<>> /\ reload = <<>>
    /\ edits = 0 /\ faults = 0

Edit == edits < MaxEdits /\ edits' = edits + 1
Failing(can) == IF can /\ faults < MaxFaults THEN BOOLEAN ELSE {FALSE}
Count(failed) == faults' = faults + (IF failed THEN 1 ELSE 0)

\* Channel.add_data_point subscribes what can be read or sends events
Subscribed(pts, evs, number) ==
    LET of(k) == (IF pts[k] # None /\ {"R", "E"} \cap pts[k].ops # {}
                  THEN {<<"point", number>>} ELSE {})
                 \cup (IF k \in evs THEN {<<"event", number>>} ELSE {})
    IN  [k \in {x \in Keys : Handlers(x) \cup of(x) # {}} |-> Handlers(k) \cup of(k)]

\* _create_devices, of the descriptions known; the operation mode is read at
\* the end (load_value_cache)
CreateDevice(l, known, number) ==
    \E failed \in Failing(ModeKey \in Keys) :
      LET o == Patched(l, known)
          made == Generic(l, o)
          extended == CreateCustom(l, made)
      IN  /\ ops' = o
          /\ points' = made /\ events' = Events(l, o)
          /\ forced' = extended.forced /\ custom' = extended.custom
          /\ subs' = Subscribed(made, Events(l, o), number)
          /\ created' = number
          /\ shownMode' = IF failed \/ ModeKey \notin Keys \/ made[ModeKey] = None
                          THEN None ELSE mode
          /\ pending' = FALSE
          /\ Count(failed)

\* the lines are looked at when the central starts
EditLines ==
    /\ ~Running /\ Edit
    /\ file' \in {f \in SUBSET Lines[device] : Cardinality(f) <= MaxLines}
    /\ file' # file
    /\ UNCHANGED <<device, raw, ops, objects, mode, shownMode, pending, messages, reload, faults>>

\* start() of a new process: load() of the lines raises for a paramset it
\* does not know
Start ==
    /\ ~Running
    /\ ~\E line \in file : Raises(line)
    /\ raw' = file
    /\ CreateDevice(Lists(file), ops, 1)
    /\ UNCHANGED <<user, mode, messages, reload, edits>>

\* stop() saves the cached descriptions; the process ends
Stop ==
    /\ Running
    /\ raw' = None
    /\ points' = NoPoints /\ forced' = NoPoints /\ events' = {} /\ custom' = NoCustom
    /\ subs' = [k \in {} |-> {}] /\ created' = 0
    /\ ops' = IF Exists THEN ops ELSE Raw
    /\ shownMode' = None /\ pending' = FALSE
    /\ messages' = <<>> /\ reload' = <<>>
    /\ UNCHANGED <<user, mode, edits, faults>>

\* somebody changes the configuration of the device
Reconfigure ==
    /\ Edit
    /\ mode' \in IF ModeKey \in Keys THEN Modes \ {mode} ELSE {mode}
    /\ messages' = IF Exists THEN messages \o <<TRUE, FALSE>> ELSE messages
    /\ UNCHANGED <<user, raw, ops, objects, shownMode, pending, reload, faults>>

Lose ==
    /\ messages # <<>>
    /\ faults < MaxFaults
    /\ faults' = faults + 1 /\ messages' = Tail(messages)
    /\ UNCHANGED <<user, raw, ops, objects, mode, shownMode, pending, reload, edits>>

\* the channels and paramsets of the device, in the order of the cache
Parts == SetToSeq({<<k[1], k[2]>> : k \in Keys})

\* DpBinarySensor.event of CONFIG_PENDING: from True to False it reloads
PendingEvent ==
    /\ messages # <<>>
    /\ messages' = Tail(messages)
    /\ LET heard == <<"point", created>> \in Handlers(PendingKey)
       IN  /\ pending' = IF heard THEN Head(messages) ELSE pending
           /\ reload' = IF heard /\ pending /\ ~Head(messages)
                        THEN Append(reload, [todo |-> Parts, of |-> created]) ELSE reload
    /\ UNCHANGED <<user, raw, ops, objects, mode, shownMode, edits, faults>>

\* fetch_paramset_description of one part: the description as it is at the
\* backend replaces the cached one
Fetch(i) ==
    /\ i \in DOMAIN reload
    /\ reload[i].todo # <<>>
    /\ reload' = [reload EXCEPT ![i].todo = Tail(@)]
    /\ \E failed \in Failing(TRUE) :
         /\ ops' = [k \in Keys |-> IF ~failed /\ <<k[1], k[2]>> = Head(reload[i].todo)
                                   THEN D(k).ops ELSE ops[k]]
         /\ Count(failed)
    /\ UNCHANGED <<user, raw, objects, mode, shownMode, pending, messages, edits>>

\* a variant: the values are not read again
NotReadAgain(i) ==
    /\ i \in DOMAIN reload
    /\ reload[i].todo = <<>>
    /\ reload' = [j \in 1 .. Len(reload) - 1 |-> IF j < i THEN reload[j] ELSE reload[j + 1]]
    /\ points' = [k \in Keys |-> IF points[k] = None \/ reload[i].of # created THEN points[k]
                                 ELSE [points[k] EXCEPT !.ops = ops[k]]]
    /\ UNCHANGED <<user, raw, ops, forced, events, custom, subs, created, mode, pending,
                   messages, edits, shownMode, faults>>

\* update_parameter_data of every data point the device still has, then the
\* MASTER parameters that can be read are read again
ReloadEnds(i) ==
    /\ i \in DOMAIN reload
    /\ reload[i].todo = <<>>
    /\ reload' = [j \in 1 .. Len(reload) - 1 |-> IF j < i THEN reload[j] ELSE reload[j + 1]]
    /\ points' = [k \in Keys |-> IF points[k] = None \/ reload[i].of # created THEN points[k]
                                 ELSE [points[k] EXCEPT !.ops = ops[k]]]
    /\ LET reads == /\ ModeKey \in Keys /\ points'[ModeKey] # None
                    /\ "R" \in points'[ModeKey].ops /\ reload[i].of = created
       IN  \E failed \in Failing(reads) :
             /\ shownMode' = IF reads /\ ~failed THEN mode ELSE shownMode
             /\ Count(failed)
    /\ UNCHANGED <<user, raw, ops, forced, events, custom, subs, created, mode, pending,
                   messages, edits>>

\* a variant: the handlers stay
KeptHandlers == subs

\* remove_event_subscription of what the device has, if it supports events
LeftHandlers ==
    LET gone == {k \in Keys : k \in events \/ (points[k] # None /\ "E" \in points[k].ops)}
    IN  [k \in DOMAIN subs \ gone |-> subs[k]]

\* delete_devices
Unpair ==
    /\ Exists /\ Edit
    /\ subs' = LeftHandlers
    /\ points' = NoPoints /\ forced' = NoPoints /\ events' = {} /\ custom' = NoCustom
    /\ created' = 0
    /\ shownMode' = None /\ pending' = FALSE /\ messages' = <<>>
    /\ UNCHANGED <<user, raw, ops, mode, reload, faults>>

\* the device is paired again: its descriptions are fetched
Pair ==
    /\ Running /\ ~Exists
    /\ CreateDevice(Lists(raw), Raw, edits + 1)
    /\ UNCHANGED <<user, raw, mode, messages, reload, edits>>

Next ==
    \/ EditLines \/ Start \/ Stop \/ Reconfigure \/ Lose \/ PendingEvent \/ Unpair \/ Pair
    \/ \E i \in 1 .. MaxEdits : Fetch(i) \/ ReloadEnds(i)

Spec == Init /\ [][Next]_vars

\* The tasks of the event loop go on, and an event that is not lost arrives.
FairSpec ==
    /\ Spec
    /\ WF_vars(PendingEvent)
    /\ WF_vars(\E i \in 1 .. MaxEdits : Fetch(i) \/ ReloadEnds(i))

-----------------------------------------------------------------------------
(* Properties                                                               *)

\* the keys a line asks for: as docs/unignore.md writes them, a MASTER
\* parameter takes no wildcard
Asked(line) ==
    {k \in Keys :
       \/ line.form = "plain" /\ k[2] = "VALUES" /\ k[3] = line.parameter
       \/ /\ line.form = "entry" /\ k[2] = line.paramset /\ k[3] = line.parameter
          /\ line.model \in {All, Model[device]} /\ line.channel \in {All, k[1]}
          /\ k[2] = "MASTER" => line.model # All /\ line.channel # All}

\* what can be a data point: it is no link and no impulse, is written or reports,
\* and a click is written
CanBePoint(k) ==
  /\ k[2] \in {"VALUES", "MASTER"}
  /\ k[3] \notin ImpulseEvents
  /\ \/ {"E", "W"} \cap D(k).ops # {} /\ (k[3] \in ClickEvents => "W" \in D(k).ops)
     \/ k[2] = "MASTER" /\ D(k).ops = {}

\* Whatever the tables of ignored, hidden and claimed parameters say, a line of the
\* user that the running process has loaded gives a parameter that can be a data
\* point one that is shown (parameter_is_ignored, parameter_is_un_ignored, create_data_points_and_
\* events, usage).
LineTakesEffect ==
    Exists => \A line \in raw : \A k \in Asked(line) :
                CanBePoint(k) => points[k] # None /\ Usage(k) = "DATA_POINT"

\* what the profiles list for the custom data points the device has
Listed ==
    UNION {UNION {ListedAt(config, c) : c \in RelevantChannels(config) \cap DOMAIN NoCustom} :
             config \in {Configs[device][i] : i \in DOMAIN Configs[device]}}

\* A device with custom data points shows, of its other parameters, those
\* that its profiles list, and no other, unless every custom data point
\* allows it, the user asks for one, or the operation mode decides
\* (_init_data_points, _rebase_data_point_dict, _get_data_point_usage).
OnlyListedShown ==
    Exists /\ HasCustomDefinition(Lists(raw)) /\ ~AllowUndefined =>
      \A k \in Keys :
        points[k] # None /\ ~points[k].sensor /\ ~points[k].unIgnored
        /\ EnabledByMode(k, shownMode) = None
          => (k \in Shown <=> k \in AllFound(points, Listed))

\* However often a device is removed and paired again, the events of a
\* parameter go to the objects of the living device and to each of them, and
\* to none that is gone (add_event_subscription, remove_event_subscription).
EventsReachTheLiving ==
    \A k \in Keys : "E" \in D(k).ops =>
      Handlers(k) = (IF points[k] # None THEN {<<"point", created>>} ELSE {})
                    \cup (IF k \in events THEN {<<"event", created>>} ELSE {})

\* Unless a request fails or an event is lost, the operation mode that
\* decides what a channel shows becomes the one of the device
\* (reload_paramset_descriptions after CONFIG_PENDING).
ModeCatchesUp ==
    (/\ Exists /\ ModeKey \in Keys /\ faults = 0 /\ shownMode # mode)
      ~> (shownMode = mode \/ ~Exists \/ faults > 0)

\* A MASTER parameter of a BidCos device, whose description has no
\* operations, can be read and written as long as the device is there
\* (model/__init__.py:65, docs/unignore.md:65).
MasterStaysUsable ==
    \A k \in Keys : k[2] = "MASTER" /\ D(k).ops = {} /\ points[k] # None
                      => {"R", "W"} \subseteq points[k].ops
=============================================================================
