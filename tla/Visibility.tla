----------------------------- MODULE Visibility -----------------------------
(***************************************************************************)
(* Which parameters of a device become data points                          *)
(* (caches/visibility.py): the tables of the library, of which a part is    *)
(* quoted below, and the lines a user adds to them.                         *)
(*                                                                         *)
(* A model is the sequence of the pieces its name is made of, so that       *)
(* startswith is a prefix; names are compared in lower case everywhere.     *)
(***************************************************************************)
EXTENDS Integers, Sequences

CONSTANTS
    None,   \* the channel of a device itself, and the lack of something
    All     \* UN_IGNORE_WILDCARD

StartsWith(model, key) == Len(key) <= Len(model) /\ SubSeq(model, 1, Len(key)) = key

-----------------------------------------------------------------------------
(* The tables *)

ClimateParameters == {"TEMPERATURE_OFFSET", "TEMPERATURE_MINIMUM"}

\* in the order of the dictionary: of two prefixes of a model the first counts
RelevantMasters == <<
    [model |-> <<"HM-TC-IT-WM-W-EU">>, channels |-> {None},
     parameters |-> {"GLOBAL_BUTTON_LOCK"}],
    [model |-> <<"HmIP-FCI1">>, channels |-> {1}, parameters |-> {"CHANNEL_OPERATION_MODE"}],
    [model |-> <<"HmIP-eTRV">>, channels |-> {0, 1}, parameters |-> ClimateParameters] >>

HiddenParameters == {"CHANNEL_OPERATION_MODE", "CONFIG_PENDING", "DIRECTION", "ERROR",
                     "TEMPERATURE_OFFSET", "TEMPERATURE_MINIMUM", "WORKING"}
IgnoredParameters == {"INHIBIT", "BOOST_TIME", "LEVEL_STATUS"}
UnIgnoredByDevice == {[model |-> <<"HM-Sec-Key">>, parameters |-> {"DIRECTION", "ERROR"}]}
IgnoredByDevice == {[parameter |-> "OPERATING_VOLTAGE", models |-> {<<"HmIP-BROLL">>}]}
NoEventsByDevice == {[model |-> <<"HmIP-PS">>, parameters |-> {"PRESS_SHORT"}]}
AcceptOnlyOnChannel == {[parameter |-> "LOWBAT", channel |-> 0]}
ClickEvents == {"PRESS_SHORT"}
ErrorEvents == {"ERROR"}
ImpulseEvents == {"SEQUENCE_OK"}

-----------------------------------------------------------------------------
(* The lines of the user *)

\* a line that is split at "@" and ":", or that is a parameter only
Plain(parameter) == [form |-> "plain", parameter |-> parameter]
Entry(parameter, paramset, model, channel) ==
    [form |-> "entry", parameter |-> parameter, paramset |-> paramset,
     model |-> model, channel |-> channel]
IgnoreModel(model) == [form |-> "ignore", model |-> model]
Malformed == [form |-> "malformed"]

\* ParamsetKey() of a key it does not know: load() raises
Raises(line) == line.form = "entry" /\ line.paramset \notin {"VALUES", "MASTER", "LINK"}

Details(line) ==
    IF line.form = "entry" /\ line.model = All /\ line.channel = All /\ line.paramset = "VALUES"
    THEN Plain(line.parameter) ELSE line

\* a variant: a line for the device itself, whose channel is empty, is refused
RefusedNoChannel(line) ==
    line.paramset = "MASTER" /\ (line.channel \in {All, None} \/ line.model = All)

\* _add_complex_un_ignore_entry: a MASTER parameter takes no wildcard
Refused(line) == line.paramset = "MASTER" /\ (line.channel = All \/ line.model = All)

OfForm(lines, form) == {l \in {Details(x) : x \in lines} : l.form = form}
Entries(lines) == OfForm(lines, "entry")

\* what the lines add to the tables; a refused line for all models still
\* makes the channel of a model "all" relevant
Lists(lines) ==
    [plain |-> {l.parameter : l \in OfForm(lines, "plain")},
     entries |-> {l \in Entries(lines) : ~Refused(l)},
     ignored |-> {l.model : l \in OfForm(lines, "ignore")},
     masters |-> {[model |-> l.model, channels |-> {l.channel}] :
                    l \in {x \in Entries(lines) : x.paramset = "MASTER" /\ x.channel # All}}]

-----------------------------------------------------------------------------
(* The questions asked about a model and one of its parameters, a key       *)
(* <<channel, paramset, parameter>>                                         *)

\* is_relevant_paramset
RelevantParamset(lists, model, channel, paramset) ==
    \/ paramset = "VALUES"
    \/ /\ paramset = "MASTER"
       /\ \/ \E i \in DOMAIN RelevantMasters : /\ channel \in RelevantMasters[i].channels
                                               /\ StartsWith(model, RelevantMasters[i].model)
          \/ \E r \in lists.masters : /\ channel \in r.channels
                                      /\ r.model # All /\ StartsWith(model, r.model)

\* dt_short: the entries of the table whose model is a prefix, in order
Matching(model) ==
    SelectSeq(RelevantMasters, LAMBDA r : StartsWith(model, r.model))

PredefinedMaster(model, key) ==
    /\ Matching(model) # <<>>
    /\ key[1] \in Head(Matching(model)).channels
    /\ key[2] = "MASTER"
    /\ key[3] \in Head(Matching(model)).parameters

\* A line for a MASTER parameter names the model and the channel exactly.
Places(model, key) ==
    IF key[2] = "VALUES" THEN {model, All} \X {key[1], All} ELSE {<<model, key[1]>>}

CustomUnIgnored(lists, model, key) ==
    \/ key[2] = "VALUES" /\ key[3] \in lists.plain
    \/ \E l \in lists.entries :
         /\ <<l.model, l.channel>> \in Places(model, key)
         /\ l.paramset = key[2] /\ l.parameter = key[3]

\* _parameter_is_un_ignored; the table is searched for a key that starts with
\* the model, not for one the model starts with
ListedUnIgnored(lists, model, key) ==
    \/ CustomUnIgnored(lists, model, key)
    \/ \E u \in UnIgnoredByDevice : StartsWith(u.model, model) /\ key[3] \in u.parameters

UnIgnored(lists, model, key) ==
    PredefinedMaster(model, key) \/ ListedUnIgnored(lists, model, key)

\* a variant: the lists of ignored parameters are asked before the user's
IgnoredFirst(lists, model, key, required) ==
    \/ key[2] = "VALUES" /\ key[3] \in IgnoredParameters \ required
    \/ /\ key[2] = "MASTER"
       /\ ~\E l \in lists.entries : l = Entry(key[3], "MASTER", model, key[1])
       /\ Matching(model) # <<>>
       /\ ~PredefinedMaster(model, key)

\* parameter_is_ignored
Ignored(lists, model, key, required) ==
    \/ /\ key[2] = "VALUES"
       /\ ~UnIgnored(lists, model, key)
       /\ \/ key[3] \in IgnoredParameters \ required
          \/ \E i \in IgnoredByDevice :
               i.parameter = key[3] /\ \E m \in i.models : StartsWith(model, m)
          \/ \E e \in NoEventsByDevice : StartsWith(model, e.model) /\ key[3] \in e.parameters
          \/ \E a \in AcceptOnlyOnChannel : a.parameter = key[3] /\ a.channel # key[1]
    \/ /\ key[2] = "MASTER"
       /\ ~\E l \in lists.entries : l = Entry(key[3], "MASTER", model, key[1])
       /\ Matching(model) # <<>>
       /\ ~PredefinedMaster(model, key)

\* parameter_is_hidden
Hidden(lists, model, key) ==
    key[3] \in HiddenParameters /\ ~ListedUnIgnored(lists, model, key)

\* model_is_ignored
ModelIgnored(lists, model) == \E m \in lists.ignored : StartsWith(model, m)
=============================================================================
