----------------------------- MODULE MCCreation -----------------------------
(***************************************************************************)
(* Devices that differ in what Creation tells apart: custom data points     *)
(* with and without a primary channel, groups of channels, an extended      *)
(* configuration, a channel whose mode decides, MASTER parameters of BidCos *)
(* and of HmIP, an impulse.                                                 *)
(***************************************************************************)
EXTENDS Creation, TLC

Profile(primary, secondary, allow, repeatable, visibleRepeatable, visible) ==
    [primary |-> primary, secondary |-> secondary, allowUndefined |-> allow,
     repeatable |-> repeatable, visibleRepeatable |-> visibleRepeatable,
     fields |-> {}, visible |-> visible, additional |-> {}, defaults |-> TRUE]
Config(profile, channels, additional) ==
    [profile |-> profile, channels |-> channels, additional |-> additional, fixed |-> {}]
Par(operations, inner) == [ops |-> operations, internal |-> inner]

RW == Par({"R", "W"}, FALSE)
RE == Par({"R", "E"}, FALSE)
RWE == Par({"R", "W", "E"}, FALSE)
NoOps == Par({}, FALSE)
Pending == <<0, "VALUES", "CONFIG_PENDING">>

RfThermostat == Profile(0, {}, FALSE, {"SET_TEMPERATURE", "BOOST_MODE"}, {"ACTUAL_TEMPERATURE"}, {})
RfButtonLock == Profile(None, {}, TRUE, {"GLOBAL_BUTTON_LOCK"}, {}, {})
IpThermostat == Profile(0, {}, FALSE, {"BOOST_MODE", "TEMPERATURE_OFFSET"}, {"ACTUAL_TEMPERATURE"},
                        {<<0, "LEVEL">>})
IpButtonLock == Profile(0, {}, TRUE, {"GLOBAL_BUTTON_LOCK"}, {}, {})
IpCover == Profile(0, {1, 2}, FALSE, {"LEVEL"}, {}, {<<-1, "LEVEL">>})
IpSwitch == Profile(0, {1, 2}, FALSE, {"STATE"}, {}, {<<-1, "STATE">>})
RfLock == Profile(0, {}, FALSE, {"DIRECTION", "ERROR", "STATE"}, {}, {})

Thermostat ==
    [model |-> <<"HM-TC-IT-WM-W-EU">>, channels |-> <<None, 0, 2>>, multi |-> {},
     description |->
       (Pending :> RE) @@ (<<None, "MASTER", "GLOBAL_BUTTON_LOCK">> :> NoOps)
       @@ (<<None, "MASTER", "BACKLIGHT_ON_TIME">> :> NoOps)
       @@ (<<2, "VALUES", "SET_TEMPERATURE">> :> RWE) @@ (<<2, "VALUES", "BOOST_TIME">> :> RWE)
       @@ (<<2, "VALUES", "ACTUAL_TEMPERATURE">> :> RE) @@ (<<0, "VALUES", "LOWBAT">> :> RE)
       @@ (<<2, "VALUES", "LOWBAT">> :> RE),
     configs |-> <<Config(RfThermostat, {2}, {}), Config(RfButtonLock, {None}, {})>>,
     lines |-> {Plain("BOOST_TIME"), IgnoreModel(<<"HM-TC-IT-WM-W-EU">>),
                Entry("BACKLIGHT_ON_TIME", "MASTER", <<"HM-TC-IT-WM-W-EU">>, None),
                Entry("LOWBAT", "VALUES", All, 2), Entry("LOWBAT", "OTHER", All, 2)}]

Contact ==
    [model |-> <<"HmIP-FCI1">>, channels |-> <<None, 0, 1>>, multi |-> {1},
     description |->
       (Pending :> RE) @@ (<<1, "MASTER", "CHANNEL_OPERATION_MODE">> :> RW)
       @@ (<<1, "VALUES", "STATE">> :> RE) @@ (<<1, "VALUES", "PRESS_SHORT">> :> Par({"E"}, FALSE)),
     configs |-> <<>>,
     lines |-> {Plain("CONFIG_PENDING"), Malformed}]

Shutter ==
    [model |-> <<"HmIP-BROLL">>, channels |-> <<None, 0, 3, 4, 5, 6>>, multi |-> {},
     description |->
       (Pending :> RE) @@ (<<3, "VALUES", "LEVEL">> :> RE) @@ (<<4, "VALUES", "LEVEL">> :> RWE)
       @@ (<<5, "VALUES", "LEVEL">> :> RWE) @@ (<<4, "VALUES", "PROCESS">> :> RE)
       @@ (<<4, "VALUES", "LEVEL_STATUS">> :> RE) @@ (<<0, "VALUES", "OPERATING_VOLTAGE">> :> RE)
       @@ (<<0, "VALUES", "RSSI_DEVICE">> :> RE),
     configs |-> <<Config(IpCover, {4}, {})>>,
     lines |-> {Entry("LEVEL_STATUS", "VALUES", <<"HmIP-BROLL">>, 4), Plain("OPERATING_VOLTAGE"),
                Entry("LEVEL", "VALUES", All, All)}]

Lock ==
    [model |-> <<"HM-Sec-Key", "-S">>, channels |-> <<None, 0, 1>>, multi |-> {},
     description |->
       (Pending :> RE) @@ (<<1, "VALUES", "STATE">> :> RWE) @@ (<<1, "VALUES", "ERROR">> :> RE)
       @@ (<<1, "VALUES", "DIRECTION">> :> Par({"R", "E"}, TRUE))
       @@ (<<1, "VALUES", "INHIBIT">> :> Par({"R", "W", "E"}, TRUE)),
     configs |-> <<Config(RfLock, {1}, {<<1, "DIRECTION">>, <<1, "ERROR">>})>>,
     lines |-> {Plain("ERROR"), Entry("INHIBIT", "VALUES", <<"HM-Sec-Key", "-S">>, All),
                Entry("ERROR", "VALUES", <<"HM-Sec-Key">>, 1)}]

Valve ==
    [model |-> <<"HmIP-eTRV", "-2">>, channels |-> <<None, 0, 1>>, multi |-> {},
     description |->
       (Pending :> RE) @@ (<<1, "VALUES", "LEVEL">> :> RWE) @@ (<<1, "VALUES", "BOOST_MODE">> :> RWE)
       @@ (<<1, "MASTER", "TEMPERATURE_OFFSET">> :> RW) @@ (<<1, "MASTER", "DECALCIFICATION">> :> RW)
       @@ (<<0, "MASTER", "GLOBAL_BUTTON_LOCK">> :> RW),
     configs |-> <<Config(IpThermostat, {1}, {}), Config(IpButtonLock, {0}, {})>>,
     lines |-> {Entry("LEVEL", "VALUES", All, All), Entry("TEMPERATURE_OFFSET", "MASTER", All, 1),
                Entry("DECALCIFICATION", "MASTER", <<"HmIP-eTRV", "-2">>, 1)}]

Plug ==
    [model |-> <<"HmIP-PS">>, channels |-> <<None, 0, 1, 2, 3, 4>>, multi |-> {1},
     description |->
       (Pending :> RE) @@ (<<1, "VALUES", "PRESS_SHORT">> :> Par({"W", "E"}, FALSE))
       @@ (<<2, "VALUES", "STATE">> :> RE) @@ (<<3, "VALUES", "STATE">> :> RWE)
       @@ (<<4, "VALUES", "STATE">> :> RWE) @@ (<<3, "VALUES", "PROCESS">> :> RE),
     configs |-> <<Config(IpSwitch, {3}, {})>>,
     lines |-> {Plain("PRESS_SHORT"), Plain("PROCESS"), IgnoreModel(<<"HmIP-PS">>)}]

Pulse ==
    [model |-> <<"HM-Sen-EP">>, channels |-> <<None, 0, 1>>, multi |-> {},
     description |-> (Pending :> RE) @@ (<<1, "VALUES", "SEQUENCE_OK">> :> Par({"E"}, FALSE)),
     configs |-> <<>>,
     lines |-> {Plain("SEQUENCE_OK")}]

MCKinds == [thermostat |-> Thermostat, contact |-> Contact, shutter |-> Shutter,
            lock |-> Lock, valve |-> Valve, plug |-> Plug, pulse |-> Pulse]
MCDevices == DOMAIN MCKinds
MCModel == [d \in MCDevices |-> MCKinds[d].model]
MCChannels == [d \in MCDevices |-> MCKinds[d].channels]
MCMulti == [d \in MCDevices |-> MCKinds[d].multi]
MCDescription == [d \in MCDevices |-> MCKinds[d].description]
MCConfigs == [d \in MCDevices |-> MCKinds[d].configs]
MCLines == [d \in MCDevices |-> MCKinds[d].lines]
MCDefaults == {<<0, "LOWBAT">>, <<0, "OPERATING_VOLTAGE">>, <<0, "RSSI_DEVICE">>}
=============================================================================
