------------------------------ MODULE Climates ------------------------------
(***************************************************************************)
(* The thermostats (model/custom/climate.py).  Temperatures are in degrees;  *)
(* 4 stands for the 4.5 that turns a thermostat off.                         *)
(***************************************************************************)
EXTENDS Collector

ClimateKinds == {"simple", "rf", "ip"}
OffTemperature == 4
MinTemp == 5
MaxTemp == 30
ProgramTemp == 17
ComfortTemp == 21

ClimateStates(kind) ==
    CASE kind = "simple" -> [SETPOINT : {5, 17}]
      [] kind = "rf" -> [SETPOINT : {4, 21}, CONTROL : {"AUTO", "MANU", "BOOST", "AWAY"}]
      [] kind = "ip" -> [SETPOINT : {4, 21}, MODE : {"AUTO", "MANU", "AWAY"},
                         BOOST : BOOLEAN, PROFILE : {"week1", "week2"}]

ClimateCall(op, arg) == [op |-> op, arg |-> arg]
ClimateCalls(kind) ==
    {ClimateCall("temperature", t) : t \in {4, 17, 30, 31}}
    \cup (IF kind = "simple" THEN {} ELSE
          {ClimateCall("mode", m) : m \in {"auto", "heat", "off"}}
          \cup {ClimateCall("away", on) : on \in BOOLEAN}
          \cup {ClimateCall("profile", p) :
                    p \in {"boost", "none"} \cup
                          IF kind = "ip" THEN {"week1", "week2"} ELSE {"comfort", "eco"}})

-----------------------------------------------------------------------------
(* What is shown.                                                           *)

\* mode
Mode(kind, shown) ==
    LET control == CASE kind = "simple" -> "MANU" [] kind = "rf" -> shown.CONTROL [] OTHER -> shown.MODE
    IN  IF kind # "simple" /\ shown.SETPOINT <= OffTemperature THEN "off"
        ELSE IF control = "MANU" THEN "heat" ELSE "auto"

\* profile
Profile(kind, shown) ==
    CASE kind = "simple" -> "none"
      [] kind = "rf" -> CASE shown.CONTROL = "BOOST" -> "boost"
                          [] shown.CONTROL = "AWAY"  -> "away"
                          [] OTHER                   -> "none"
      [] kind = "ip" -> IF shown.BOOST THEN "boost"
                        ELSE IF shown.MODE = "AWAY" THEN "away"
                        ELSE IF Mode(kind, shown) = "auto" THEN shown.PROFILE ELSE "none"

MinOrTarget(shown) == IF shown.SETPOINT < MinTemp THEN MinTemp ELSE shown.SETPOINT

\* is_state_change, but for a state that is uncertain
ClimateChanges(kind, call, shown) ==
    CASE call.op = "temperature" -> call.arg # shown.SETPOINT
      [] call.op = "mode"        -> kind # "simple" /\ call.arg # Mode(kind, shown)
      [] call.op = "profile"     -> call.arg # Profile(kind, shown)
      [] call.op = "away"        -> TRUE

\* set_temperature: ValueError
ClimateRefuses(call) == call.op = "temperature" /\ call.arg \notin MinTemp .. MaxTemp

-----------------------------------------------------------------------------
(* What is sent.  The calls call each other, and each looks for a change.    *)

Temperature(shown, uncertain, t) ==
    When(uncertain \/ t # shown.SETPOINT, <<Put("SETPOINT", t)>>)

BoostOff == <<Put("BOOST", FALSE)>>

RfModeEntries(mode, shown, uncertain) ==
    CASE mode = "auto" -> <<Put("AUTO", TRUE)>>
      [] mode = "heat" -> <<Put("MANU", MinOrTarget(shown))>>
      [] mode = "off"  -> <<Put("MANU", shown.SETPOINT)>> \o Temperature(shown, uncertain, OffTemperature)

IpModeEntries(mode, shown, uncertain) ==
    When(shown.BOOST, BoostOff)
    \o (IF mode = "auto" THEN <<Put("CONTROL", "AUTO")>>
        ELSE <<Put("CONTROL", "MANU")>>
             \o Temperature(shown, uncertain, IF mode = "heat" THEN MinOrTarget(shown) ELSE OffTemperature))

RfProfileEntries(profile) ==
    LET field == [boost |-> "BOOST", comfort |-> "COMFORT", eco |-> "LOWERING"]
    IN  When(profile # "none", <<Put(field[profile], TRUE)>>)

IpProfileEntries(profile, shown, uncertain) ==
    CASE profile = "boost" -> <<Put("BOOST", TRUE)>>
      [] profile = "none"  -> BoostOff
      [] OTHER ->
            When(Mode("ip", shown) # "auto", IpModeEntries("auto", shown, uncertain) \o BoostOff)
            \o <<Put("PROFILE", profile)>>

\* enable_away_mode_by_calendar, disable_away_mode
AwayEntries(on) == <<Put("PARTY", on)>>

ClimateEntries(kind, call, shown, uncertain) ==
    CASE call.op = "temperature" -> <<Put("SETPOINT", call.arg)>>
      [] call.op = "away" -> AwayEntries(call.arg)
      [] call.op = "mode" -> IF kind = "rf" THEN RfModeEntries(call.arg, shown, uncertain)
                             ELSE IpModeEntries(call.arg, shown, uncertain)
      [] call.op = "profile" -> CASE kind = "simple" -> <<>>
                                  [] kind = "rf" -> RfProfileEntries(call.arg)
                                  [] kind = "ip" -> IpProfileEntries(call.arg, shown, uncertain)

-----------------------------------------------------------------------------
(* The devices: a mode brings its temperature, unless one is sent with it.   *)

ClimateApplied(kind, goal, request) ==
    LET Has(f) == f \in DOMAIN request
        byMode == CASE Has("MANU") -> request.MANU
                    [] Has("AUTO") \/ Has("LOWERING") -> ProgramTemp
                    [] Has("CONTROL") /\ request["CONTROL"] = "AUTO" -> ProgramTemp
                    [] Has("COMFORT") -> ComfortTemp
                    [] Has("PARTY") -> IF request.PARTY THEN MinTemp ELSE ProgramTemp
                    [] OTHER -> goal.SETPOINT
        setpoint == IF Has("SETPOINT") THEN request.SETPOINT ELSE byMode
        Party(other) == IF Has("PARTY") THEN (IF request.PARTY THEN "AWAY" ELSE "AUTO") ELSE other
    IN  CASE kind = "simple" -> [SETPOINT |-> setpoint]
          [] kind = "rf" ->
                [SETPOINT |-> setpoint,
                 CONTROL |-> Party(CASE Has("AUTO") -> "AUTO" [] Has("MANU") -> "MANU"
                                     [] Has("BOOST") -> "BOOST" [] OTHER -> goal.CONTROL)]
          [] kind = "ip" ->
                [SETPOINT |-> setpoint,
                 MODE     |-> Party(IF Has("CONTROL") THEN request["CONTROL"] ELSE goal.MODE),
                 BOOST    |-> IF Has("BOOST") THEN request.BOOST ELSE goal.BOOST,
                 PROFILE  |-> IF Has("PROFILE") THEN request.PROFILE ELSE goal.PROFILE]

\* The call has reached its aim.
ClimateDone(kind, call, at) ==
    CASE call.op = "temperature" -> at.SETPOINT = call.arg
      [] call.op = "mode"        -> Mode(kind, at) = call.arg
      [] call.op = "away"        -> ((IF kind = "ip" THEN at.MODE ELSE at["CONTROL"]) = "AWAY") <=> call.arg
      [] call.op = "profile"     ->
            CASE call.arg = "boost"      -> Profile(kind, at) = "boost"
              [] call.arg \in {"week1", "week2"} -> at.PROFILE = call.arg /\ Mode(kind, at) = "auto"
              [] call.arg = "comfort"    -> at.SETPOINT = ComfortTemp
              [] call.arg = "eco"        -> at.SETPOINT = ProgramTemp
              [] call.arg = "none"       -> kind = "ip" => ~at.BOOST
=============================================================================
