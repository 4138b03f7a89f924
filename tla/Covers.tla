------------------------------- MODULE Covers -------------------------------
(***************************************************************************)
(* The covers (model/custom/cover.py): what a call compares, what it sends,  *)
(* and what a device that got it does.  Levels and positions are counted in   *)
(* half percents, the steps of the combined value of a blind: 116 is 58 %,   *)
(* and -1 the -0.5 % of a window drive that is locked.  Positions of garages *)
(* are in percent.                                                           *)
(***************************************************************************)
EXTENDS Collector

CONSTANTS
    Levels,   \* the positions of a cover, whole percents
    Tilts     \* the positions of the slats of a blind, whole percents

ASSUME PositionsAssumption == Levels \cup Tilts \subseteq {2 * p : p \in 0 .. 100}

\* "blind" is the one of BidCos-RF, "hdm" the one of HmIP without a combined
\* parameter.
CoverKinds == {"cover", "window", "blind", "ipblind", "hdm", "garage"}
Blinds == {"blind", "ipblind", "hdm"}

\* int(level * 100): the product of a float is lower for three levels.
Percent(level) == IF level \in {58, 114, 116} THEN level - 2
                  ELSE IF level = -1 THEN 0 ELSE level - (level % 2)

\* convert_hm_level_to_cpv: int(level * 100 * 2), lower for seven levels
Half(level) == IF level \in {29, 57, 58, 113, 114, 115, 116} THEN level - 1 ELSE level

CoverStates(kind) ==
    CASE kind = "cover"  -> [LEVEL : Levels]
      [] kind = "window" -> [LEVEL : {-1, 0, 2} \cup Levels]
      [] kind \in Blinds -> [LEVEL : Levels, LEVEL_2 : Tilts]
      [] kind = "garage" -> [DOOR : {"CLOSED", "VENT", "OPEN", "UNKNOWN"}]

\* The places a cover may be seen at, on its way to its goal.
Places == {-1, 0, 2} \cup UNION {{l, Percent(l), Half(l)} : l \in Levels \cup Tilts}

\* The parameters that run to their value, and can be stopped on the way.
MovingFields == {"LEVEL", "LEVEL_2", "DOOR"}

CoverCall(op, level, tilt) == [op |-> op, level |-> level, tilt |-> tilt]
Positions(kind) == CASE kind = "window" -> {0, 2} \cup Levels
                     [] kind = "garage" -> {0, 10, 11, 50, 51, 100}
                     [] OTHER           -> Levels

\* open, close and the calls for the tilt are the positions at the ends.
CoverCalls(kind) ==
    {CoverCall("stop", None, None)} \cup
    {CoverCall("set", l, t) :
        l \in Positions(kind) \cup {None},
        t \in IF kind \in Blinds THEN Tilts \cup {None} ELSE {None}}

-----------------------------------------------------------------------------
(* What is shown: `shown` holds the value of each parameter, or None.        *)

ClosedLevel(kind) == IF kind = "window" THEN -1 ELSE 0

\* _channel_level, _channel_tilt_level
ChannelLevel(kind, shown, field) ==
    IF shown[field] # None THEN shown[field] ELSE ClosedLevel(kind)

\* a variant: the position of a window drive is that of the other covers
CurrentPositionPlain(kind, shown, field) == Percent(ChannelLevel(kind, shown, field))

\* current_position, current_tilt_position
CurrentPosition(kind, shown, field) ==
    LET level == ChannelLevel(kind, shown, field)
    IN  CASE kind = "window" /\ level = -1 -> 0
          [] kind = "window" /\ level = 0  -> 2
          [] OTHER                         -> Percent(level)

GaragePosition(shown) ==
    CASE shown.DOOR = "OPEN"   -> 100
      [] shown.DOOR = "VENT"   -> 10
      [] shown.DOOR = "CLOSED" -> 0
      [] OTHER                 -> None

\* CustomDpGarage.set_position
GarageTarget(position) ==
    CASE position > 50  -> "OPEN"
      [] position <= 10 -> "CLOSED"
      [] OTHER          -> "VENT"
GarageTargetPosition == [OPEN |-> 100, VENT |-> 10, CLOSED |-> 0]

\* is_state_change, but for a state that is uncertain
CoverChanges(kind, call, shown) ==
    IF kind = "garage"
    THEN call.level # None /\ GarageTargetPosition[GarageTarget(call.level)] # GaragePosition(shown)
    ELSE \/ call.tilt # None /\ call.tilt # CurrentPosition(kind, shown, "LEVEL_2")
         \/ call.level # None /\ call.level # CurrentPosition(kind, shown, "LEVEL")

-----------------------------------------------------------------------------
(* What is sent.                                                            *)

\* CustomDpWindowDrive._set_level
WindowLevel(level) == CASE level = 0 -> -1 [] level = 2 -> 0 [] OTHER -> level

\* _get_combined_value: the coordinates go as one value, in half percents to a
\* blind of BidCos-RF, in percent to one of HmIP; but exactly, as a paramset,
\* to one without a combined parameter.
Coordinate(kind, level) == CASE kind = "blind"   -> Half(level)
                             [] kind = "ipblind" -> Percent(level)
                             [] OTHER            -> level

Given(call) == [LEVEL |-> call.level, LEVEL_2 |-> call.tilt]

\* a variant: the coordinate that is not given is always the one shown
BlindCoordinateShown(kind, call, shown, unconfirmed, field) ==
    IF Given(call)[field] # None THEN Given(call)[field] ELSE ChannelLevel(kind, shown, field)

\* CustomDpBlind._set_level: the coordinate that is not given is the one sent
\* last, if that is unconfirmed, or else the one shown.
BlindCoordinate(kind, call, shown, unconfirmed, field) ==
    IF Given(call)[field] # None THEN Given(call)[field]
    ELSE IF unconfirmed[field] # None THEN unconfirmed[field]
    ELSE ChannelLevel(kind, shown, field)

\* "we stop them first": when the coordinate sent last is used
StopsFirst(call, unconfirmed) ==
    \E field \in {"LEVEL", "LEVEL_2"} : Given(call)[field] = None /\ unconfirmed[field] # None

CoverEntries(kind, call, shown, unconfirmed) ==
    LET \* either way the two coordinates are one request
        Target(field) ==
            Coordinate(kind, BlindCoordinate(kind, call, shown, unconfirmed, field))
    IN  IF call.op = "stop" THEN <<Put(IF kind = "garage" THEN "COMMAND" ELSE "STOP", "STOP")>>
        ELSE CASE
             kind = "garage" ->
                When(call.level # None, <<Put("COMMAND", GarageTarget(call.level))>>)
          [] kind \in Blinds ->
                <<Put("LEVEL_2", Target("LEVEL_2")), Put("LEVEL", Target("LEVEL"))>>
          [] OTHER ->
                When(call.level # None,
                     <<Put("LEVEL", IF kind = "window" THEN WindowLevel(call.level) ELSE call.level)>>)

-----------------------------------------------------------------------------
(* The devices.                                                             *)

\* The goal of a device that has accepted a request.
CoverApplied(kind, at, goal, request) ==
    CASE "STOP" \in DOMAIN request -> at
      [] kind = "garage" ->
            [DOOR |-> IF request.COMMAND # "STOP" THEN request.COMMAND
                      ELSE IF at = goal THEN at.DOOR ELSE "UNKNOWN"]
      [] OTHER -> [f \in DOMAIN goal |-> IF f \in DOMAIN request THEN request[f] ELSE goal[f]]

\* The call has reached its aim: the device stands where it was asked to, as it
\* was sent or as it is shown.
Near(kind, level, position) ==
    IF kind = "window" THEN level = WindowLevel(position) \/ (level > 0 /\ Percent(level) = position)
    ELSE level = Coordinate(kind, position) \/ Percent(level) = position
CoverDone(kind, call, at) ==
    CASE kind = "garage" -> call.level # None => at.DOOR = GarageTarget(call.level)
      [] OTHER -> \A f \in DOMAIN at : Given(call)[f] # None => Near(kind, at[f], Given(call)[f])
=============================================================================
