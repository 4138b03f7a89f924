------------------------------- MODULE Lights -------------------------------
(***************************************************************************)
(* The lights and the switch (model/custom/light.py, switch.py) and the      *)
(* timer they share (TimerMixin).  Levels are 0 (off), 1 (half) and 2 (full),*)
(* as brightness; colours, effects and durations are names.                  *)
(***************************************************************************)
EXTENDS Collector

LightKinds == {"dimmer", "color", "effect", "temp", "rgbw", "pwm", "dali", "fixed", "switch"}

LightStates(kind) ==
    CASE kind = "switch" -> [POWER : {0, 2}]
      [] kind \in {"dimmer", "pwm"} -> [LEVEL : {0, 1, 2}]
      [] kind = "color" -> [LEVEL : {0, 1, 2}, COLOR : {"white", "red"}]
      [] kind = "effect" ->
            [LEVEL : {0, 2}, COLOR : {"white", "red"}, PROGRAM : {"off", "campfire"}]
      [] kind = "temp" -> [LEVEL : {0, 1, 2}, COLOR_LEVEL : {"warm", "cold"}]
      [] kind \in {"rgbw", "dali"} ->
            [LEVEL : {0, 2}, HUE : {"white", "red"}, KELVIN : {"warm", "cold"}]
      [] kind = "fixed" ->
            [LEVEL : {0, 2}, COLOR : {"BLACK", "WHITE", "RED"},
             BEHAVIOUR : {"OFF", "ON", "BLINKING"}]

LevelField(kind) == IF kind = "switch" THEN "POWER" ELSE "LEVEL"
ColorField(kind) == IF kind \in {"rgbw", "pwm", "dali"} THEN "HUE" ELSE "COLOR"

\* The arguments a kind of light knows, and their values.
Options(kind) ==
    [brightness |-> IF kind = "switch" THEN {} ELSE {1, 2},
     color      |-> IF kind \in {"color", "effect", "rgbw", "dali", "fixed"} THEN {"white", "red"} ELSE {},
     kelvin     |-> IF kind \in {"temp", "rgbw", "dali"} THEN {"warm", "cold"} ELSE {},
     effect     |-> CASE kind = "effect" -> {"off", "campfire"}
                      [] kind = "fixed" -> {"BLINKING"}
                      [] kind \in {"rgbw", "pwm", "dali"} -> {"rainbow"}
                      [] OTHER -> {},
     onTime     |-> {"short", "long"},   \* long: more than 16343 s
     rampTime   |-> IF kind = "switch" THEN {} ELSE {"short"}]
Arguments == {"brightness", "color", "kelvin", "effect", "onTime", "rampTime"}

GivenArgs(call) == {a \in Arguments : call.args[a] # None}

LightCall(op, args) == [op |-> op, args |-> args]
NoArgs == [a \in Arguments |-> None]

\* Calls with at most two arguments, and not all the pairs of them; setTimer is set_timer_on_time.
LightCalls(kind) ==
    LET One(a)    == {[NoArgs EXCEPT ![a] = v] : v \in Options(kind)[a]}
        Two(a, b) == {[NoArgs EXCEPT ![a] = v, ![b] = w] : v \in Options(kind)[a], w \in Options(kind)[b]}
    IN  {LightCall("on", args) :
            args \in {NoArgs} \cup (UNION {One(a) : a \in Arguments})
                     \cup (UNION {Two(a, "onTime") : a \in {"brightness", "rampTime"}})
                     \cup Two("brightness", IF kind = "temp" THEN "kelvin" ELSE "color")}
        \cup {LightCall("off", args) : args \in {NoArgs} \cup One("rampTime")}
        \cup {LightCall("setTimer", args) : args \in One("onTime")}

-----------------------------------------------------------------------------
(* TimerMixin: the duration set for the next turn_on, and whether the last   *)
(* duration that was used is still running.                                  *)

NoTimer == [time |-> None, running |-> FALSE]
SetTimer(time) == [time |-> time, running |-> FALSE]

\* get_and_start_timer: the duration, and the timer afterwards
Started(timer) == IF timer.time = None THEN NoTimer ELSE [time |-> None, running |-> TRUE]

\* CustomDpIpRGBWLight.turn_on takes the timer before it looks for a change.
TakesTimerFirst(kind) == kind \in {"rgbw", "pwm"}

\* The timer a call looks at.
TimerSeen(kind, call, timer) ==
    IF call.op = "off" THEN NoTimer
    ELSE CASE kind = "switch" /\ call.args.onTime # None       -> SetTimer(call.args.onTime)
           [] TakesTimerFirst(kind) /\ call.args.onTime = None -> Started(timer)
           [] OTHER                                            -> timer
Duration(call, timer) == IF call.args.onTime # None THEN call.args.onTime ELSE timer.time

-----------------------------------------------------------------------------
(* is_state_change, but for a state that is uncertain                        *)

IsOn(shown) == shown.LEVEL # None /\ shown.LEVEL > 0

\* effect: not known of the lights whose effects are actions
ShownEffect(kind, shown) ==
    CASE kind = "effect" -> shown.PROGRAM
      [] kind = "fixed"  -> IF shown.BEHAVIOUR \in {"ON", "BLINKING"} THEN shown.BEHAVIOUR ELSE None
      [] OTHER           -> None

ShownColor(kind, shown) ==
    CASE kind = "fixed" -> IF shown.COLOR = "RED" THEN "red" ELSE "white"
      [] ColorField(kind) \in DOMAIN shown /\ kind \in {"color", "effect"} ->
            IF shown.COLOR = None THEN "white" ELSE shown.COLOR
      [] "HUE" \in DOMAIN shown -> shown.HUE
      [] OTHER -> None

ShownKelvin(kind, shown) ==
    CASE kind = "temp" -> IF shown.COLOR_LEVEL = None THEN "warm" ELSE shown.COLOR_LEVEL
      [] "KELVIN" \in DOMAIN shown -> shown.KELVIN
      [] OTHER -> None

LightChanges(kind, call, shown, timer) ==
    LET seen == TimerSeen(kind, call, timer)
        args == call.args
    IN  \/ seen.running \/ seen.time # None
        \/ TakesTimerFirst(kind) /\ call.op = "on" /\ Duration(call, timer) # None
        \/ IF kind = "switch"
           THEN shown.POWER # IF call.op = "on" THEN 2 ELSE 0
           ELSE \/ args.onTime # None \/ args.rampTime # None
                \/ GivenArgs(call) = {} /\ IsOn(shown) # (call.op = "on")
                \/ args.brightness # None /\ args.brightness # (IF shown.LEVEL = None THEN 0 ELSE shown.LEVEL)
                \/ args.color # None /\ args.color # ShownColor(kind, shown)
                \/ args.kelvin # None /\ args.kelvin # ShownKelvin(kind, shown)
                \/ args.effect # None /\ args.effect # ShownEffect(kind, shown)

-----------------------------------------------------------------------------
(* What turn_on and turn_off send.                                          *)

\* a variant: everything is sent in seconds
TimeUnitSeconds(time) == "SECONDS"

\* _recalc_unit_timer: a long time is sent in minutes
TimeUnit(time) == IF time = "long" THEN "MINUTES" ELSE "SECONDS"

UnitField == [ON_TIME |-> "ON_TIME_UNIT", RAMP_TIME |-> "RAMP_TIME_UNIT"]

\* _set_on_time_value, _set_ramp_time_on_value: two kinds leave out the
\* unit of seconds, which is 0
Timed(kind, field, time) ==
    LET unit == <<Put(UnitField[field], TimeUnit(time))>>
    IN  (CASE kind \in {"rgbw", "pwm"}   -> unit
           [] kind \in {"dali", "fixed"} -> When(TimeUnit(time) # "SECONDS", unit)
           [] OTHER                      -> <<>>) \o <<Put(field, time)>>
NotUsed == <<Put("ON_TIME", "not used")>>

\* CustomDpColorDimmerEffect.turn_on: the effect in its own channel, which is
\* ended before, or started after, everything else
EffectEntries(call, shown) ==
    When(call.args.effect = None /\ shown.PROGRAM # "off", <<Entry("program", "PROGRAM", "off", 5)>>)
    \o When(call.args.effect # None, <<Entry("program", "PROGRAM", call.args.effect, 95)>>)

\* _convert_color
FixedColor(color) == IF color = "red" THEN "RED" ELSE "WHITE"

\* CustomDpIpFixedColorLight.turn_on: a black light becomes white
FixedEntries(call, shown) ==
    (IF call.args.color # None THEN <<Put("COLOR", FixedColor(call.args.color))>>
     ELSE When(shown.COLOR \in {"BLACK", None}, <<Put("COLOR", "WHITE")>>))
    \o <<Put("BEHAVIOUR", IF call.args.effect # None THEN call.args.effect
                          ELSE IF shown.BEHAVIOUR \in {"ON", "BLINKING"} THEN shown.BEHAVIOUR
                          ELSE "ON")>>

\* The colours: in a channel of their own, or with the level.
ColorEntries(kind, call, shown) ==
    LET color == call.args.color
        kelvin == call.args.kelvin
    IN  CASE kind \in {"color", "effect"} ->
                When(kind = "effect", EffectEntries(call, shown))
                \o When(color # None, <<Entry("color", "COLOR", color, 50)>>)
          [] kind = "temp" -> When(kelvin # None, <<Entry("color", "COLOR_LEVEL", kelvin, 50)>>)
          [] kind \in {"rgbw", "pwm", "dali"} ->
                When(color # None, <<Put("HUE", color)>>) \o When(kelvin # None, <<Put("KELVIN", kelvin)>>)
          [] kind = "fixed" -> FixedEntries(call, shown)
          [] OTHER -> <<>>

\* CustomDpIpRGBWLight and CustomDpIpDrgDaliLight.turn_on: a ramp needs a
\* duration, and effects are sent with the level
EffectsAndRamp(kind, call, time) ==
    LET asked == IF kind = "dali" THEN call.args.onTime ELSE time
    IN  When(call.args.rampTime # None /\ asked = None, NotUsed)
        \o When(kind \in {"rgbw", "dali"} /\ call.args.effect # None, <<Put("EFFECT", call.args.effect)>>)

OnEntries(kind, call, shown, timer) ==
    LET time == Duration(call, timer)
        level == IF call.args.brightness # None THEN call.args.brightness
                 ELSE IF IsOn(shown) THEN shown.LEVEL ELSE 2
        ramp == call.args.rampTime
    IN  ColorEntries(kind, call, shown)
        \o When(kind \in {"rgbw", "pwm", "dali"}, EffectsAndRamp(kind, call, time))
        \o When(time # None, Timed(kind, "ON_TIME", time))
        \o When(ramp # None, Timed(kind, "RAMP_TIME", ramp))
        \o <<Put("LEVEL", level)>>

OffEntries(kind, call) ==
    LET ramp == call.args.rampTime
    IN  When(kind \in {"rgbw", "pwm"} /\ ramp # None, NotUsed)
        \o When(ramp # None, Timed(kind, "RAMP_TIME", ramp))
        \o <<Put("LEVEL", 0)>>

\* CustomDpSwitch.turn_on, turn_off
SwitchEntries(call, timer) ==
    LET time == Duration(call, timer)
    IN  IF call.op = "off" THEN <<Put("POWER", 0)>>
        ELSE When(time # None, <<Put("ON_TIME", time)>>) \o <<Put("POWER", 2)>>

LightEntries(kind, call, shown, timer) ==
    IF kind = "switch" THEN SwitchEntries(call, timer)
    ELSE IF call.op = "off" THEN OffEntries(kind, call)
    ELSE OnEntries(kind, call, shown, timer)

\* The timer after a call.
TimerLeft(kind, call, timer, changes) ==
    CASE call.op = "setTimer" -> SetTimer(call.args.onTime)
      [] call.op = "off"      -> NoTimer
      [] call.op = "on"       -> IF changes THEN Started(SetTimer(Duration(call, timer)))
                                 ELSE TimerSeen(kind, call, timer)

-----------------------------------------------------------------------------
(* The devices.  A unit that is not sent is seconds.                         *)

LightApplied(kind, goal, request) ==
    [f \in DOMAIN goal |-> IF f \in DOMAIN request THEN request[f] ELSE goal[f]]

\* The duration after which the device turns itself off, or None
NeededUnit == [short |-> "SECONDS", long |-> "MINUTES"]
DeviceTimer(kind, request) ==
    LET unit == IF "ON_TIME_UNIT" \in DOMAIN request THEN request["ON_TIME_UNIT"] ELSE "SECONDS"
    IN  IF "ON_TIME" \notin DOMAIN request \/ request["ON_TIME"] = "not used" THEN None
        ELSE IF kind \in {"rgbw", "pwm", "dali", "fixed"} /\ unit # NeededUnit[request["ON_TIME"]] THEN "wrong"
        ELSE request["ON_TIME"]

\* The call has reached its aim.
LightDone(kind, call, at) ==
    LET args == call.args
        level == at[LevelField(kind)]
    IN  CASE call.op = "setTimer" -> TRUE
          [] call.op = "off" -> level = 0
          [] OTHER ->
                /\ level > 0
                /\ args.brightness # None => level = args.brightness
                /\ args.color # None => ShownColor(kind, at) = args.color
                /\ args.kelvin # None => ShownKelvin(kind, at) = args.kelvin
                /\ kind \in {"effect", "fixed"} /\ args.effect # None =>
                        ShownEffect(kind, at) = args.effect
=============================================================================
