--------------------------- MODULE CustomCommands ---------------------------
(***************************************************************************)
(* Calls of a custom data point: a cover, light, switch, lock, siren or      *)
(* thermostat.  A call compares what it asks with what is shown, and sends   *)
(* what the collector made of it, request by request; the device obeys, runs *)
(* to its goal and reports.  The calls of a blind take a lock.               *)
(***************************************************************************)
EXTENDS Covers, Lights, Locks, Climates, Schedules

CONSTANTS
    Kinds,          \* the kinds of custom data points that are looked at
    Tasks,          \* the callers
    MaxCalls,       \* bound: calls, but for blinds
    MaxBlindCalls,  \* bound: calls of a blind
    MaxFaults       \* bound: requests that fail

ASSUME KindsAssumption ==
    Kinds \subseteq CoverKinds \cup LightKinds \cup LockKinds \cup ClimateKinds \cup {"schedule"}
ASSUME TasksAssumption == Tasks # {}
ASSUME NoneAssumption == None \notin Int

VARIABLES
    kind,         \* the kind of the custom data point
    at, goal,     \* the device: its parameters, and the values they run to
    off,          \* the device: the duration after which it turns off, or None
    due,          \* the device: it has been told something, and has not reported yet
    report,       \* <<the values on their way to the central>>, or <<>>
    shown,        \* the values of the data points, None when not loaded
    uncertain,    \* state_uncertain
    unconfirmed,  \* the coordinates sent last (CommandCache), of a blind
    timer,        \* TimerMixin
    supported,    \* _supports_schedule: no read of a schedule has failed
    task,         \* the calls
    last,         \* (ghost) the last call, if all it sent was answered
    wanted,       \* (ghost) the coordinates the callers of a blind asked for
    stopped,      \* (ghost) the coordinates that a caller has stopped since
    calls, faults

vars == <<kind, at, goal, off, due, report, shown, uncertain, unconfirmed, timer, supported, task,
          last, wanted, stopped, calls, faults>>
deviceVars == <<at, goal, off, due>>
centralVars == <<shown, uncertain, unconfirmed, timer, supported>>
ghosts == <<last, wanted, stopped>>

Coordinates == {"LEVEL", "LEVEL_2"}
NoCoordinates == [f \in Coordinates |-> None]

-----------------------------------------------------------------------------
(* The parts of the kinds.                                                  *)

Calls == CASE kind \in CoverKinds   -> CoverCalls(kind)
           [] kind \in LightKinds   -> LightCalls(kind)
           [] kind \in LockKinds    -> LockCalls(kind)
           [] kind \in ClimateKinds -> ClimateCalls(kind)
           [] kind = "schedule"     -> ScheduleCalls

\* Only some calls look at the state: see LooksAtState.
Changes(call) ==
    CASE kind \in CoverKinds   -> CoverChanges(kind, call, shown)
      [] kind \in LightKinds   -> LightChanges(kind, call, shown, timer)
      [] kind \in ClimateKinds -> ClimateChanges(kind, call, shown)
LooksAtState(call) == kind \notin LockKinds \cup {"schedule"} /\ call.op \notin {"stop", "setTimer"}

Refuses(call) == CASE kind \in LockKinds    -> LockRefuses(kind, call)
                   [] kind \in ClimateKinds -> ClimateRefuses(call) /\ (uncertain \/ Changes(call))
                   [] kind = "schedule"     -> ScheduleRefuses(call, supported)
                   [] OTHER                 -> FALSE

Entries(call) ==
    CASE kind \in CoverKinds   -> CoverEntries(kind, call, shown, unconfirmed)
      [] kind \in LightKinds   -> When(call.op # "setTimer", LightEntries(kind, call, shown, timer))
      [] kind \in LockKinds    -> LockEntries(kind, call)
      [] kind \in ClimateKinds -> ClimateEntries(kind, call, shown, uncertain)
      [] kind = "schedule"     -> ScheduleEntries(call, at)

Applied(request) ==
    CASE kind \in CoverKinds   -> CoverApplied(kind, at, goal, request)
      [] kind \in LightKinds   -> LightApplied(kind, goal, request)
      [] kind \in LockKinds    -> LockApplied(kind, goal, request)
      [] kind \in ClimateKinds -> ClimateApplied(kind, goal, request)
      [] kind = "schedule"     -> ScheduleApplied(goal, request)

Done(call) ==
    CASE kind \in CoverKinds   -> CoverDone(kind, call, at)
      [] kind \in LightKinds   -> LightDone(kind, call, at)
      [] kind \in LockKinds    -> LockDone(kind, call, at)
      [] kind \in ClimateKinds -> ClimateDone(kind, call, at)
      [] kind = "schedule"     -> ScheduleDone(call, at)

States == CASE kind \in CoverKinds   -> CoverStates(kind)
            [] kind \in LightKinds   -> LightStates(kind)
            [] kind \in LockKinds    -> LockStates(kind)
            [] kind \in ClimateKinds -> ClimateStates(kind)
            [] kind = "schedule"     -> ScheduleStates

-----------------------------------------------------------------------------

Idle == [stage |-> "idle"]

\* A data point is loaded, or not yet (the coordinates of a blind and the
\* values of a thermostat are).
Init ==
    /\ kind \in Kinds
    /\ at \in States
    /\ goal = at
    /\ uncertain \in IF kind \in Blinds \cup ClimateKinds \cup {"schedule"} THEN {FALSE} ELSE BOOLEAN
    /\ shown = IF uncertain THEN [f \in DOMAIN at |-> None] ELSE at
    /\ off = None /\ due = FALSE /\ report = <<>>
    /\ unconfirmed = NoCoordinates
    /\ timer = NoTimer /\ supported = TRUE
    /\ task = [t \in Tasks |-> Idle]
    /\ last = None /\ stopped = {}
    /\ wanted = IF kind \in Blinds THEN at ELSE NoCoordinates
    /\ calls = 0 /\ faults = 0

\* Nothing is on its way, and the device stands still.
Quiet == /\ \A t \in Tasks : task[t] = Idle
         /\ at = goal /\ ~due /\ report = <<>>

-----------------------------------------------------------------------------
(* The calls.                                                               *)

\* Only the calls of a blind are looked at beside each other.
Callers == IF kind \in Blinds THEN Tasks ELSE {CHOOSE t \in Tasks : TRUE}
MayCall(t) ==
    /\ task[t] = Idle
    /\ calls < IF kind \in Blinds THEN MaxBlindCalls ELSE MaxCalls

Leaves(call, changes) ==
    IF kind \in LightKinds THEN TimerLeft(kind, call, timer, changes) ELSE timer

\* Nothing changes: the call returns.
Skip(t, call) ==
    /\ MayCall(t)
    /\ LooksAtState(call) /\ ~Changes(call) /\ ~uncertain
    /\ calls' = calls + 1
    /\ timer' = Leaves(call, FALSE)
    /\ UNCHANGED <<kind, supported, deviceVars, report, shown, uncertain, unconfirmed, task, ghosts, faults>>

\* ValueError, before anything is sent
Refuse(t, call) ==
    /\ MayCall(t)
    /\ Refuses(call)
    /\ calls' = calls + 1
    /\ UNCHANGED <<kind, deviceVars, report, centralVars, task, ghosts, faults>>

\* A call of a thermostat leaves out what is shown already, so it only counts
\* when what is shown is what the device has.
Settled == kind \in ClimateKinds => ~due /\ report = <<>>

\* What a task does once it has the lock of a blind, or at once.
Sending(call) ==
    LET stops == When(kind \in Blinds /\ call.op # "stop" /\ StopsFirst(call, unconfirmed),
                      <<[STOP |-> "STOP"]>>)
    IN  [stage |-> "sending", call |-> call, todo |-> stops \o Requests(Entries(call)),
         intact |-> Settled,
         meant |-> IF kind \in LightKinds /\ call.op = "on" THEN Duration(call, timer) ELSE None]

Enter(t, call) ==
    /\ MayCall(t)
    /\ ~Refuses(call)
    /\ LooksAtState(call) => Changes(call) \/ uncertain
    /\ calls' = calls + 1
    /\ task' = [task EXCEPT ![t] = IF kind \in Blinds THEN [stage |-> "waiting", call |-> call]
                                   ELSE Sending(call)]
    /\ timer' = Leaves(call, TRUE)
    /\ last' = None
    /\ UNCHANGED <<kind, supported, deviceVars, report, shown, uncertain, unconfirmed, wanted, stopped, faults>>

\* a variant: nobody waits for the lock
LockFreeAlways == TRUE

\* _command_processing_lock
LockFree == \A t \in Tasks : task[t].stage # "sending"

Acquire(t) ==
    /\ task[t].stage = "waiting"
    /\ LockFree
    /\ LET call == task[t].call IN
        /\ task' = [task EXCEPT ![t] = Sending(call)]
        /\ wanted' = [f \in Coordinates |-> IF Given(call)[f] # None THEN Given(call)[f] ELSE wanted[f]]
        /\ stopped' = {f \in stopped : Given(call)[f] = None}
    /\ UNCHANGED <<kind, deviceVars, report, centralVars, last, calls, faults>>

\* The read of a copy fails: the schedules of the thermostat count as not
\* supported from then on.
ReadFails(t) ==
    /\ kind = "schedule" /\ MayCall(t) /\ supported /\ faults < MaxFaults
    /\ supported' = FALSE
    /\ calls' = calls + 1 /\ faults' = faults + 1
    /\ UNCHANGED <<kind, deviceVars, report, shown, uncertain, unconfirmed, timer, task, ghosts>>

-----------------------------------------------------------------------------
(* The requests.                                                            *)

\* The device takes a request: what does not run to its goal is there at once.
Obey(request) ==
    /\ goal' = Applied(request)
    /\ at' = [f \in DOMAIN at |-> IF kind \in CoverKinds THEN at[f] ELSE goal'[f]]
    /\ off' = IF kind \in LightKinds /\ LevelField(kind) \in DOMAIN request
              THEN DeviceTimer(kind, request) ELSE off
    /\ due' = (kind # "schedule")   \* schedules are not reported

\* The caller of stop() means the place where the device is.
MeantByStop(call) ==
    IF kind \in Blinds /\ call.op = "stop"
    THEN /\ wanted' = [f \in Coordinates |-> IF at[f] # goal[f] THEN at[f] ELSE wanted[f]]
         /\ stopped' = stopped \cup {f \in Coordinates : at[f] # goal[f]}
    ELSE UNCHANGED <<wanted, stopped>>

\* CommandCache
Remembered(request) ==
    [f \in Coordinates |-> IF kind \in Blinds /\ f \in DOMAIN request THEN request[f] ELSE unconfirmed[f]]

\* set_value and put_paramset, answered: what was sent is remembered.
Answered(t) ==
    LET request == Head(task[t].todo) IN
    /\ task[t].stage = "sending" /\ task[t].todo # <<>>
    /\ Obey(request)
    /\ unconfirmed' = Remembered(request)
    /\ task' = [task EXCEPT ![t].todo = Tail(@)]
    /\ MeantByStop(task[t].call)
    /\ UNCHANGED <<kind, supported, report, shown, uncertain, timer, last, calls, faults>>

\* What follows a request that failed: set_value swallows the error and the
\* rest is sent, put_paramset raises and the rest is dropped.
AfterFailure(todo) == IF Cardinality(DOMAIN Head(todo)) = 1 THEN Tail(todo) ELSE <<>>

\* The request or its answer is lost.
Fails(t) ==
    /\ faults < MaxFaults
    /\ task[t].stage = "sending" /\ task[t].todo # <<>>
    /\ Obey(Head(task[t].todo)) \/ UNCHANGED deviceVars
    /\ faults' = faults + 1
    /\ task' = [task EXCEPT ![t].todo = AfterFailure(@), ![t].intact = FALSE]
    /\ wanted' = NoCoordinates
    /\ UNCHANGED <<kind, report, centralVars, last, stopped, calls>>

Return(t) ==
    /\ task[t].stage = "sending" /\ task[t].todo = <<>>
    /\ task' = [task EXCEPT ![t] = Idle]
    /\ last' = IF task[t].intact /\ \A u \in Tasks \ {t} : task[u] = Idle
               THEN [call |-> task[t].call, meant |-> task[t].meant] ELSE None
    /\ UNCHANGED <<kind, deviceVars, report, centralVars, wanted, stopped,
          calls, faults>>

-----------------------------------------------------------------------------
(* The device, and what it reports.                                         *)

\* A cover runs, the coordinates of a blind on their own; it may be seen on
\* its way.
Move(f) ==
    /\ f \in DOMAIN at /\ at[f] # goal[f]
    /\ \E v \in IF f = "DOOR" THEN {goal[f]}
                ELSE {goal[f]} \cup {w \in Places : \/ at[f] < w /\ w < goal[f]
                                                    \/ goal[f] < w /\ w < at[f]} :
            at' = [at EXCEPT ![f] = v]
    /\ UNCHANGED <<kind, goal, off, due, report, centralVars, task, ghosts,
          calls, faults>>

\* A report is delivered before the device can have reached another place.
Report ==
    /\ due /\ at = goal /\ report = <<>>
    /\ report' = <<at>> /\ due' = FALSE
    /\ UNCHANGED <<kind, at, goal, off, centralVars, task, ghosts, calls, faults>>

\* event() of each data point: remove_last_value_send, write_value
Deliver ==
    /\ report # <<>>
    /\ shown' = report[1] /\ report' = <<>>
    /\ uncertain' = FALSE
    /\ unconfirmed' = [f \in Coordinates |->
            IF kind \in Blinds /\ report[1][f] = unconfirmed[f] THEN None ELSE unconfirmed[f]]
    /\ UNCHANGED <<kind, supported, deviceVars, timer, task, ghosts, calls, faults>>

\* The 60 seconds for which a value sent is remembered: longer than a run.
Forget ==
    /\ Quiet /\ unconfirmed # NoCoordinates
    /\ unconfirmed' = NoCoordinates
    /\ UNCHANGED <<kind, supported, deviceVars, report, shown, uncertain, timer, task, ghosts, calls, faults>>

\* A duration is over, for the device and for the timer of the data point: it
\* is longer than a call.
Expire ==
    /\ off # None \/ timer.running
    /\ \A t \in Tasks : task[t] = Idle
    /\ timer' = [timer EXCEPT !.running = FALSE]
    /\ IF off = None THEN UNCHANGED <<deviceVars, last>>
       ELSE /\ at' = [at EXCEPT ![LevelField(kind)] = 0]
            /\ goal' = at' /\ off' = None /\ due' = TRUE
            /\ last' = None
    /\ UNCHANGED <<kind, supported, report, shown, uncertain, unconfirmed, task, wanted, stopped, calls, faults>>

Next == \/ \E t \in Callers : \E call \in Calls : Skip(t, call) \/ Refuse(t, call) \/ Enter(t, call)
        \/ \E t \in Callers : ReadFails(t) \/ Acquire(t) \/ Answered(t) \/ Fails(t) \/ Return(t)
        \/ \E f \in MovingFields : Move(f)
        \/ Report \/ Deliver \/ Forget \/ Expire

Spec == Init /\ [][Next]_vars

-----------------------------------------------------------------------------

\* A call whose requests were all answered reaches its aim, if no other call
\* follows it: the values it has grouped into requests, in their order, are
\* the ones the device needs, and a light turns itself off when, and only
\* when, a duration was asked for.
SentTakesEffect ==
    last # None /\ Quiet =>
        /\ Done(last.call)
        /\ kind \in LightKinds /\ last.call.op = "on" => off = last.meant

\* The light is off and was asked to turn on with an argument that it shows:
\* "on" only counts when it is the only argument.
LightLeftOff(call) ==
    kind \in LightKinds /\ call.op = "on" /\ GivenArgs(call) # {} /\ at[LevelField(kind)] = 0

\* A call that is skipped, when nothing is on its way, had nothing to do.
SkippedIsDone ==
    [][\A t \in Callers : \A call \in Calls :
            Quiet /\ ~LightLeftOff(call) /\ Skip(t, call) => Done(call)]_vars

\* Where a blind may stand that was sent to a position: the combined value
\* shortens a coordinate, again with each call for the other one, until a call
\* leaves it as it is.
Kept(position) ==
    LET once(level)  == Coordinate(kind, level)
        twice(level) == once(once(level))
    IN  {position, once(position), twice(position), once(twice(position)), twice(twice(position))}

InPlace(f) == Quiet /\ kind \in Blinds /\ wanted[f] # None => at[f] \in Kept(wanted[f])

\* A call for one coordinate of a blind leaves the other where the callers
\* wanted it, also when they call beside each other, while the blind moves,
\* or while its report is on its way; but for what the combined value loses.
BlindKeepsCoordinates == \A f \in Coordinates \ stopped : InPlace(f)
=============================================================================
