------------------------------ MODULE Schedules ------------------------------
(***************************************************************************)
(* The week profiles of a thermostat (model/custom/climate.py).  A weekday   *)
(* of a profile is a sequence of slots, each with the time where it ends;    *)
(* the simple form is a list of periods and a temperature for the rest of    *)
(* the day.  The code has 13 slots and minutes, here there are fewer.        *)
(***************************************************************************)
EXTENDS Collector, SequencesExt

Slots == 3
DayEnd == 4          \* 24:00; the pattern for a time also lets 24:01 .. 24:59 pass
WarmEnough(temp) == temp \in 5 .. 30

Slot(end, temp) == [end |-> end, temp |-> temp]
Period(start, end, temp) == [start |-> start, end |-> end, temp |-> temp]
Rest == 17           \* the base temperature

ScheduleStates == [P1 : {<<Slot(2, 18), Slot(4, 17), Slot(4, 17)>>},
                   P2 : {<<Slot(4, 18), Slot(4, 18), Slot(4, 18)>>}]

\* The periods that are asked for: one of them has its ends the wrong way
\* round, one is too cold, and two run past the end of the day.
Periods == {Period(s, e, t) : s \in {0, 1, 2}, e \in {4}, t \in {17, 21}}
           \cup {Period(0, 1, 21), Period(0, 2, 20), Period(1, 2, 20), Period(2, 5, 21), Period(4, 5, 21)}
           \cup {Period(2, 1, 21), Period(0, 4, 4)}
Lists == {<<>>} \cup {<<p>> : p \in Periods} \cup {<<p, q>> : p, q \in Periods}

\* The weekdays that are set slot by slot.
Weekdays == {<<Slot(1, 20), Slot(2, 21), Slot(4, 17)>>, <<Slot(2, 20), Slot(1, 21), Slot(4, 17)>>,
             <<Slot(1, 20), Slot(5, 21), Slot(4, 17)>>, <<Slot(1, 4), Slot(2, 21), Slot(4, 17)>>,
             <<Slot(2, 20), Slot(4, 21)>>}

ScheduleCall(op, base, data) == [op |-> op, base |-> base, data |-> data]
ScheduleCalls ==
    {ScheduleCall("simple", Rest, list) : list \in Lists}
    \cup {ScheduleCall("simple", 4, <<>>)}
    \cup {ScheduleCall("weekday", None, weekday) : weekday \in Weekdays}
    \cup {ScheduleCall("copy", None, None)}

-----------------------------------------------------------------------------
(* The simple form.                                                         *)

\* _sort_simple_weekday_list: by their start; of periods with the same start
\* only the last remains
Sorted(list) ==
    LET starts == {list[i].start : i \in DOMAIN list}
        NthStart(n) == CHOOSE s \in starts : Cardinality({r \in starts : r < s}) = n - 1
        Latest(start) == Max({i \in DOMAIN list : list[i].start = start})
    IN  [n \in 1 .. Cardinality(starts) |-> list[Latest(NthStart(n))]]

EndBefore(periods, n) == IF n = 1 THEN 0 ELSE periods[n - 1].end

\* The checks of _validate_and_convert_simple_to_profile_weekday
ValidSimple(base, periods) ==
    /\ WarmEnough(base)
    /\ \A n \in DOMAIN periods :
        /\ periods[n].start < periods[n].end
        /\ periods[n].start >= EndBefore(periods, n)
        /\ WarmEnough(periods[n].temp)

\* a variant: no slots for the gaps
SlotsOfPeriods(base, periods) == [n \in DOMAIN periods |-> Slot(periods[n].end, periods[n].temp)]

\* A period is a slot, after a slot for the gap before it.
SlotsOf(base, periods) ==
    FlattenSeq([n \in DOMAIN periods |->
        When(periods[n].start > EndBefore(periods, n), <<Slot(periods[n].start, base)>>)
        \o <<Slot(periods[n].end, periods[n].temp)>>])

\* _fillup_weekday_data
FilledUp(base, slots) == slots \o [n \in 1 .. Slots - Len(slots) |-> Slot(DayEnd, base)]

-----------------------------------------------------------------------------
(* What is refused, and what is sent.                                       *)

\* _validate_schedule_profile_weekday: the last slot is not looked at, and the
\* end of a slot at 0:00 may follow any other
ValidWeekday(slots) ==
    /\ Len(slots) = Slots
    /\ \A n \in 1 .. Slots - 1 :
        /\ WarmEnough(slots[n].temp)
        /\ slots[n].end # 0 => /\ slots[n].end <= DayEnd
                               /\ slots[n].end >= EndBefore(slots, n)

Weekday(call, stored) ==
    CASE call.op = "simple"  -> FilledUp(call.base, SlotsOf(call.base, Sorted(call.data)))
      [] call.op = "weekday" -> call.data
      [] call.op = "copy"    -> stored.P1

\* copy_schedule_profile does not look at what it copies.
ScheduleRefuses(call, supported) ==
    CASE call.op = "copy" -> ~supported
      [] call.op = "simple" -> \/ ~ValidSimple(call.base, Sorted(call.data))
                               \/ ~ValidWeekday(Weekday(call, None))
      [] OTHER -> ~ValidWeekday(call.data)

ScheduleEntries(call, stored) ==
    <<Put(IF call.op = "copy" THEN "P2" ELSE "P1", Weekday(call, stored))>>

ScheduleApplied(goal, request) ==
    [f \in DOMAIN goal |-> IF f \in DOMAIN request THEN request[f] ELSE goal[f]]

-----------------------------------------------------------------------------
(* The aim of a call.                                                       *)

\* The thermostat heats to the temperature of the first slot that has not ended.
Heated(slots, time) == slots[Min({n \in DOMAIN slots : slots[n].end > time})].temp

\* What the periods of the simple form mean, if they have different starts.
Asked(call, time) ==
    LET covering == {i \in DOMAIN call.data : call.data[i].start <= time /\ time < call.data[i].end}
    IN  IF covering = {} THEN call.base ELSE call.data[CHOOSE i \in covering : TRUE].temp

\* The periods that need every slot, and do not reach the end of the day, leave
\* the rest of it without a slot.
ReachesTheEnd(slots) == slots[Len(slots)].end >= DayEnd
SameStart(list) == \E i, j \in DOMAIN list : i # j /\ list[i].start = list[j].start

ScheduleDone(call, at) ==
    CASE call.op = "simple" ->
            ReachesTheEnd(at.P1) /\ ~SameStart(call.data) =>
                \A time \in 0 .. DayEnd - 1 : Heated(at.P1, time) = Asked(call, time)
      [] call.op = "weekday" -> at.P1 = call.data
      [] call.op = "copy" -> at.P2 = at.P1
=============================================================================
