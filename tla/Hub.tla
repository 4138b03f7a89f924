-------------------------------- MODULE Hub --------------------------------
(***************************************************************************)
(* The hub (model/hub): the system variables and the programs of the CCU    *)
(* as data points of the central.  A loop of the scheduler and callers of   *)
(* the API fetch them, one fetch at a time and in two requests; a variable  *)
(* may also report a change through MQTT, and a service may set it.         *)
(***************************************************************************)
EXTENDS Integers, FiniteSets, Sequences

CONSTANTS
    Order,      \* the names of the variables, in the order the CCU lists them
    Excluded,   \* the names with a marker of _EXCLUDED
    Vids,       \* ids of variables
    Pids,       \* ids of programs
    None,
    MaxEdits,   \* bound: changes at the CCU, calls of the API
    MaxFaults   \* bound: requests that fail

VARIABLES
    part,      \* what the run is about: the variables, or the programs
    ccu,       \* the variables of the CCU by name
    points,    \* _sysvar_data_points
    subs,      \* _sysvar_data_point_event_subscriptions: id -> name
    mqtt,      \* the message on its way, [vid, value], or None
    fetches,   \* the fetches: the loop of the scheduler, a caller of the API
    sending,   \* send_variable that awaits its answer, or None
    programs,  \* the programs of the CCU: their states
    buttons,   \* _program_buttons: the states shown
    edits, faults

vars == <<part, ccu, points, subs, mqtt, fetches, sending, programs, buttons, edits, faults>>
hubVars == <<points, subs, buttons>>

Names == {Order[i] : i \in 1 .. Len(Order)}
Fetchers == {"loop", "caller"}
Busy == {"list", "descriptions"}
NoFetch == [pc |-> "idle", got |-> None]

-----------------------------------------------------------------------------
(* Values: the kind a variable has tells the type of its values, numbers    *)
(* are counted in halves.                                                  *)

Domain == [LOGIC |-> {0, 2}, INTEGER |-> {0, 2}, FLOAT |-> {1}, STRING |-> {0}]
Kinds == DOMAIN Domain
Values == {[kind |-> k, v |-> n] : k \in Kinds, n \in 0 .. 2}
Error == None   \* ValueError, TypeError

\* parse_sys_var, of a value that another kind of variable had, as it is or
\* as the string that an event carries
Parse(kind, x, string) ==
    CASE kind = "STRING" -> x
      [] kind = "LOGIC" -> IF x.kind \in {"INTEGER", "FLOAT"} /\ ~string THEN Error
                           ELSE [kind |-> "LOGIC", v |-> IF x.v = 2 THEN 2 ELSE 0]
      [] kind = "FLOAT" -> IF x.kind = "STRING" \/ (x.kind = "LOGIC" /\ string) THEN Error
                           ELSE [kind |-> "FLOAT", v |-> x.v]
      [] kind = "INTEGER" -> IF x.kind = "STRING" \/ (x.kind # "INTEGER" /\ string) THEN Error
                             ELSE [kind |-> "INTEGER", v |-> 2 * (x.v \div 2)]

\* GenericSysvarDataPoint
NewPoint(var) ==
    [vid |-> var.vid, kind |-> var.value.kind, ext |-> var.ext, cur |-> var.value,
     temp |-> None, stamped |-> FALSE, refreshed |-> FALSE]

Points == [vid : Vids, kind : Kinds, ext : BOOLEAN, cur : Values \cup {Error},
           temp : Values \cup {None}, stamped : BOOLEAN, refreshed : BOOLEAN]

\* None is neither a point nor a value.
ASSUME NoneAssumption == None \notin Points /\ None \notin Values

\* The stamps are compared as in BaseParameterDataPoint: see DataPoint.
Shown(p) == IF p.stamped /\ ~p.refreshed THEN p.temp ELSE p.cur

ResetTemporary(p) == [p EXCEPT !.temp = None, !.stamped = FALSE]
WriteValue(p, value) == [ResetTemporary(p) EXCEPT !.cur = value, !.refreshed = TRUE]
WriteTemporary(p, value) ==
    LET r == ResetTemporary(p)
    IN  [r EXCEPT !.stamped = TRUE, !.temp = IF Shown(r) = value THEN None ELSE value]

Present == {n \in Names : points[n] # None}

-----------------------------------------------------------------------------

\* The central starts with an empty hub, and a CCU that has variables.
Init ==
    /\ part \in {"sysvars", "programs"}
    /\ ccu \in {c \in [Names -> {None} \cup
                         [vid : Vids, ext : BOOLEAN,
                          value : {[kind |-> k, v |-> 0] : k \in {"LOGIC", "STRING"}}]] :
                  \A i \in 1 .. Len(Order) : c[Order[i]] = None \/ c[Order[i]].vid = i}
    /\ part = "programs" => \A n \in Names : ccu[n] = None
    /\ points = [n \in Names |-> None] /\ subs = << >>
    /\ mqtt = None /\ sending = None
    /\ fetches = [f \in Fetchers |-> NoFetch]
    /\ programs \in [Pids -> IF part = "programs" THEN {None, "active"} ELSE {None}]
    /\ buttons = [p \in Pids |-> None]
    /\ edits = 0 /\ faults = 0

Fault == faults < MaxFaults /\ faults' = faults + 1

-----------------------------------------------------------------------------
(* A fetch. *)

Ended(f) == fetches' = [fetches EXCEPT ![f] = NoFetch]

\* fetch_sysvar_data, fetch_program_data, of the loop and of a caller of the
\* API: one at a time holds the semaphore.
StartFetch(f) ==
    /\ fetches[f].pc = "idle" /\ \A g \in Fetchers : fetches[g].pc \notin Busy
    /\ fetches' = [fetches EXCEPT ![f].pc = "list"]
    /\ IF f = "caller" THEN edits < MaxEdits /\ edits' = edits + 1 ELSE UNCHANGED edits
    /\ UNCHANGED <<part, ccu, hubVars, mqtt, sending, programs, faults>>

\* The first request, SysVar.getAll or Program.getAll: no answer, or an
\* empty one, changes nothing.
ListAnswered(f) ==
    LET got == IF part = "sysvars" THEN ccu ELSE programs
    IN  /\ fetches[f].pc = "list"
        /\ IF \E n \in DOMAIN got : got[n] # None
           THEN fetches' = [fetches EXCEPT ![f] = [pc |-> "descriptions", got |-> got]]
           ELSE Ended(f)
        /\ UNCHANGED <<part, ccu, hubVars, mqtt, sending, programs, edits, faults>>

FetchLost(f) ==
    /\ fetches[f].pc \in Busy
    /\ Fault /\ Ended(f)
    /\ UNCHANGED <<part, ccu, hubVars, mqtt, sending, programs, edits>>

\* The second request tells which variables are extended, by their id: none
\* when its answer cannot be decoded.
Extended(vid) == \E n \in Names : ccu[n] # None /\ ccu[n].vid = vid /\ ccu[n].ext

\* _clean_variables
Listed(got, readable) ==
    [n \in Names |-> IF got[n] = None \/ n \in Excluded THEN None
                     ELSE [got[n] EXCEPT !.ext = readable /\ Extended(got[n].vid)]]

MissingUnlisted(vars1) ==   \* a variant: the marker is not compared
    {n \in Present : points[n].kind # "STRING" /\ vars1[n] = None}
\* _identify_missing_variable_names
Missing(vars1) ==
    {n \in Present : points[n].kind # "STRING" /\
                     (vars1[n] = None \/ vars1[n].ext # points[n].ext)}

AllSubs(gone) == subs   \* a variant: subscriptions are not deleted
\* remove_sysvar_data_point: what stays of the subscriptions
KeptSubs(gone) ==
    [v \in DOMAIN subs \ {points[n].vid : n \in gone} |-> subs[v]]

\* add_sysvar_data_point: a path that is taken stays with its first owner.
Subscribed(kept, created) ==
    LET added == {n \in DOMAIN created : created[n].vid \notin DOMAIN kept}
    IN  [v \in DOMAIN kept \cup {created[n].vid : n \in added} |->
            IF v \in DOMAIN kept THEN kept[v]
            ELSE CHOOSE n \in added : created[n].vid = v]

\* A value that the type of its point does not take raises.
Raises(var, p) == var # None /\ p # None /\ Parse(p.kind, var.value, FALSE) = Error

\* One variable of the list: its point is written, or created.
Updated(var, p) ==
    CASE var = None -> p
      [] var # None /\ p = None -> NewPoint(var)
      [] OTHER -> WriteValue(p, Parse(p.kind, var.value, FALSE))

\* _update_sysvar_data_points, which handles the variables in the order of
\* the list, up to the first that raises.  (What the fetch has created is
\* announced by HUB_REFRESHED at its end, if it gets there.)
UpdateSysvars(f, readable) ==
    LET listed == Listed(fetches[f].got, readable)
        gone == Missing(listed)
        kept == [n \in Names |-> IF n \in gone THEN None ELSE points[n]]
        raising == {i \in 1 .. Len(Order) : Raises(listed[Order[i]], kept[Order[i]])}
        Reached(n) == \A i \in raising : Order[i] # n /\ \E j \in 1 .. i : Order[j] = n
        Stops(n) == \E i \in raising : Order[i] = n /\ \A j \in raising : i <= j
        created == {n \in Names : listed[n] # None /\ kept[n] = None /\ Reached(n)}
    IN  /\ points' = [n \in Names |-> CASE Reached(n) -> Updated(listed[n], kept[n])
                                        [] Stops(n) -> ResetTemporary(kept[n])
                                        [] OTHER -> kept[n]]
        /\ subs' = Subscribed(KeptSubs(gone), [n \in created |-> listed[n]])
        /\ sending' = IF sending # None /\ sending.name \in gone
                      THEN [sending EXCEPT !.live = FALSE] ELSE sending
        \* _run_refresh_sysvar_data is not guarded: the exception ends its task
        /\ IF raising # {} /\ f = "loop"
           THEN fetches' = [fetches EXCEPT ![f] = [pc |-> "dead", got |-> None]]
           ELSE Ended(f)
        /\ UNCHANGED buttons

ButtonsKept(got) ==   \* a variant: programs that are gone are not removed
    [p \in Pids |-> IF got[p] = None THEN buttons[p] ELSE got[p]]
\* _update_program_data_points, update_data
ButtonsOf(got) == got

UpdatePrograms(f) ==
    /\ buttons' = ButtonsOf(fetches[f].got)
    /\ Ended(f)
    /\ UNCHANGED <<points, subs, sending>>

DescriptionsAnswered(f) ==
    /\ fetches[f].pc = "descriptions"
    /\ \/ part = "sysvars" /\ UpdateSysvars(f, TRUE) /\ UNCHANGED faults
       \/ part = "sysvars" /\ Fault /\ UpdateSysvars(f, FALSE)
       \/ part = "programs" /\ UpdatePrograms(f) /\ UNCHANGED faults
    /\ UNCHANGED <<part, ccu, mqtt, programs, edits>>

-----------------------------------------------------------------------------
(* Events and services. *)

\* sysvar_data_point_path_event, event: the value comes as a string.  When
\* its conversion raises only the temporary value has been reset.
SysvarEvent ==
    /\ mqtt # None /\ mqtt' = None
    /\ points' = IF mqtt.vid \notin DOMAIN subs THEN points
                 ELSE LET n == subs[mqtt.vid]
                          value == Parse(points[n].kind, mqtt.value, TRUE)
                      IN  [points EXCEPT ![n] = IF value = Error THEN ResetTemporary(@)
                                                ELSE WriteValue(@, value)]
    /\ UNCHANGED <<part, ccu, subs, fetches, sending, programs, buttons, edits, faults>>

\* send_variable
SendVariable(n, v) ==
    /\ sending = None /\ points[n] # None /\ edits < MaxEdits
    /\ v \in Domain[points[n].kind]
    /\ sending' = [name |-> n, live |-> TRUE, value |-> [kind |-> points[n].kind, v |-> v]]
    /\ edits' = edits + 1
    /\ UNCHANGED <<part, ccu, hubVars, mqtt, fetches, programs, faults>>

\* set_system_variable is answered: by then the point may be removed.
SendAnswered ==
    /\ sending # None /\ sending' = None
    /\ LET n == sending.name
           known == ccu[n] # None /\ ccu[n].value.kind = sending.value.kind
       IN  \/ /\ ccu' = IF known THEN [ccu EXCEPT ![n].value = sending.value] ELSE ccu
              /\ points' = IF sending.live
                           THEN [points EXCEPT ![n] = WriteTemporary(@, sending.value)]
                           ELSE points
              /\ UNCHANGED faults
           \/ Fault /\ UNCHANGED <<ccu, points>>   \* ClientException
    /\ UNCHANGED <<part, subs, mqtt, fetches, programs, buttons, edits>>

-----------------------------------------------------------------------------
(* The CCU. *)

FreeVids == Vids \ ({ccu[n].vid : n \in {m \in Names : ccu[m] # None}} \cup DOMAIN subs
                    \cup {points[n].vid : n \in Present})

\* A variable is created, deleted, renamed, marked, given another type.
EditVariable(n) ==
    \/ /\ ccu[n] = None
       /\ \E k \in Kinds : FreeVids # {} /\
             ccu' = [ccu EXCEPT ![n] = [vid |-> CHOOSE v \in FreeVids : TRUE, ext |-> FALSE,
                                        value |-> [kind |-> k, v |-> CHOOSE x \in Domain[k] : TRUE]]]
    \/ ccu[n] # None /\ ccu' = [ccu EXCEPT ![n] = None]
    \/ /\ ccu[n] # None
       /\ \E m \in Names : ccu[m] = None /\ ccu' = [ccu EXCEPT ![m] = ccu[n], ![n] = None]
    \/ ccu[n] # None /\ ccu' = [ccu EXCEPT ![n].ext = ~@]
    \/ /\ ccu[n] # None
       /\ \E k \in Kinds \ {ccu[n].value.kind} :
             ccu' = [ccu EXCEPT ![n].value = [kind |-> k, v |-> CHOOSE x \in Domain[k] : TRUE]]

ChangeValue(n) ==
    /\ ccu[n] # None
    /\ \E v \in Domain[ccu[n].value.kind] \ {ccu[n].value.v} :
          /\ ccu' = [ccu EXCEPT ![n].value.v = v]
          /\ mqtt' \in {mqtt, [vid |-> ccu[n].vid, value |-> ccu'[n].value]}

EditProgram(p) ==
    \E s \in {None, "active", "inactive"} :
        programs[p] # s /\ programs' = [programs EXCEPT ![p] = s]

Edit ==
    /\ edits < MaxEdits /\ edits' = edits + 1
    /\ \/ part = "sysvars" /\ \E n \in Names : EditVariable(n) /\ UNCHANGED <<mqtt, programs>>
       \/ part = "sysvars" /\ \E n \in Names : ChangeValue(n) /\ UNCHANGED programs
       \/ part = "programs" /\ \E p \in Pids : EditProgram(p) /\ UNCHANGED <<ccu, mqtt>>
    /\ UNCHANGED <<part, hubVars, fetches, sending, faults>>

-----------------------------------------------------------------------------
Fetching(f) == ListAnswered(f) \/ FetchLost(f) \/ DescriptionsAnswered(f)

Next == \/ \E f \in Fetchers : StartFetch(f) \/ Fetching(f)
        \/ \E n \in Names : \E v \in 0 .. 2 : SendVariable(n, v)
        \/ SysvarEvent \/ SendAnswered \/ Edit

Spec == Init /\ [][Next]_vars

\* The loop sleeps and goes on, and requests are answered or time out.
Fairness == /\ WF_vars(StartFetch("loop"))
            /\ \A f \in Fetchers : WF_vars(ListAnswered(f)) /\ WF_vars(DescriptionsAnswered(f))
FairSpec == Spec /\ Fairness

-----------------------------------------------------------------------------

(* The subscriptions follow the points: whatever is renamed, removed and    *)
(* created again, an event is handed to a point that exists and has the     *)
(* event's id (add_sysvar_data_point, remove_sysvar_data_point).            *)
SubscriptionsMatch ==
    \A v \in DOMAIN subs : subs[v] \in Present /\ points[subs[v]].vid = v

(* As long as its loop runs the hub comes to show the CCU's variables, each *)
(* with the marker it has there, and no other: late events, lost requests,  *)
(* unreadable descriptions and an older fetch do no lasting harm.           *)
(* Not so for STRING variables, that stay, nor when the last one is gone.   *)
ShowsVariables ==
    LET listed == {n \in Names \ Excluded : ccu[n] # None}
    IN  /\ listed \subseteq Present
        /\ \A n \in Present :
              points[n].kind # "STRING" =>
                 /\ n \in listed /\ points[n].ext = ccu[n].ext
                 /\ Shown(points[n]) = Parse(points[n].kind, ccu[n].value, FALSE)
SysvarsCatchUp ==
    <>[](\/ fetches["loop"].pc = "dead"
         \/ \A n \in Names : ccu[n] = None
         \/ ShowsVariables)

(* The hub comes to show the programs, with the state they have, and no     *)
(* other, unless the CCU has none left.                                     *)
ProgramsCatchUp ==
    <>[]((\E p \in Pids : programs[p] # None) => buttons = programs)

(* The loop that refreshes the variables goes on for ever                   *)
(* (_run_refresh_sysvar_data: "Periodically refresh sysvars.").             *)
SysvarsKeepRefreshing == []<>(part = "sysvars" => fetches["loop"].pc = "list")
=============================================================================
