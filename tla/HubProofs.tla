----------------------------- MODULE HubProofs -----------------------------
(***************************************************************************)
(* The subscriptions of the hub and its points agree, for every set of     *)
(* variables, ids and bounds, and every order of the fetches.              *)
(***************************************************************************)
EXTENDS Hub, TLAPS

Variables == [vid : Vids, ext : BOOLEAN, value : Values]
Lists == [Names -> Variables \cup {None}]

PointsTyped == points \in [Names -> Points \cup {None}]
MessageTyped == mqtt = None \/ mqtt \in [vid : Vids, value : Values]
States == [Pids -> {None, "active", "inactive"}]
FetchesTyped ==
    /\ fetches \in [Fetchers -> [pc : {"idle", "list", "descriptions", "dead"},
                                 got : Lists \cup States \cup {None}]]
    /\ \A f \in Fetchers : part = "sysvars" /\ fetches[f].pc = "descriptions"
                           => fetches[f].got \in Lists

\* A command whose point was not removed meanwhile still finds it.
SendingKnown ==
    \/ sending = None
    \/ /\ sending \in [name : Names, live : BOOLEAN, value : Values]
       /\ sending.live => points[sending.name] # None

Matches(subscriptions, pts) ==
    \A v \in DOMAIN subscriptions :
        /\ subscriptions[v] \in Names /\ pts[subscriptions[v]] # None
        /\ pts[subscriptions[v]].vid = v

IInv == /\ PointsTyped /\ ccu \in Lists /\ programs \in States /\ MessageTyped /\ FetchesTyped
        /\ SendingKnown /\ Matches(subs, points)

-----------------------------------------------------------------------------
(* The operators. *)

LEMMA KindsAre == Kinds = {"LOGIC", "INTEGER", "FLOAT", "STRING"}
BY DEF Kinds, Domain

LEMMA DomainsAre == \A k \in Kinds : Domain[k] \subseteq 0 .. 2 /\ Domain[k] # {}
BY KindsAre DEF Domain

LEMMA ParseType ==
    ASSUME NEW kind \in Kinds, NEW x \in Values, NEW string \in BOOLEAN
    PROVE  Parse(kind, x, string) \in Values \cup {Error}
<1>1. x.v \in 0 .. 2 /\ 2 * (x.v \div 2) \in 0 .. 2
  BY DEF Values
<1>2. CASE kind = "STRING"
  BY <1>2 DEF Parse
<1>3. CASE kind = "LOGIC"
  BY <1>3, KindsAre DEF Parse, Values
<1>4. CASE kind = "FLOAT"
  BY <1>1, <1>4, KindsAre DEF Parse, Values
<1>5. CASE kind = "INTEGER"
  BY <1>1, <1>5, KindsAre DEF Parse, Values
<1> QED
  BY <1>2, <1>3, <1>4, <1>5, KindsAre

LEMMA WriteKeeps ==
    ASSUME NEW p \in Points, NEW value \in Values \cup {None}
    PROVE  /\ ResetTemporary(p) \in Points /\ ResetTemporary(p).vid = p.vid
           /\ WriteValue(p, value) \in Points /\ WriteValue(p, value).vid = p.vid
           /\ WriteTemporary(p, value) \in Points /\ WriteTemporary(p, value).vid = p.vid
<1>1. ResetTemporary(p) \in Points /\ ResetTemporary(p).vid = p.vid
  BY DEF ResetTemporary, Points, Error
<1> HIDE DEF ResetTemporary
<1>2. WriteValue(p, value) \in Points /\ WriteValue(p, value).vid = p.vid
  BY <1>1 DEF WriteValue, Points, Error
<1>3. WriteTemporary(p, value) \in Points /\ WriteTemporary(p, value).vid = p.vid
  BY <1>1 DEF WriteTemporary, Points, Error
<1> QED
  BY <1>1, <1>2, <1>3

LEMMA NewPointType ==
    ASSUME NEW var \in Variables
    PROVE  NewPoint(var) \in Points /\ NewPoint(var).vid = var.vid
BY DEF NewPoint, Points, Variables, Values

LEMMA UpdatedKeeps ==
    ASSUME NEW var \in Variables \cup {None}, NEW p \in Points
    PROVE  Updated(var, p) \in Points /\ Updated(var, p).vid = p.vid
<1>1. CASE var = None
  BY <1>1 DEF Updated
<1>2. CASE var # None
  <2>1. Parse(p.kind, var.value, FALSE) \in Values \cup {None}
    BY <1>2, ParseType DEF Points, Variables, Error
  <2>2. p # None
    BY NoneAssumption
  <2> QED
    BY <1>2, <2>1, <2>2, WriteKeeps DEF Updated
<1> QED
  BY <1>1, <1>2

LEMMA ListedType ==
    ASSUME NEW got \in Lists, NEW readable \in BOOLEAN
    PROVE  Listed(got, readable) \in Lists
<1>1. ASSUME NEW n \in Names, got[n] # None
      PROVE  [got[n] EXCEPT !.ext = readable /\ Extended(got[n].vid)] \in Variables
  <2>1. got[n] \in Variables
    BY <1>1 DEF Lists
  <2>2. (readable /\ Extended(got[n].vid)) \in BOOLEAN
    BY DEF Extended
  <2> QED
    BY <2>1, <2>2 DEF Variables
<1> QED
  BY <1>1 DEF Listed, Lists

-----------------------------------------------------------------------------
(* The fetches. *)

LEMMA FetchKeeps ==
    ASSUME FetchesTyped, UNCHANGED part, NEW f \in Fetchers, NEW g,
           fetches' = [fetches EXCEPT ![f] = g],
           g \in [pc : {"idle", "list", "descriptions", "dead"},
                  got : Lists \cup States \cup {None}],
           part = "sysvars" /\ g.pc = "descriptions" => g.got \in Lists
    PROVE  FetchesTyped'
<1> DEFINE G == Lists \cup States \cup {None}
<1> G' = G
  BY DEF Lists, States, Variables, Values, Names, Kinds, Domain
<1> QED
  BY DEF FetchesTyped

LEMMA NoFetchKeeps ==
    ASSUME FetchesTyped, UNCHANGED part, NEW f \in Fetchers,
           Ended(f) \/ fetches' = [fetches EXCEPT ![f] = [pc |-> "dead", got |-> None]]
    PROVE  FetchesTyped'
<1>1. CASE Ended(f)
  BY <1>1, FetchKeeps DEF Ended, NoFetch
<1>2. CASE fetches' = [fetches EXCEPT ![f] = [pc |-> "dead", got |-> None]]
  BY <1>2, FetchKeeps
<1> QED
  BY <1>1, <1>2

\* A fetch that writes the variables: the points that go take their
\* subscriptions with them, and a new subscription is to a new point.
LEMMA UpdateStep ==
    ASSUME IInv, NEW f \in Fetchers, NEW readable \in BOOLEAN,
           part = "sysvars", fetches[f].pc = "descriptions", UpdateSysvars(f, readable)
    PROVE  PointsTyped' /\ SendingKnown' /\ Matches(subs', points')
<1> DEFINE listed == Listed(fetches[f].got, readable)
           gone == Missing(listed)
           kept == [n \in Names |-> IF n \in gone THEN None ELSE points[n]]
           raising == {i \in 1 .. Len(Order) : Raises(listed[Order[i]], kept[Order[i]])}
           Reached(n) == \A i \in raising : Order[i] # n /\ \E j \in 1 .. i : Order[j] = n
           Stops(n) == \E i \in raising : Order[i] = n /\ \A j \in raising : i <= j
           created == {n \in Names : listed[n] # None /\ kept[n] = None /\ Reached(n)}
           new == [n \in created |-> listed[n]]
           after == [n \in Names |-> CASE Reached(n) -> Updated(listed[n], kept[n])
                                       [] Stops(n) -> ResetTemporary(kept[n])
                                       [] OTHER -> kept[n]]
<1>1. /\ points' = after
      /\ subs' = Subscribed(KeptSubs(gone), new)
      /\ sending' = IF sending # None /\ sending.name \in gone
                    THEN [sending EXCEPT !.live = FALSE] ELSE sending
  BY DEF UpdateSysvars
<1>2. listed \in Lists
  BY ListedType DEF IInv, FetchesTyped
<1>3. kept \in [Names -> Points \cup {None}]
  BY DEF IInv, PointsTyped
<1>4. gone \subseteq Present
  BY DEF Missing
<1>5. \A n \in Names : Stops(n) => kept[n] \in Points
  BY <1>3 DEF Raises
<1> HIDE DEF listed, gone, kept, Reached, Stops
\* A point that is kept is a point with the same id.
<1>6. ASSUME NEW n \in Names, kept[n] # None
      PROVE  after[n] \in Points /\ after[n].vid = kept[n].vid
  <2>1. kept[n] \in Points /\ listed[n] \in Variables \cup {None}
    BY <1>2, <1>3, <1>6 DEF Lists
  <2> QED
    BY <2>1, UpdatedKeeps, WriteKeeps
<1>7. ASSUME NEW n \in created
      PROVE  after[n] \in Points /\ after[n].vid = new[n].vid
  <2>1. ~Stops(n)
    BY <1>5, NoneAssumption
  <2>2. listed[n] \in Variables
    BY <1>2 DEF Lists
  <2>3. after[n] = Updated(listed[n], kept[n])
    BY <2>1
  <2>4. Updated(listed[n], kept[n]) = NewPoint(listed[n])
    BY DEF Updated
  <2> QED
    BY <2>2, <2>3, <2>4, NewPointType
<1>8. \A n \in Names : after[n] \in Points \cup {None}
  <2> SUFFICES ASSUME NEW n \in Names, kept[n] = None, n \notin created
               PROVE  after[n] = None
    BY <1>6, <1>7
  <2>1. ~Stops(n)
    BY <1>5, NoneAssumption
  <2>2. Reached(n) => listed[n] = None
    OBVIOUS
  <2> QED
    BY <2>1, <2>2 DEF Updated
<1>9. PointsTyped'
  BY <1>1, <1>8 DEF PointsTyped
<1>10. SendingKnown'
  <2>1. CASE sending = None
    BY <1>1, <2>1 DEF SendingKnown
  <2>2. CASE sending # None /\ sending.name \in gone
    <3>1. sending \in [name : Names, live : BOOLEAN, value : Values]
      BY <2>2 DEF IInv, SendingKnown
    <3> QED
      BY <1>1, <2>2, <3>1 DEF SendingKnown
  <2>3. CASE sending # None /\ sending.name \notin gone
    <3>1. sending \in [name : Names, live : BOOLEAN, value : Values] /\ sending' = sending
      BY <1>1, <2>3 DEF IInv, SendingKnown
    <3>2. sending.live => kept[sending.name] # None
      BY <2>3, <3>1 DEF IInv, SendingKnown, kept
    <3>3. sending.live => points'[sending.name] # None
      BY <1>1, <1>6, <3>1, <3>2, NoneAssumption
    <3> QED
      BY <3>1, <3>3 DEF SendingKnown
  <2> QED
    BY <2>1, <2>2, <2>3
<1>11. ASSUME NEW v \in DOMAIN subs'
       PROVE  subs'[v] \in Names /\ points'[subs'[v]] # None /\ points'[subs'[v]].vid = v
  <2>1. CASE v \in DOMAIN KeptSubs(gone)
    <3>1. subs'[v] = subs[v] /\ v \in DOMAIN subs /\ v \notin {points[n].vid : n \in gone}
      BY <1>1, <1>11, <2>1 DEF Subscribed, KeptSubs
    <3>2. subs[v] \in Names /\ points[subs[v]] # None /\ points[subs[v]].vid = v
      BY <3>1 DEF IInv, Matches
    <3>3. kept[subs[v]] = points[subs[v]]
      BY <3>1, <3>2 DEF kept
    <3> QED
      BY <1>1, <1>6, <3>1, <3>2, <3>3, NoneAssumption
  <2>2. CASE v \notin DOMAIN KeptSubs(gone)
    <3> DEFINE added == {n \in DOMAIN new : new[n].vid \notin DOMAIN KeptSubs(gone)}
    <3>1. /\ v \in {new[n].vid : n \in added}
          /\ subs'[v] = CHOOSE n \in added : new[n].vid = v
      BY <1>1, <1>11, <2>2 DEF Subscribed
    <3>2. subs'[v] \in added /\ new[subs'[v]].vid = v
      BY <3>1
    <3>3. subs'[v] \in created
      BY <3>2
    <3> QED
      BY <1>1, <1>7, <3>2, <3>3, NoneAssumption
  <2> QED
    BY <2>1, <2>2
<1> QED
  BY <1>9, <1>10, <1>11 DEF Matches

-----------------------------------------------------------------------------
(* The steps. *)

LEMMA InitIInv == Init => IInv
<1> SUFFICES ASSUME Init PROVE IInv
  OBVIOUS
<1>1. ccu \in Lists
  BY KindsAre DEF Init, Lists, Variables, Values
<1>2. programs \in States
  BY DEF Init, States
<1>3. FetchesTyped
  BY DEF Init, FetchesTyped, NoFetch
<1>4. Matches(subs, points)
  BY DEF Init, Matches
<1> QED
  BY <1>1, <1>2, <1>3, <1>4 DEF Init, IInv, PointsTyped, MessageTyped, SendingKnown

LEMMA FetchStep ==
    ASSUME IInv, NEW f \in Fetchers, StartFetch(f) \/ Fetching(f)
    PROVE  IInv'
<1> USE DEF IInv
<1>1. FetchesTyped'
  <2>1. CASE StartFetch(f)
    <3> DEFINE g == [fetches[f] EXCEPT !.pc = "list"]
    <3>1. /\ g \in [pc : {"idle", "list", "descriptions", "dead"},
                   got : Lists \cup States \cup {None}]
          /\ g.pc = "list"
      BY DEF FetchesTyped
    <3>2. fetches' = [fetches EXCEPT ![f] = g] /\ UNCHANGED part
      BY <2>1 DEF StartFetch
    <3> HIDE DEF g
    <3> QED
      BY <3>1, <3>2, FetchKeeps
  <2>2. CASE ListAnswered(f)
    <3> DEFINE got == IF part = "sysvars" THEN ccu ELSE programs
               g == [pc |-> "descriptions", got |-> got]
    <3>1. CASE fetches' = [fetches EXCEPT ![f] = g]
      <4>1. got \in Lists \cup States /\ (part = "sysvars" => got \in Lists)
        OBVIOUS
      <4>2. /\ g \in [pc : {"idle", "list", "descriptions", "dead"},
                     got : Lists \cup States \cup {None}]
            /\ part = "sysvars" => g.got \in Lists
        BY <4>1
      <4>3. UNCHANGED part
        BY <2>2 DEF ListAnswered
      <4> HIDE DEF g
      <4> QED
        BY <3>1, <4>2, <4>3, FetchKeeps
    <3>2. CASE Ended(f)
      BY <2>2, <3>2, NoFetchKeeps DEF ListAnswered
    <3> QED
      BY <2>2, <3>1, <3>2 DEF ListAnswered
  <2>3. CASE FetchLost(f)
    BY <2>3, NoFetchKeeps DEF FetchLost
  <2>4. CASE DescriptionsAnswered(f)
    BY <2>4, NoFetchKeeps DEF DescriptionsAnswered, UpdateSysvars, UpdatePrograms
  <2> QED
    BY <2>1, <2>2, <2>3, <2>4 DEF Fetching
<1>2. CASE DescriptionsAnswered(f)
  <2>1. CASE part = "programs" /\ UpdatePrograms(f)
    BY <1>1, <1>2, <2>1 DEF DescriptionsAnswered, UpdatePrograms, PointsTyped,
                            MessageTyped, SendingKnown, Matches
  <2>2. CASE part = "sysvars" /\ \E readable \in BOOLEAN : UpdateSysvars(f, readable)
    BY <1>1, <1>2, <2>2, UpdateStep DEF DescriptionsAnswered, MessageTyped
  <2> QED
    BY <1>2, <2>1, <2>2 DEF DescriptionsAnswered
<1>3. CASE StartFetch(f) \/ ListAnswered(f) \/ FetchLost(f)
  BY <1>1, <1>3 DEF StartFetch, ListAnswered, FetchLost, hubVars, PointsTyped,
                    MessageTyped, SendingKnown, Matches
<1> QED
  BY <1>2, <1>3 DEF Fetching

LEMMA EventStep == ASSUME IInv, SysvarEvent PROVE IInv'
<1> USE DEF IInv
<1>1. mqtt \in [vid : Vids, value : Values] /\ mqtt' = None
  BY DEF SysvarEvent, MessageTyped
<1>2. CASE mqtt.vid \notin DOMAIN subs
  BY <1>1, <1>2 DEF SysvarEvent, PointsTyped, MessageTyped, FetchesTyped, SendingKnown,
                    Matches, Lists, States, Names
<1>3. CASE mqtt.vid \in DOMAIN subs
  <2> DEFINE n == subs[mqtt.vid]
             value == Parse(points[n].kind, mqtt.value, TRUE)
             p == IF value = Error THEN ResetTemporary(points[n])
                  ELSE WriteValue(points[n], value)
  <2>1. n \in Names /\ points[n] \in Points
    BY <1>3 DEF Matches, PointsTyped
  <2>2. value \in Values \cup {None}
    BY <1>1, <2>1, ParseType DEF Points, Error
  <2>3. p \in Points /\ p.vid = points[n].vid
    BY <2>1, <2>2, WriteKeeps
  <2>4. points' = [points EXCEPT ![n] = p]
    BY <1>3 DEF SysvarEvent
  <2> HIDE DEF n, p
  <2>5. PointsTyped'
    BY <2>1, <2>3, <2>4 DEF PointsTyped
  <2>6. \A m \in Names : points[m] # None
                         => points'[m] # None /\ points'[m].vid = points[m].vid
    BY <2>1, <2>3, <2>4, NoneAssumption DEF PointsTyped
  <2>7. SendingKnown'
    BY <2>6 DEF SysvarEvent, SendingKnown
  <2>8. Matches(subs', points')
    BY <2>6 DEF SysvarEvent, Matches
  <2> QED
    BY <1>1, <2>5, <2>7, <2>8 DEF SysvarEvent, MessageTyped, FetchesTyped
<1> QED
  BY <1>2, <1>3

LEMMA SendStep ==
    ASSUME IInv, (\E n \in Names : \E v \in 0 .. 2 : SendVariable(n, v)) \/ SendAnswered
    PROVE  IInv'
<1> USE DEF IInv
<1>1. ASSUME NEW n \in Names, NEW v \in 0 .. 2, SendVariable(n, v)
      PROVE  IInv'
  <2>1. points[n] \in Points
    BY <1>1 DEF SendVariable, PointsTyped
  <2>2. [kind |-> points[n].kind, v |-> v] \in Values
    BY <2>1 DEF Points, Values
  <2>3. SendingKnown'
    BY <1>1, <2>2 DEF SendVariable, SendingKnown, hubVars
  <2> QED
    BY <1>1, <2>3 DEF SendVariable, hubVars, PointsTyped, MessageTyped, FetchesTyped, Matches
<1>2. CASE SendAnswered
  <2> DEFINE n == sending.name
  <2>1. /\ sending \in [name : Names, live : BOOLEAN, value : Values] /\ sending' = None
        /\ sending.live => points[n] # None
    BY <1>2 DEF SendAnswered, SendingKnown
  <2>2. ccu' \in Lists
    <3>1. CASE ccu[n] # None /\ ccu' = [ccu EXCEPT ![n].value = sending.value]
      <4>1. ccu[n] \in Variables
        BY <2>1, <3>1 DEF Lists
      <4>2. [ccu[n] EXCEPT !.value = sending.value] \in Variables
        BY <2>1, <4>1 DEF Variables
      <4> QED
        BY <3>1, <4>2 DEF Lists
    <3> QED
      BY <1>2, <3>1 DEF SendAnswered
  <2>3. PointsTyped' /\ Matches(subs', points')
    <3>1. CASE UNCHANGED points
      BY <1>2, <3>1 DEF SendAnswered, PointsTyped, Matches
    <3>2. CASE sending.live /\ points' = [points EXCEPT ![n] = WriteTemporary(@, sending.value)]
      <4>1. points[n] \in Points
        BY <2>1, <3>2 DEF PointsTyped
      <4> DEFINE p == WriteTemporary(points[n], sending.value)
      <4>2. p \in Points /\ p.vid = points[n].vid
        BY <2>1, <4>1, WriteKeeps
      <4>3. points' = [points EXCEPT ![n] = p]
        BY <3>2
      <4> HIDE DEF n, p
      <4>4. PointsTyped'
        BY <4>2, <4>3 DEF PointsTyped
      <4>5. \A m \in Names : points[m] # None
                             => points'[m] # None /\ points'[m].vid = points[m].vid
        BY <4>1, <4>2, <4>3, NoneAssumption DEF PointsTyped
      <4>6. UNCHANGED subs
        BY <1>2 DEF SendAnswered
      <4> QED
        BY <4>4, <4>5, <4>6 DEF Matches
    <3> QED
      BY <1>2, <3>1, <3>2 DEF SendAnswered
  <2> QED
    BY <1>2, <2>1, <2>2, <2>3 DEF SendAnswered, MessageTyped, FetchesTyped, SendingKnown
<1> QED
  BY <1>1, <1>2

LEMMA EditStep == ASSUME IInv, Edit PROVE IInv'
<1> USE DEF IInv
<1>1. ASSUME NEW n \in Names, EditVariable(n)
      PROVE  ccu' \in Lists
  <2>1. CASE \E k \in Kinds : FreeVids # {} /\
             ccu' = [ccu EXCEPT ![n] = [vid |-> CHOOSE v \in FreeVids : TRUE, ext |-> FALSE,
                                        value |-> [kind |-> k, v |-> CHOOSE x \in Domain[k] : TRUE]]]
    <3>1. PICK k \in Kinds : FreeVids # {} /\
             ccu' = [ccu EXCEPT ![n] = [vid |-> CHOOSE v \in FreeVids : TRUE, ext |-> FALSE,
                                        value |-> [kind |-> k, v |-> CHOOSE x \in Domain[k] : TRUE]]]
      BY <2>1
    <3>2. (CHOOSE v \in FreeVids : TRUE) \in Vids
      BY <3>1 DEF FreeVids
    <3>3. (CHOOSE x \in Domain[k] : TRUE) \in 0 .. 2
      BY DomainsAre
    <3>4. [kind |-> k, v |-> CHOOSE x \in Domain[k] : TRUE] \in Values
      <4>1. \A y \in 0 .. 2 : [kind |-> k, v |-> y] \in Values
        BY DEF Values
      <4> QED
        BY <3>3, <4>1
    <3> QED
      BY <3>1, <3>2, <3>4 DEF Lists, Variables
  <2>2. CASE ccu' = [ccu EXCEPT ![n] = None]
    BY <2>2 DEF Lists
  <2>3. CASE \E m \in Names : ccu' = [ccu EXCEPT ![m] = ccu[n], ![n] = None]
    BY <2>3 DEF Lists
  <2>4. CASE ccu[n] # None /\ ccu' = [ccu EXCEPT ![n].ext = ~@]
    <3>1. ccu[n] \in Variables
      BY <2>4 DEF Lists
    <3>2. [ccu[n] EXCEPT !.ext = ~@] \in Variables
      BY <3>1 DEF Variables
    <3> QED
      BY <2>4, <3>2 DEF Lists
  <2>5. CASE ccu[n] # None /\ \E k \in Kinds \ {ccu[n].value.kind} :
             ccu' = [ccu EXCEPT ![n].value = [kind |-> k, v |-> CHOOSE x \in Domain[k] : TRUE]]
    <3>1. PICK k \in Kinds :
             ccu' = [ccu EXCEPT ![n].value = [kind |-> k, v |-> CHOOSE x \in Domain[k] : TRUE]]
      BY <2>5
    <3> DEFINE value == [kind |-> k, v |-> CHOOSE x \in Domain[k] : TRUE]
    <3>2. value \in Values
      BY DomainsAre DEF Values
    <3>3. ccu[n] \in Variables
      BY <2>5 DEF Lists
    <3> HIDE DEF value
    <3>4. [ccu[n] EXCEPT !.value = value] \in Variables
      BY <3>2, <3>3 DEF Variables
    <3>5. ccu' = [ccu EXCEPT ![n].value = value]
      BY <3>1 DEF value
    <3> QED
      BY <3>4, <3>5 DEF Lists
  <2> QED
    BY <1>1, <2>1, <2>2, <2>3, <2>4, <2>5 DEF EditVariable
<1>2. ASSUME NEW n \in Names, ChangeValue(n)
      PROVE  ccu' \in Lists /\ MessageTyped'
  <2>1. PICK v \in Domain[ccu[n].value.kind] :
           ccu[n] # None /\ ccu' = [ccu EXCEPT ![n].value.v = v]
    BY <1>2 DEF ChangeValue
  <2>2. ccu[n] \in Variables
    BY <2>1 DEF Lists
  <2>3. ccu[n].value \in Values /\ v \in 0 .. 2
    <3>1. ccu[n].value \in Values
      BY <2>2 DEF Variables
    <3>2. ccu[n].value.kind \in Kinds
      BY <3>1 DEF Values
    <3> QED
      BY <3>1, <3>2, DomainsAre
  <2>4. [ccu[n].value EXCEPT !.v = v] \in Values
    BY <2>3 DEF Values
  <2> DEFINE value == [ccu[n].value EXCEPT !.v = v]
  <2>5. ccu' = [ccu EXCEPT ![n].value = value]
    BY <2>1
  <2> HIDE DEF value
  <2>6. [ccu[n] EXCEPT !.value = value] \in Variables
    BY <2>2, <2>4 DEF Variables, value
  <2>7. ccu' \in Lists /\ ccu'[n].value = value
    BY <2>2, <2>5, <2>6 DEF Lists, Variables
  <2>8. [vid |-> ccu[n].vid, value |-> ccu'[n].value] \in [vid : Vids, value : Values]
    BY <2>2, <2>4, <2>7 DEF Variables, value
  <2> QED
    BY <1>2, <2>7, <2>8 DEF ChangeValue, MessageTyped
<1>3. ASSUME NEW p \in Pids, EditProgram(p)
      PROVE  programs' \in States
  BY <1>3 DEF EditProgram, States
<1>4. /\ ccu' \in Lists /\ MessageTyped' /\ programs' \in States
      /\ UNCHANGED <<part, points, subs, fetches, sending>>
  BY <1>1, <1>2, <1>3 DEF Edit, hubVars, MessageTyped
<1> QED
  BY <1>4 DEF PointsTyped, FetchesTyped, SendingKnown, Matches

(* The invariant: types, a command that awaits its answer finds its point   *)
(* unless it was told that it went, and subscriptions agree with points.    *)
THEOREM HubInvariant == Spec => []IInv
<1>1. IInv /\ [Next]_vars => IInv'
  <2> SUFFICES ASSUME IInv, [Next]_vars PROVE IInv'
    OBVIOUS
  <2>1. CASE UNCHANGED vars
    BY <2>1 DEF vars, IInv, PointsTyped, MessageTyped, FetchesTyped, SendingKnown, Matches
  <2> QED
    BY <2>1, FetchStep, SendStep, EventStep, EditStep DEF Next
<1> QED
  BY <1>1, InitIInv, PTL DEF Spec

(* Whatever is renamed, removed and created again while fetches, commands   *)
(* and events are under way, a subscription leads to a point with its id    *)
(* (add_sysvar_data_point, remove_sysvar_data_point).                       *)
THEOREM SubscriptionsAgree == Spec => []SubscriptionsMatch
<1>1. IInv => SubscriptionsMatch
  BY DEF IInv, Matches, SubscriptionsMatch, Present
<1> QED
  BY <1>1, HubInvariant, PTL
=============================================================================
