----------------------- MODULE CentralLifecycleProofs -----------------------
(***************************************************************************)
(* Two processes over one dictionary of clients: no client is dropped with *)
(* its executors running while the central is up, and none is shut down    *)
(* below a call, for every set of interfaces, every listing and every      *)
(* number of starts and outages.                                           *)
(***************************************************************************)
EXTENDS CentralLifecycle, FiniteSetTheorems, TLAPS

-----------------------------------------------------------------------------
(* The inductive invariant. *)

\* Where a process is in its loops says what it does, and the check loop lives
\* between the end of the first start() and the end of a stop().
Linked ==
  /\ at["user"] \in {"deinit", "stop"} <=> user = "stopping"
  /\ at["user"] \in {"create", "load", "init"} <=> user = "starting"
  /\ at["check"] # "idle" <=> check = "restarting"
  /\ user \in {"down", "starting"} => check \in {"off", "ended"}
  /\ check = "off" => user \in {"down", "starting"}
  /\ user \in {"stopping", "draining", "broken"} => ~active

\* A reconnect runs only while the check loop waits for it.
Gathered == \A i \in Interfaces : rec[i] # "none" => check \in {"ping", "gather"}

\* What the loop of _stop_clients has passed is stopped.
StoppedOrDue(p) == \A i \in Present : i \in todo[p] \/ client[i] = "stopped"

\* stop() beside reconnects: nobody creates a client behind the loop's back.
StoppedBeside == at["user"] = "stop" /\ check \in {"ping", "gather"} => StoppedOrDue("user")

\* One process at a time works on the dictionary, and every interface is listed.
Alone == listed = Interfaces /\ (check = "off" \/ user = "up")

Kept(p) ==
  /\ at[p] = "stop" => StoppedOrDue(p)
  /\ at[p] = "create" => \A i \in todo[p] : client[i] = "none"
  /\ at[p] = "init" => todo[p] \subseteq Present

NothingLost == Alone => leaked = {} /\ \A p \in Procs : Kept(p)

IInv == TypeOK /\ Linked /\ Gathered /\ StoppedBeside /\ NothingLost /\ NoCallCutOff

-----------------------------------------------------------------------------
(* The size of a set of interfaces, as a loop remembers it. *)
LEMMA Sizes ==
    ASSUME NEW S \in SUBSET Interfaces
    PROVE  Cardinality(S) \in 0..Cardinality(Interfaces)
<1>1. IsFiniteSet(Interfaces)
  BY InterfacesAssumption
<1>2. IsFiniteSet(S) /\ Cardinality(S) <= Cardinality(Interfaces)
  BY <1>1, FS_Subset
<1>3. Cardinality(S) \in Nat /\ Cardinality(Interfaces) \in Nat
  BY <1>1, <1>2, FS_CardinalityType
<1> QED
  BY <1>2, <1>3

LEMMA SizeZero == 0 \in 0..Cardinality(Interfaces)
<1>1. Cardinality({}) \in 0..Cardinality(Interfaces)
  BY Sizes
<1> QED
  BY <1>1, FS_EmptySet

\* What a process of the loops may leave behind of its own state.
Positioned ==
  /\ at' \in [Procs -> Stages] /\ todo' \in [Procs -> SUBSET Interfaces]
  /\ size' \in [Procs -> 0..Cardinality(Interfaces)]
  /\ user' \in {"down", "starting", "up", "stopping", "draining", "broken"}
  /\ check' \in {"off", "asleep", "ping", "gather", "restarting", "ended"}

LEMMA GotoTyped ==
    ASSUME TypeOK, NEW p \in Procs, NEW stage \in Stages, NEW work \in SUBSET Interfaces,
           NEW count \in 0..Cardinality(Interfaces), Goto(p, stage, work, count)
    PROVE  /\ at' \in [Procs -> Stages] /\ todo' \in [Procs -> SUBSET Interfaces]
           /\ size' \in [Procs -> 0..Cardinality(Interfaces)]
BY DEF TypeOK, Goto

LEMMA LeavesTyped ==
    ASSUME TypeOK, NEW p \in Procs, Raise(p) \/ Started(p)
    PROVE  Positioned
<1>1. Goto(p, "idle", {}, 0)
  BY DEF Raise, Started
<1>2. /\ at' \in [Procs -> Stages] /\ todo' \in [Procs -> SUBSET Interfaces]
      /\ size' \in [Procs -> 0..Cardinality(Interfaces)]
  BY <1>1, GotoTyped, SizeZero DEF Stages
<1> HIDE DEF Goto
<1> QED
  BY <1>2 DEF Positioned, Raise, Started, TypeOK, Procs

LEMMA NextItemTyped ==
    ASSUME TypeOK, NEW p \in Procs, NEW i \in Interfaces, NextItem(p, i),
           UNCHANGED <<user, check>>
    PROVE  Positioned
<1>1. at[p] \in Stages /\ Rest(p, i, Present) \in SUBSET Interfaces
      /\ size[p] \in 0..Cardinality(Interfaces)
  BY DEF TypeOK, Rest
<1>2. Goto(p, at[p], Rest(p, i, Present), size[p])
  BY DEF NextItem
<1>3. /\ at' \in [Procs -> Stages] /\ todo' \in [Procs -> SUBSET Interfaces]
      /\ size' \in [Procs -> 0..Cardinality(Interfaces)]
  BY <1>1, <1>2, GotoTyped
<1> QED
  BY <1>3 DEF Positioned, TypeOK

\* The loop over Present begins.
LEMMA OverPresent ==
    ASSUME TypeOK, NEW p \in Procs, NEW stage \in Stages,
           Goto(p, stage, Present, Cardinality(Present))
    PROVE  /\ at' \in [Procs -> Stages] /\ todo' \in [Procs -> SUBSET Interfaces]
           /\ size' \in [Procs -> 0..Cardinality(Interfaces)]
<1>1. Present \in SUBSET Interfaces
  BY DEF Present
<1>2. Cardinality(Present) \in 0..Cardinality(Interfaces)
  BY <1>1, Sizes
<1> QED
  BY <1>1, <1>2, GotoTyped

LEMMA TypeInit == Init => TypeOK
<1> SUFFICES ASSUME Init PROVE TypeOK
  OBVIOUS
<1>1. size \in [Procs -> 0..Cardinality(Interfaces)]
  BY SizeZero DEF Init
<1>2. at \in [Procs -> Stages] /\ todo \in [Procs -> SUBSET Interfaces]
  BY DEF Init, Stages
<1>3. starts \in 0..MaxStarts /\ faults \in 0..MaxFaults
  BY BoundsAssumption DEF Init
<1>4. /\ client \in [Interfaces -> {"none", "live", "stopped"}]
      /\ device \in [Interfaces -> Uses]
      /\ rec \in [Interfaces -> {"none", "chosen", "ping", "wait", "deinit", "init"}]
  BY DEF Init, Uses
<1> QED
  BY <1>1, <1>2, <1>3, <1>4 DEF Init, TypeOK

LEMMA TypeStep == TypeOK /\ [Next]_vars => TypeOK'
<1> SUFFICES ASSUME TypeOK, [Next]_vars PROVE TypeOK'
  OBVIOUS
<1> USE DEF backendVars, clientVars, procVars, recVars
<1>1. ASSUME UNCHANGED vars PROVE TypeOK'
  BY <1>1 DEF vars, TypeOK
<1>2. CASE Start
  <2>1. Positioned
    <3>1. CASE Present # {}
      BY <1>2, <3>1, LeavesTyped DEF Start, Procs
    <3>2. CASE ~(Present # {})
      <4>1. Goto("user", "create", enabled, 0) /\ user' = "starting" /\ check' = check
        BY <1>2, <3>2 DEF Start
      <4>2. "user" \in Procs /\ "create" \in Stages /\ enabled \in SUBSET Interfaces
        BY DEF Procs, Stages, TypeOK
      <4>3. /\ at' \in [Procs -> Stages] /\ todo' \in [Procs -> SUBSET Interfaces]
            /\ size' \in [Procs -> 0..Cardinality(Interfaces)]
        BY <4>1, <4>2, GotoTyped, SizeZero
      <4> QED
        BY <4>1, <4>3 DEF Positioned, TypeOK
    <3> QED
      BY <3>1, <3>2
  <2>2. starts' \in 0..MaxStarts
    BY <1>2, BoundsAssumption DEF Start, TypeOK
  <2> QED
    BY <1>2, <2>1, <2>2 DEF Start, TypeOK, Positioned
<1>3. CASE Stop
  <2>1. Positioned
    <3>1. CASE Present # {}
      <4>1. Goto("user", "deinit", Present, Cardinality(Present)) /\ user' = "stopping"
            /\ check' = check
        BY <1>3, <3>1 DEF Stop
      <4>2. "user" \in Procs /\ "deinit" \in Stages
        BY DEF Procs, Stages
      <4> QED
        BY <4>1, <4>2, OverPresent DEF Positioned, TypeOK
    <3>2. CASE ~(Present # {})
      BY <1>3, <3>2 DEF Stop, Positioned, TypeOK
    <3> QED
      BY <3>1, <3>2
  <2> QED
    BY <1>3, <2>1 DEF Stop, TypeOK, Positioned, StopConnectionChecker
<1>4. CASE Drained
  BY <1>4 DEF Drained, TypeOK
<1>5. ASSUME NEW p \in Procs, NEW i \in Interfaces, DeInitClient(p, i) PROVE TypeOK'
  <2>1. Positioned
    <3>1. CASE SizeChanged(p, Present)
      BY <1>5, <3>1, LeavesTyped DEF DeInitClient
    <3>2. CASE ~SizeChanged(p, Present) /\ EndOfLoop(p, i)
      <4>1. Goto(p, "stop", Present, Cardinality(Present)) /\ UNCHANGED <<user, check>>
        BY <1>5, <3>2 DEF DeInitClient
      <4>2. "stop" \in Stages
        BY DEF Stages
      <4> QED
        BY <4>1, <4>2, OverPresent DEF Positioned, TypeOK
    <3>3. CASE ~SizeChanged(p, Present) /\ ~EndOfLoop(p, i)
      BY <1>5, <3>3, NextItemTyped DEF DeInitClient
    <3> QED
      BY <3>1, <3>2, <3>3
  <2>2. registered' \in [Interfaces -> BOOLEAN] /\ modified' \in [Interfaces -> BOOLEAN]
    BY <1>5 DEF DeInitClient, TypeOK, Works
  <2> QED
    BY <1>5, <2>1, <2>2 DEF DeInitClient, TypeOK, Positioned
<1>6. ASSUME NEW p \in Procs, NEW i \in Interfaces, StopClient(p, i) PROVE TypeOK'
  <2>1. StoppedClient(i) \in [Interfaces -> {"none", "live", "stopped"}]
    BY DEF StoppedClient, TypeOK
  <2>2. CASE ~SizeChanged(p, Present) /\ EndOfLoop(p, i)
    <3>1. ClearClients(p, StoppedClient(i))
      BY <1>6, <2>2 DEF StopClient
    <3>2. Positioned
      <4>1. CASE p = "user"
        <5>1. Goto(p, "idle", {}, 0) /\ user' = "draining" /\ check' = check
          BY <3>1, <4>1 DEF ClearClients
        <5>2. "idle" \in Stages /\ {} \in SUBSET Interfaces
          BY DEF Stages
        <5> QED
          BY <5>1, <5>2, GotoTyped, SizeZero DEF Positioned, TypeOK
      <4>2. CASE p # "user"
        <5>1. Goto(p, "create", enabled, 0) /\ UNCHANGED <<user, check>>
          BY <3>1, <4>2 DEF ClearClients
        <5>2. "create" \in Stages /\ enabled \in SUBSET Interfaces
          BY DEF Stages, TypeOK
        <5> QED
          BY <5>1, <5>2, GotoTyped, SizeZero DEF Positioned, TypeOK
      <4> QED
        BY <4>1, <4>2
    <3>3. /\ client' \in [Interfaces -> {"none", "live", "stopped"}]
          /\ leaked' \subseteq Interfaces /\ device' \in [Interfaces -> Uses]
          /\ recOld' \in [Interfaces -> BOOLEAN]
      BY <3>1 DEF ClearClients, TypeOK, Former, Uses
    <3> QED
      BY <1>6, <3>2, <3>3 DEF StopClient, TypeOK, Positioned
  <2>3. CASE SizeChanged(p, Present) \/ ~EndOfLoop(p, i)
    <3>1. Positioned
      BY <1>6, <2>3, LeavesTyped, NextItemTyped DEF StopClient
    <3> QED
      BY <1>6, <2>1, <2>3, <3>1 DEF StopClient, TypeOK, Positioned
  <2> QED
    BY <2>2, <2>3
<1>7. ASSUME NEW p \in Procs, ClientsCreated(p) PROVE TypeOK'
  <2>1. Positioned
    <3>1. CASE HasAllEnabledClients \/ PrimaryKnown
      <4>1. Goto(p, "load", {}, 0) /\ UNCHANGED <<user, check>>
        BY <1>7, <3>1 DEF ClientsCreated
      <4>2. "load" \in Stages /\ {} \in SUBSET Interfaces
        BY DEF Stages
      <4> QED
        BY <4>1, <4>2, GotoTyped, SizeZero DEF Positioned, TypeOK
    <3>2. CASE ~(HasAllEnabledClients \/ PrimaryKnown)
      BY <1>7, <3>2, LeavesTyped DEF ClientsCreated
    <3> QED
      BY <3>1, <3>2
  <2> QED
    BY <1>7, <2>1 DEF ClientsCreated, PrimaryKnown, TypeOK, Positioned
<1>8. ASSUME NEW p \in Procs, BeginInit(p) PROVE TypeOK'
  <2>1. Positioned
    <3>1. CASE Present = {}
      BY <1>8, <3>1, LeavesTyped DEF BeginInit
    <3>2. CASE Present # {}
      <4>1. Goto(p, "init", Present, Cardinality(Present)) /\ UNCHANGED <<user, check>>
        BY <1>8, <3>2 DEF BeginInit
      <4>2. "init" \in Stages
        BY DEF Stages
      <4> QED
        BY <4>1, <4>2, OverPresent DEF Positioned, TypeOK
    <3> QED
      BY <3>1, <3>2
  <2>2. device' \in [Interfaces -> Uses]
    BY <1>8 DEF BeginInit, TypeOK, Uses
  <2> QED
    BY <1>8, <2>1, <2>2 DEF BeginInit, TypeOK, Positioned
<1>9. ASSUME NEW p \in Procs, NEW i \in Interfaces, CreateClient(p, i) PROVE TypeOK'
  <2>1. Goto(p, "create", todo[p] \ {i}, 0) /\ UNCHANGED <<user, check>>
    BY <1>9 DEF CreateClient
  <2>2. "create" \in Stages /\ todo[p] \ {i} \in SUBSET Interfaces
    BY DEF Stages, TypeOK
  <2>3. Positioned
    BY <2>1, <2>2, GotoTyped, SizeZero DEF Positioned, TypeOK
  <2>4. /\ client' \in [Interfaces -> {"none", "live", "stopped"}]
        /\ modified' \in [Interfaces -> BOOLEAN] /\ enabled' \subseteq Interfaces
        /\ leaked' \subseteq Interfaces
    <3>1. [client EXCEPT ![i] = "live"] \in [Interfaces -> {"none", "live", "stopped"}]
          /\ [modified EXCEPT ![i] = TRUE] \in [Interfaces -> BOOLEAN]
      BY DEF TypeOK
    <3>2. /\ client' = client \/ client' = [client EXCEPT ![i] = "live"]
          /\ modified' = modified \/ modified' = [modified EXCEPT ![i] = TRUE]
          /\ enabled' = enabled \/ enabled' = enabled \ {i}
          /\ leaked' = leaked \/ leaked' = leaked \cup {i}
      BY <1>9, Zenon DEF CreateClient
    <3> QED
      BY <3>1, <3>2 DEF TypeOK
  <2>6. device' \in [Interfaces -> Uses]
    BY <1>9 DEF CreateClient, TypeOK, Former, Uses
  <2>5. primary' \in BOOLEAN
    <3>1. PrimaryKnown \in BOOLEAN /\ primary \in BOOLEAN
      BY DEF PrimaryKnown, TypeOK
    <3> QED
      BY <1>9, <3>1 DEF CreateClient
  <2> QED
    BY <1>9, <2>3, <2>4, <2>5, <2>6 DEF CreateClient, TypeOK, Positioned
<1>10. ASSUME NEW p \in Procs, NEW i \in Interfaces, InitClient(p, i) PROVE TypeOK'
  <2>1. Positioned
    BY <1>10, LeavesTyped, NextItemTyped DEF InitClient
  <2>2. registered' \in [Interfaces -> BOOLEAN] /\ modified' \in [Interfaces -> BOOLEAN]
        /\ primary' \in BOOLEAN
    BY <1>10 DEF InitClient, TypeOK, Works, PrimaryKnown
  <2> QED
    BY <1>10, <2>1, <2>2 DEF InitClient, TypeOK, Positioned
<1>11. ASSUME NEW p \in Procs, NEW i \in Interfaces, DropClient(p, i) PROVE TypeOK'
  <2>1. Positioned
    BY <1>11, LeavesTyped DEF DropClient
  <2>2. /\ client' \in [Interfaces -> {"none", "live", "stopped"}]
        /\ leaked' \subseteq Interfaces /\ device' \in [Interfaces -> Uses]
        /\ primary' \in BOOLEAN
    BY <1>11 DEF DropClient, TypeOK, Former, Uses, PrimaryKnown
  <2> QED
    BY <1>11, <2>1, <2>2 DEF DropClient, TypeOK, Positioned
<1>12. CASE CheckRestarts
  <2>1. Positioned
    <3>1. CASE Present # {}
      <4>1. Goto("check", "deinit", Present, Cardinality(Present))
        BY <1>12, <3>1 DEF CheckRestarts
      <4>2. "check" \in Procs /\ "deinit" \in Stages
        BY DEF Procs, Stages
      <4> QED
        BY <1>12, <4>1, <4>2, OverPresent DEF CheckRestarts, Positioned, TypeOK
    <3>2. CASE ~(Present # {})
      <4>1. Goto("check", "create", enabled, 0)
        BY <1>12, <3>2 DEF CheckRestarts
      <4>2. "check" \in Procs /\ "create" \in Stages /\ enabled \in SUBSET Interfaces
        BY DEF Procs, Stages, TypeOK
      <4> QED
        BY <1>12, <4>1, <4>2, GotoTyped, SizeZero DEF CheckRestarts, Positioned, TypeOK
    <3> QED
      BY <3>1, <3>2
  <2> QED
    BY <1>12, <2>1 DEF CheckRestarts, TypeOK, Positioned
<1>13. CASE CheckPings
  <2>1. Goto("check", "idle", Present, 0)
    BY <1>13 DEF CheckPings
  <2>2. "check" \in Procs /\ "idle" \in Stages /\ Present \in SUBSET Interfaces
    BY DEF Procs, Stages, Present
  <2>3. Positioned
    BY <1>13, <2>1, <2>2, GotoTyped, SizeZero DEF CheckPings, Positioned, TypeOK
  <2> QED
    BY <1>13, <2>3 DEF CheckPings, TypeOK, Positioned
<1>14. CASE CheckEnds \/ BeginGather \/ GatherDone
  BY <1>14 DEF CheckEnds, BeginGather, GatherDone, TypeOK
<1>15. ASSUME NEW i \in Interfaces, PingAnswered(i) PROVE TypeOK'
  <2>1. /\ \/ Goto("check", "idle", {}, 0) \/ Goto("check", "idle", todo["check"] \ {i}, 0)
        /\ check' \in {"asleep", check} /\ user' = user
    BY <1>15 DEF PingAnswered
  <2>2. "check" \in Procs /\ "idle" \in Stages /\ {} \in SUBSET Interfaces
        /\ todo["check"] \ {i} \in SUBSET Interfaces
    BY DEF Procs, Stages, TypeOK
  <2>3. /\ at' \in [Procs -> Stages] /\ todo' \in [Procs -> SUBSET Interfaces]
        /\ size' \in [Procs -> 0..Cardinality(Interfaces)]
    BY <2>1, <2>2, GotoTyped, SizeZero
  <2>4. modified' \in [Interfaces -> BOOLEAN]
        /\ rec' \in [Interfaces -> {"none", "chosen", "ping", "wait", "deinit", "init"}]
    BY <1>15 DEF PingAnswered, TypeOK, Works
  <2> QED
    BY <1>15, <2>1, <2>3, <2>4 DEF PingAnswered, TypeOK
<1>16. ASSUME NEW i \in Interfaces, RecStep(i) PROVE TypeOK'
  <2>1. registered' \in [Interfaces -> BOOLEAN]
    <3>1. \A v \in BOOLEAN : [registered EXCEPT ![i] = v] \in [Interfaces -> BOOLEAN]
      BY DEF TypeOK
    <3>2. registered[i] \in BOOLEAN
      BY DEF TypeOK
    <3>3. UNCHANGED registered \/ \E v \in BOOLEAN : registered' = [registered EXCEPT ![i] = v]
      <4>1. CASE RecDeInit(i)
        BY <3>2, <4>1 DEF RecDeInit
      <4>2. CASE RecInit(i)
        BY <3>2, <4>2 DEF RecInit
      <4> QED
        BY <1>16, <4>1, <4>2 DEF RecStep, RecPinged, RecWakes
    <3> QED
      BY <3>1, <3>3 DEF TypeOK
  <2>2. modified' \in [Interfaces -> BOOLEAN]
    <3>1. modified \in [Interfaces -> BOOLEAN] /\ Works(i) \in BOOLEAN /\ up[i] \in BOOLEAN
          /\ (modified[i] /\ ~up[i]) \in BOOLEAN
      BY DEF TypeOK, Works
    <3>2. \/ UNCHANGED modified \/ modified' = [modified EXCEPT ![i] = Works(i)]
          \/ modified' = [modified EXCEPT ![i] = modified[i] /\ ~up[i]]
          \/ modified' = [modified EXCEPT ![i] = up[i]]
      BY <1>16 DEF RecStep, RecPinged, RecWakes, RecDeInit, RecInit
    <3>3. \A b \in BOOLEAN : [modified EXCEPT ![i] = b] \in [Interfaces -> BOOLEAN]
      BY <3>1
    <3> QED
      BY <3>1, <3>2, <3>3, Zenon
  <2>3. rec' \in [Interfaces -> {"none", "chosen", "ping", "wait", "deinit", "init"}]
    BY <1>16 DEF RecStep, RecPinged, RecWakes, RecDeInit, RecInit, TypeOK
  <2> QED
    BY <1>16, <2>1, <2>2, <2>3 DEF RecStep, RecPinged, RecWakes, RecDeInit, RecInit, TypeOK
<1>17. ASSUME NEW i \in Interfaces, NewDevices(i) \/ Fault(i) \/ Recover(i) PROVE TypeOK'
  <2>1. device' \in [Interfaces -> Uses] /\ up' \in [Interfaces -> BOOLEAN]
    BY <1>17 DEF NewDevices, Fault, Recover, TypeOK, Uses
  <2>2. faults' \in 0..MaxFaults
    BY <1>17, BoundsAssumption DEF NewDevices, Fault, Recover, TypeOK
  <2> QED
    BY <1>17, <2>1, <2>2 DEF NewDevices, Fault, Recover, TypeOK
<1> QED
  BY <1>1, <1>2, <1>3, <1>4, <1>5, <1>6, <1>7, <1>8, <1>9, <1>10, <1>11, <1>12, <1>13, <1>14,
     <1>15, <1>16, <1>17 DEF Next, StopStep, StartStep, CheckStep

-----------------------------------------------------------------------------
(* Where the processes are. *)

\* A process that stays inside its loops, and one that leaves them.
LEMMA StaysLinked ==
    ASSUME TypeOK, Linked, NEW p \in Procs, NEW stage \in Stages, NEW work, NEW count,
           Goto(p, stage, work, count), UNCHANGED <<user, check, active>>,
           at[p] \in {"deinit", "stop"} => stage \in {"deinit", "stop"} \/ p = "check",
           at[p] \in {"create", "load", "init"} => stage \in {"create", "load", "init"},
           at[p] # "idle" /\ stage # "idle"
    PROVE  Linked'
BY DEF TypeOK, Linked, Goto, Procs, Stages

LEMMA LeavesLinked ==
    ASSUME TypeOK, Linked, NEW p \in Procs, Raise(p), UNCHANGED active, at[p] # "idle"
    PROVE  Linked'
BY DEF TypeOK, Linked, Raise, Goto, Procs, Stages

LEMMA StartedLinked ==
    ASSUME TypeOK, Linked, NEW p \in Procs, Started(p), UNCHANGED active,
           at[p] \in {"create", "load", "init"} \/ (p = "user" /\ user = "down")
    PROVE  Linked'
BY DEF TypeOK, Linked, Started, Goto, Procs, Stages

LEMMA LinkedStep == TypeOK /\ Linked /\ Next => Linked'
<1> SUFFICES ASSUME TypeOK, Linked, Next PROVE Linked'
  OBVIOUS
<1> USE DEF backendVars, clientVars, procVars, recVars
<1>1. CASE Start
  <2>1. CASE Present # {}
    BY <1>1, <2>1, StartedLinked DEF Start, Procs
  <2>2. CASE ~(Present # {})
    BY <1>1, <2>2 DEF Start, Goto, Linked, TypeOK, Procs, Stages
  <2> QED
    BY <2>1, <2>2
<1>2. CASE Stop
  BY <1>2 DEF Stop, StopConnectionChecker, Goto, Linked, TypeOK, Procs, Stages
<1>3. CASE Drained
  BY <1>3 DEF Drained, Linked
<1>4. ASSUME NEW p \in Procs, NEW i \in Interfaces, DeInitClient(p, i) PROVE Linked'
  <2>1. at[p] = "deinit" /\ UNCHANGED active
    BY <1>4 DEF DeInitClient
  <2>2. CASE Raise(p)
    BY <2>1, <2>2, LeavesLinked
  <2>3. CASE Goto(p, "stop", Present, Cardinality(Present)) /\ UNCHANGED <<user, check>>
    BY <2>1, <2>3, StaysLinked DEF Stages
  <2>4. CASE NextItem(p, i) /\ UNCHANGED <<user, check>>
    BY <2>1, <2>4, StaysLinked DEF NextItem, Stages
  <2> QED
    BY <1>4, <2>2, <2>3, <2>4 DEF DeInitClient
<1>5. ASSUME NEW p \in Procs, NEW i \in Interfaces, StopClient(p, i) PROVE Linked'
  <2>1. at[p] = "stop" /\ UNCHANGED active
    BY <1>5 DEF StopClient
  <2>2. CASE Raise(p)
    BY <2>1, <2>2, LeavesLinked
  <2>3. CASE NextItem(p, i) /\ UNCHANGED <<user, check>>
    BY <2>1, <2>3, StaysLinked DEF NextItem, Stages
  <2>4. CASE ClearClients(p, StoppedClient(i))
    <3>1. CASE p = "user"
      BY <2>1, <2>4, <3>1 DEF ClearClients, Goto, Linked, TypeOK, Procs, Stages
    <3>2. CASE p = "check"
      BY <2>1, <2>4, <3>2, StaysLinked DEF ClearClients, Stages
    <3> QED
      BY <3>1, <3>2 DEF Procs
  <2> QED
    BY <1>5, <2>2, <2>3, <2>4 DEF StopClient
<1>6. ASSUME NEW p \in Procs, ClientsCreated(p) \/ BeginInit(p) PROVE Linked'
  <2>1. at[p] \in {"create", "load"} /\ UNCHANGED active
    BY <1>6 DEF ClientsCreated, BeginInit
  <2>2. CASE Started(p)
    BY <2>1, <2>2, StartedLinked
  <2>3. CASE \/ Goto(p, "load", {}, 0) /\ UNCHANGED <<user, check>>
             \/ Goto(p, "init", Present, Cardinality(Present)) /\ UNCHANGED <<user, check>>
    BY <2>1, <2>3, StaysLinked DEF Stages
  <2> QED
    BY <1>6, <2>2, <2>3 DEF ClientsCreated, BeginInit
<1>7. ASSUME NEW p \in Procs, NEW i \in Interfaces, CreateClient(p, i) PROVE Linked'
  <2>1. at[p] = "create" /\ UNCHANGED <<user, check, active>>
        /\ Goto(p, "create", todo[p] \ {i}, 0)
    BY <1>7 DEF CreateClient
  <2> QED
    BY <2>1, StaysLinked DEF Stages
<1>8. ASSUME NEW p \in Procs, NEW i \in Interfaces, InitClient(p, i) \/ DropClient(p, i)
      PROVE  Linked'
  <2>1. at[p] = "init" /\ UNCHANGED active
    BY <1>8 DEF InitClient, DropClient
  <2>2. CASE Raise(p)
    BY <2>1, <2>2, LeavesLinked
  <2>3. CASE Started(p)
    BY <2>1, <2>3, StartedLinked
  <2>4. CASE NextItem(p, i) /\ UNCHANGED <<user, check>>
    BY <2>1, <2>4, StaysLinked DEF NextItem, Stages
  <2> QED
    BY <1>8, <2>2, <2>3, <2>4 DEF InitClient, DropClient
<1>9. CASE CheckRestarts
  BY <1>9 DEF CheckRestarts, Goto, Linked, TypeOK, Procs, Stages
<1>10. CASE CheckPings
  BY <1>10 DEF CheckPings, Goto, Linked, TypeOK, Procs, Stages
<1>11. CASE CheckEnds \/ BeginGather \/ GatherDone
  BY <1>11 DEF CheckEnds, BeginGather, GatherDone, Linked
<1>12. ASSUME NEW i \in Interfaces, PingAnswered(i) PROVE Linked'
  <2>1. /\ check = "ping" /\ check' \in {"ping", "asleep"} /\ UNCHANGED <<user, active>>
        /\ at' = [at EXCEPT !["check"] = "idle"]
    BY <1>12 DEF PingAnswered, Goto
  <2> QED
    BY <2>1 DEF Linked, TypeOK, Procs, Stages
<1>13. ASSUME NEW i \in Interfaces, RecStep(i) \/ NewDevices(i) \/ Fault(i) \/ Recover(i)
       PROVE  Linked'
  <2>1. UNCHANGED <<user, check, active, at>>
    BY <1>13 DEF RecStep, RecPinged, RecWakes, RecDeInit, RecInit, NewDevices, Fault, Recover
  <2> QED
    BY <2>1 DEF Linked
<1> QED
  BY <1>1, <1>2, <1>3, <1>4, <1>5, <1>6, <1>7, <1>8, <1>9, <1>10, <1>11, <1>12, <1>13
     DEF Next, StopStep, StartStep, CheckStep

-----------------------------------------------------------------------------
(* What one step may do to the dictionary of clients. *)
LEMMA ClientChanges ==
    ASSUME Next
    PROVE  \/ UNCHANGED client
           \/ \E p \in Procs, i \in Interfaces :
                StopClient(p, i) \/ CreateClient(p, i) \/ DropClient(p, i)
<1> USE DEF backendVars, clientVars, procVars, recVars
<1>1. CASE Start \/ Stop \/ Drained \/ CheckStep
  BY <1>1 DEF Start, Stop, Drained, CheckStep, CheckRestarts, CheckPings, CheckEnds,
              BeginGather, GatherDone, PingAnswered
<1>2. ASSUME NEW i \in Interfaces, RecStep(i) \/ NewDevices(i) \/ Fault(i) \/ Recover(i)
      PROVE  UNCHANGED client
  BY <1>2 DEF RecStep, RecPinged, RecWakes, RecDeInit, RecInit, NewDevices, Fault, Recover
<1>3. ASSUME NEW p \in Procs, ClientsCreated(p) \/ BeginInit(p) PROVE UNCHANGED client
  BY <1>3 DEF ClientsCreated, BeginInit
<1>4. ASSUME NEW p \in Procs, NEW i \in Interfaces, DeInitClient(p, i) \/ InitClient(p, i)
      PROVE  UNCHANGED client
  BY <1>4 DEF DeInitClient, InitClient
<1> QED
  BY <1>1, <1>2, <1>3, <1>4 DEF Next, StopStep, StartStep

\* Who works on the dictionary while reconnects run: stop() alone.
LEMMA NoReconnects ==
    ASSUME Linked, Gathered, NEW p \in Procs,
           (p = "check" /\ at[p] # "idle") \/ at[p] \in {"create", "load", "init"}
    PROVE  \A i \in Interfaces : rec[i] = "none"
BY DEF Linked, Gathered, Procs

LEMMA GatheredStep == TypeOK /\ Linked /\ Gathered /\ Next => Gathered'
<1> SUFFICES ASSUME TypeOK, Linked, Gathered, Next PROVE Gathered'
  OBVIOUS
<1> USE DEF backendVars, clientVars, procVars, recVars
<1>1. CASE UNCHANGED <<rec, check>>
  BY <1>1 DEF Gathered
<1>2. CASE UNCHANGED rec /\ \A i \in Interfaces : rec[i] = "none"
  BY <1>2 DEF Gathered
<1>3. CASE Start
  BY <1>2, <1>3 DEF Start, Linked, Gathered
<1>4. CASE Stop \/ Drained
  BY <1>1, <1>4 DEF Stop, Drained
<1>5. ASSUME NEW p \in Procs, StopStep(p) \/ StartStep(p) PROVE Gathered'
  <2>1. UNCHANGED rec /\ at[p] # "idle"
    BY <1>5 DEF StopStep, StartStep, DeInitClient, StopClient, ClientsCreated, BeginInit,
                CreateClient, InitClient, DropClient
  <2>2. CASE p = "check"
    BY <1>2, <2>1, <2>2, NoReconnects
  <2>3. CASE p = "user" /\ at[p] \in {"create", "load", "init"}
    BY <1>2, <2>1, <2>3, NoReconnects
  <2>4. CASE p = "user" /\ at[p] \in {"deinit", "stop"}
    <3>1. user = "stopping"
      BY <2>4 DEF Linked
    <3>2. UNCHANGED check
      BY <1>5, <2>4, <3>1 DEF StopStep, StartStep, DeInitClient, StopClient, ClientsCreated,
           BeginInit, CreateClient, InitClient, DropClient, ClearClients, Raise
    <3> QED
      BY <1>1, <2>1, <3>2
  <2> QED
    BY <2>1, <2>2, <2>3, <2>4 DEF TypeOK, Procs, Stages
<1>6. CASE CheckRestarts \/ CheckPings \/ CheckEnds
  BY <1>2, <1>6 DEF CheckRestarts, CheckPings, CheckEnds, Gathered
<1>7. CASE BeginGather \/ GatherDone
  BY <1>7 DEF BeginGather, GatherDone, Gathered
<1>8. ASSUME NEW i \in Interfaces, PingAnswered(i) PROVE Gathered'
  BY <1>8 DEF PingAnswered, Gathered
<1>9. ASSUME NEW i \in Interfaces, RecStep(i) PROVE Gathered'
  <2>1. rec[i] # "none" /\ UNCHANGED check /\ \A j \in Interfaces \ {i} : rec'[j] = rec[j]
    BY <1>9 DEF RecStep, RecPinged, RecWakes, RecDeInit, RecInit, TypeOK
  <2> QED
    BY <2>1 DEF Gathered
<1>10. ASSUME NEW i \in Interfaces, NewDevices(i) \/ Fault(i) \/ Recover(i) PROVE Gathered'
  BY <1>1, <1>10 DEF NewDevices, Fault, Recover
<1> QED
  BY <1>3, <1>4, <1>5, <1>6, <1>7, <1>8, <1>9, <1>10 DEF Next, CheckStep

-----------------------------------------------------------------------------
(* The loop of _stop_clients. *)

\* A client that was passed is stopped; the last one empties the dictionary.
LEMMA StopPasses ==
    ASSUME TypeOK, NEW p \in Procs, NEW i \in Interfaces, StopClient(p, i), StoppedOrDue(p)
    PROVE  /\ at'[p] = "stop" => StoppedOrDue(p)'
           /\ ~SizeChanged(p, Present) /\ EndOfLoop(p, i) =>
                \A j \in Interfaces \ {i} : client[j] # "live"
<1>1. Present = {j \in Interfaces : client[j] # "none"}
      /\ Present' = {j \in Interfaces : client'[j] # "none"}
  BY DEF Present
<1>2. CASE ~SizeChanged(p, Present) /\ EndOfLoop(p, i)
  <2>1. ClearClients(p, StoppedClient(i))
    BY <1>2 DEF StopClient
  <2>2. at'[p] # "stop"
    BY <2>1 DEF ClearClients, Goto, TypeOK
  <2>3. (todo[p] \ {i}) \cap Present = {}
    BY <1>2 DEF EndOfLoop, Rest
  <2>4. \A j \in Interfaces \ {i} : client[j] # "live"
    BY <1>1, <2>3 DEF StoppedOrDue
  <2> QED
    BY <2>2, <2>4
<1>3. CASE SizeChanged(p, Present) \/ ~EndOfLoop(p, i)
  <2>1. client' = StoppedClient(i) /\ (Raise(p) \/ NextItem(p, i))
    BY <1>3 DEF StopClient
  <2>2. CASE Raise(p)
    <3>1. at'[p] = "idle"
      BY <2>2 DEF Raise, Goto, TypeOK
    <3> QED
      BY <1>3, <3>1
  <2>3. CASE NextItem(p, i)
    <3>1. at'[p] = "stop" /\ todo'[p] = (todo[p] \ {i}) \cap Present
      BY <2>3 DEF NextItem, Goto, Rest, TypeOK, StopClient
    <3>2. \A j \in Interfaces : client'[j] # "none" =>
            client[j] # "none" /\ (j = i => client'[j] = "stopped")
                               /\ (j # i => client'[j] = client[j])
      BY <2>1 DEF StoppedClient, TypeOK
    <3>3. \A j \in Interfaces : client'[j] # "none" =>
            j \in todo'[p] \/ client'[j] = "stopped"
      BY <1>1, <3>1, <3>2 DEF StoppedOrDue
    <3> QED
      BY <1>1, <1>3, <3>3 DEF StoppedOrDue
  <2> QED
    BY <2>1, <2>2, <2>3
<1> QED
  BY <1>2, <1>3

LEMMA StopBegins ==
    ASSUME TypeOK, NEW p \in Procs, NEW i \in Interfaces, DeInitClient(p, i),
           at'[p] = "stop"
    PROVE  StoppedOrDue(p)'
<1>1. UNCHANGED client /\ at[p] = "deinit"
  BY DEF DeInitClient
<1>2. Goto(p, "stop", Present, Cardinality(Present))
  BY <1>1 DEF DeInitClient, Raise, NextItem, Goto, TypeOK
<1>3. todo'[p] = Present /\ Present' = Present
  BY <1>1, <1>2 DEF Goto, TypeOK, Present
<1> QED
  BY <1>3 DEF StoppedOrDue

LEMMA StoppedBesideStep ==
    TypeOK /\ Linked /\ Gathered /\ StoppedBeside /\ Next => StoppedBeside'
<1> SUFFICES ASSUME TypeOK, Linked, Gathered, StoppedBeside, Next,
                    at'["user"] = "stop", check' \in {"ping", "gather"}
             PROVE  StoppedOrDue("user")'
  BY DEF StoppedBeside
<1> USE DEF backendVars, clientVars, procVars, recVars
<1>1. Linked' /\ "user" \in Procs
  BY LinkedStep DEF Procs
<1>2. user' = "stopping" /\ at'["check"] = "idle"
  BY <1>1 DEF Linked
<1>3. CASE UNCHANGED <<client, at, check>> /\ UNCHANGED todo
  BY <1>3 DEF StoppedBeside, StoppedOrDue, Present
<1>4. ASSUME NEW p \in Procs, NEW i \in Interfaces, StopClient(p, i)
      PROVE  StoppedOrDue("user")'
  <2>1. CASE p = "user"
    <3>1. at["user"] = "stop" /\ UNCHANGED check
      BY <1>2, <1>4, <2>1 DEF StopClient, ClearClients, Raise
    <3>2. StoppedOrDue("user")
      BY <3>1 DEF StoppedBeside
    <3> QED
      BY <1>1, <1>4, <2>1, <3>2, StopPasses
  <2>2. CASE p = "check"
    <3>1. at["check"] = "stop" /\ check = "restarting"
      BY <1>4, <2>2 DEF StopClient, Linked
    <3>2. check' # check /\ check' # "asleep"
      BY <3>1
    <3> QED
      BY <1>4, <2>2, <3>2 DEF StopClient, ClearClients, Raise
  <2> QED
    BY <2>1, <2>2 DEF Procs
<1>5. ASSUME NEW p \in Procs, NEW i \in Interfaces, DeInitClient(p, i)
      PROVE  StoppedOrDue("user")'
  <2>1. CASE p = "user"
    BY <1>5, <2>1, StopBegins DEF Procs
  <2>2. CASE p = "check"
    <3>1. check = "restarting"
      BY <1>5, <2>2 DEF DeInitClient, Linked
    <3> QED
      BY <1>5, <2>2, <3>1 DEF DeInitClient, Raise
  <2> QED
    BY <2>1, <2>2 DEF Procs
<1>6. ASSUME NEW p \in Procs, StartStep(p) PROVE StoppedOrDue("user")'
  <2>1. at[p] \in {"create", "load", "init"}
    BY <1>6 DEF StartStep, ClientsCreated, BeginInit, CreateClient, InitClient, DropClient
  <2>2. p = "check" => check = "restarting" /\ check' \in {"restarting", "asleep"}
    <3>1. p = "check" => check = "restarting"
      BY <2>1 DEF Linked
    <3> QED
      BY <1>6, <3>1 DEF StartStep, ClientsCreated, BeginInit, CreateClient, InitClient,
           DropClient, Started, Raise
  <2>3. p = "user" => user = "starting" /\ user' # "stopping"
    <3>1. p = "user" => user = "starting"
      BY <2>1 DEF Linked
    <3> QED
      BY <1>6, <3>1 DEF StartStep, ClientsCreated, BeginInit, CreateClient, InitClient,
           DropClient, Started, Raise
  <2> QED
    BY <1>2, <2>2, <2>3 DEF Procs
<1>7. CASE Start
  <2>1. user' # "stopping"
    BY <1>7 DEF Start, Started
  <2> QED
    BY <1>2, <2>1
<1>8. CASE Stop
  <2>1. at'["user"] # "stop"
    <3>1. at["user"] # "stop"
      BY <1>8 DEF Stop, Linked
    <3> QED
      BY <1>8, <3>1 DEF Stop, Goto, TypeOK, Procs
  <2> QED
    BY <2>1
<1>9. CASE Drained
  BY <1>2, <1>9 DEF Drained
<1>10. CASE CheckRestarts \/ CheckPings \/ CheckEnds \/ GatherDone
  <2>1. CASE CheckPings
    <3>1. active /\ UNCHANGED user
      BY <2>1 DEF CheckPings
    <3> QED
      BY <1>2, <3>1 DEF Linked
  <2> QED
    BY <1>10, <2>1 DEF CheckRestarts, CheckEnds, GatherDone
<1>11. CASE BeginGather \/ \E i \in Interfaces : PingAnswered(i)
  <2>1. UNCHANGED client /\ check = "ping" /\ todo'["user"] = todo["user"]
        /\ at'["user"] = at["user"]
    BY <1>11 DEF BeginGather, PingAnswered, Goto, TypeOK, Procs
  <2> QED
    BY <2>1 DEF StoppedBeside, StoppedOrDue, Present
<1>12. ASSUME NEW i \in Interfaces, RecStep(i) \/ NewDevices(i) \/ Fault(i) \/ Recover(i)
       PROVE  StoppedOrDue("user")'
  BY <1>3, <1>12 DEF RecStep, RecPinged, RecWakes, RecDeInit, RecInit, NewDevices, Fault,
                     Recover
<1> QED
  BY <1>4, <1>5, <1>6, <1>7, <1>8, <1>9, <1>10, <1>11, <1>12
     DEF Next, StopStep, CheckStep

LEMMA CallsStep ==
    TypeOK /\ Linked /\ Gathered /\ StoppedBeside /\ NoCallCutOff /\ Next => NoCallCutOff'
<1> SUFFICES ASSUME TypeOK, Linked, Gathered, StoppedBeside, NoCallCutOff, Next,
                    NEW j \in Interfaces, rec'[j] \in {"deinit", "init"}
             PROVE  client'[j] = "live" /\ ~recOld'[j]
  BY DEF NoCallCutOff
<1> USE DEF backendVars, clientVars, procVars, recVars
<1>1. CASE UNCHANGED <<client, rec, recOld>>
  BY <1>1 DEF NoCallCutOff
<1>2. CASE Start \/ Stop \/ Drained \/ CheckRestarts \/ CheckPings \/ CheckEnds
  BY <1>1, <1>2 DEF Start, Stop, Drained, CheckRestarts, CheckPings, CheckEnds
<1>3. CASE BeginGather \/ GatherDone
  BY <1>3 DEF BeginGather, GatherDone, NoCallCutOff
<1>4. ASSUME NEW i \in Interfaces, PingAnswered(i)
      PROVE  client'[j] = "live" /\ ~recOld'[j]
  <2>1. UNCHANGED <<client, recOld>>
    BY <1>4 DEF PingAnswered
  <2>2. rec[j] \in {"deinit", "init"}
    BY <1>4 DEF PingAnswered, TypeOK
  <2> QED
    BY <2>1, <2>2 DEF NoCallCutOff
<1>5. ASSUME NEW i \in Interfaces, RecStep(i)
      PROVE  client'[j] = "live" /\ ~recOld'[j]
  <2>1. UNCHANGED <<client, recOld>>
    BY <1>5 DEF RecStep, RecPinged, RecWakes, RecDeInit, RecInit
  <2>2. \/ rec[j] \in {"deinit", "init"}
        \/ j = i /\ ~recOld[i] /\ client[i] = "live"
    BY <1>5 DEF RecStep, RecPinged, RecWakes, RecDeInit, RecInit, TypeOK
  <2> QED
    BY <2>1, <2>2 DEF NoCallCutOff
<1>6. ASSUME NEW p \in Procs, NEW i \in Interfaces, StopClient(p, i)
      PROVE  client'[j] = "live" /\ ~recOld'[j]
  <2>1. at[p] = "stop" /\ CallsDone(i) /\ UNCHANGED rec
    BY <1>6 DEF StopClient
  <2>2. rec[j] \in {"deinit", "init"} /\ client[j] = "live" /\ ~recOld[j] /\ j # i
    BY <2>1 DEF NoCallCutOff, CallsDone
  <2>3. p = "user" /\ check \in {"ping", "gather"}
    BY <2>1, <2>2, NoReconnects DEF Gathered, Procs
  <2>4. StoppedOrDue(p)
    BY <2>1, <2>3 DEF StoppedBeside
  <2>5. ~(~SizeChanged(p, Present) /\ EndOfLoop(p, i))
    BY <1>6, <2>2, <2>4, StopPasses
  <2>6. client' = StoppedClient(i) /\ UNCHANGED recOld
    BY <1>6, <2>5 DEF StopClient
  <2> QED
    BY <2>2, <2>6 DEF StoppedClient, TypeOK
<1>7. ASSUME NEW p \in Procs, StartStep(p)
      PROVE  client'[j] = "live" /\ ~recOld'[j]
  <2>1. at[p] \in {"create", "load", "init"} /\ UNCHANGED rec
    BY <1>7 DEF StartStep, ClientsCreated, BeginInit, CreateClient, InitClient, DropClient
  <2> QED
    BY <2>1, NoReconnects
<1>8. ASSUME NEW p \in Procs, NEW i \in Interfaces, DeInitClient(p, i)
      PROVE  client'[j] = "live" /\ ~recOld'[j]
  BY <1>1, <1>8 DEF DeInitClient
<1>9. ASSUME NEW i \in Interfaces, NewDevices(i) \/ Fault(i) \/ Recover(i)
      PROVE  client'[j] = "live" /\ ~recOld'[j]
  BY <1>1, <1>9 DEF NewDevices, Fault, Recover
<1> QED
  BY <1>2, <1>3, <1>4, <1>5, <1>6, <1>7, <1>8, <1>9 DEF Next, StopStep, CheckStep

-----------------------------------------------------------------------------
(* One process alone. *)
LEMMA AloneStays == TypeOK /\ Linked /\ Next /\ Alone' => Alone
<1> SUFFICES ASSUME TypeOK, Linked, Next, Alone' PROVE Alone
  OBVIOUS
<1> USE DEF backendVars, clientVars, procVars, recVars
<1>1. UNCHANGED listed
  <2>1. CASE Start \/ Stop \/ Drained \/ CheckStep
    BY <2>1 DEF Start, Stop, Drained, CheckStep, CheckRestarts, CheckPings, CheckEnds,
                BeginGather, GatherDone, PingAnswered
  <2>2. ASSUME NEW i \in Interfaces, RecStep(i) \/ NewDevices(i) \/ Fault(i) \/ Recover(i)
        PROVE  UNCHANGED listed
    BY <2>2 DEF RecStep, RecPinged, RecWakes, RecDeInit, RecInit, NewDevices, Fault, Recover
  <2>3. ASSUME NEW p \in Procs, StopStep(p) \/ StartStep(p) PROVE UNCHANGED listed
    BY <2>3 DEF StopStep, StartStep, DeInitClient, StopClient, ClientsCreated, BeginInit,
                CreateClient, InitClient, DropClient
  <2> QED
    BY <2>1, <2>2, <2>3 DEF Next
<1>2. (check' = "off" => check = "off") /\ (user' = "up" => user = "up" \/ check = "off")
  <2>1. CASE Start \/ Stop \/ Drained \/ CheckStep
    BY <2>1 DEF Start, Stop, Drained, CheckStep, CheckRestarts, CheckPings, CheckEnds,
                BeginGather, GatherDone, PingAnswered, Started
  <2>2. ASSUME NEW i \in Interfaces, RecStep(i) \/ NewDevices(i) \/ Fault(i) \/ Recover(i)
        PROVE  UNCHANGED <<check, user>>
    BY <2>2 DEF RecStep, RecPinged, RecWakes, RecDeInit, RecInit, NewDevices, Fault, Recover
  <2>3. ASSUME NEW p \in Procs, StopStep(p) \/ StartStep(p)
        PROVE  (check' = "off" => check = "off") /\ (user' = "up" => user = "up" \/ check = "off")
    BY <2>3 DEF StopStep, StartStep, DeInitClient, StopClient, ClientsCreated, BeginInit,
                CreateClient, InitClient, DropClient, ClearClients, Raise, Started
  <2> QED
    BY <2>1, <2>2, <2>3 DEF Next
<1> QED
  BY <1>1, <1>2 DEF Alone

LEMMA NobodyElse ==
    ASSUME Linked, TypeOK, Alone, NEW p \in Procs, at[p] # "idle"
    PROVE  /\ p = "user" => user = "starting"
           /\ \A q \in Procs \ {p} : at[q] = "idle"
BY DEF Linked, TypeOK, Alone, Procs, Stages

LEMMA OthersStay ==
    ASSUME TypeOK, NEW p \in Procs, StopStep(p) \/ StartStep(p)
    PROVE  at[p] # "idle" /\ \A q \in Procs \ {p} : at'[q] = at[q]
<1>1. at[p] # "idle"
  BY DEF StopStep, StartStep, DeInitClient, StopClient, ClientsCreated, BeginInit, CreateClient,
         InitClient, DropClient
<1>2. \E stage, work, count : Goto(p, stage, work, count)
  <2>1. Raise(p) \/ Started(p) => \E stage, work, count : Goto(p, stage, work, count)
    BY DEF Raise, Started
  <2>2. ASSUME NEW i, NextItem(p, i) PROVE \E stage, work, count : Goto(p, stage, work, count)
    BY <2>2 DEF NextItem
  <2>3. CASE StopStep(p)
    BY <2>1, <2>2, <2>3, Zenon DEF StopStep, DeInitClient, StopClient, ClearClients
  <2>4. CASE StartStep(p)
    BY <2>1, <2>2, <2>4, Zenon DEF StartStep, ClientsCreated, BeginInit, CreateClient,
       InitClient, DropClient
  <2> QED
    BY <2>3, <2>4
<1>3. \A q \in Procs \ {p} : at'[q] = at[q]
  BY <1>2 DEF Goto, TypeOK
<1> QED
  BY <1>1, <1>3

\* The process alone that works on the dictionary keeps what is to be kept.
LEMMA KeepsAlone ==
    ASSUME TypeOK, Linked, Alone, NothingLost, NEW p \in Procs, StopStep(p) \/ StartStep(p),
           Alone'
    PROVE  leaked' = {} /\ Kept(p)'
<1> USE DEF backendVars, clientVars, procVars, recVars
<1>1. leaked = {} /\ Kept(p)
  BY DEF NothingLost
<1>2. Present = {j \in Interfaces : client[j] # "none"}
      /\ Present' = {j \in Interfaces : client'[j] # "none"}
  BY DEF Present
<1>3. CASE UNCHANGED <<client, leaked>> /\ at'[p] \in {"idle", "deinit", "load"}
  BY <1>1, <1>3 DEF Kept
<1>4. ASSUME NEW i \in Interfaces, DeInitClient(p, i) PROVE leaked' = {} /\ Kept(p)'
  <2>1. UNCHANGED <<client, leaked>> /\ at'[p] \in {"idle", "deinit", "stop"}
    BY <1>4 DEF DeInitClient, Raise, NextItem, Goto, TypeOK
  <2> QED
    BY <1>1, <1>4, <2>1, StopBegins DEF Kept
<1>5. ASSUME NEW i \in Interfaces, StopClient(p, i) PROVE leaked' = {} /\ Kept(p)'
  <2>1. at[p] = "stop" /\ StoppedOrDue(p) /\ p = "check"
    BY <1>1, <1>5, NobodyElse DEF StopClient, Kept, Linked, Procs
  <2>2. CASE ~SizeChanged(p, Present) /\ EndOfLoop(p, i)
    <3>1. ClearClients(p, StoppedClient(i))
      BY <1>5, <2>2 DEF StopClient
    <3>2. \A j \in Interfaces : StoppedClient(i)[j] # "live"
      BY <1>5, <2>1, <2>2, StopPasses DEF StoppedClient, TypeOK
    <3>3. leaked' = {} /\ \A j \in Interfaces : client'[j] = "none"
      BY <1>1, <3>1, <3>2 DEF ClearClients
    <3>4. at'[p] = "create" /\ todo'[p] \subseteq Interfaces
      BY <2>1, <3>1 DEF ClearClients, Goto, TypeOK
    <3> QED
      BY <3>3, <3>4 DEF Kept
  <2>3. CASE SizeChanged(p, Present) \/ ~EndOfLoop(p, i)
    <3>1. UNCHANGED leaked /\ at'[p] \in {"idle", "stop"}
      BY <1>5, <2>1, <2>3 DEF StopClient, Raise, NextItem, Goto, TypeOK
    <3> QED
      BY <1>1, <1>5, <2>1, <3>1, StopPasses DEF Kept
  <2> QED
    BY <2>2, <2>3
<1>6. CASE ClientsCreated(p)
  <2>1. UNCHANGED <<client, leaked>> /\ at'[p] \in {"idle", "load"}
    BY <1>6 DEF ClientsCreated, Started, Goto, TypeOK
  <2> QED
    BY <1>3, <2>1
<1>7. CASE BeginInit(p)
  <2>1. UNCHANGED <<client, leaked>>
        /\ (at'[p] = "idle" \/ (at'[p] = "init" /\ todo'[p] = Present))
    BY <1>7 DEF BeginInit, Started, Goto, TypeOK
  <2> QED
    BY <1>1, <1>2, <2>1 DEF Kept
<1>8. ASSUME NEW i \in Interfaces, CreateClient(p, i) PROVE leaked' = {} /\ Kept(p)'
  <2>1. at[p] = "create" /\ i \in todo[p] /\ \A j \in todo[p] : client[j] = "none"
    BY <1>1, <1>8 DEF CreateClient, Kept
  <2>2. client' = client \/ client' = [client EXCEPT ![i] = "live"]
    BY <1>8, Zenon DEF CreateClient
  <2>3. UNCHANGED leaked
    BY <1>8, <2>1 DEF CreateClient
  <2>4. at'[p] = "create" /\ todo'[p] = todo[p] \ {i}
    BY <1>8 DEF CreateClient, Goto, TypeOK
  <2>5. todo[p] \subseteq Interfaces
    BY DEF TypeOK
  <2>6. \A j \in todo'[p] : client'[j] = "none"
    BY <2>1, <2>2, <2>4, <2>5 DEF TypeOK
  <2> QED
    BY <1>1, <2>3, <2>4, <2>6 DEF Kept
<1>9. ASSUME NEW i \in Interfaces, InitClient(p, i) PROVE leaked' = {} /\ Kept(p)'
  <2>1. UNCHANGED <<client, leaked>>
        /\ (at'[p] = "idle" \/ (at'[p] = "init" /\ todo'[p] \subseteq Present))
    BY <1>9 DEF InitClient, Raise, Started, NextItem, Rest, Goto, TypeOK
  <2> QED
    BY <1>1, <1>2, <2>1 DEF Kept
<1>10. ASSUME NEW i \in Interfaces, DropClient(p, i) PROVE FALSE
  <2>1. at[p] = "init" /\ i \in todo[p] /\ (~PrimaryKnown \/ i \notin listed)
    BY <1>10 DEF DropClient
  <2>2. i \in listed /\ i \in Present
    BY <1>1, <2>1 DEF Alone, Kept
  <2> QED
    BY <2>1, <2>2 DEF PrimaryKnown
<1> QED
  BY <1>4, <1>5, <1>6, <1>7, <1>8, <1>9, <1>10 DEF StopStep, StartStep

LEMMA LostStep == TypeOK /\ Linked /\ NothingLost /\ Next => NothingLost'
<1> SUFFICES ASSUME TypeOK, Linked, NothingLost, Next, Alone'
             PROVE  leaked' = {} /\ \A p \in Procs : Kept(p)'
  BY DEF NothingLost
<1> USE DEF backendVars, clientVars, procVars, recVars
<1>1. Alone /\ leaked = {} /\ \A p \in Procs : Kept(p)
  BY AloneStays DEF NothingLost
<1>2. CASE /\ UNCHANGED <<client, leaked>>
           /\ \A p \in Procs : \/ at'[p] \in {"idle", "deinit"}
                               \/ at'[p] = at[p] /\ todo'[p] = todo[p]
  BY <1>1, <1>2 DEF Kept, StoppedOrDue, Present
<1>3. CASE Start
  <2>1. at["check"] = "idle" /\ UNCHANGED <<client, leaked>>
    BY <1>3 DEF Start, Linked
  <2>2. CASE Present # {}
    <3>1. Goto("user", "idle", {}, 0)
      BY <1>3, <2>2 DEF Start, Started
    <3> QED
      BY <1>2, <2>1, <3>1 DEF Goto, TypeOK, Procs
  <2>3. CASE Present = {}
    <3>1. Goto("user", "create", enabled, 0) /\ \A j \in Interfaces : client[j] = "none"
      BY <1>3, <2>3 DEF Start, Present
    <3>2. at'["user"] = "create" /\ at'["check"] = "idle" /\ todo'["user"] \subseteq Interfaces
      BY <2>1, <3>1 DEF Goto, TypeOK, Procs
    <3> QED
      BY <1>1, <2>1, <3>1, <3>2 DEF Kept, Procs
  <2> QED
    BY <2>2, <2>3
<1>4. CASE Stop
  <2>1. user' # "up" /\ check' # "off"
    BY <1>4 DEF Stop, Linked
  <2> QED
    BY <2>1 DEF Alone
<1>5. CASE Drained
  BY <1>2, <1>5 DEF Drained
<1>6. ASSUME NEW p \in Procs, StopStep(p) \/ StartStep(p)
      PROVE  leaked' = {} /\ \A q \in Procs : Kept(q)'
  <2>1. leaked' = {} /\ Kept(p)'
    BY <1>1, <1>6, KeepsAlone
  <2>2. \A q \in Procs \ {p} : at'[q] = "idle"
    BY <1>1, <1>6, OthersStay, NobodyElse
  <2>3. \A q \in Procs \ {p} : Kept(q)'
    BY <2>2 DEF Kept
  <2> QED
    BY <2>1, <2>3
<1>7. CASE CheckRestarts
  <2>1. at["user"] = "idle" /\ UNCHANGED <<client, leaked>>
    BY <1>1, <1>7 DEF CheckRestarts, Alone, Linked, TypeOK, Procs, Stages
  <2>2. CASE Present # {}
    BY <1>2, <1>7, <2>1, <2>2 DEF CheckRestarts, Goto, TypeOK, Procs
  <2>3. CASE Present = {}
    <3>1. Goto("check", "create", enabled, 0) /\ \A j \in Interfaces : client[j] = "none"
      BY <1>7, <2>3 DEF CheckRestarts, Present
    <3>2. at'["check"] = "create" /\ at'["user"] = "idle" /\ todo'["check"] \subseteq Interfaces
      BY <2>1, <3>1 DEF Goto, TypeOK, Procs
    <3> QED
      BY <1>1, <2>1, <3>1, <3>2 DEF Kept, Procs
  <2> QED
    BY <2>2, <2>3
<1>8. CASE CheckPings \/ \E i \in Interfaces : PingAnswered(i)
  <2>1. UNCHANGED <<client, leaked>>
    BY <1>8 DEF CheckPings, PingAnswered
  <2>2. at'["check"] = "idle" /\ at'["user"] = at["user"] /\ todo'["user"] = todo["user"]
    BY <1>8 DEF CheckPings, PingAnswered, Goto, TypeOK, Procs
  <2> QED
    BY <1>2, <2>1, <2>2 DEF Procs
<1>9. CASE CheckEnds \/ BeginGather \/ GatherDone
  BY <1>2, <1>9 DEF CheckEnds, BeginGather, GatherDone
<1>10. ASSUME NEW i \in Interfaces, RecStep(i) \/ NewDevices(i) \/ Fault(i) \/ Recover(i)
       PROVE  leaked' = {} /\ \A p \in Procs : Kept(p)'
  BY <1>2, <1>10 DEF RecStep, RecPinged, RecWakes, RecDeInit, RecInit, NewDevices, Fault,
                     Recover
<1> QED
  BY <1>3, <1>4, <1>5, <1>6, <1>7, <1>8, <1>9, <1>10 DEF Next, CheckStep

-----------------------------------------------------------------------------
LEMMA Inductive == Spec => []IInv
<1>1. Init => IInv
  <2> SUFFICES ASSUME Init PROVE IInv
    OBVIOUS
  <2>1. TypeOK
    BY TypeInit
  <2>2. Linked /\ StoppedBeside /\ \A p \in Procs : Kept(p)
    BY DEF Init, Linked, StoppedBeside, Kept, Procs
  <2>3. Gathered /\ NoCallCutOff /\ leaked = {}
    BY DEF Init, Gathered, NoCallCutOff
  <2> QED
    BY <2>1, <2>2, <2>3 DEF IInv, NothingLost
<1>2. IInv /\ [Next]_vars => IInv'
  <2> SUFFICES ASSUME IInv, [Next]_vars PROVE IInv'
    OBVIOUS
  <2>1. CASE Next
    BY <2>1, TypeStep, LinkedStep, GatheredStep, StoppedBesideStep, LostStep, CallsStep DEF IInv
  <2>2. CASE UNCHANGED vars
    <3>1. TypeOK'
      BY <2>2, TypeStep DEF IInv
    <3> QED
      BY <2>2, <3>1 DEF IInv, vars, backendVars, clientVars, procVars, recVars, Linked, Gathered,
         StoppedBeside, StoppedOrDue, Present, NothingLost, Alone, Kept, NoCallCutOff
  <2> QED
    BY <2>1, <2>2
<1> QED
  BY <1>1, <1>2, PTL DEF Spec

(* Every variable of the clients' life cycle keeps its range, whatever order
   the caller and the check loop run in; the size a loop remembers is the size
   of a set of interfaces. *)
THEOREM TypeCorrect == Spec => []TypeOK
BY Inductive, PTL DEF IInv

(* While nobody has called stop(), no client is dropped with its executors
   running (restart_clients, _stop_clients, _start_clients). *)
THEOREM ClientsKept == Spec => []NoClientLost
<1>1. IInv => NoClientLost
  BY DEF IInv, NothingLost, Alone, NoClientLost
<1> QED
  BY <1>1, Inductive, PTL

(* The executors of a client are not shut down below a call that is under way,
   though stop() and the reconnects run at once (XmlRpcProxy.stop). *)
THEOREM CallsFinish == Spec => []NoCallCutOff
BY Inductive, PTL DEF IInv
=============================================================================
