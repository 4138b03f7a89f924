----------------------- MODULE ClientConnectionProofs -----------------------
(***************************************************************************)
(* Proofs about ClientConnection, for every set of clients and every value *)
(* of its bounds.  The control invariant ConnInv says who may run when; it *)
(* is inductive for a central whose clients all speak XML-RPC (OnlyXml):   *)
(* a JSON client can end a round early, with reconnects still under way.   *)
(***************************************************************************)
EXTENDS ClientConnection, TLAPS

OnlyXml == \A c \in Clients : SupportsXmlRpc(c)

LEMMA TaskClient == \A t \in Tasks : t[1] \in Clients
BY DEF Tasks

LEMMA BoundsType == /\ MaxFailedChecks \in Nat /\ WarnTicks \in Nat
                    /\ ReconnectTicks \in Nat /\ MaxFaults \in Nat
                    /\ InitDatetime \in Nat /\ WarnTicks < InitDatetime
BY BoundsAssumption DEF InitDatetime

-----------------------------------------------------------------------------
(* What the helpers of the actions do to the types. *)
LEMMA MarkAllType ==
  ASSUME TypeOK, NEW c \in Clients, NEW avail \in BOOLEAN, MarkAllDevices(c, avail)
  PROVE  available' \in [Clients -> BOOLEAN] /\ forced' \in [Clients -> SUBSET Forced]
<1>1. available' \in [Clients -> BOOLEAN]
  BY DEF TypeOK, MarkAllDevices
<1>2. {IF avail THEN "NOT_SET" ELSE "FORCE_FALSE"} \in SUBSET Forced
  BY DEF Forced
<1>3. forced' \in [Clients -> SUBSET Forced]
  BY <1>2 DEF TypeOK, MarkAllDevices
<1> QED BY <1>1, <1>3

LEMMA IsConnectedType ==
  ASSUME TypeOK, NEW c \in Clients, IsConnected(c)
  PROVE  /\ issue' \in [Clients -> BOOLEAN]
         /\ errorCount' \in [Clients -> 0..(MaxFailedChecks + 1)]
         /\ modifiedAt' \in [Clients -> 0..InitDatetime]
         /\ pong' \in [Clients -> BOOLEAN]
         /\ available' \in [Clients -> BOOLEAN]
         /\ forced' \in [Clients -> SUBSET Forced]
<1>1. issue' \in [Clients -> BOOLEAN]
  BY DEF TypeOK, IsConnected, NoteIssue, IssueAfterCall
<1>2. FailedChecks(c) \in 0..(MaxFailedChecks + 1)
  BY BoundsType DEF TypeOK, FailedChecks
<1>3. errorCount' \in [Clients -> 0..(MaxFailedChecks + 1)]
  BY <1>2 DEF TypeOK, IsConnected
<1>4. ModifiedAfterCheck(c) \in 0..InitDatetime
  BY BoundsType DEF TypeOK, ModifiedAfterCheck
<1>5. modifiedAt' \in [Clients -> 0..InitDatetime]
  BY <1>4 DEF TypeOK, IsConnected
<1>6. pong' \in [Clients -> BOOLEAN]
  BY DEF TypeOK, IsConnected, SupportsPingPong
<1>7. available' \in [Clients -> BOOLEAN] /\ forced' \in [Clients -> SUBSET Forced]
  BY MarkAllType DEF TypeOK, IsConnected
<1> QED BY <1>1, <1>3, <1>5, <1>6, <1>7

LEMMA RegisterType ==
  ASSUME TypeOK, NEW c \in Clients, NEW on \in BOOLEAN, Register(c, on)
  PROVE  registered' \in [Clients -> BOOLEAN]
BY DEF TypeOK, Register

LEMMA NoteCallbackType ==
  ASSUME TypeOK, NEW c \in Clients, NoteCallbackAlive(c)
  PROVE  callbackAlive' \in [Clients -> BOOLEAN]
BY DEF TypeOK, NoteCallbackAlive, CallbackOverdue, SupportsPingPong

LEMMA TickType ==
  ASSUME TypeOK, Tick
  PROVE  /\ modifiedAt' \in [Clients -> 0..InitDatetime]
         /\ lastEvent' \in [Clients -> -1..(WarnTicks + 1)]
         /\ left' \in [Tasks -> 0..ReconnectTicks]
<1>1. ASSUME NEW c \in Clients
      PROVE  (IF modifiedAt[c] = InitDatetime \/ c \notin Push
              THEN modifiedAt[c] ELSE Older(modifiedAt[c], WarnTicks)) \in 0..InitDatetime
  BY BoundsType DEF TypeOK, Older
<1>2. ASSUME NEW c \in Clients
      PROVE  (IF lastEvent[c] = NoEvent \/ ~SupportsPingPong(c)
              THEN lastEvent[c] ELSE Older(lastEvent[c], WarnTicks + 1)) \in -1..(WarnTicks + 1)
  BY BoundsType DEF TypeOK, Older, NoEvent
<1>3. ASSUME NEW t \in Tasks
      PROVE  (IF left[t] > 0 THEN left[t] - 1 ELSE 0) \in 0..ReconnectTicks
  BY BoundsType DEF TypeOK
<1> QED BY <1>1, <1>2, <1>3 DEF Tick

-----------------------------------------------------------------------------
(* Every variable keeps its type: the state the code can be in. *)
LEMMA CheckStepType ==
  ASSUME TypeOK, CheckStep
  PROVE  TypeOK'
<1>1. CASE NothingToReconnect
  BY <1>1 DEF NothingToReconnect, TypeOK, backendVars, clientVars, PcStages
<1>2. CASE StartReconnects
  <2> \A c \in reconnects : FreeSlot(c) \in Slots
    BY <1>2, Zenon DEF StartReconnects, FreeSlot, FreeSlots
  <2>1. awaited' \subseteq Tasks
    BY <1>2 DEF StartReconnects, Started, TypeOK, Tasks
  <2>2. rec' \in [Tasks -> RecStages]
    BY <1>2 DEF StartReconnects, TypeOK, RecStages
  <2> QED BY <1>2, <2>1, <2>2
          DEF StartReconnects, TypeOK, backendVars, clientVars, PcStages
<1>3. CASE GatherDone
  BY <1>3 DEF GatherDone, TypeOK, backendVars, clientVars, PcStages
<1>4. ASSUME NEW c \in Clients, CheckUnavailable(c) PROVE TypeOK'
  BY <1>4 DEF CheckUnavailable, TypeOK, backendVars, clientVars
<1>5. ASSUME NEW c \in Clients, CheckAvailable(c) PROVE TypeOK'
  BY <1>5 DEF CheckAvailable, TypeOK, backendVars, clientVars
<1>6. ASSUME NEW c \in Clients, CheckAnswered(c) PROVE TypeOK'
  <2>1. IsConnected(c) BY <1>6 DEF CheckAnswered
  <2>2. callbackAlive' \in [Clients -> BOOLEAN]
    BY <1>6, NoteCallbackType DEF CheckAnswered, TypeOK
  <2> QED BY <1>6, <2>1, <2>2, IsConnectedType DEF CheckAnswered, TypeOK, backendVars
<1>7. ASSUME NEW c \in Clients, Reload(c) PROVE TypeOK'
  BY <1>7 DEF Reload, TypeOK, clientVars, PcStages
<1> QED BY <1>1, <1>2, <1>3, <1>4, <1>5, <1>6, <1>7 DEF CheckStep

LEMMA ReconnectStepType ==
  ASSUME TypeOK, NEW t \in Tasks, ReconnectStep(t)
  PROVE  TypeOK'
<1> t[1] \in Clients BY TaskClient
<1>1. CASE ReconnectAnswered(t)
  <2>1. IsConnected(t[1]) BY <1>1 DEF ReconnectAnswered
  <2>2. rec' \in [Tasks -> RecStages] /\ left' \in [Tasks -> 0..ReconnectTicks]
    BY <1>1, BoundsType DEF ReconnectAnswered, TypeOK, RecStages
  <2> QED BY <1>1, <2>1, <2>2, IsConnectedType
          DEF ReconnectAnswered, TypeOK, backendVars
<1>2. CASE ReInit(t)
  BY <1>2 DEF ReInit, TypeOK, backendVars, clientVars, RecStages
<1>3. CASE DeInitAnswered(t)
  <2>1. issue' \in [Clients -> BOOLEAN] /\ registered' \in [Clients -> BOOLEAN]
    BY <1>3, RegisterType DEF DeInitAnswered, NoteIssue, IssueAfterCall, TypeOK
  <2>2. rec' \in [Tasks -> RecStages] /\ modifiedAt' \in [Clients -> 0..InitDatetime]
    BY <1>3, BoundsType DEF DeInitAnswered, TypeOK, RecStages
  <2> QED BY <1>3, <2>1, <2>2 DEF DeInitAnswered, TypeOK
<1>4. CASE InitAnswered(t)
  <2>1. issue' \in [Clients -> BOOLEAN] /\ registered' \in [Clients -> BOOLEAN]
    BY <1>4, RegisterType DEF InitAnswered, NoteIssue, IssueAfterCall, TypeOK
  <2>2. rec' \in [Tasks -> RecStages]
    BY <1>4 DEF InitAnswered, TypeOK, RecStages
  <2>4. \/ modifiedAt' = [modifiedAt EXCEPT ![t[1]] = InitDatetime]
        \/ modifiedAt' = [modifiedAt EXCEPT ![t[1]] = 0]
    BY <1>4 DEF InitAnswered
  <2>5. modifiedAt' \in [Clients -> 0..InitDatetime]
    BY <2>4, BoundsType DEF TypeOK
  <2>3. available' \in [Clients -> BOOLEAN] /\ forced' \in [Clients -> SUBSET Forced]
    BY <1>4, MarkAllType DEF InitAnswered, TypeOK
  <2> QED BY <1>4, <2>1, <2>2, <2>3, <2>5 DEF InitAnswered, TypeOK
<1>5. CASE JsonInitAnswered(t)
  BY <1>5, BoundsType DEF JsonInitAnswered, TypeOK, backendVars, RecStages, Forced
<1>6. CASE JsonInitFailed(t)
  BY <1>6 DEF JsonInitFailed, TypeOK, backendVars, clientVars, RecStages, PcStages
<1> QED BY <1>1, <1>2, <1>3, <1>4, <1>5, <1>6 DEF ReconnectStep

LEMMA EventStepType ==
  ASSUME TypeOK, NEW c \in Clients, EventStep(c)
  PROVE  TypeOK'
<1>1. ASSUME NoteEvent(c)
      PROVE  /\ lastEvent' \in [Clients -> -1..(WarnTicks + 1)]
             /\ modifiedAt' \in [Clients -> 0..InitDatetime]
  BY <1>1, BoundsType DEF NoteEvent, TypeOK
<1>2. CASE PongEvent(c)
  BY <1>1, <1>2 DEF PongEvent, TypeOK, backendVars, schedVars
<1>3. CASE ValueEvent(c)
  BY <1>1, <1>3 DEF ValueEvent, TypeOK, backendVars, schedVars
<1>4. CASE ValueMissed(c)
  BY <1>4 DEF ValueMissed, TypeOK, clientVars, schedVars
<1>5. CASE NewDevices(c)
  BY <1>5, BoundsType DEF NewDevices, TypeOK, backendVars, schedVars, Forced
<1>6. CASE PollClient(c)
  BY <1>6, BoundsType DEF PollClient, TypeOK, schedVars
<1>7. CASE AskIsAlive(c)
  BY <1>7, NoteCallbackType DEF AskIsAlive, TypeOK, backendVars, schedVars
<1>8. CASE ApiCall(c)
  BY <1>8 DEF ApiCall, NoteIssue, IssueAfterCall, TypeOK, backendVars, schedVars
<1> QED BY <1>2, <1>3, <1>4, <1>5, <1>6, <1>7, <1>8 DEF EventStep

LEMMA BackendStepType ==
  ASSUME TypeOK, NEW c \in Clients, BackendStep(c)
  PROVE  TypeOK'
<1>1. CASE Fault(c)
  <2>1. faults' \in 0..MaxFaults
    BY <1>1, BoundsType DEF Fault, TypeOK
  <2>2. PICK r \in Outages[c] : reach' = [reach EXCEPT ![c] = r]
    BY <1>1 DEF Fault
  <2>3. r \in Reach
    BY <2>2, BoundsAssumption DEF Reach
  <2>4. reach' \in [Clients -> Reach]
    BY <2>2, <2>3 DEF TypeOK
  <2> QED BY <1>1, <2>1, <2>4 DEF Fault, TypeOK, clientVars, schedVars
<1>2. CASE Recover(c)
  BY <1>2 DEF Recover, TypeOK, clientVars, schedVars, Reach
<1>3. CASE BackendRestart(c)
  BY <1>3, BoundsType DEF BackendRestart, TypeOK, clientVars, schedVars
<1> QED BY <1>1, <1>2, <1>3 DEF BackendStep

LEMMA TypeStep == TypeOK /\ [Next]_vars => TypeOK'
<1> SUFFICES ASSUME TypeOK, [Next]_vars PROVE TypeOK'
  OBVIOUS
<1>1. CASE CheckStep BY <1>1, CheckStepType
<1>2. ASSUME NEW t \in Tasks, ReconnectStep(t) PROVE TypeOK'
  BY <1>2, ReconnectStepType
<1>3. CASE Tick
  BY <1>3, TickType DEF Tick, TypeOK, backendVars, PcStages
<1>4. ASSUME NEW c \in Clients, EventStep(c) PROVE TypeOK'
  BY <1>4, EventStepType
<1>5. ASSUME NEW c \in Clients, BackendStep(c) PROVE TypeOK'
  BY <1>5, BackendStepType
<1>6. CASE UNCHANGED vars
  BY <1>6 DEF vars, backendVars, clientVars, schedVars, TypeOK
<1> QED BY <1>1, <1>2, <1>3, <1>4, <1>5, <1>6 DEF Next

LEMMA TypeInit == Init => TypeOK
BY BoundsType DEF Init, TypeOK, Reach, Forced, RecStages, PcStages, NoEvent, Tasks

THEOREM TypeCorrect == Spec => []TypeOK
BY TypeInit, TypeStep, PTL DEF Spec

-----------------------------------------------------------------------------
(* A device is never left forced unavailable by an available client: the one
   operation that changes the flag of the client forces its devices along. *)
LEMMA MarkAllDevicesTogether ==
  ASSUME TypeOK, NoStuckDevice, NEW c \in Clients, NEW avail \in BOOLEAN,
         MarkAllDevices(c, avail)
  PROVE  NoStuckDevice'
<1> SUFFICES ASSUME NEW d \in Clients, available'[d]
             PROVE  "FORCE_FALSE" \notin forced'[d]
  BY DEF NoStuckDevice
<1>1. CASE d # c
  BY <1>1 DEF TypeOK, MarkAllDevices, NoStuckDevice
<1>2. CASE d = c
  <2>1. avail BY <1>2 DEF TypeOK, MarkAllDevices
  <2> QED BY <1>2, <2>1 DEF TypeOK, MarkAllDevices, NoStuckDevice
<1> QED BY <1>1, <1>2

LEMMA StuckDeviceStep == TypeOK /\ NoStuckDevice /\ [Next]_vars => NoStuckDevice'
<1> SUFFICES ASSUME TypeOK, NoStuckDevice, [Next]_vars PROVE NoStuckDevice'
  OBVIOUS
<1>1. CASE UNCHANGED <<available, forced>>
  BY <1>1 DEF NoStuckDevice
<1>2. ASSUME NEW c \in Clients, IsConnected(c) PROVE NoStuckDevice'
  BY <1>1, <1>2, MarkAllDevicesTogether DEF IsConnected
<1>3. ASSUME NEW c \in Clients, CheckAnswered(c) PROVE NoStuckDevice'
  BY <1>2, <1>3 DEF CheckAnswered
<1>4. CASE CheckStep
  BY <1>1, <1>3, <1>4
     DEF CheckStep, NothingToReconnect, StartReconnects, GatherDone, CheckUnavailable,
         CheckAvailable, Reload, clientVars
<1>5. ASSUME NEW t \in Tasks, ReconnectStep(t) PROVE NoStuckDevice'
  <2> t[1] \in Clients BY TaskClient
  <2>1. CASE ReconnectAnswered(t)
    BY <2>1, <1>2 DEF ReconnectAnswered
  <2>2. CASE InitAnswered(t)
    BY <2>2, <1>1, MarkAllDevicesTogether DEF InitAnswered
  <2>3. CASE JsonInitAnswered(t)
    BY <2>3 DEF JsonInitAnswered, NoStuckDevice, TypeOK
  <2>4. CASE ReInit(t) \/ DeInitAnswered(t) \/ JsonInitFailed(t)
    BY <2>4, <1>1 DEF ReInit, DeInitAnswered, JsonInitFailed, clientVars
  <2> QED BY <1>5, <2>1, <2>2, <2>3, <2>4 DEF ReconnectStep
<1>6. ASSUME NEW c \in Clients, NewDevices(c) PROVE NoStuckDevice'
  BY <1>6 DEF NewDevices, NoStuckDevice, TypeOK
<1>7. ASSUME NEW c \in Clients, EventStep(c) \/ BackendStep(c) PROVE NoStuckDevice'
  BY <1>1, <1>6, <1>7
     DEF EventStep, BackendStep, PongEvent, ValueEvent, ValueMissed, PollClient,
         AskIsAlive, ApiCall, Fault, Recover, BackendRestart, clientVars
<1>8. CASE Tick
  BY <1>1, <1>8 DEF Tick
<1>9. CASE UNCHANGED vars
  BY <1>1, <1>9 DEF vars, clientVars
<1> QED BY <1>4, <1>5, <1>7, <1>8, <1>9 DEF Next

(* No device is stuck unavailable, for any clients and any mix of kinds. *)
THEOREM NoDeviceStuck == Spec => []NoStuckDevice
<1>1. Init => NoStuckDevice
  BY DEF Init, NoStuckDevice
<1> QED BY <1>1, TypeCorrect, StuckDeviceStep, PTL DEF Spec

-----------------------------------------------------------------------------
(* The control invariant.  Reconnects run only while the round gathers them,
   one per client; one that is past its ping belongs to a client whose failed
   checks are within the limit. *)
PastPing == {"wait", "deinit", "init"}

OnlyAwaitedRun ==
  \A t \in Tasks : rec[t] # "none" => pc = "gather" /\ t \in awaited

OnePerClient == \A t, u \in awaited : t[1] = u[1] => t = u

PastPingWithinLimit ==
  \A t \in Tasks : rec[t] \in PastPing => errorCount[t[1]] <= MaxFailedChecks

ConnInv == /\ OnlyAwaitedRun /\ OnePerClient
           /\ PastPingWithinLimit /\ FailingIsUnavailable

(* The answer of a ping keeps the limit and the availability of its client in
   step, and touches no other client. *)
LEMMA IsConnectedLimit ==
  ASSUME TypeOK, FailingIsUnavailable, NEW c \in Clients, IsConnected(c)
  PROVE  /\ FailingIsUnavailable'
         /\ \A d \in Clients \ {c} : errorCount'[d] = errorCount[d]
         /\ IsConnectedResult(c) => errorCount'[c] <= MaxFailedChecks
<1>1. errorCount' = [errorCount EXCEPT ![c] = FailedChecks(c)]
  BY DEF IsConnected
<1>2. FailedChecks(c) \in Nat
  BY BoundsType DEF FailedChecks, TypeOK
<1>3. IsConnectedResult(c) => errorCount'[c] <= MaxFailedChecks
  BY <1>1, <1>2, BoundsType DEF IsConnectedResult, NotConnected, TypeOK
<1>4. ASSUME NEW d \in Clients, errorCount'[d] > MaxFailedChecks
      PROVE  ~available'[d]
  <2>1. CASE d = c
    <3>1. NotConnected(c) BY <1>1, <1>4, <2>1 DEF NotConnected, TypeOK
    <3> QED BY <2>1, <3>1 DEF IsConnected, MarkAllDevices, TypeOK
  <2>2. CASE d # c
    <3>1. ~available[d] BY <1>1, <1>4, <2>2 DEF FailingIsUnavailable, TypeOK
    <3> QED BY <2>2, <3>1 DEF IsConnected, MarkAllDevices, TypeOK
  <2> QED BY <2>1, <2>2
<1> QED BY <1>1, <1>3, <1>4 DEF FailingIsUnavailable, TypeOK

LEMMA ConnInit == Init => ConnInv
<1> SUFFICES ASSUME Init PROVE ConnInv
  OBVIOUS
<1>1. \A t \in Tasks : rec[t] = "none"
  BY DEF Init
<1>2. FailingIsUnavailable
  BY BoundsType DEF Init, FailingIsUnavailable
<1> QED BY <1>1, <1>2
        DEF Init, ConnInv, OnlyAwaitedRun, OnePerClient, PastPingWithinLimit, PastPing

LEMMA ConnCheckStep ==
  ASSUME TypeOK, ConnInv, CheckStep
  PROVE  ConnInv'
<1> USE DEF ConnInv
<1>1. CASE NothingToReconnect
  BY <1>1 DEF NothingToReconnect, clientVars, OnlyAwaitedRun, OnePerClient,
              PastPingWithinLimit, FailingIsUnavailable
<1>2. CASE StartReconnects
  <2>1. /\ rec' = [t \in Tasks |-> IF t \in Started THEN "ping" ELSE rec[t]]
        /\ awaited' = Started
    BY <1>2 DEF StartReconnects
  <2>2. \A t \in Tasks : rec[t] = "none"
    BY <1>2 DEF StartReconnects, OnlyAwaitedRun
  <2>3. OnlyAwaitedRun'
    BY <1>2, <2>1, <2>2 DEF StartReconnects, OnlyAwaitedRun
  <2>4. OnePerClient'
    BY <2>1 DEF OnePerClient, Started
  <2>5. PastPingWithinLimit'
    BY <2>1, <2>2 DEF PastPingWithinLimit, PastPing
  <2>6. FailingIsUnavailable'
    BY <1>2 DEF StartReconnects, clientVars, FailingIsUnavailable
  <2> QED BY <2>3, <2>4, <2>5, <2>6
<1>3. CASE GatherDone
  <2>1. \A t \in Tasks : rec'[t] = "none"
    BY <1>3 DEF GatherDone, ReconnectsDone, OnlyAwaitedRun
  <2> QED BY <1>3, <2>1
          DEF GatherDone, clientVars, OnlyAwaitedRun, OnePerClient,
              PastPingWithinLimit, PastPing, FailingIsUnavailable
<1>4. ASSUME NEW c \in Clients, CheckUnavailable(c) \/ CheckAvailable(c)
      PROVE  ConnInv'
  BY <1>4 DEF CheckUnavailable, CheckAvailable, clientVars, OnlyAwaitedRun,
              OnePerClient, PastPingWithinLimit, FailingIsUnavailable
<1>5. ASSUME NEW c \in Clients, CheckAnswered(c) PROVE ConnInv'
  <2>1. \A t \in Tasks : rec'[t] = "none"
    BY <1>5 DEF CheckAnswered, OnlyAwaitedRun
  <2>2. FailingIsUnavailable'
    BY <1>5, IsConnectedLimit DEF CheckAnswered
  <2> QED BY <1>5, <2>1, <2>2
          DEF CheckAnswered, OnlyAwaitedRun, OnePerClient, PastPingWithinLimit, PastPing
<1>6. ASSUME NEW c \in Clients, Reload(c) PROVE ConnInv'
  <2>1. \A t \in Tasks : rec'[t] = "none"
    BY <1>6 DEF Reload, OnlyAwaitedRun
  <2> QED BY <1>6, <2>1
          DEF Reload, clientVars, OnlyAwaitedRun, OnePerClient,
              PastPingWithinLimit, PastPing, FailingIsUnavailable
<1> QED BY <1>1, <1>2, <1>3, <1>4, <1>5, <1>6 DEF CheckStep

LEMMA ConnReconnectStep ==
  ASSUME OnlyXml, TypeOK, ConnInv, NEW t \in Tasks, ReconnectStep(t)
  PROVE  ConnInv'
<1> USE DEF ConnInv
<1> t[1] \in Clients BY TaskClient
<1>1. ASSUME rec[t] # "none", pc' = pc, awaited' = awaited,
             NEW stage, rec' = [rec EXCEPT ![t] = stage]
      PROVE  OnlyAwaitedRun' /\ OnePerClient'
  BY <1>1 DEF OnlyAwaitedRun, OnePerClient, TypeOK
<1>2. CASE ReconnectAnswered(t)
  <2>1. \/ rec' = [rec EXCEPT ![t] = "none"]
        \/ rec' = [rec EXCEPT ![t] = "wait"] /\ IsConnectedResult(t[1])
    BY <1>2 DEF ReconnectAnswered
  <2>2. OnlyAwaitedRun' /\ OnePerClient'
    BY <1>1, <1>2, <2>1 DEF ReconnectAnswered
  <2>3. /\ FailingIsUnavailable'
        /\ \A d \in Clients \ {t[1]} : errorCount'[d] = errorCount[d]
        /\ IsConnectedResult(t[1]) => errorCount'[t[1]] <= MaxFailedChecks
    BY <1>2, IsConnectedLimit DEF ReconnectAnswered
  <2>4. ASSUME NEW u \in Tasks, rec'[u] \in PastPing
        PROVE  errorCount'[u[1]] <= MaxFailedChecks
    <3>1. CASE u = t
      BY <2>1, <2>3, <2>4, <3>1 DEF TypeOK, PastPing
    <3>2. CASE u # t
      <4>1. rec[u] \in PastPing BY <2>1, <2>4, <3>2 DEF TypeOK
      <4>2. t \in awaited /\ u \in awaited
        BY <1>2, <4>1 DEF ReconnectAnswered, OnlyAwaitedRun, PastPing
      <4>3. u[1] # t[1] BY <3>2, <4>2 DEF OnePerClient
      <4>4. u[1] \in Clients BY TaskClient
      <4> QED BY <2>3, <4>1, <4>3, <4>4 DEF PastPingWithinLimit
    <3> QED BY <3>1, <3>2
  <2> QED BY <2>2, <2>3, <2>4 DEF PastPingWithinLimit
<1>3. CASE ReInit(t) \/ DeInitAnswered(t)
  <2>1. \E stage : rec' = [rec EXCEPT ![t] = stage]
    BY <1>3 DEF ReInit, DeInitAnswered
  <2>2. OnlyAwaitedRun' /\ OnePerClient'
    BY <1>1, <1>3, <2>1 DEF ReInit, DeInitAnswered
  <2>3. \A u \in Tasks : rec'[u] \in PastPing => rec[u] \in PastPing
    BY <1>3, <2>1 DEF ReInit, DeInitAnswered, TypeOK, PastPing
  <2>4. errorCount' = errorCount /\ available' = available
    BY <1>3 DEF ReInit, DeInitAnswered, clientVars
  <2> QED BY <2>2, <2>3, <2>4 DEF PastPingWithinLimit, FailingIsUnavailable
<1>4. CASE InitAnswered(t)
  <2>1. OnlyAwaitedRun' /\ OnePerClient'
    BY <1>1, <1>4 DEF InitAnswered
  <2>2. PastPingWithinLimit'
    BY <1>4 DEF InitAnswered, PastPingWithinLimit, PastPing, TypeOK
  <2>3. errorCount[t[1]] <= MaxFailedChecks
    BY <1>4 DEF InitAnswered, PastPingWithinLimit, PastPing
  <2>4. \A d \in Clients \ {t[1]} : available'[d] = available[d]
    BY <1>4 DEF InitAnswered, MarkAllDevices, TypeOK
  <2>5. FailingIsUnavailable'
    BY <1>4, <2>3, <2>4, BoundsType DEF InitAnswered, FailingIsUnavailable, TypeOK
  <2> QED BY <2>1, <2>2, <2>5
<1>5. ~(JsonInitAnswered(t) \/ JsonInitFailed(t))
  BY DEF OnlyXml, JsonInitAnswered, JsonInitFailed
<1> QED BY <1>2, <1>3, <1>4, <1>5 DEF ReconnectStep

LEMMA ConnStep == OnlyXml /\ TypeOK /\ ConnInv /\ [Next]_vars => ConnInv'
<1> SUFFICES ASSUME OnlyXml, TypeOK, ConnInv, [Next]_vars PROVE ConnInv'
  OBVIOUS
<1>1. CASE UNCHANGED <<pc, awaited, rec, errorCount, available>>
  BY <1>1 DEF ConnInv, OnlyAwaitedRun, OnePerClient, PastPingWithinLimit,
              FailingIsUnavailable
<1>2. CASE CheckStep BY <1>2, ConnCheckStep
<1>3. ASSUME NEW t \in Tasks, ReconnectStep(t) PROVE ConnInv'
  BY <1>3, ConnReconnectStep
<1>4. CASE Tick
  <2>1. pc = "gather" \/ \A t \in Tasks : rec[t] = "none"
    BY DEF ConnInv, OnlyAwaitedRun
  <2> QED BY <1>4, <2>1
          DEF Tick, ConnInv, OnlyAwaitedRun, OnePerClient, PastPingWithinLimit,
              FailingIsUnavailable
<1>5. ASSUME NEW c \in Clients, EventStep(c) \/ BackendStep(c) PROVE ConnInv'
  BY <1>1, <1>5
     DEF EventStep, BackendStep, PongEvent, ValueEvent, ValueMissed, NewDevices,
         PollClient, AskIsAlive, ApiCall, Fault, Recover, BackendRestart,
         clientVars, schedVars
<1>6. CASE UNCHANGED vars
  BY <1>1, <1>6 DEF vars, clientVars, schedVars
<1> QED BY <1>2, <1>3, <1>4, <1>5, <1>6 DEF Next

LEMMA ConnInvariant == ASSUME OnlyXml PROVE Spec => []ConnInv
<1>1. TypeOK /\ ConnInv /\ [Next]_vars => ConnInv'
  BY ConnStep
<1> QED BY <1>1, ConnInit, TypeCorrect, PTL DEF Spec

(* Without JSON clients a client over the limit is never shown as available,
   whatever its reconnects do. *)
THEOREM FailingShown == ASSUME OnlyXml PROVE Spec => []FailingIsUnavailable
BY ConnInvariant, PTL DEF ConnInv

(* Without JSON clients a round that is not gathering has no reconnect left. *)
THEOREM RoundsAlternate == ASSUME OnlyXml PROVE Spec => []ChecksAndReconnectsAlternate
<1>1. ConnInv => ChecksAndReconnectsAlternate
  BY DEF ConnInv, OnlyAwaitedRun, ChecksAndReconnectsAlternate
<1> QED BY <1>1, ConnInvariant, PTL
=============================================================================
