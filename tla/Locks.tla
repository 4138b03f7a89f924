------------------------------- MODULE Locks -------------------------------
(***************************************************************************)
(* The locks and the sirens (model/custom/lock.py, siren.py).  Their calls   *)
(* look at no state: what is asked is always sent.                           *)
(***************************************************************************)
EXTENDS Collector

LockKinds == {"iplock", "buttonlock", "rflock", "siren", "smoke"}

LockStates(kind) ==
    CASE kind = "iplock"     -> [LOCK_STATE : {"LOCKED", "UNLOCKED", "OPEN"}]
      [] kind = "buttonlock" -> [BUTTON_LOCK : BOOLEAN]
      [] kind = "rflock"     -> [POWER : BOOLEAN]
      [] kind = "siren"      -> [ACOUSTIC : {"DISABLE", "HIGH"}, OPTICAL : {"DISABLE", "FLASH"}]
      [] kind = "smoke"      -> [ALARM : BOOLEAN]

\* lock, unlock, open; on with a tone and a light, off.  "NOISE" is a tone the
\* siren does not have.
LockCall(op, tone, light) == [op |-> op, tone |-> tone, light |-> light]
LockCalls(kind) ==
    CASE kind \in {"iplock", "buttonlock", "rflock"} ->
            {LockCall(op, None, None) : op \in {"lock", "unlock", "open"}}
      [] kind = "siren" ->
            {LockCall("on", t, l) : t \in {None, "DISABLE", "HIGH", "NOISE"}, l \in {None, "DISABLE", "FLASH"}}
            \cup {LockCall("off", None, None)}
      [] kind = "smoke" -> {LockCall(op, None, None) : op \in {"on", "off"}}

\* CustomDpIpSiren.turn_on: ValueError for a tone that is not known
LockRefuses(kind, call) == kind = "siren" /\ call.tone = "NOISE"

Selected(choice) == IF choice = None THEN "DISABLE" ELSE choice   \* the default

IpLockEntries(call) ==
    <<Put("TARGET", CASE call.op = "lock"   -> "LOCKED"
                      [] call.op = "unlock" -> "UNLOCKED"
                      [] call.op = "open"   -> "OPEN")>>

\* open() does nothing.
ButtonLockEntries(call) == When(call.op # "open", <<Put("BUTTON_LOCK", call.op = "lock")>>)

RfLockEntries(call) ==
    IF call.op = "open" THEN <<Put("OPEN", TRUE)>> ELSE <<Put("POWER", call.op = "unlock")>>

SirenEntries(call) ==
    <<Put("ACOUSTIC", Selected(call.tone)), Put("OPTICAL", Selected(call.light)),
      Put("UNIT", "default"), Put("DURATION", "default")>>

SmokeEntries(call) == <<Put("COMMAND", call.op = "on")>>

LockEntries(kind, call) ==
    CASE kind = "iplock"     -> IpLockEntries(call)
      [] kind = "buttonlock" -> ButtonLockEntries(call)
      [] kind = "rflock"     -> RfLockEntries(call)
      [] kind = "siren"      -> SirenEntries(call)
      [] kind = "smoke"      -> SmokeEntries(call)

LockApplied(kind, goal, request) ==
    CASE kind = "iplock" -> [LOCK_STATE |-> request.TARGET]
      [] kind = "smoke"  -> [ALARM |-> request.COMMAND]
      [] kind = "rflock" /\ "OPEN" \in DOMAIN request -> [POWER |-> TRUE]
      [] OTHER -> [f \in DOMAIN goal |-> IF f \in DOMAIN request THEN request[f] ELSE goal[f]]

\* The call has reached its aim.
LockDone(kind, call, at) ==
    CASE kind = "iplock" -> LET aim == [lock |-> "LOCKED", unlock |-> "UNLOCKED", open |-> "OPEN"]
                            IN  at.LOCK_STATE = aim[call.op]
      [] kind = "buttonlock" -> call.op # "open" => (at.BUTTON_LOCK <=> call.op = "lock")
      [] kind = "rflock" -> (at.POWER <=> call.op # "lock")
      [] kind = "siren" ->
            call.op = "off" => at = [ACOUSTIC |-> "DISABLE", OPTICAL |-> "DISABLE"]
      [] kind = "smoke" -> (at.ALARM <=> call.op = "on")
=============================================================================
