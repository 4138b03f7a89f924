---------------------------- MODULE PingPongCache ----------------------------
(***************************************************************************)
(* The record of pings sent and PONG events received for one client:       *)
(* PingPongCache in hahomematic/caches/dynamic.py, with the three places   *)
(* that use it: check_connection_availability sends a ping,                *)
(* data_point_event takes a PONG, proxy_init clears the cache.             *)
(*                                                                         *)
(* A ping is identified by its time stamp.  The clock is datetime.now(): a *)
(* local time that runs on, and that is set back and forth (daylight       *)
(* saving, NTP).                                                           *)
(***************************************************************************)
EXTENDS Integers, FiniteSets

CONSTANTS
  AllowedDelta,   \* allowed_delta (PING_PONG_MISMATCH_COUNT)
  Ttl,            \* ttl (PING_PONG_MISMATCH_COUNT_TTL), in clock units
  Day,            \* clock units in a day
  MaxNow,         \* bound: the clock
  MaxJumps        \* bound: times the clock is set

ASSUME ClockAssumption == /\ Ttl \in Nat \ {0} /\ Day \in Nat /\ Day > Ttl
                          /\ MaxNow \in Nat /\ MaxJumps \in Nat
ASSUME DeltaAssumption == AllowedDelta \in Nat \ {0}

VARIABLES
  now,            \* datetime.now()
  pending,        \* _pending_pongs
  unknown,        \* _unknown_pongs
  pendingLogged,  \* _pending_pong_logged
  unknownLogged,  \* _unknown_pong_logged
  shown,          \* the mismatch count of the last PENDING_PONG event fired
  flight,         \* PONGs the backend has sent and the central not received
  jumps           \* times the clock was set

cacheVars == <<pending, unknown, pendingLogged, unknownLogged, shown>>
vars      == <<now, cacheVars, flight, jumps>>

Stamps == 0..MaxNow

TypeOK ==
  /\ now \in Stamps /\ jumps \in 0..MaxJumps
  /\ pending \subseteq Stamps /\ unknown \subseteq Stamps /\ flight \subseteq Stamps
  /\ pendingLogged \in BOOLEAN /\ unknownLogged \in BOOLEAN
  /\ shown \in 0..(MaxNow + 1)

Init ==
  /\ now = 0 /\ jumps = 0
  /\ pending = {} /\ unknown = {} /\ flight = {}
  /\ pendingLogged = FALSE /\ unknownLogged = FALSE
  /\ shown = 0

-----------------------------------------------------------------------------
(* timedelta.seconds: the part of the difference within a day.  A time stamp
   ahead of the clock counts as old. *)
Age(ts)      == (now - ts) % Day
Cleaned(pongs) == {ts \in pongs : Age(ts) <= Ttl}

Low(pongs)  == 2 * Cardinality(pongs) < AllowedDelta

\* For comparison: an event only with the log entry, a count that adds up.
ShowOnce(p)     == IF pendingLogged THEN UNCHANGED <<shown, pendingLogged>>
                   ELSE shown' = Cardinality(p) /\ pendingLogged' = TRUE
AddUp(p)        == shown' = shown + Cardinality(p) /\ pendingLogged' = TRUE

High(pongs) == Cardinality(pongs) > AllowedDelta

(* The PENDING_PONG event with a count of 0 *)
NoMismatch == shown' = 0 /\ pendingLogged' = FALSE

(* and the one with the number of pings without an answer *)
Mismatch(p) == shown' = Cardinality(p) /\ pendingLogged' = TRUE

(* _check_and_fire_pong_event(PENDING_PONG), the pending pongs being p: the count
   in the event is taken before the expired ones are removed.  Unknown pongs are
   cleaned up only when the pending ones are not low. *)
CheckPending(p) ==
  LET kept == Cleaned(p) IN
  /\ pending' = kept
  /\ IF Low(kept)
     THEN NoMismatch /\ UNCHANGED unknown
     ELSE /\ unknown' = Cleaned(unknown)
          /\ IF High(kept) THEN Mismatch(p)
                           ELSE UNCHANGED <<shown, pendingLogged>>
  /\ UNCHANGED unknownLogged

(* _check_and_fire_pong_event(UNKNOWN_PONG): no event, but a log entry.  It
   cleans up the pending pongs too, and says nothing of them. *)
CheckUnknown(u) ==
  LET kept == Cleaned(u) IN
  /\ pending' = Cleaned(pending)
  /\ unknown' = kept
  /\ unknownLogged' = CASE Low(kept)  -> FALSE
                        [] High(kept) -> TRUE
                        [] OTHER      -> unknownLogged
  /\ UNCHANGED <<shown, pendingLogged>>

-----------------------------------------------------------------------------
(* check_connection_availability: the ping is noted before it is sent, so it is
   noted also when the call fails; answered, a PONG is on its way. *)
HandleSendPing ==
  /\ CheckPending(pending \cup {now})
  /\ flight' \in {flight, flight \cup {now}}
  /\ UNCHANGED <<now, jumps>>

(* data_point_event with the PONG of a ping of this client *)
HandleReceivedPong(ts) ==
  /\ ts \in flight
  /\ flight' = flight \ {ts}
  /\ IF ts \in pending THEN CheckPending(pending \ {ts})
                       ELSE CheckUnknown(unknown \cup {ts})
  /\ UNCHANGED <<now, jumps>>

(* A PONG meant for another instance with the same interface_id. *)
HandleForeignPong(ts) ==
  /\ ts <= now
  /\ IF ts \in pending THEN CheckPending(pending \ {ts})
                       ELSE CheckUnknown(unknown \cup {ts})
  /\ UNCHANGED <<now, flight, jumps>>

LostPong(ts) ==
  /\ ts \in flight
  /\ flight' = flight \ {ts}
  /\ UNCHANGED <<now, cacheVars, jumps>>

(* clear(), by proxy_init *)
Clear ==
  /\ pending' = {} /\ unknown' = {}
  /\ pendingLogged' = FALSE /\ unknownLogged' = FALSE
  /\ UNCHANGED <<now, shown, flight, jumps>>

Tick ==
  /\ now < MaxNow
  /\ now' = now + 1
  /\ UNCHANGED <<cacheVars, flight, jumps>>

ClockSet ==
  /\ jumps < MaxJumps
  /\ now' \in Stamps \ {now}
  /\ jumps' = jumps + 1
  /\ UNCHANGED <<cacheVars, flight>>

Next == \/ HandleSendPing \/ Clear \/ Tick \/ ClockSet
        \/ \E ts \in Stamps : \/ HandleReceivedPong(ts) \/ HandleForeignPong(ts)
                              \/ LostPong(ts)

Spec == Init /\ [][Next]_vars

-----------------------------------------------------------------------------
(* More pings without an answer than allowed have always been reported, with at
   least their number; no expiry, no late PONG, no jump of the clock and no
   clear() hides them (_check_and_fire_pong_event is skipped by none of them). *)
MismatchIsReported ==
  Cardinality(pending) > AllowedDelta => shown >= Cardinality(pending)

(* What the log says is what the event said: the warning is not repeated only
   while the integration still shows a mismatch. *)
LogMatchesReport == pendingLogged => shown > AllowedDelta

(* More unknown PONGs than allowed have been logged. *)
UnknownIsLogged == Cardinality(unknown) > AllowedDelta => unknownLogged
=============================================================================
