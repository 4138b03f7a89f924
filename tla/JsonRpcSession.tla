--------------------------- MODULE JsonRpcSession ---------------------------
(***************************************************************************)
(* The session of the JSON-RPC client (client/json_rpc.py), which all calls *)
(* of a central share: it is opened by the first call, renewed by the calls *)
(* that find it old, and closed by every call that fails.  Between two      *)
(* requests of a call any other call may go on.                            *)
(*                                                                         *)
(* The backend keeps a few sessions, refuses what comes with a session it  *)
(* does not know, and forgets a session nobody uses.                       *)
(***************************************************************************)
EXTENDS Integers, FiniteSets

CONSTANTS
    Calls,        \* tasks that post: the loops of the scheduler, services
    Ids,          \* session ids
    None,
    MaxSessions,  \* sessions the backend keeps at once
    MaxDepth,     \* bound: nested logouts until Python's RecursionError
    MaxFaults     \* bound: answers lost, internal errors, sessions expired in use

VARIABLES
    session,   \* _session_id
    young,     \* _modified_within_seconds
    known,     \* _supported_methods is not None
    calls,     \* per task: the request it awaits, with which session; the
               \* session its call will use; what follows; nested logouts
    served,    \* tasks whose last call was answered well
    sessions,  \* the sessions of the backend
    faults,    \* faults so far
    stopped    \* the central has been stopped

vars == <<session, young, known, calls, served, sessions, faults, stopped>>

Requests == {"login", "renew", "list", "call", "out"}

Idle == [pc |-> "idle", sid |-> None, held |-> None, rest |-> "end", depth |-> 0]

Init ==
    /\ session = None /\ young = FALSE /\ known = FALSE
    /\ calls = [t \in Calls |-> Idle]
    /\ served = {} /\ sessions = {} /\ faults = 0 /\ stopped = FALSE

Used == sessions \cup {session} \cup {calls[t].sid : t \in Calls}
                 \cup {calls[t].held : t \in Calls}
NewId == CHOOSE s \in Ids : s \notin Used

Fault == faults < MaxFaults /\ faults' = faults + 1

-----------------------------------------------------------------------------
(* The steps of a call between two requests. *)

Await(t, request, sid, rest) ==
    calls' = [calls EXCEPT ![t].pc = request, ![t].sid = sid, ![t].rest = rest]
Ends(t, well) ==
    /\ calls' = [calls EXCEPT ![t] = Idle]
    /\ served' = IF well THEN served \cup {t} ELSE served \ {t}

\* _post, _post_script: with session s, once they have one.  The first call
\* asks for the methods of the backend before, after a login or renewal of
\* its own when the session it has just got does not count as new.
Enter(t, s, fresh) ==
    LET again == calls[t].rest = "again"
        pc == CASE again -> "list"
                [] ~again /\ known -> "call"
                [] ~again /\ ~known -> IF fresh THEN "list" ELSE "renew"
    IN  IF s = None THEN Ends(t, FALSE)
        ELSE /\ calls' = [calls EXCEPT ![t].pc = pc, ![t].sid = s,
                               ![t].held = IF again THEN @ ELSE s,
                               ![t].rest = IF pc = "renew" THEN "again" ELSE "end"]
             /\ UNCHANGED served

LeaveWithoutLogout(t, rest) == Ends(t, FALSE)   \* a variant: raises only

\* A request that fails with an error of this library: _do_post awaits
\* logout() before it raises.
Leave(t, rest) ==
    /\ calls' = [calls EXCEPT ![t].pc = "leave", ![t].rest = rest]
    /\ UNCHANGED served

\* What follows the logouts: the call that only asked for the methods goes
\* on, with the session it holds.
AfterLogout(t) ==
    IF calls[t].rest = "call"
    THEN /\ calls' = [calls EXCEPT ![t] = [Idle EXCEPT !.pc = "call",
                                           !.sid = calls[t].held, !.held = calls[t].held]]
         /\ known' = TRUE /\ UNCHANGED served
    ELSE Ends(t, FALSE) /\ UNCHANGED known

\* clear_session: after a logout, when the connection is lost
ClearedSession == None

-----------------------------------------------------------------------------
(* The client. *)

\* _login_or_renew
Start(t) ==
    /\ calls[t].pc = "idle" /\ ~stopped
    /\ \/ session = None /\ Await(t, "login", None, "enter") /\ UNCHANGED served
       \/ session # None /\ young /\ Enter(t, session, TRUE)
       \/ session # None /\ ~young /\ Await(t, "renew", session, "enter") /\ UNCHANGED served
    /\ UNCHANGED <<session, young, known, sessions, faults, stopped>>

\* _do_login is answered.  Only a login that found no session at all renews
\* _last_session_id_refresh: one that a renewal falls back to does not.
LoginAnswered(t) ==
    /\ calls[t].pc = "login"
    /\ LET first == calls[t].sid = None
           fresh == NewId
           full == Cardinality(sessions) = MaxSessions
       IN  \/ /\ ~full
              /\ sessions' = sessions \cup {fresh}
              /\ session' = fresh /\ young' = (young \/ first)
              /\ Enter(t, fresh, young') /\ UNCHANGED faults
           \/ /\ full /\ Leave(t, "end")  \* refused
              /\ UNCHANGED <<session, young, sessions, faults>>
           \/ /\ full /\ session' = None /\ young' = (young \/ first)  \* no result
              /\ Ends(t, FALSE) /\ UNCHANGED <<sessions, faults>>
           \/ /\ Fault /\ session' = ClearedSession /\ Ends(t, FALSE)  \* lost
              /\ sessions' \in {sessions} \cup (IF full THEN {} ELSE {sessions \cup {fresh}})
              /\ UNCHANGED young
    /\ UNCHANGED <<known, stopped>>

\* _do_renew_login is answered: the client keeps the session it has sent,
\* even one that another call has closed and cleared meanwhile.
Renewed(t) == calls[t].sid

RenewAnswered(t) ==
    /\ calls[t].pc = "renew"
    /\ \/ /\ calls[t].sid \in sessions
          /\ session' = Renewed(t) /\ young' = TRUE
          /\ Enter(t, Renewed(t), TRUE) /\ UNCHANGED faults
       \/ /\ calls[t].sid \notin sessions
          /\ \/ Await(t, "login", calls[t].sid, calls[t].rest) /\ UNCHANGED served
             \/ Leave(t, "end")
          /\ UNCHANGED <<session, young, faults>>
       \/ Fault /\ session' = ClearedSession /\ Ends(t, FALSE) /\ UNCHANGED young
    /\ UNCHANGED <<known, sessions, stopped>>

\* _get_supported_methods: whatever goes wrong, no method is known to be
\* missing from then on.
ListAnswered(t) ==
    /\ calls[t].pc = "list"
    /\ \/ /\ calls[t].sid \in sessions
          /\ Await(t, "call", calls[t].held, "end") /\ known' = TRUE
          /\ UNCHANGED <<session, served, faults>>
       \/ /\ calls[t].sid \notin sessions /\ Leave(t, "call")
          /\ UNCHANGED <<session, known, faults>>
       \/ Fault /\ session' = ClearedSession /\ known' = TRUE
          /\ Await(t, "call", calls[t].held, "end") /\ UNCHANGED served
    /\ UNCHANGED <<young, sessions, stopped>>

\* The request the call is made for: answered, refused or in error, lost.
CallAnswered(t) ==
    /\ calls[t].pc = "call"
    /\ \/ calls[t].sid \in sessions /\ Ends(t, TRUE) /\ UNCHANGED <<session, faults>>
       \/ calls[t].sid \notin sessions /\ Leave(t, "end") /\ UNCHANGED <<session, faults>>
       \/ Fault /\ Leave(t, "end") /\ UNCHANGED session
       \/ Fault /\ session' = ClearedSession /\ Ends(t, FALSE)
    /\ UNCHANGED <<young, known, sessions, stopped>>

\* logout, after the sleep(0) of block_till_done: the session to close is
\* the one the client has now, whoever opened it.
BeginLogout(t) ==
    /\ calls[t].pc = "leave"
    /\ LET s == session
       IN  IF s = None THEN AfterLogout(t)
           ELSE calls' = [calls EXCEPT ![t].pc = "out", ![t].sid = s]
                /\ UNCHANGED <<known, served>>
    /\ UNCHANGED <<session, young, sessions, faults, stopped>>

NeverDeeper(t) == calls[t].depth      \* a variant: a loop, no recursion
\* _do_post calls logout calls _do_logout calls _do_post
Nested(t) == calls[t].depth + 1

\* _do_logout is answered.  A refusal makes _do_post log out again: as long
\* as the client holds a session, until the recursion is too deep.
LogoutAnswered(t) ==
    /\ calls[t].pc = "out"
    /\ \/ /\ sessions' = sessions \ {calls[t].sid} /\ session' = ClearedSession
          /\ AfterLogout(t) /\ UNCHANGED faults
       \/ /\ calls[t].sid \notin sessions
          /\ IF calls[t].depth < MaxDepth
             THEN /\ calls' = [calls EXCEPT ![t].pc = "leave", ![t].depth = Nested(t)]
                  /\ UNCHANGED <<session, known, served>>
             ELSE session' = ClearedSession /\ AfterLogout(t)
          /\ UNCHANGED <<sessions, faults>>
       \/ /\ Fault /\ session' = ClearedSession /\ AfterLogout(t)
          /\ sessions' \in {sessions, sessions \ {calls[t].sid}}
    /\ UNCHANGED <<young, stopped>>

\* CentralUnit.stop logs out, if there is a session.
Stop(t) ==
    /\ ~stopped /\ calls[t].pc = "idle"
    /\ stopped' = TRUE
    /\ IF session = None THEN UNCHANGED <<calls, served>> ELSE Leave(t, "end")
    /\ UNCHANGED <<session, young, known, sessions, faults>>

-----------------------------------------------------------------------------
(* Time and the backend. *)

Age ==
    /\ young /\ young' = FALSE
    /\ UNCHANGED <<session, known, calls, served, sessions, faults, stopped>>

InUse(s) == s = session \/ \E t \in Calls : s \in {calls[t].sid, calls[t].held}

\* The backend forgets a session: by itself one that nobody uses any more.
Expire(s) ==
    /\ s \in sessions
    /\ sessions' = sessions \ {s}
    /\ IF InUse(s) THEN Fault ELSE UNCHANGED faults
    /\ UNCHANGED <<session, young, known, calls, served, stopped>>

Step(t) == LoginAnswered(t) \/ RenewAnswered(t) \/ ListAnswered(t) \/ CallAnswered(t)
           \/ BeginLogout(t) \/ LogoutAnswered(t)

Next == \/ \E t \in Calls : Start(t) \/ Step(t) \/ Stop(t)
        \/ Age
        \/ \E s \in Ids : Expire(s)

Spec == Init /\ [][Next]_vars

\* Every request is answered or times out, the loops post again and again,
\* and a session nobody uses is forgotten.
Fairness == /\ \A t \in Calls : WF_vars(Start(t)) /\ WF_vars(Step(t))
            /\ \A s \in Ids : WF_vars(Expire(s) /\ ~InUse(s))
FairSpec == Spec /\ Fairness

-----------------------------------------------------------------------------
(* Every call ends, well or not: a refused logout logs out in turn, and is  *)
(* refused again, but not for ever (_do_post, logout, _do_logout).          *)
CallsEnd == \A t \in Calls : []<>(calls[t].pc = "idle")

(* The client recovers whatever has happened to its session: when answers   *)
(* are no longer lost, and the calls do not overlap, every call is served   *)
(* in the end.  A session the backend has forgotten is given up, a backend  *)
(* filled by sessions left behind is waited for.                            *)
(* Calls that overlap may keep closing each other's session for ever.       *)
InTurn == \A t, u \in Calls : t # u => "idle" \in {calls[t].pc, calls[u].pc}
RecoversInTurn == <>[]InTurn => <>[](stopped \/ served = Calls)
=============================================================================
