---------------------------- MODULE SessionManager ----------------------------
(***************************************************************************)
(* The sessions of logged-in users (controller/session_manager.cpp).  Each *)
(* operation is one hold of the manager's lock; Connection composes them   *)
(* with the requests that call them.                                       *)
(***************************************************************************)
EXTENDS Integers, FiniteSets

CONSTANTS Users,           \* user ids
          SessionIds,      \* session ids that generateSessionId draws
          SESSION_TTL,     \* lifetime in seconds
          TicksPerSecond,  \* steps of the steady clock that the model sees
          MaxClock         \* bound: the clock's last value

ASSUME SessionsAssumption ==
    /\ SESSION_TTL \in Nat \ {0} /\ TicksPerSecond \in Nat \ {0} /\ MaxClock \in Nat

VARIABLES sessions,  \* sessions_: userId and createdAt of each id it holds
          now,       \* the steady clock
          \* History: the same of each id ever issued, and the ids logged out.
          issued, loggedOut

sessionVars == <<sessions, now, issued, loggedOut>>

InitSessions ==
    /\ sessions = <<>> /\ now = 0 /\ issued = <<>> /\ loggedOut = {}

Tick == now < MaxClock /\ now' = now + 1 /\ UNCHANGED <<sessions, issued, loggedOut>>

\* The age is cut to whole seconds before it is compared.
isSessionExpired(s) == (now - s.createdAt) \div TicksPerSecond > SESSION_TTL

\* The ids that are in the map and not expired.
sessionExists(id) == id \in DOMAIN sessions /\ ~isSessionExpired(sessions[id])

cleanupExpiredSessions == {id \in DOMAIN sessions : ~isSessionExpired(sessions[id])}

\* Expired sessions go, and the user gets an id that the generator has not drawn
\* before (32 random digits: that they never repeat is assumed).
createSession(user) ==
    \E new \in SessionIds \ DOMAIN issued :
        LET session == [userId |-> user, createdAt |-> now]
        IN  /\ sessions' = [id \in cleanupExpiredSessions \cup {new} |->
                              IF id = new THEN session ELSE sessions[id]]
            /\ issued' = [id \in DOMAIN issued \cup {new} |->
                              IF id = new THEN session ELSE issued[id]]
            /\ UNCHANGED <<now, loggedOut>>

\* Looks the session up and does not ask how old it is.
FoundAtAnyAge(id) == {sessions[i].userId : i \in {id} \cap DOMAIN sessions}

\* The session's user, or nobody: then it throws.
getUserIdFromSession(id) == {sessions[i].userId : i \in {j \in {id} : sessionExists(j)}}

\* Leaves the session in the map.
RemoveNothing(id) ==
    /\ loggedOut' = loggedOut \cup {id}
    /\ UNCHANGED <<sessions, now, issued>>

removeSession(id) ==
    /\ sessions' = [i \in DOMAIN sessions \ {id} |-> sessions[i]]
    /\ loggedOut' = loggedOut \cup {id}
    /\ UNCHANGED <<now, issued>>
=============================================================================
