--------------------------- MODULE SessionManager ---------------------------
(***************************************************************************)
(* The SessionManager of llp-core (session.rs): the table of established   *)
(* sessions, its limit, and the three clocks by which sessions age.        *)
(*                                                                         *)
(* The code keeps instants and looks at the time elapsed since them, always*)
(* by comparing it with a threshold, so a session is the record of three   *)
(* elapsed times, counted in ticks and capped just above the largest       *)
(* threshold, beyond which no comparison changes any more.                 *)
(***************************************************************************)
EXTENDS Integers, FiniteSets

CONSTANTS
    Ids,                  \* session ids
    MaxSessions,          \* MAX_SESSIONS
    Lifetime,             \* session_lifetime
    KeepaliveInterval,    \* KEEPALIVE_INTERVAL
    KeepaliveTimeout      \* KEEPALIVE_TIMEOUT

ASSUME ManagerAssumption ==
    /\ IsFiniteSet(Ids)
    /\ MaxSessions \in Nat \ {0} /\ Lifetime \in Nat
    /\ KeepaliveInterval \in Nat /\ KeepaliveTimeout \in Nat

VARIABLES
    sessions,    \* the map from id to Session, defined on the ids present
    result       \* what the last call returned

managerVars == <<sessions, result>>

Larger(a, b) == IF a > b THEN a ELSE b
Cap == 1 + Larger(Lifetime, Larger(KeepaliveInterval, KeepaliveTimeout))
Ticks == 0..Cap
Older(t) == IF t < Cap THEN t + 1 ELSE t

NewSession == [age    |-> 0,     \* since created_at
               idle   |-> 0,     \* since last_activity
               silent |-> 0]     \* since last_keepalive

Present == DOMAIN sessions

ManagerInit ==
    /\ sessions = [i \in {} |-> NewSession]
    /\ result = "none"

-----------------------------------------------------------------------------
(* What Session says of its clocks.                                        *)

IsExpired(i) == sessions[i].age > Lifetime
NeedsKeepalive(i) == sessions[i].idle > KeepaliveInterval
IsKeepaliveTimeout(i) == sessions[i].silent > KeepaliveTimeout

SessionsNeedingKeepalive == {i \in Present : NeedsKeepalive(i)}

-----------------------------------------------------------------------------
(* The calls.                                                              *)

\* encrypt_payload that succeeds refreshes last_activity only.
EncryptVia(i) ==
    /\ i \in Present
    /\ sessions' = [sessions EXCEPT ![i].idle = 0]
    /\ result' = "ok"

\* Mutant: only last_keepalive is refreshed.
HeardKeepaliveOnly(i) ==
    /\ i \in Present
    /\ sessions' = [sessions EXCEPT ![i].silent = 0]
    /\ result' = "ok"

\* decrypt_payload that succeeds, or mark_keepalive_received.
HeardVia(i) ==
    /\ i \in Present
    /\ sessions' = [sessions EXCEPT ![i].idle = 0, ![i].silent = 0]
    /\ result' = "ok"

NotFound(i) ==
    /\ i \notin Present
    /\ result' = "SessionNotFound"
    /\ UNCHANGED sessions

\* The limit is looked at before the id.
AddSession(i) ==
    IF Cardinality(Present) >= MaxSessions
    THEN /\ result' = "TooManySessions"
         /\ UNCHANGED sessions
    ELSE IF i \in Present
    THEN /\ result' = "SessionAlreadyExists"
         /\ UNCHANGED sessions
    ELSE /\ result' = "ok"
         /\ sessions' = [j \in Present \union {i} |->
                            IF j = i THEN NewSession ELSE sessions[j]]

RemoveSession(i) ==
    /\ i \in Present
    /\ sessions' = [j \in Present \ {i} |-> sessions[j]]
    /\ result' = "removed"

\* Mutant: the interval is taken for the timeout.
CleanupQuiet ==
    LET kept == {i \in Present : ~IsExpired(i) /\ ~NeedsKeepalive(i)}
    IN  /\ sessions' = [i \in kept |-> sessions[i]]
        /\ result' = "cleaned"

\* Mutant: || instead of &&.
CleanupOnlyBoth ==
    LET kept == {i \in Present : ~IsExpired(i) \/ ~IsKeepaliveTimeout(i)}
    IN  /\ sessions' = [i \in kept |-> sessions[i]]
        /\ result' = "cleaned"

CleanupExpired ==
    LET kept == {i \in Present : ~IsExpired(i) /\ ~IsKeepaliveTimeout(i)}
    IN  /\ sessions' = [i \in kept |-> sessions[i]]
        /\ result' = "cleaned"

Tick ==
    /\ sessions' = [i \in Present |-> [age    |-> Older(sessions[i].age),
                                       idle   |-> Older(sessions[i].idle),
                                       silent |-> Older(sessions[i].silent)]]
    /\ UNCHANGED result

\* What tasks of the server may ask of the manager at any time.
ManagerCall ==
    \E i \in Ids : \/ AddSession(i) \/ RemoveSession(i) \/ NotFound(i)
                   \/ EncryptVia(i) \/ HeardVia(i)

ManagerNext == ManagerCall \/ CleanupExpired \/ Tick

ManagerSpec == ManagerInit /\ [][ManagerNext]_managerVars

-----------------------------------------------------------------------------
(* Properties.                                                             *)

ManagerTypeOK ==
    /\ Present \subseteq Ids
    /\ sessions \in [Present -> [age : Ticks, idle : Ticks, silent : Ticks]]
    /\ result \in {"none", "ok", "TooManySessions", "SessionAlreadyExists",
                   "SessionNotFound", "removed", "cleaned"}

\* The table never holds more than MAX_SESSIONS sessions.
WithinLimit == Cardinality(Present) <= MaxSessions

\* last_activity is never older than last_keepalive, nor that than created_at:
\* whatever refreshes the keepalive clock refreshes the activity clock too.
ClocksOrdered ==
    \A i \in Present : /\ sessions[i].idle <= sessions[i].silent
                       /\ sessions[i].silent <= sessions[i].age

\* A session leaves the table only by remove_session, or once it has outlived
\* its lifetime or its keepalive timeout; and it is never replaced by another
\* session of the same id, whose clocks would start again.
LeavesOnlyWhenDue ==
    [][\A i \in Present :
          /\ i \notin Present' => \/ result' = "removed"
                                  \/ IsExpired(i) \/ IsKeepaliveTimeout(i)
          /\ i \in Present' => sessions'[i].age >= sessions[i].age]_managerVars

\* A session that outlives its lifetime leaves the table, however busy it is.
ExpiredLeaves == \A i \in Ids : (i \in Present /\ IsExpired(i)) ~> (i \notin Present)
=============================================================================
