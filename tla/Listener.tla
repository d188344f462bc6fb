------------------------------- MODULE Listener -------------------------------
(***************************************************************************)
(* How the UDP server admits clients: LlpListener (listener.rs) with its   *)
(* handshake table and session table, the session manager behind it, and   *)
(* one ClientHandler per client that registers itself in the               *)
(* ClientRegistry (client_handler.rs, client_registry.rs).                 *)
(*                                                                         *)
(* Every datagram is handled by a task of its own, so handlers interleave  *)
(* at each await.  The datagrams sent stay in `wire' and the answers in    *)
(* `replies': they may arrive late, out of order, again, or never.  The    *)
(* peers are clients that follow the handshake and may restart.            *)
(***************************************************************************)
EXTENDS Integers, FiniteSets

CONSTANTS
    Peers,           \* socket addresses
    SessionIds,      \* the session ids that may be drawn
    Tasks,           \* the tasks that may run at once
    AddressPool,     \* 253: how many VPN addresses there are
    MaxSessions,     \* the limit of the session manager
    MaxRestarts,     \* bound: how often a peer starts anew
    SendMayFail,     \* whether send_to may return an error
    None

ASSUME ListenerAssumption ==
    /\ SessionIds \subseteq Nat /\ AddressPool \in Nat \ {0}
    /\ MaxSessions \in Nat /\ MaxRestarts \in Nat
    /\ SendMayFail \in BOOLEAN
    /\ None \notin Peers /\ None \notin Tasks /\ None \notin Nat

VARIABLES
    peer,               \* the clients: phase, attempt and session id
    wire, replies,      \* datagrams to the server, and to the peers
    task,               \* the task of one datagram
    handshake_states,   \* per peer, absent or a HandshakeState
    states_lock,        \* the task inside a handler that still awaits with
                        \* the write lock on handshake_states, or None
    manager,            \* ids in the SessionManager
    drawn,              \* ids drawn so far
    client_sessions,    \* per peer, the id of its ClientSession, or None
    handler,            \* per peer, the state of its ClientHandler
    registry            \* per VPN address, the peer whose channel is there

vars == <<peer, wire, replies, task, handshake_states, states_lock, manager,
          drawn, client_sessions, handler, registry>>

\* Mutant: every client gets the first address.
VpnIpFirst(sid) == 2

\* 10.8.0.(2 + session_id % 253)
VpnIp(sid) == 2 + (sid % AddressPool)
Addresses == 2..(AddressPool + 1)

Absent == [kind |-> "absent"]
WaitingClientHello == [kind |-> "WaitingClientHello"]
WaitingClientVerify(sid, attempt, completed) ==
    [kind |-> "WaitingClientVerify", sid |-> sid, attempt |-> attempt,
     completed |-> completed]

Idle == [pc |-> "idle"]

Init ==
    /\ peer = [p \in Peers |-> [phase |-> "idle", attempt |-> 0, sid |-> None]]
    /\ wire = {}
    /\ replies = {}
    /\ task = [t \in Tasks |-> Idle]
    /\ handshake_states = [p \in Peers |-> Absent]
    /\ states_lock = None
    /\ manager = {}
    /\ drawn = {}
    /\ client_sessions = [p \in Peers |-> None]
    /\ handler = [p \in Peers |-> "none"]
    /\ registry = [a \in Addresses |-> None]

-----------------------------------------------------------------------------
(* The peers: clients that run ClientHandshake over UDP.                   *)

Hello(p, n) == [type |-> "hello", peer |-> p, attempt |-> n]
ClientVerify(p, n, sid) == [type |-> "verify", peer |-> p, attempt |-> n, sid |-> sid]
Data(p, sid) == [type |-> "data", peer |-> p, sid |-> sid]

ServerHello(p, sid) == [type |-> "hello", peer |-> p, sid |-> sid]
ServerVerify(p, n, sid) == [type |-> "verify", peer |-> p, attempt |-> n, sid |-> sid]

serverVars == <<task, handshake_states, states_lock, manager, drawn,
                client_sessions, handler, registry>>

PeerSays(p, phase, sid, m) ==
    /\ peer' = [peer EXCEPT ![p].phase = phase, ![p].sid = sid]
    /\ wire' = wire \union {m}
    /\ UNCHANGED <<replies, serverVars>>

PeerStarts(p) ==
    /\ peer[p].phase = "idle"
    /\ PeerSays(p, "helloSent", None, Hello(p, peer[p].attempt))

\* Any SERVER_HELLO is taken, also the one of an earlier attempt.
PeerAnswers(p) ==
    /\ peer[p].phase = "helloSent"
    /\ \E r \in replies :
          /\ r.type = "hello" /\ r.peer = p
          /\ PeerSays(p, "verifySent", r.sid, ClientVerify(p, peer[p].attempt, r.sid))

PeerConnects(p) ==
    /\ peer[p].phase = "verifySent"
    /\ ServerVerify(p, peer[p].attempt, peer[p].sid) \in replies
    /\ PeerSays(p, "connected", peer[p].sid, Data(p, peer[p].sid))

PeerRestarts(p) ==
    /\ peer[p].phase # "idle"
    /\ peer[p].attempt < MaxRestarts
    /\ peer' = [peer EXCEPT ![p] = [phase |-> "idle", attempt |-> @.attempt + 1,
                                    sid |-> None]]
    /\ UNCHANGED <<wire, replies, serverVars>>

PeerStep(p) == PeerStarts(p) \/ PeerAnswers(p) \/ PeerConnects(p) \/ PeerRestarts(p)

-----------------------------------------------------------------------------
(* The task of one datagram.                                               *)

\* The loop of run() receives a datagram and spawns its task.
Receive(t, m) ==
    /\ task[t].pc = "idle"
    /\ task' = [task EXCEPT ![t] = [pc |-> "spawned", msg |-> m]]
    /\ UNCHANGED <<peer, wire, replies, handshake_states, states_lock, manager,
                   drawn, client_sessions, handler, registry>>

\* A task that handles a VPN packet holds the write lock on client_sessions
\* and, while the packet is routed, a read guard of the registry.
TablesHeld == \E t \in Tasks : task[t].pc = "routing"

\* Mutant: the lookup is left out, every packet is a handshake packet.
LookUpNever(t) ==
    /\ task[t].pc = "spawned" /\ ~TablesHeld
    /\ task' = [task EXCEPT ![t].pc = "handshake"]
    /\ UNCHANGED <<peer, wire, replies, handshake_states, states_lock, manager,
                   drawn, client_sessions, handler, registry>>

\* handle_packet looks for a session, drops the read lock, and only then
\* goes to the one handler or the other.
LookUp(t) ==
    /\ task[t].pc = "spawned" /\ ~TablesHeld
    /\ task' = [task EXCEPT ![t].pc =
                   IF client_sessions[task[t].msg.peer] # None THEN "vpn" ELSE "handshake"]
    /\ UNCHANGED <<peer, wire, replies, handshake_states, states_lock, manager,
                   drawn, client_sessions, handler, registry>>

\* handle_vpn_packet takes the write lock and keeps it to the end.
HandleVpn(t) ==
    /\ task[t].pc = "vpn" /\ ~TablesHeld
    /\ task' = [task EXCEPT ![t].pc = "routing"]
    /\ UNCHANGED <<peer, wire, replies, handshake_states, states_lock, manager,
                   drawn, client_sessions, handler, registry>>

\* The packet is dropped, or through the NAT. What it does to the session's
\* counter, and what it waits for behind the TUN device, is in DataPath; that
\* it ends is not assumed here.
VpnEnds(t) ==
    /\ task[t].pc = "routing"
    /\ task' = [task EXCEPT ![t] = Idle]
    /\ UNCHANGED <<peer, wire, replies, handshake_states, states_lock, manager,
                   drawn, client_sessions, handler, registry>>

\* Mutant: without waiting for the lock.
MayEnterAnyway(t) == task[t].pc = "handshake"

\* The handlers of handshake packets run under the write lock on the table.
MayEnter(t) == task[t].pc = "handshake" /\ states_lock = None

Expects(t, kinds) == handshake_states[task[t].msg.peer].kind \in kinds

\* CLIENT_HELLO: a fresh random id, SERVER_HELLO out, and then the new state.
TakeHello(t, sid) ==
    LET m == task[t].msg
    IN  /\ MayEnter(t) /\ Expects(t, {"absent", "WaitingClientHello"})
        /\ m.type = "hello"
        /\ sid \notin drawn
        /\ drawn' = drawn \union {sid}
        /\ replies' = replies \union {ServerHello(m.peer, sid)}
        /\ handshake_states' = [handshake_states EXCEPT
              ![m.peer] = WaitingClientVerify(sid, m.attempt, FALSE)]
        /\ task' = [task EXCEPT ![t] = Idle]
        /\ UNCHANGED <<peer, wire, states_lock, manager, client_sessions, handler, registry>>

\* Not a CLIENT_HELLO, or SERVER_HELLO cannot be sent: the entry that
\* or_insert made stays.
RefuseHello(t) ==
    LET m == task[t].msg
    IN  /\ MayEnter(t) /\ Expects(t, {"absent", "WaitingClientHello"})
        /\ m.type # "hello" \/ SendMayFail
        /\ handshake_states' = [handshake_states EXCEPT ![m.peer] = WaitingClientHello]
        /\ task' = [task EXCEPT ![t] = Idle]
        /\ UNCHANGED <<peer, wire, replies, states_lock, manager, drawn,
                       client_sessions, handler, registry>>

\* The CLIENT_VERIFY of the run that is stored.
Matches(m, state) ==
    /\ ~state.completed
    /\ m = ClientVerify(m.peer, state.attempt, state.sid)

\* Mutant: the handshake is not marked as completed.
TakeVerifyUnmarked(t) ==
    LET m == task[t].msg
        state == handshake_states[m.peer]
    IN  /\ MayEnter(t) /\ Expects(t, {"WaitingClientVerify"})
        /\ Matches(m, state)
        /\ replies' = replies \union {ServerVerify(m.peer, state.attempt, state.sid)}
        /\ states_lock' = t
        /\ task' = [task EXCEPT ![t].pc = "add"]
        /\ UNCHANGED <<peer, wire, handshake_states, manager, drawn, client_sessions,
                       handler, registry>>

\* CLIENT_VERIFY: SERVER_VERIFY goes out, the handshake is Completed, and the
\* lock is kept across the awaits that follow.
TakeVerify(t) ==
    LET m == task[t].msg
        state == handshake_states[m.peer]
    IN  /\ MayEnter(t) /\ Expects(t, {"WaitingClientVerify"})
        /\ Matches(m, state)
        /\ replies' = replies \union {ServerVerify(m.peer, state.attempt, state.sid)}
        /\ handshake_states' = [handshake_states EXCEPT ![m.peer].completed = TRUE]
        /\ states_lock' = t
        /\ task' = [task EXCEPT ![t].pc = "add"]
        /\ UNCHANGED <<peer, wire, manager, drawn, client_sessions, handler, registry>>

\* SERVER_VERIFY cannot be sent: the handshake is Completed all the same.
VerifyNotSent(t) ==
    LET m == task[t].msg
    IN  /\ MayEnter(t) /\ Expects(t, {"WaitingClientVerify"})
        /\ Matches(m, handshake_states[m.peer])
        /\ SendMayFail
        /\ handshake_states' = [handshake_states EXCEPT ![m.peer].completed = TRUE]
        /\ task' = [task EXCEPT ![t] = Idle]
        /\ UNCHANGED <<peer, wire, replies, states_lock, manager, drawn,
                       client_sessions, handler, registry>>

\* Mutant: the entry is removed when its handshake fails.
RefuseVerifyRemoving(t) ==
    LET m == task[t].msg
    IN  /\ MayEnter(t) /\ Expects(t, {"WaitingClientVerify"})
        /\ ~Matches(m, handshake_states[m.peer])
        /\ handshake_states' = [handshake_states EXCEPT ![m.peer] = Absent]
        /\ task' = [task EXCEPT ![t] = Idle]
        /\ UNCHANGED <<peer, wire, replies, states_lock, manager,
                       drawn, client_sessions, handler, registry>>

\* Anything else while a CLIENT_VERIFY is due is an error that changes nothing.
RefuseVerify(t) ==
    LET m == task[t].msg
    IN  /\ MayEnter(t) /\ Expects(t, {"WaitingClientVerify"})
        /\ ~Matches(m, handshake_states[m.peer])
        /\ task' = [task EXCEPT ![t] = Idle]
        /\ UNCHANGED <<peer, wire, replies, handshake_states, states_lock, manager,
                       drawn, client_sessions, handler, registry>>

StoredSid(t) == handshake_states[task[t].msg.peer].sid

Full(sid) == Cardinality(manager) >= MaxSessions \/ sid \in manager

AddSession(t) ==
    /\ task[t].pc = "add"
    /\ ~Full(StoredSid(t))
    /\ manager' = manager \union {StoredSid(t)}
    /\ task' = [task EXCEPT ![t].pc = "insert"]
    /\ UNCHANGED <<peer, wire, replies, handshake_states, states_lock, drawn,
                   client_sessions, handler, registry>>

\* add_session(...)? returns out of the handler; the entry stays as it is.
AddFails(t) ==
    /\ task[t].pc = "add"
    /\ Full(StoredSid(t))
    /\ states_lock' = None
    /\ task' = [task EXCEPT ![t] = Idle]
    /\ UNCHANGED <<peer, wire, replies, handshake_states, manager, drawn,
                   client_sessions, handler, registry>>

\* Mutant: the handler returns after the insertion.
InsertSessionOnly(t) ==
    /\ task[t].pc = "insert" /\ ~TablesHeld
    /\ client_sessions' = [client_sessions EXCEPT ![task[t].msg.peer] = StoredSid(t)]
    /\ states_lock' = None
    /\ task' = [task EXCEPT ![t] = Idle]
    /\ UNCHANGED <<peer, wire, replies, handshake_states, manager,
                   drawn, handler, registry>>

InsertSession(t) ==
    /\ task[t].pc = "insert" /\ ~TablesHeld
    /\ client_sessions' = [client_sessions EXCEPT ![task[t].msg.peer] = StoredSid(t)]
    /\ task' = [task EXCEPT ![t].pc = "spawn"]
    /\ UNCHANGED <<peer, wire, replies, handshake_states, states_lock, manager,
                   drawn, handler, registry>>

SpawnHandler(t) ==
    LET p == task[t].msg.peer
    IN  /\ task[t].pc = "spawn"
        /\ handler' = [handler EXCEPT ![p] = "spawned"]
        /\ handshake_states' = [handshake_states EXCEPT ![p] = Absent]
        /\ states_lock' = None
        /\ task' = [task EXCEPT ![t] = Idle]
        /\ UNCHANGED <<peer, wire, replies, manager, drawn, client_sessions, registry>>

Handle(t) ==
    \/ LookUp(t) \/ HandleVpn(t)
    \/ \E sid \in SessionIds : TakeHello(t, sid)
    \/ RefuseHello(t) \/ TakeVerify(t) \/ VerifyNotSent(t) \/ RefuseVerify(t)
    \/ AddSession(t) \/ AddFails(t) \/ InsertSession(t) \/ SpawnHandler(t)

-----------------------------------------------------------------------------
(* The handler of one client, and the cleanup task.                        *)

HandlerIp(p) == VpnIp(client_sessions[p])

\* register_client inserts whatever was there before.
Register(p) ==
    /\ handler[p] = "spawned" /\ ~TablesHeld
    /\ registry' = [registry EXCEPT ![HandlerIp(p)] = p]
    /\ handler' = [handler EXCEPT ![p] = "running"]
    /\ UNCHANGED <<peer, wire, replies, task, handshake_states, states_lock,
                   manager, drawn, client_sessions>>

\* The send task ends: its channel is closed because the registry dropped the
\* sender, or a packet could not be sent.
SendTaskEnds(p) ==
    /\ handler[p] = "running"
    /\ registry[HandlerIp(p)] # p \/ SendMayFail
    /\ handler' = [handler EXCEPT ![p] = "ending"]
    /\ UNCHANGED <<peer, wire, replies, task, handshake_states, states_lock,
                   manager, drawn, client_sessions, registry>>

\* unregister_client removes whatever is stored under the address.
Unregister(p) ==
    /\ handler[p] = "ending" /\ ~TablesHeld
    /\ registry' = [registry EXCEPT ![HandlerIp(p)] = None]
    /\ handler' = [handler EXCEPT ![p] = "ended"]
    /\ UNCHANGED <<peer, wire, replies, task, handshake_states, states_lock,
                   manager, drawn, client_sessions>>

HandlerStep(p) == Register(p) \/ SendTaskEnds(p) \/ Unregister(p)

\* cleanup_expired takes sessions out of the manager only.
Cleanup(gone) ==
    /\ gone \subseteq manager /\ gone # {}
    /\ manager' = manager \ gone
    /\ UNCHANGED <<peer, wire, replies, task, handshake_states, states_lock,
                   drawn, client_sessions, handler, registry>>

Next ==
    \/ \E p \in Peers : PeerStep(p) \/ HandlerStep(p)
    \/ \E t \in Tasks, m \in wire : Receive(t, m)
    \/ \E t \in Tasks : Handle(t) \/ VpnEnds(t)
    \/ \E gone \in SUBSET manager : Cleanup(gone)

Spec == Init /\ [][Next]_vars

\* Tasks that were spawned run, and datagrams may be lost all the same. The
\* locks are queues (tokio::sync::RwLock): who waits for one gets it if it is
\* free again and again, which is what strong fairness says. Nothing is said
\* of how long a VPN packet keeps the tables.
FairSpec ==
    /\ Spec
    /\ \A t \in Tasks : SF_vars(Handle(t))
    /\ \A p \in Peers : SF_vars(Register(p))

-----------------------------------------------------------------------------
(* Properties.                                                             *)

Messages ==
    [type : {"hello"}, peer : Peers, attempt : 0..MaxRestarts] \union
    [type : {"verify"}, peer : Peers, attempt : 0..MaxRestarts, sid : SessionIds] \union
    [type : {"data"}, peer : Peers, sid : SessionIds]

TypeOK ==
    /\ peer \in [Peers -> [phase : {"idle", "helloSent", "verifySent", "connected"},
                           attempt : 0..MaxRestarts, sid : SessionIds \union {None}]]
    /\ wire \subseteq Messages
    /\ replies \subseteq [type : {"hello"}, peer : Peers, sid : SessionIds] \union
                         [type : {"verify"}, peer : Peers, attempt : 0..MaxRestarts,
                          sid : SessionIds]
    /\ task \in [Tasks -> {Idle} \union
                          [pc : {"spawned", "vpn", "routing", "handshake", "add", "insert",
                                 "spawn"},
                           msg : Messages]]
    /\ handshake_states \in
          [Peers -> {Absent, WaitingClientHello} \union
                    [kind : {"WaitingClientVerify"}, sid : SessionIds,
                     attempt : 0..MaxRestarts, completed : BOOLEAN]]
    /\ states_lock \in Tasks \union {None}
    /\ manager \subseteq drawn
    /\ drawn \subseteq SessionIds
    /\ client_sessions \in [Peers -> SessionIds \union {None}]
    /\ handler \in [Peers -> {"none", "spawned", "running", "ending", "ended"}]
    /\ registry \in [Addresses -> Peers \union {None}]
    /\ \A p \in Peers : client_sessions[p] # None => HandlerIp(p) \in Addresses

Admitting(t) == task[t].pc \in {"add", "insert", "spawn"}

\* A task between SERVER_VERIFY and the spawning of the handler is alone in
\* the handshake table, and the run it admits is the one it verified: nobody
\* replaces or removes the entry it still reads (listener.rs:143-239).
AdmissionUndisturbed ==
    \A t \in Tasks :
        /\ Admitting(t) <=> states_lock = t
        /\ Admitting(t) =>
              LET m == task[t].msg
              IN  handshake_states[m.peer] = WaitingClientVerify(m.sid, m.attempt, TRUE)

\* The session of an address is never replaced, although a task may look for
\* it before it exists and run the handshake handler after (the gap between
\* listener.rs:127-130 and 143), and although a client may restart.
SessionNeverReplaced ==
    [][\A p \in Peers : client_sessions[p] # None
            => client_sessions'[p] = client_sessions[p]]_vars

\* A client that believes it is connected and the server that serves its
\* address mean the same session.
SameSession ==
    \A p \in Peers :
        (peer[p].phase = "connected" /\ client_sessions[p] # None)
            => client_sessions[p] = peer[p].sid

\* The entry of a run that completed its handshake, without a session and
\* without a task that would make one.
Stranded(p) ==
    /\ client_sessions[p] = None
    /\ handshake_states[p].kind = "WaitingClientVerify"
    /\ handshake_states[p].completed
    /\ \A t \in Tasks : Admitting(t) => task[t].msg.peer # p

\* A connected client is served, about to be served, or stranded: nothing
\* else can come of a SERVER_VERIFY that was sent (listener.rs:175-239).
ConnectedIsServed ==
    \A p \in Peers :
        peer[p].phase = "connected" =>
            \/ client_sessions[p] # None
            \/ \E t \in Tasks : Admitting(t) /\ task[t].msg.peer = p
            \/ Stranded(p)

\* A running handler can be reached: the registry holds its channel under its
\* VPN address (the registry keeps the active ClientHandlers and the route
\* from VPN address to channel, client_registry.rs:3-6).
RunningIsRegistered ==
    \A p \in Peers : handler[p] = "running" => registry[HandlerIp(p)] = p

\* Nothing frees a stranded address: not a restarted client's CLIENT_HELLO, not
\* a repeated CLIENT_VERIFY, not the cleanup task (listener.rs:146 finds the
\* entry, 168-173 refuses whatever comes, and no code but 239 removes it).
StrandedStays == [][\A p \in Peers : Stranded(p) => Stranded(p)']_vars

\* A completed handshake comes to an end one way or the other: the handler of
\* the client gets to run, or the address is stranded. Only VPN tasks that keep
\* the tables for ever can prevent it, as one that waits behind a quiet TUN
\* device does (listener.rs:209 and client_registry.rs:37 wait for the tables).
CompletedIsServed ==
    \/ <>[]TablesHeld
    \/ \A p \in Peers :
          (handshake_states[p].kind = "WaitingClientVerify" /\ handshake_states[p].completed)
              ~> (handler[p] = "running" \/ Stranded(p))
=============================================================================
