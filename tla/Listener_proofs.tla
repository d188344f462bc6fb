---------------------------- MODULE Listener_proofs ----------------------------
(***************************************************************************)
(* Proofs about Listener, for any number of addresses, ids and tasks, any  *)
(* limit and any number of restarts: nobody disturbs an admission, an      *)
(* address is admitted at most once, the client and the server mean the    *)
(* same session, and a running handler loses its route to a client of the  *)
(* same VPN address only.                                                  *)
(***************************************************************************)
EXTENDS Listener, TLAPS

(* The inductive invariant.                                                *)

VerifyDue(p) == handshake_states[p].kind = "WaitingClientVerify"

\* A task admits a client that has no session yet, or it has just made it.
AdmittedOnce ==
    \A t \in Tasks :
        /\ task[t].pc \in {"add", "insert"} => client_sessions[task[t].msg.peer] = None
        /\ task[t].pc = "spawn" => client_sessions[task[t].msg.peer] = StoredSid(t)

\* Whatever names an id names one that was drawn.
IdsAreDrawn ==
    /\ \A m \in wire : m.type = "verify" => m.sid \in drawn
    /\ \A r \in replies : r.sid \in drawn
    /\ \A t \in Tasks : (task[t].pc # "idle" /\ task[t].msg.type = "verify")
                           => task[t].msg.sid \in drawn
    /\ \A p \in Peers : /\ VerifyDue(p) => handshake_states[p].sid \in drawn
                        /\ client_sessions[p] # None => client_sessions[p] \in drawn

\* A task that missed the session of its peer, because it looked before there
\* was one, does not hold the CLIENT_VERIFY that a later handshake waits for.
NoStaleVerify ==
    \A p \in Peers, t \in Tasks :
        (/\ client_sessions[p] # None
         /\ VerifyDue(p) /\ ~handshake_states[p].completed
         /\ task[t].pc = "handshake" /\ task[t].msg.peer = p /\ task[t].msg.type = "verify")
            => task[t].msg.sid # handshake_states[p].sid

\* A SERVER_VERIFY is that of the session of its peer, or of the completed
\* entry that there is instead.
VerifyIsKept ==
    \A r \in replies : r.type = "verify" =>
        \/ client_sessions[r.peer] = r.sid
        \/ /\ client_sessions[r.peer] = None
           /\ VerifyDue(r.peer) /\ handshake_states[r.peer].completed
           /\ handshake_states[r.peer].sid = r.sid

ConnectedWasVerified ==
    \A p \in Peers : peer[p].phase = "connected"
        => ServerVerify(p, peer[p].attempt, peer[p].sid) \in replies

Owns(p, sid) == client_sessions[p] = sid \/ (VerifyDue(p) /\ handshake_states[p].sid = sid)

\* An id belongs to one address.
OneOwner == \A p, q \in Peers, sid \in SessionIds : Owns(p, sid) /\ Owns(q, sid) => p = q

HandledHasSession == \A p \in Peers : handler[p] # "none" => client_sessions[p] # None

\* The VPN addresses of p and q are the same one.
Collide(p, q) == p # q /\ client_sessions[q] # None /\ HandlerIp(q) = HandlerIp(p)

\* A running handler that the registry does not know has a rival for its
\* address.
LostToCollision ==
    \A p \in Peers : (handler[p] = "running" /\ registry[HandlerIp(p)] # p)
        => \E q \in Peers : Collide(p, q)

ListenerInv ==
    /\ TypeOK /\ AdmissionUndisturbed /\ AdmittedOnce /\ IdsAreDrawn
    /\ NoStaleVerify /\ VerifyIsKept /\ ConnectedWasVerified
    /\ OneOwner /\ HandledHasSession /\ LostToCollision

Places == {"spawned", "vpn", "routing", "handshake", "add", "insert", "spawn"}

-----------------------------------------------------------------------------
(* Types.                                                                  *)

Working == [pc : Places, msg : Messages]

Peer == [phase : {"idle", "helloSent", "verifySent", "connected"},
         attempt : 0..MaxRestarts, sid : SessionIds \union {None}]

Entries == {Absent, WaitingClientHello} \union
           [kind : {"WaitingClientVerify"}, sid : SessionIds,
            attempt : 0..MaxRestarts, completed : BOOLEAN]

(* A task that is not idle has a place and a datagram.                     *)
LEMMA BusyTask ==
    ASSUME TypeOK, NEW t \in Tasks, task[t].pc # "idle"
    PROVE  task[t] \in Working /\ task[t].msg \in Messages /\ task[t].msg.peer \in Peers
BY DEF TypeOK, Idle, Working, Places, Messages

(* A task goes on to place x with its datagram, and no other task moves.   *)
LEMMA TaskMoves ==
    ASSUME TypeOK, NEW t \in Tasks, task[t].pc # "idle", NEW x \in Places,
           task' = [task EXCEPT ![t].pc = x]
    PROVE  /\ task' \in [Tasks -> {Idle} \union Working]
           /\ task'[t].pc = x /\ task'[t].msg = task[t].msg
           /\ \A u \in Tasks \ {t} : task'[u] = task[u]
<1>1. task[t] \in Working /\ task \in [Tasks -> {Idle} \union Working]
  BY BusyTask DEF TypeOK, Working, Places
<1>2. [task[t] EXCEPT !.pc = x] \in Working
  BY <1>1 DEF Working
<1>3. task'[t] = [task[t] EXCEPT !.pc = x]
  BY <1>1
<1>4. task'[t].pc = x /\ task'[t].msg = task[t].msg
  BY <1>1, <1>3 DEF Working
<1> QED
  BY <1>1, <1>2, <1>3, <1>4

(* A task returns, and no other task moves.                                *)
LEMMA TaskEnds ==
    ASSUME TypeOK, NEW t \in Tasks, task' = [task EXCEPT ![t] = Idle]
    PROVE  /\ task' \in [Tasks -> {Idle} \union Working]
           /\ task'[t].pc = "idle"
           /\ \A u \in Tasks \ {t} : task'[u] = task[u]
BY DEF TypeOK, Working, Places, Idle

(* A task takes up a datagram.                                             *)
LEMMA TaskStarts ==
    ASSUME TypeOK, NEW t \in Tasks, NEW m \in wire, Receive(t, m)
    PROVE  /\ task' \in [Tasks -> {Idle} \union Working]
           /\ task'[t].pc = "spawned" /\ task'[t].msg = m /\ m \in Messages
           /\ \A u \in Tasks \ {t} : task'[u] = task[u]
BY DEF TypeOK, Working, Places, Receive

(* The entry that an admission waits for.                                  *)
LEMMA VerifyEntry ==
    ASSUME TypeOK, NEW p \in Peers, handshake_states[p].kind = "WaitingClientVerify"
    PROVE  /\ handshake_states[p] \in [kind : {"WaitingClientVerify"}, sid : SessionIds,
                                      attempt : 0..MaxRestarts, completed : BOOLEAN]
           /\ handshake_states[p] = WaitingClientVerify(handshake_states[p].sid,
                  handshake_states[p].attempt, handshake_states[p].completed)
           /\ handshake_states[p].sid \in SessionIds
           /\ handshake_states[p].attempt \in 0..MaxRestarts
           /\ handshake_states[p].completed \in BOOLEAN
BY DEF TypeOK, Absent, WaitingClientHello, WaitingClientVerify

(* The entry once its handshake is completed.                              *)
LEMMA EntryCompleted ==
    ASSUME NEW e \in [kind : {"WaitingClientVerify"}, sid : SessionIds,
                      attempt : 0..MaxRestarts, completed : BOOLEAN]
    PROVE  LET done == [e EXCEPT !.completed = TRUE]
           IN  /\ done \in [kind : {"WaitingClientVerify"}, sid : SessionIds,
                             attempt : 0..MaxRestarts, completed : BOOLEAN]
               /\ done.sid = e.sid /\ done.attempt = e.attempt /\ done.completed
OBVIOUS

(* No id is None, and every id has an address in the pool.                 *)
LEMMA IdFacts ==
    ASSUME NEW sid \in SessionIds
    PROVE  sid # None /\ VpnIp(sid) \in Addresses
<1>1. sid \in Nat /\ AddressPool \in Nat \ {0} /\ None \notin Nat
  BY ListenerAssumption
<1>2. sid % AddressPool \in 0..(AddressPool - 1)
  BY <1>1
<1> QED
  BY <1>1, <1>2 DEF VpnIp, Addresses

(* What an admission has in its hands.                                     *)
LEMMA AdmissionHolds ==
    ASSUME ListenerInv, NEW t \in Tasks, Admitting(t)
    PROVE  /\ states_lock = t /\ states_lock # None /\ task[t].pc # "idle"
           /\ task[t].msg.peer \in Peers /\ VerifyDue(task[t].msg.peer)
           /\ handshake_states[task[t].msg.peer].completed
           /\ StoredSid(t) \in drawn /\ StoredSid(t) \in SessionIds /\ StoredSid(t) # None
           /\ \A u \in Tasks : Admitting(u) => u = t
<1>1. TypeOK /\ AdmissionUndisturbed /\ IdsAreDrawn
  BY DEF ListenerInv
<1>2. /\ states_lock = t /\ \A u \in Tasks : Admitting(u) => u = t
      /\ handshake_states[task[t].msg.peer] =
            WaitingClientVerify(task[t].msg.sid, task[t].msg.attempt, TRUE)
  BY <1>1 DEF AdmissionUndisturbed
<1>5. VerifyDue(task[t].msg.peer) /\ handshake_states[task[t].msg.peer].completed
  BY <1>2 DEF WaitingClientVerify, VerifyDue
<1>3. task[t].pc # "idle" /\ task[t].msg.peer \in Peers
  BY <1>1, BusyTask DEF Admitting
<1>4. StoredSid(t) \in drawn /\ StoredSid(t) \in SessionIds
  BY <1>1, <1>3, <1>5, VerifyEntry DEF StoredSid, IdsAreDrawn, VerifyDue
<1> QED
  BY <1>2, <1>3, <1>4, <1>5, IdFacts, ListenerAssumption

(* A handler of handshake packets that may enter is alone.                 *)
LEMMA EnteringAlone ==
    ASSUME ListenerInv, NEW t \in Tasks, MayEnter(t)
    PROVE  /\ task[t].pc # "idle" /\ task[t].msg \in Messages /\ task[t].msg.peer \in Peers
           /\ ~Admitting(t) /\ \A u \in Tasks : ~Admitting(u)
<1>1. TypeOK /\ AdmissionUndisturbed
  BY DEF ListenerInv
<1> QED
  BY <1>1, BusyTask, ListenerAssumption DEF MayEnter, AdmissionUndisturbed, Admitting

LEMMA TypesInit == Init => TypeOK
BY ListenerAssumption DEF Init, TypeOK, Idle, Absent

(* The sessions keep their type: so does the address of each.              *)
LEMMA SessionsTyped ==
    ASSUME client_sessions \in [Peers -> SessionIds \union {None}]
    PROVE  \A p \in Peers : client_sessions[p] # None => HandlerIp(p) \in Addresses
BY IdFacts DEF HandlerIp

(* What a peer says and becomes.                                           *)
LEMMA SaysTypes ==
    ASSUME TypeOK, NEW p \in Peers, NEW phase \in {"helloSent", "verifySent", "connected"},
           NEW sid \in SessionIds \union {None}, NEW m \in Messages,
           PeerSays(p, phase, sid, m)
    PROVE  TypeOK'
<1>1. peer \in [Peers -> Peer] /\ wire \subseteq Messages
  BY DEF TypeOK, Peer
<1>2. peer' = [peer EXCEPT ![p].phase = phase, ![p].sid = sid]
  BY DEF PeerSays
<1>3. peer' \in [Peers -> Peer] /\ wire' \subseteq Messages
  <2>1. [peer[p] EXCEPT !.phase = phase, !.sid = sid] \in Peer
    <3>1. peer[p] \in Peer
      BY <1>1
    <3> QED
      BY <3>1 DEF Peer
  <2>2. peer' = [peer EXCEPT ![p] = [peer[p] EXCEPT !.phase = phase, !.sid = sid]]
    BY <1>1, <1>2
  <2>3. wire' \subseteq Messages
    BY <1>1 DEF PeerSays
  <2> QED
    BY <1>1, <2>1, <2>2, <2>3
<1> QED
  BY <1>3 DEF Peer, PeerSays, serverVars, TypeOK, HandlerIp

LEMMA PeerTypes ==
    ASSUME ListenerInv, NEW p \in Peers, PeerStep(p)
    PROVE  TypeOK'
<1>1. TypeOK /\ \A q \in Peers : client_sessions[q] # None => HandlerIp(q) \in Addresses
  BY DEF ListenerInv, TypeOK
<1>2. CASE PeerStarts(p)
  <2>1. Hello(p, peer[p].attempt) \in Messages
    BY <1>1 DEF TypeOK, Hello, Messages
  <2> QED
    BY <1>1, <1>2, <2>1, SaysTypes DEF PeerStarts
<1>3. CASE PeerAnswers(p)
  <2>1. PICK r \in replies :
           /\ r.type = "hello" /\ r.peer = p
           /\ PeerSays(p, "verifySent", r.sid, ClientVerify(p, peer[p].attempt, r.sid))
    BY <1>3 DEF PeerAnswers
  <2>2. r.sid \in SessionIds
    BY <1>1, <2>1 DEF TypeOK
  <2>3. ClientVerify(p, peer[p].attempt, r.sid) \in Messages
    BY <1>1, <2>2 DEF TypeOK, ClientVerify, Messages
  <2> QED
    BY <1>1, <2>1, <2>2, <2>3, SaysTypes
<1>4. CASE PeerConnects(p)
  <2>1. peer[p].sid \in SessionIds
    BY <1>1, <1>4 DEF PeerConnects, TypeOK, ServerVerify
  <2>2. Data(p, peer[p].sid) \in Messages
    BY <2>1 DEF Data, Messages
  <2> QED
    BY <1>1, <1>4, <2>1, <2>2, SaysTypes DEF PeerConnects
<1>5. CASE PeerRestarts(p)
  BY <1>1, <1>5, ListenerAssumption DEF PeerRestarts, serverVars, TypeOK, HandlerIp
<1> QED
  BY <1>2, <1>3, <1>4, <1>5 DEF PeerStep

LEMMA TaskTypes ==
    ASSUME ListenerInv, NEW t \in Tasks, Handle(t) \/ VpnEnds(t)
    PROVE  TypeOK'
<1> USE DEF Working, Places
<1>1. /\ TypeOK
      /\ \A q \in Peers : client_sessions[q] # None => HandlerIp(q) \in Addresses
  BY DEF ListenerInv, TypeOK
<1>2. CASE LookUp(t)
  <2>1. \/ task' = [task EXCEPT ![t].pc = "vpn"]
        \/ task' = [task EXCEPT ![t].pc = "handshake"]
    BY <1>2 DEF LookUp
  <2>2. task' \in [Tasks -> {Idle} \union Working]
    BY <1>1, <1>2, <2>1, TaskMoves DEF LookUp
  <2> QED
    BY <1>1, <1>2, <2>2 DEF LookUp, TypeOK, HandlerIp
<1>3. CASE HandleVpn(t) \/ VpnEnds(t)
  <2>1. task' \in [Tasks -> {Idle} \union Working]
    BY <1>1, <1>3, TaskMoves, TaskEnds DEF HandleVpn, VpnEnds
  <2> QED
    BY <1>1, <1>3, <2>1 DEF HandleVpn, VpnEnds, TypeOK, HandlerIp
<1>4. ASSUME NEW sid \in SessionIds, TakeHello(t, sid) PROVE TypeOK'
  <2> DEFINE m == task[t].msg
  <2>1. m \in Messages /\ m.type = "hello" /\ m.peer \in Peers
    BY <1>4, EnteringAlone DEF TakeHello
  <2>2. m.attempt \in 0..MaxRestarts
    BY <2>1 DEF Messages
  <2>3. WaitingClientVerify(sid, m.attempt, FALSE) \in Entries
    BY <2>2 DEF WaitingClientVerify, Entries
  <2>4. ServerHello(m.peer, sid) \in [type : {"hello"}, peer : Peers, sid : SessionIds]
    BY <2>1 DEF ServerHello
  <2>5. task' \in [Tasks -> {Idle} \union Working]
    BY <1>1, <1>4, TaskEnds DEF TakeHello
  <2> HIDE DEF m
  <2> QED
    BY <1>1, <1>4, <2>3, <2>4, <2>5 DEF TakeHello, TypeOK, Entries, HandlerIp, m
<1>5. CASE RefuseHello(t)
  BY <1>1, <1>5, TaskEnds DEF RefuseHello, TypeOK, HandlerIp, WaitingClientHello
<1>6. CASE TakeVerify(t) \/ VerifyNotSent(t)
  <2> DEFINE m == task[t].msg
             state == handshake_states[m.peer]
  <2>1. m \in Messages /\ m.peer \in Peers
    BY <1>6, EnteringAlone DEF TakeVerify, VerifyNotSent
  <2>2. /\ state \in [kind : {"WaitingClientVerify"}, sid : SessionIds,
                       attempt : 0..MaxRestarts, completed : BOOLEAN]
        /\ state.sid \in SessionIds /\ state.attempt \in 0..MaxRestarts
    BY <1>1, <1>6, <2>1, VerifyEntry DEF TakeVerify, VerifyNotSent, Expects
  <2>3. [state EXCEPT !.completed = TRUE] \in Entries
    BY <2>2, EntryCompleted DEF Entries
  <2>4. ServerVerify(m.peer, state.attempt, state.sid) \in
           [type : {"verify"}, peer : Peers, attempt : 0..MaxRestarts, sid : SessionIds]
    BY <2>1, <2>2 DEF ServerVerify
  <2>5. handshake_states' \in [Peers -> Entries]
    <3>1. handshake_states' = [handshake_states EXCEPT ![m.peer] = [state EXCEPT !.completed = TRUE]]
      BY <1>6 DEF TakeVerify, VerifyNotSent
    <3> QED
      BY <1>1, <2>3, <3>1 DEF TypeOK, Entries
  <2>6. task' \in [Tasks -> {Idle} \union Working]
    BY <1>1, <1>6, TaskMoves, TaskEnds, EnteringAlone DEF TakeVerify, VerifyNotSent
  <2> HIDE DEF m, state
  <2>7. CASE TakeVerify(t)
    BY <1>1, <2>4, <2>5, <2>6, <2>7 DEF TakeVerify, TypeOK, Entries, HandlerIp, m, state
  <2>8. CASE VerifyNotSent(t)
    BY <1>1, <2>5, <2>6, <2>8 DEF VerifyNotSent, TypeOK, Entries, HandlerIp
  <2> QED
    BY <1>6, <2>7, <2>8
<1>7. CASE RefuseVerify(t)
  BY <1>1, <1>7, TaskEnds DEF RefuseVerify, TypeOK, HandlerIp
<1>8. CASE AddSession(t)
  <2>1. StoredSid(t) \in drawn /\ task[t].pc # "idle"
    BY <1>8, AdmissionHolds DEF AddSession, Admitting
  <2>2. task' \in [Tasks -> {Idle} \union Working]
    BY <1>1, <1>8, <2>1, TaskMoves DEF AddSession
  <2> QED
    BY <1>1, <1>8, <2>1, <2>2 DEF AddSession, TypeOK, HandlerIp
<1>9. CASE AddFails(t)
  BY <1>1, <1>9, TaskEnds DEF AddFails, TypeOK, HandlerIp
<1>10. CASE InsertSession(t)
  <2>1. StoredSid(t) \in SessionIds /\ task[t].pc # "idle"
    BY <1>10, AdmissionHolds DEF InsertSession, Admitting
  <2>2. task' \in [Tasks -> {Idle} \union Working]
    BY <1>1, <1>10, <2>1, TaskMoves DEF InsertSession
  <2>3. client_sessions' \in [Peers -> SessionIds \union {None}]
    BY <1>1, <1>10, <2>1 DEF InsertSession, TypeOK
  <2>4. \A p \in Peers : client_sessions'[p] # None => HandlerIp(p)' \in Addresses
    BY <2>3, IdFacts DEF HandlerIp
  <2> QED
    BY <1>1, <1>10, <2>2, <2>3, <2>4 DEF InsertSession, TypeOK
<1>11. CASE SpawnHandler(t)
  BY <1>1, <1>11, TaskEnds DEF SpawnHandler, TypeOK, HandlerIp, Absent
<1> QED
  BY <1>2, <1>3, <1>4, <1>5, <1>6, <1>7, <1>8, <1>9, <1>10, <1>11 DEF Handle, MayEnter

LEMMA TypesKept ==
    ASSUME ListenerInv, [Next]_vars
    PROVE  TypeOK'
<1>1. /\ TypeOK
      /\ \A q \in Peers : client_sessions[q] # None => HandlerIp(q) \in Addresses
  BY DEF ListenerInv, TypeOK
<1>2. ASSUME NEW p \in Peers, HandlerStep(p) PROVE TypeOK'
  BY <1>1, <1>2 DEF HandlerStep, Register, SendTaskEnds, Unregister, TypeOK, HandlerIp
<1>3. ASSUME NEW t \in Tasks, NEW m \in wire, Receive(t, m) PROVE TypeOK'
  BY <1>1, <1>3, TaskStarts DEF Receive, TypeOK, HandlerIp, Working, Places
<1>4. ASSUME NEW gone \in SUBSET manager, Cleanup(gone) PROVE TypeOK'
  BY <1>1, <1>4 DEF Cleanup, TypeOK, HandlerIp
<1>5. CASE UNCHANGED vars
  BY <1>1, <1>5 DEF vars, TypeOK, HandlerIp
<1> QED
  BY <1>2, <1>3, <1>4, <1>5, PeerTypes, TaskTypes DEF Next

-----------------------------------------------------------------------------
(* The admission.                                                          *)

(* Who takes a CLIENT_VERIFY finds its address without a session.          *)
LEMMA MatchIsFirst ==
    ASSUME ListenerInv, NEW t \in Tasks, MayEnter(t), Expects(t, {"WaitingClientVerify"}),
           Matches(task[t].msg, handshake_states[task[t].msg.peer])
    PROVE  /\ client_sessions[task[t].msg.peer] = None
           /\ VerifyDue(task[t].msg.peer) /\ ~handshake_states[task[t].msg.peer].completed
           /\ task[t].msg.sid = handshake_states[task[t].msg.peer].sid
           /\ task[t].msg.attempt = handshake_states[task[t].msg.peer].attempt
<1>1. task[t].msg.peer \in Peers /\ task[t].pc = "handshake"
  BY EnteringAlone DEF MayEnter
<1>2. /\ VerifyDue(task[t].msg.peer) /\ ~handshake_states[task[t].msg.peer].completed
      /\ task[t].msg = ClientVerify(task[t].msg.peer, handshake_states[task[t].msg.peer].attempt,
                                    handshake_states[task[t].msg.peer].sid)
  BY DEF Expects, Matches, VerifyDue
<1>3. /\ task[t].msg.type = "verify"
      /\ task[t].msg.sid = handshake_states[task[t].msg.peer].sid
      /\ task[t].msg.attempt = handshake_states[task[t].msg.peer].attempt
  BY <1>2 DEF ClientVerify
<1> QED
  BY <1>1, <1>2, <1>3 DEF ListenerInv, NoStaleVerify

LEMMA AdmissionKept ==
    ASSUME ListenerInv, [Next]_vars
    PROVE  AdmissionUndisturbed' /\ AdmittedOnce'
<1> DEFINE Goal == AdmissionUndisturbed' /\ AdmittedOnce'
<1>1. TypeOK /\ AdmissionUndisturbed /\ AdmittedOnce
  BY DEF ListenerInv
\* A step that changes nothing an admission rests on.
<1>2. ASSUME UNCHANGED <<task, handshake_states, states_lock, client_sessions>> PROVE Goal
  BY <1>1, <1>2 DEF AdmissionUndisturbed, AdmittedOnce, Admitting, StoredSid, WaitingClientVerify
\* A step of a task that admits nobody, before and after.
<1>3. ASSUME NEW t \in Tasks, ~Admitting(t), ~Admitting(t)',
             \A u \in Tasks \ {t} : task'[u] = task[u],
             UNCHANGED <<handshake_states, states_lock, client_sessions>>
      PROVE  Goal
  <2>1. \A u \in Tasks : /\ Admitting(u)' <=> Admitting(u)
                         /\ Admitting(u) => task'[u] = task[u] /\ StoredSid(u)' = StoredSid(u)
    BY <1>3 DEF Admitting, StoredSid
  <2>2. AdmissionUndisturbed'
    BY <1>1, <1>3, <2>1 DEF AdmissionUndisturbed
  <2>3. \A u \in Tasks : task'[u].pc \in {"add", "insert", "spawn"} => task'[u] = task[u]
    BY <2>1 DEF Admitting
  <2>4. AdmittedOnce'
    BY <1>1, <1>3, <2>1, <2>3 DEF AdmittedOnce, Admitting
  <2> QED
    BY <2>2, <2>4
\* A step after which nobody admits.
<1>4. ASSUME states_lock' = None, \A u \in Tasks : ~Admitting(u)' PROVE Goal
  BY <1>4, ListenerAssumption DEF AdmissionUndisturbed, AdmittedOnce, Admitting
\* A step of the task that admits.
<1>5. ASSUME NEW t \in Tasks, Admitting(t), NEW x \in {"insert", "spawn"},
             task' = [task EXCEPT ![t].pc = x],
             UNCHANGED <<handshake_states, states_lock>>,
             client_sessions'[task[t].msg.peer] = IF x = "insert" THEN None ELSE StoredSid(t)
      PROVE  Goal
  <2>1. /\ task'[t].pc = x /\ task'[t].msg = task[t].msg
        /\ \A u \in Tasks \ {t} : task'[u] = task[u]
    BY <1>1, <1>5, TaskMoves DEF Admitting, Places
  <2>2. \A u \in Tasks \ {t} : ~Admitting(u)
    BY <1>5, AdmissionHolds
  <2>3. AdmissionUndisturbed'
    BY <1>1, <1>5, <2>1, <2>2 DEF AdmissionUndisturbed, Admitting, WaitingClientVerify
  <2>4. AdmittedOnce'
    BY <1>1, <1>5, <2>1, <2>2 DEF AdmittedOnce, Admitting, StoredSid
  <2> QED
    BY <2>3, <2>4
<1> HIDE DEF Goal
<1>6. ASSUME NEW p \in Peers, PeerStep(p) \/ HandlerStep(p) PROVE Goal
  BY <1>2, <1>6 DEF PeerStep, PeerStarts, PeerAnswers, PeerConnects, PeerRestarts, PeerSays,
                    serverVars, HandlerStep, Register, SendTaskEnds, Unregister
<1>7. ASSUME NEW t \in Tasks, NEW m \in wire, Receive(t, m) PROVE Goal
  BY <1>1, <1>3, <1>7, TaskStarts DEF Receive, Admitting
<1>8. ASSUME NEW t \in Tasks, LookUp(t) \/ HandleVpn(t) \/ VpnEnds(t) PROVE Goal
  <2>1. /\ task'[t].pc \in {"vpn", "routing", "handshake", "idle"}
        /\ \A u \in Tasks \ {t} : task'[u] = task[u]
    BY <1>1, <1>8, TaskMoves, TaskEnds DEF LookUp, HandleVpn, VpnEnds, Places
  <2> QED
    BY <1>3, <1>8, <2>1 DEF LookUp, HandleVpn, VpnEnds, Admitting
<1>9. ASSUME NEW t \in Tasks,
             \/ \E sid \in SessionIds : TakeHello(t, sid)
             \/ RefuseHello(t) \/ VerifyNotSent(t) \/ RefuseVerify(t)
      PROVE  Goal
  <2>1. MayEnter(t) /\ task' = [task EXCEPT ![t] = Idle] /\ states_lock' = states_lock
    BY <1>9 DEF TakeHello, RefuseHello, VerifyNotSent, RefuseVerify
  <2>2. states_lock' = None /\ \A u \in Tasks : ~Admitting(u)
    BY <2>1, EnteringAlone DEF MayEnter
  <2>3. \A u \in Tasks : ~Admitting(u)'
    BY <1>1, <2>1, <2>2, TaskEnds DEF Admitting
  <2> QED
    BY <1>4, <2>2, <2>3
<1>10. ASSUME NEW t \in Tasks, TakeVerify(t) PROVE Goal
  <2> DEFINE p == task[t].msg.peer
  <2>1. /\ client_sessions[p] = None /\ VerifyDue(p) /\ p \in Peers
        /\ task[t].msg.sid = handshake_states[p].sid
        /\ task[t].msg.attempt = handshake_states[p].attempt
        /\ task[t].pc # "idle" /\ \A u \in Tasks : ~Admitting(u)
    BY <1>10, MatchIsFirst, EnteringAlone DEF TakeVerify
  <2>2. /\ task'[t].pc = "add" /\ task'[t].msg = task[t].msg
        /\ \A u \in Tasks \ {t} : task'[u] = task[u]
    BY <1>1, <1>10, <2>1, TaskMoves DEF TakeVerify, Places
  <2>3. handshake_states'[p] = WaitingClientVerify(task[t].msg.sid, task[t].msg.attempt, TRUE)
    <3>1. handshake_states'[p] = [handshake_states[p] EXCEPT !.completed = TRUE]
      BY <1>1, <1>10, <2>1 DEF TakeVerify, TypeOK
    <3>2. /\ handshake_states'[p] \in [kind : {"WaitingClientVerify"}, sid : SessionIds,
                                      attempt : 0..MaxRestarts, completed : BOOLEAN]
          /\ handshake_states'[p].sid = task[t].msg.sid
          /\ handshake_states'[p].attempt = task[t].msg.attempt
          /\ handshake_states'[p].completed
      BY <1>1, <2>1, <3>1, VerifyEntry, EntryCompleted DEF VerifyDue
    <3> QED
      BY <3>2 DEF WaitingClientVerify
  <2>4. \A u \in Tasks : Admitting(u)' <=> u = t
    BY <2>1, <2>2 DEF Admitting
  <2>5. AdmissionUndisturbed'
    BY <1>10, <2>2, <2>3, <2>4 DEF TakeVerify, AdmissionUndisturbed
  <2>6. AdmittedOnce'
    BY <1>10, <2>1, <2>2, <2>4 DEF TakeVerify, AdmittedOnce, Admitting
  <2> QED
    BY <2>5, <2>6 DEF Goal
<1>11. ASSUME NEW t \in Tasks, AddSession(t) PROVE Goal
  BY <1>1, <1>5, <1>11 DEF AddSession, AdmittedOnce, Admitting
<1>12. ASSUME NEW t \in Tasks, InsertSession(t) PROVE Goal
  <2>1. task[t].msg.peer \in Peers /\ Admitting(t)
    BY <1>12, AdmissionHolds DEF InsertSession, Admitting
  <2> QED
    BY <1>1, <1>5, <1>12, <2>1 DEF InsertSession, TypeOK
<1>13. ASSUME NEW t \in Tasks, AddFails(t) \/ SpawnHandler(t) PROVE Goal
  <2>1. Admitting(t) /\ states_lock' = None /\ task' = [task EXCEPT ![t] = Idle]
    BY <1>13 DEF AddFails, SpawnHandler, Admitting
  <2>2. \A u \in Tasks : ~Admitting(u)'
    BY <1>1, <2>1, TaskEnds, AdmissionHolds DEF Admitting
  <2> QED
    BY <1>4, <2>1, <2>2
<1>14. ASSUME NEW gone \in SUBSET manager, Cleanup(gone) PROVE Goal
  BY <1>2, <1>14 DEF Cleanup
<1>15. ASSUME UNCHANGED vars PROVE Goal
  BY <1>2, <1>15 DEF vars
<1> QED
  BY <1>6, <1>7, <1>8, <1>9, <1>10, <1>11, <1>12, <1>13, <1>14, <1>15 DEF Next, Handle, Goal

-----------------------------------------------------------------------------
(* One address.                                                            *)

Completed(p) == VerifyDue(p) /\ handshake_states[p].completed

\* What a step may do to the entry and the session of p: nothing, begin a
\* handshake with a fresh id, note a datagram that is none, complete the
\* handshake, make its session, or clear the entry.
AddressStep(p) ==
    \/ /\ handshake_states'[p] = handshake_states[p]
       /\ client_sessions'[p] = client_sessions[p]
    \/ /\ ~VerifyDue(p) /\ VerifyDue(p)' /\ ~Completed(p)'
       /\ handshake_states'[p].sid \in drawn' \ drawn
       /\ client_sessions'[p] = client_sessions[p]
    \/ /\ ~VerifyDue(p) /\ ~VerifyDue(p)'
       /\ client_sessions'[p] = client_sessions[p]
    \/ /\ VerifyDue(p) /\ ~Completed(p) /\ Completed(p)'
       /\ handshake_states'[p].sid = handshake_states[p].sid
       /\ client_sessions[p] = None /\ client_sessions'[p] = None
    \/ /\ Completed(p) /\ handshake_states'[p] = handshake_states[p]
       /\ client_sessions[p] = None /\ client_sessions'[p] = handshake_states[p].sid
       /\ \E t \in Tasks : Admitting(t) /\ task[t].msg.peer = p
    \/ /\ Completed(p) /\ ~VerifyDue(p)'
       /\ client_sessions[p] = handshake_states[p].sid
       /\ client_sessions'[p] = client_sessions[p]
       /\ \E t \in Tasks : Admitting(t) /\ task[t].msg.peer = p

(* At most one id is drawn in a step: no two addresses begin at once.      *)
OneBegins ==
    \A p, q \in Peers :
        (~VerifyDue(p) /\ VerifyDue(p)' /\ ~VerifyDue(q) /\ VerifyDue(q)') => p = q

LEMMA AddressSteps ==
    ASSUME ListenerInv, [Next]_vars
    PROVE  (\A p \in Peers : AddressStep(p)) /\ OneBegins /\ drawn \subseteq drawn'
<1> DEFINE Goal == (\A p \in Peers : AddressStep(p)) /\ OneBegins /\ drawn \subseteq drawn'
<1>1. /\ handshake_states \in [Peers -> Entries]
      /\ client_sessions \in [Peers -> SessionIds \union {None}]
      /\ TypeOK /\ AdmittedOnce
  BY DEF ListenerInv, TypeOK, Entries
\* A step that leaves all addresses alone.
<1>2. ASSUME UNCHANGED <<handshake_states, client_sessions, drawn>> PROVE Goal
  BY <1>2 DEF AddressStep, OneBegins, VerifyDue
\* A step that concerns the entry of one address.
<1>3. ASSUME NEW q \in Peers,
             \A p \in Peers \ {q} : handshake_states'[p] = handshake_states[p],
             UNCHANGED client_sessions, drawn \subseteq drawn', AddressStep(q)
      PROVE  Goal
  BY <1>3 DEF AddressStep, OneBegins, VerifyDue
<1> HIDE DEF Goal
<1>4. ASSUME NEW p \in Peers, PeerStep(p) \/ HandlerStep(p) PROVE Goal
  BY <1>2, <1>4 DEF PeerStep, PeerStarts, PeerAnswers, PeerConnects, PeerRestarts, PeerSays,
                    serverVars, HandlerStep, Register, SendTaskEnds, Unregister
<1>5. ASSUME NEW t \in Tasks, NEW m \in wire, Receive(t, m) PROVE Goal
  BY <1>2, <1>5 DEF Receive
<1>6. ASSUME NEW t \in Tasks,
             \/ LookUp(t) \/ HandleVpn(t) \/ VpnEnds(t)
             \/ RefuseVerify(t) \/ AddSession(t) \/ AddFails(t)
      PROVE  Goal
  BY <1>2, <1>6 DEF LookUp, HandleVpn, VpnEnds, RefuseVerify, AddSession, AddFails
<1>7. ASSUME NEW t \in Tasks, NEW sid \in SessionIds, TakeHello(t, sid) PROVE Goal
  <2> DEFINE e == WaitingClientVerify(sid, task[t].msg.attempt, FALSE)
  <2>p. PICK p \in Peers : p = task[t].msg.peer
    BY <1>7, EnteringAlone DEF TakeHello
  <2>1. p \in Peers /\ ~VerifyDue(p) /\ sid \notin drawn
    BY <1>7, <2>p, EnteringAlone DEF TakeHello, Expects, VerifyDue
  <2>2. handshake_states' = [handshake_states EXCEPT ![p] = e] /\ drawn' = drawn \union {sid}
    BY <1>7, <2>p DEF TakeHello
  <2>3. /\ handshake_states'[p] = e /\ client_sessions' = client_sessions
        /\ \A q \in Peers \ {p} : handshake_states'[q] = handshake_states[q]
    BY <1>1, <1>7, <2>1, <2>2 DEF TakeHello
  <2>4. e.kind = "WaitingClientVerify" /\ e.sid = sid /\ ~e.completed
    BY DEF WaitingClientVerify
  <2> HIDE DEF e
  <2>5. AddressStep(p)
    BY <2>1, <2>2, <2>3, <2>4 DEF AddressStep, VerifyDue, Completed
  <2> QED
    BY <1>3, <2>2, <2>3, <2>5
<1>8. ASSUME NEW t \in Tasks, RefuseHello(t) PROVE Goal
  <2>p. PICK p \in Peers : p = task[t].msg.peer
    BY <1>8, EnteringAlone DEF RefuseHello
  <2>1. ~VerifyDue(p)
    BY <1>8, <2>p, EnteringAlone DEF RefuseHello, Expects, VerifyDue
  <2>2. /\ handshake_states' = [handshake_states EXCEPT ![p] = WaitingClientHello]
        /\ UNCHANGED <<client_sessions, drawn>>
    BY <1>8, <2>p DEF RefuseHello
  <2>3. ~VerifyDue(p)' /\ \A q \in Peers \ {p} : handshake_states'[q] = handshake_states[q]
    BY <1>1, <2>2 DEF VerifyDue, WaitingClientHello
  <2>4. AddressStep(p)
    BY <2>1, <2>2, <2>3 DEF AddressStep
  <2> QED
    BY <1>3, <2>2, <2>3, <2>4
<1>9. ASSUME NEW t \in Tasks, TakeVerify(t) \/ VerifyNotSent(t) PROVE Goal
  <2>p. PICK p \in Peers : p = task[t].msg.peer
    BY <1>9, EnteringAlone DEF TakeVerify, VerifyNotSent
  <2> DEFINE e == [handshake_states[p] EXCEPT !.completed = TRUE]
  <2>1. client_sessions[p] = None /\ VerifyDue(p) /\ ~handshake_states[p].completed
    BY <1>9, <2>p, MatchIsFirst DEF TakeVerify, VerifyNotSent
  <2>2. /\ handshake_states' = [handshake_states EXCEPT ![p] = e]
        /\ UNCHANGED <<client_sessions, drawn>>
    BY <1>9, <2>p DEF TakeVerify, VerifyNotSent
  <2>3. handshake_states'[p] = e /\ \A q \in Peers \ {p} : handshake_states'[q] = handshake_states[q]
    BY <1>1, <2>2
  <2>4. e.kind = "WaitingClientVerify" /\ e.sid = handshake_states[p].sid /\ e.completed
    BY <1>1, <2>1, VerifyEntry, EntryCompleted DEF VerifyDue
  <2> HIDE DEF e
  <2>5. AddressStep(p)
    BY <2>1, <2>2, <2>3, <2>4 DEF AddressStep, VerifyDue, Completed
  <2> QED
    BY <1>3, <2>2, <2>3, <2>5
<1>10. ASSUME NEW t \in Tasks, InsertSession(t) PROVE Goal
  <2>p. PICK p \in Peers : p = task[t].msg.peer
    BY <1>10, AdmissionHolds DEF InsertSession, Admitting
  <2>1. Admitting(t) /\ Completed(p) /\ client_sessions[p] = None
    BY <1>1, <1>10, <2>p, AdmissionHolds DEF InsertSession, Admitting, AdmittedOnce, Completed
  <2>2. /\ client_sessions' = [client_sessions EXCEPT ![p] = handshake_states[p].sid]
        /\ UNCHANGED <<handshake_states, drawn>>
    BY <1>10, <2>p DEF InsertSession, StoredSid
  <2>3. client_sessions'[p] = handshake_states[p].sid
    BY <1>1, <2>1, <2>2
  <2>4. AddressStep(p)
    BY <2>p, <2>1, <2>2, <2>3 DEF AddressStep
  <2>5. \A q \in Peers \ {p} : client_sessions'[q] = client_sessions[q]
    BY <1>1, <2>2
  <2> QED
    BY <2>2, <2>4, <2>5 DEF AddressStep, OneBegins, VerifyDue, Goal
<1>11. ASSUME NEW t \in Tasks, SpawnHandler(t) PROVE Goal
  <2>p. PICK p \in Peers : p = task[t].msg.peer
    BY <1>11, AdmissionHolds DEF SpawnHandler, Admitting
  <2>1. /\ Admitting(t) /\ Completed(p)
        /\ client_sessions[p] = handshake_states[p].sid
    BY <1>1, <1>11, <2>p, AdmissionHolds DEF SpawnHandler, Admitting, AdmittedOnce, Completed, StoredSid
  <2>2. /\ handshake_states' = [handshake_states EXCEPT ![p] = Absent]
        /\ UNCHANGED <<client_sessions, drawn>>
    BY <1>11, <2>p DEF SpawnHandler
  <2>3. ~VerifyDue(p)' /\ \A q \in Peers \ {p} : handshake_states'[q] = handshake_states[q]
    BY <1>1, <2>2 DEF VerifyDue, Absent
  <2>4. AddressStep(p)
    BY <2>p, <2>1, <2>2, <2>3 DEF AddressStep
  <2> QED
    BY <1>3, <2>2, <2>3, <2>4
<1>12. ASSUME NEW gone \in SUBSET manager, Cleanup(gone) PROVE Goal
  BY <1>2, <1>12 DEF Cleanup
<1>13. ASSUME UNCHANGED vars PROVE Goal
  BY <1>2, <1>13 DEF vars
<1> QED
  BY <1>4, <1>5, <1>6, <1>7, <1>8, <1>9, <1>10, <1>11, <1>12, <1>13 DEF Next, Handle, Goal

-----------------------------------------------------------------------------
(* What is sent, and what the tasks carry.                                 *)

(* A SERVER_VERIFY is sent only by the step that completes its handshake.  *)
LEMMA ReplySteps ==
    ASSUME ListenerInv, [Next]_vars
    PROVE  /\ replies \subseteq replies'
           /\ \A r \in replies' \ replies :
                 /\ r.sid \in drawn'
                 /\ r.type = "verify" =>
                       /\ r.peer \in Peers /\ client_sessions'[r.peer] = None
                       /\ Completed(r.peer)' /\ handshake_states'[r.peer].sid = r.sid
<1> DEFINE Goal == /\ replies \subseteq replies'
                   /\ \A r \in replies' \ replies :
                         /\ r.sid \in drawn'
                         /\ r.type = "verify" =>
                               /\ r.peer \in Peers /\ client_sessions'[r.peer] = None
                               /\ Completed(r.peer)' /\ handshake_states'[r.peer].sid = r.sid
<1>1. CASE UNCHANGED replies
  BY <1>1
<1>2. ASSUME NEW t \in Tasks, NEW sid \in SessionIds, TakeHello(t, sid) PROVE Goal
  <2>1. /\ replies' = replies \union {ServerHello(task[t].msg.peer, sid)}
        /\ drawn' = drawn \union {sid}
    BY <1>2 DEF TakeHello
  <2>2. /\ ServerHello(task[t].msg.peer, sid).type = "hello"
        /\ ServerHello(task[t].msg.peer, sid).sid = sid
    BY DEF ServerHello
  <2> QED
    BY <2>1, <2>2
<1>3. ASSUME NEW t \in Tasks, TakeVerify(t) PROVE Goal
  <2>p. PICK p \in Peers : p = task[t].msg.peer
    BY <1>3, EnteringAlone DEF TakeVerify
  <2>1. PICK r : /\ r = ServerVerify(p, handshake_states[p].attempt, handshake_states[p].sid)
                 /\ replies' = replies \union {r}
    BY <1>3, <2>p DEF TakeVerify
  <2>2. r.type = "verify" /\ r.peer = p /\ r.sid = handshake_states[p].sid
    BY <2>1 DEF ServerVerify
  <2>3. client_sessions[p] = None /\ VerifyDue(p) /\ ~Completed(p)
    BY <1>3, <2>p, MatchIsFirst DEF TakeVerify, Completed
  <2>4. handshake_states'[p].completed
    <3>1. /\ handshake_states \in [Peers -> Entries]
          /\ handshake_states' = [handshake_states EXCEPT ![p].completed = TRUE]
      BY <1>3, <2>p DEF TakeVerify, ListenerInv, TypeOK, Entries
    <3>2. handshake_states'[p] = [handshake_states[p] EXCEPT !.completed = TRUE]
      BY <3>1
    <3> QED
      BY <2>3, <3>2, VerifyEntry, EntryCompleted DEF ListenerInv, VerifyDue
  <2>5. /\ AddressStep(p) /\ drawn \subseteq drawn' /\ handshake_states[p].sid \in drawn
        /\ client_sessions' = client_sessions
    BY <1>3, <2>3, AddressSteps DEF ListenerInv, IdsAreDrawn, TakeVerify
  <2>6. Completed(p)' /\ handshake_states'[p].sid = handshake_states[p].sid
    BY <2>3, <2>4, <2>5 DEF AddressStep, Completed, VerifyDue
  <2> QED
    BY <2>1, <2>2, <2>3, <2>5, <2>6
<1>4. ASSUME NEW p \in Peers, PeerStep(p) \/ HandlerStep(p) PROVE UNCHANGED replies
  BY <1>4 DEF PeerStep, PeerStarts, PeerAnswers, PeerConnects, PeerRestarts, PeerSays,
              serverVars, HandlerStep, Register, SendTaskEnds, Unregister
<1>5. ASSUME NEW t \in Tasks,
             \/ LookUp(t) \/ HandleVpn(t) \/ VpnEnds(t)
             \/ RefuseHello(t) \/ VerifyNotSent(t) \/ RefuseVerify(t)
             \/ AddSession(t) \/ AddFails(t) \/ InsertSession(t) \/ SpawnHandler(t)
             \/ \E m \in wire : Receive(t, m)
      PROVE  UNCHANGED replies
  BY <1>5 DEF LookUp, HandleVpn, VpnEnds, RefuseHello, VerifyNotSent, RefuseVerify, AddSession,
              AddFails, InsertSession, SpawnHandler, Receive
<1>6. ASSUME NEW gone \in SUBSET manager, Cleanup(gone) PROVE UNCHANGED replies
  BY <1>6 DEF Cleanup
<1>7. CASE UNCHANGED vars
  BY <1>1, <1>7 DEF vars
<1> HIDE DEF Goal
<1>8. UNCHANGED replies => Goal
  BY <1>1 DEF Goal
<1>9. UNCHANGED vars => Goal
  BY <1>7 DEF Goal
<1>10. Next => Goal
  BY <1>2, <1>3, <1>4, <1>5, <1>6, <1>8 DEF Next, Handle
<1> QED
  BY <1>9, <1>10 DEF Goal

(* A CLIENT_VERIFY is sent with the id of a SERVER_HELLO.                  *)
LEMMA WireSteps ==
    ASSUME ListenerInv, [Next]_vars
    PROVE  \A m \in wire' \ wire : m.type = "verify" => m.sid \in drawn
<1>1. ASSUME NEW p \in Peers, PeerStep(p)
      PROVE  \A m \in wire' \ wire : m.type = "verify" => m.sid \in drawn
  <2>1. CASE PeerStarts(p)
    BY <2>1 DEF PeerStarts, PeerSays, Hello
  <2>2. CASE PeerAnswers(p)
    BY <2>2 DEF PeerAnswers, PeerSays, ClientVerify, ListenerInv, IdsAreDrawn
  <2>3. CASE PeerConnects(p)
    BY <2>3 DEF PeerConnects, PeerSays, Data
  <2>4. CASE PeerRestarts(p)
    BY <2>4 DEF PeerRestarts
  <2> QED
    BY <1>1, <2>1, <2>2, <2>3, <2>4 DEF PeerStep
<1>2. ASSUME NEW p \in Peers, HandlerStep(p) PROVE UNCHANGED wire
  BY <1>2 DEF HandlerStep, Register, SendTaskEnds, Unregister
<1>3. ASSUME NEW t \in Tasks, Handle(t) \/ VpnEnds(t) \/ \E m \in wire : Receive(t, m)
      PROVE  UNCHANGED wire
  BY <1>3 DEF Handle, LookUp, HandleVpn, VpnEnds, TakeHello, RefuseHello, TakeVerify, VerifyNotSent,
              RefuseVerify, AddSession, AddFails, InsertSession, SpawnHandler, Receive
<1>4. ASSUME NEW gone \in SUBSET manager, Cleanup(gone) PROVE UNCHANGED wire
  BY <1>4 DEF Cleanup
<1>5. ASSUME UNCHANGED vars PROVE UNCHANGED wire
  BY <1>5 DEF vars
<1> QED
  BY <1>1, <1>2, <1>3, <1>4, <1>5 DEF Next

\* A task keeps its datagram until it ends; it goes to the handler of
\* handshake packets only when there is no session, and it begins to admit
\* only when the handshake is not yet completed.
TaskStep(t) ==
    task'[t].pc # "idle" =>
        \/ task'[t].pc = "spawned" /\ task'[t].msg \in wire
        \/ /\ task[t].pc # "idle" /\ task'[t].msg = task[t].msg
           /\ task'[t].pc = "handshake" =>
                 \/ task[t].pc = "handshake"
                 \/ client_sessions[task[t].msg.peer] = None
           /\ task'[t].pc \in {"add", "insert", "spawn"} =>
                 Admitting(t) \/ ~Completed(task[t].msg.peer)

LEMMA TaskSteps ==
    ASSUME ListenerInv, [Next]_vars
    PROVE  \A t \in Tasks : TaskStep(t)
<1> DEFINE Goal == \A t \in Tasks : TaskStep(t)
<1>1. TypeOK
  BY DEF ListenerInv
<1>2. ASSUME UNCHANGED task PROVE Goal
  BY <1>2 DEF TaskStep, Admitting
<1>3. ASSUME NEW t \in Tasks, \A u \in Tasks \ {t} : task'[u] = task[u], TaskStep(t) PROVE Goal
  BY <1>3 DEF TaskStep, Admitting
<1> HIDE DEF Goal
<1>4. ASSUME NEW t \in Tasks, NEW m \in wire, Receive(t, m) PROVE Goal
  BY <1>1, <1>3, <1>4, TaskStarts DEF TaskStep
<1>5. ASSUME NEW t \in Tasks, LookUp(t) PROVE Goal
  <2>1. CASE client_sessions[task[t].msg.peer] = None
    <3>1. task' = [task EXCEPT ![t].pc = "handshake"] /\ task[t].pc # "idle"
      BY <1>5, <2>1 DEF LookUp
    <3> QED
      BY <1>1, <1>3, <2>1, <3>1, TaskMoves DEF TaskStep, Places
  <2>2. CASE client_sessions[task[t].msg.peer] # None
    <3>1. task' = [task EXCEPT ![t].pc = "vpn"] /\ task[t].pc # "idle"
      BY <1>5, <2>2 DEF LookUp
    <3> QED
      BY <1>1, <1>3, <3>1, TaskMoves DEF TaskStep, Places
  <2> QED
    BY <2>1, <2>2
<1>6. ASSUME NEW t \in Tasks, TakeVerify(t) \/ AddSession(t) \/ InsertSession(t) PROVE Goal
  <2>1. Admitting(t) \/ ~Completed(task[t].msg.peer)
    BY <1>6, MatchIsFirst DEF TakeVerify, AddSession, InsertSession, Admitting, Completed
  <2>2. /\ task[t].pc # "idle"
        /\ \/ task' = [task EXCEPT ![t].pc = "add"]
           \/ task' = [task EXCEPT ![t].pc = "insert"]
           \/ task' = [task EXCEPT ![t].pc = "spawn"]
    BY <1>6, EnteringAlone DEF TakeVerify, AddSession, InsertSession
  <2> QED
    BY <1>1, <1>3, <2>1, <2>2, TaskMoves DEF TaskStep, Places
<1>7. ASSUME NEW t \in Tasks, task' = [task EXCEPT ![t] = Idle] PROVE Goal
  BY <1>1, <1>3, <1>7, TaskEnds DEF TaskStep
<1>8. ASSUME NEW t \in Tasks,
             \/ VpnEnds(t) \/ \E sid \in SessionIds : TakeHello(t, sid)
             \/ RefuseHello(t) \/ VerifyNotSent(t) \/ RefuseVerify(t)
             \/ AddFails(t) \/ SpawnHandler(t)
      PROVE  Goal
  BY <1>7, <1>8 DEF VpnEnds, TakeHello, RefuseHello, VerifyNotSent, RefuseVerify, AddFails,
                    SpawnHandler
<1>9. ASSUME NEW p \in Peers, PeerStep(p) \/ HandlerStep(p) PROVE Goal
  BY <1>2, <1>9 DEF PeerStep, PeerStarts, PeerAnswers, PeerConnects, PeerRestarts, PeerSays,
                    serverVars, HandlerStep, Register, SendTaskEnds, Unregister
<1>10. ASSUME NEW gone \in SUBSET manager, Cleanup(gone) PROVE Goal
  BY <1>2, <1>10 DEF Cleanup
<1>11. ASSUME UNCHANGED vars PROVE Goal
  BY <1>2, <1>11 DEF vars
<1>12. ASSUME NEW t \in Tasks, HandleVpn(t) PROVE Goal
  <2>1. task' = [task EXCEPT ![t].pc = "routing"] /\ task[t].pc # "idle"
    BY <1>12 DEF HandleVpn
  <2>2. /\ task'[t].pc = "routing" /\ task'[t].msg = task[t].msg
        /\ \A u \in Tasks \ {t} : task'[u] = task[u]
    BY <1>1, <2>1, TaskMoves DEF Places
  <2> QED
    BY <1>3, <2>1, <2>2 DEF TaskStep
<1> QED
  BY <1>4, <1>5, <1>6, <1>8, <1>9, <1>10, <1>11, <1>12 DEF Next, Handle, Goal

-----------------------------------------------------------------------------
(* The other parts of the invariant.                                       *)

LEMMA IdsKept ==
    ASSUME ListenerInv, [Next]_vars
    PROVE  IdsAreDrawn'
<1>1. /\ IdsAreDrawn /\ drawn \subseteq drawn' /\ \A p \in Peers : AddressStep(p)
      /\ \A t \in Tasks : TaskStep(t)
  BY AddressSteps, TaskSteps DEF ListenerInv
<1>2. \A m \in wire' : m.type = "verify" => m.sid \in drawn'
  BY <1>1, WireSteps DEF IdsAreDrawn
<1>3. \A r \in replies' : r.sid \in drawn'
  BY <1>1, ReplySteps DEF IdsAreDrawn
<1>4. \A t \in Tasks : (task'[t].pc # "idle" /\ task'[t].msg.type = "verify")
                          => task'[t].msg.sid \in drawn'
  BY <1>1 DEF IdsAreDrawn, TaskStep
<1>5. \A p \in Peers : /\ VerifyDue(p)' => handshake_states'[p].sid \in drawn'
                       /\ client_sessions'[p] # None => client_sessions'[p] \in drawn'
  BY <1>1 DEF IdsAreDrawn, AddressStep, VerifyDue, Completed
<1> QED
  BY <1>2, <1>3, <1>4, <1>5 DEF IdsAreDrawn

LEMMA NoStaleKept ==
    ASSUME ListenerInv, [Next]_vars
    PROVE  NoStaleVerify'
<1> SUFFICES ASSUME NEW p \in Peers, NEW t \in Tasks,
                    client_sessions'[p] # None, VerifyDue(p)', ~Completed(p)',
                    task'[t].pc = "handshake", task'[t].msg.peer = p,
                    task'[t].msg.type = "verify",
                    task'[t].msg.sid = handshake_states'[p].sid
             PROVE  FALSE
  BY DEF NoStaleVerify, Completed
<1>1. AddressStep(p) /\ TaskStep(t) /\ NoStaleVerify /\ IdsAreDrawn
  BY AddressSteps, TaskSteps DEF ListenerInv
<1>2. /\ task[t].pc # "idle" /\ task'[t].msg = task[t].msg
      /\ task[t].pc = "handshake" \/ client_sessions[p] = None
  BY <1>1 DEF TaskStep
<1>3. client_sessions'[p] = client_sessions[p]
  BY <1>1 DEF AddressStep, Completed, VerifyDue
<1>4. task[t].msg.sid \in drawn /\ task[t].pc = "handshake"
  BY <1>1, <1>2, <1>3 DEF IdsAreDrawn
<1>5. handshake_states'[p] = handshake_states[p]
  BY <1>1, <1>2, <1>3, <1>4 DEF AddressStep, Completed, VerifyDue
<1>6. VerifyDue(p) /\ ~handshake_states[p].completed
  BY <1>5 DEF Completed, VerifyDue
<1> QED
  BY <1>1, <1>2, <1>3, <1>4, <1>5, <1>6 DEF NoStaleVerify

LEMMA VerifyKept ==
    ASSUME ListenerInv, [Next]_vars
    PROVE  VerifyIsKept'
<1> SUFFICES ASSUME NEW r \in replies', r.type = "verify"
             PROVE  \/ client_sessions'[r.peer] = r.sid
                    \/ /\ client_sessions'[r.peer] = None
                       /\ Completed(r.peer)' /\ handshake_states'[r.peer].sid = r.sid
  BY DEF VerifyIsKept, Completed, VerifyDue
<1>1. CASE r \notin replies
  BY <1>1, ReplySteps
<1>2. CASE r \in replies
  <2>1. r.peer \in Peers /\ r.sid \in SessionIds
    BY <1>2 DEF ListenerInv, TypeOK
  <2>2. AddressStep(r.peer) /\ r.sid # None
    BY <2>1, AddressSteps, IdFacts
  <2>3. \/ client_sessions[r.peer] = r.sid
        \/ /\ client_sessions[r.peer] = None
           /\ Completed(r.peer) /\ handshake_states[r.peer].sid = r.sid
    BY <1>2 DEF ListenerInv, VerifyIsKept, Completed
  <2> QED
    BY <2>2, <2>3 DEF AddressStep, Completed, VerifyDue
<1> QED
  BY <1>1, <1>2

LEMMA ConnectedKept ==
    ASSUME ListenerInv, [Next]_vars
    PROVE  ConnectedWasVerified'
<1>1. /\ ConnectedWasVerified /\ replies \subseteq replies'
      /\ peer \in [Peers -> Peer]
  BY ReplySteps DEF ListenerInv, TypeOK, Peer
<1>2. ASSUME UNCHANGED peer PROVE ConnectedWasVerified'
  BY <1>1, <1>2 DEF ConnectedWasVerified, ServerVerify
<1>3. ASSUME NEW p \in Peers, PeerStep(p) PROVE ConnectedWasVerified'
  <2>1. ASSUME PeerConnects(p)
        PROVE  /\ peer'[p].attempt = peer[p].attempt /\ peer'[p].sid = peer[p].sid
               /\ \A q \in Peers \ {p} : peer'[q] = peer[q]
    BY <1>1, <2>1 DEF PeerConnects, PeerSays, Peer
  <2>2. ASSUME PeerStarts(p) \/ PeerAnswers(p) \/ PeerRestarts(p)
        PROVE  /\ peer'[p].phase # "connected"
               /\ \A q \in Peers \ {p} : peer'[q] = peer[q]
    BY <1>1, <2>2 DEF PeerStarts, PeerAnswers, PeerRestarts, PeerSays, Peer
  <2>3. CASE PeerConnects(p)
    BY <1>1, <2>1, <2>3 DEF ConnectedWasVerified, PeerConnects, ServerVerify
  <2>4. CASE PeerStarts(p) \/ PeerAnswers(p) \/ PeerRestarts(p)
    BY <1>1, <2>2, <2>4 DEF ConnectedWasVerified, ServerVerify
  <2> QED
    BY <1>3, <2>3, <2>4 DEF PeerStep
<1>4. ASSUME NEW p \in Peers, HandlerStep(p) PROVE UNCHANGED peer
  BY <1>4 DEF HandlerStep, Register, SendTaskEnds, Unregister
<1>5. ASSUME NEW t \in Tasks, Handle(t) \/ VpnEnds(t) \/ \E m \in wire : Receive(t, m)
      PROVE  UNCHANGED peer
  BY <1>5 DEF Handle, LookUp, HandleVpn, VpnEnds, TakeHello, RefuseHello, TakeVerify, VerifyNotSent,
              RefuseVerify, AddSession, AddFails, InsertSession, SpawnHandler, Receive
<1>6. ASSUME NEW gone \in SUBSET manager, Cleanup(gone) PROVE UNCHANGED peer
  BY <1>6 DEF Cleanup
<1>7. ASSUME UNCHANGED vars PROVE UNCHANGED peer
  BY <1>7 DEF vars
<1> QED
  BY <1>2, <1>3, <1>4, <1>5, <1>6, <1>7 DEF Next

LEMMA OwnersKept ==
    ASSUME ListenerInv, [Next]_vars
    PROVE  OneOwner'
<1>1. /\ OneOwner /\ IdsAreDrawn /\ OneBegins /\ \A p \in Peers : AddressStep(p)
      /\ \A sid \in SessionIds : sid # None
  BY AddressSteps, IdFacts DEF ListenerInv
\* What an address owns it owned before, or it began with it now.
<1>2. ASSUME NEW p \in Peers, NEW sid \in SessionIds, Owns(p, sid)'
      PROVE  Owns(p, sid) \/ (~VerifyDue(p) /\ VerifyDue(p)' /\ sid \notin drawn)
  BY <1>1, <1>2 DEF AddressStep, Owns, Completed, VerifyDue
<1>3. ASSUME NEW p \in Peers, NEW sid \in SessionIds, Owns(p, sid)
      PROVE  sid \in drawn
  BY <1>1, <1>3 DEF Owns, IdsAreDrawn
<1>4. ASSUME NEW p \in Peers, NEW q \in Peers, NEW sid \in SessionIds,
             Owns(p, sid)', Owns(q, sid)'
      PROVE  p = q
  BY <1>1, <1>2, <1>3, <1>4 DEF OneOwner, OneBegins
<1> QED
  BY <1>4 DEF OneOwner, Owns, VerifyDue

(* A session, once made, stays: its handler's address does not change.     *)
LEMMA SessionStays ==
    ASSUME ListenerInv, [Next]_vars, NEW p \in Peers, client_sessions[p] # None
    PROVE  client_sessions'[p] = client_sessions[p]
BY AddressSteps DEF AddressStep

LEMMA HandlersKept ==
    ASSUME ListenerInv, [Next]_vars
    PROVE  HandledHasSession' /\ LostToCollision'
<1> DEFINE Goal == HandledHasSession' /\ LostToCollision'
<1>1. /\ HandledHasSession /\ LostToCollision /\ TypeOK
      /\ handler \in [Peers -> {"none", "spawned", "running", "ending", "ended"}]
      /\ registry \in [Addresses -> Peers \union {None}]
  BY DEF ListenerInv, TypeOK
<1>2. \A p \in Peers : client_sessions[p] # None =>
         /\ client_sessions'[p] # None /\ HandlerIp(p)' = HandlerIp(p)
         /\ HandlerIp(p) \in Addresses
  BY <1>1, SessionStays DEF HandlerIp, TypeOK
<1>3. \A p, q \in Peers : (client_sessions[p] # None /\ Collide(p, q)) => Collide(p, q)'
  BY <1>2 DEF Collide
\* A step that leaves handlers and registry alone.
<1>4. ASSUME UNCHANGED <<handler, registry>> PROVE Goal
  <2>1. ASSUME NEW p \in Peers, handler[p] = "running"
        PROVE  client_sessions[p] # None /\ HandlerIp(p)' = HandlerIp(p)
    BY <1>1, <1>2, <2>1 DEF HandledHasSession
  <2>2. HandledHasSession'
    BY <1>1, <1>2, <1>4 DEF HandledHasSession
  <2>3. LostToCollision'
    BY <1>1, <1>3, <1>4, <2>1 DEF LostToCollision
  <2> QED
    BY <2>2, <2>3
\* A step of the handler of q, which may write under its address.
<1>5. ASSUME NEW q \in Peers, client_sessions[q] # None,
             \A p \in Peers \ {q} : handler'[p] = handler[p],
             \A a \in Addresses \ {HandlerIp(q)} : registry'[a] = registry[a],
             handler'[q] = "running" => registry'[HandlerIp(q)] = q
      PROVE  Goal
  <2>1. ASSUME NEW p \in Peers \ {q}, handler[p] = "running",
               registry'[HandlerIp(p)] # p
        PROVE  client_sessions[p] # None /\ \E r \in Peers : Collide(p, r)
    <3>1. client_sessions[p] # None /\ HandlerIp(p) \in Addresses
      BY <1>1, <1>2, <2>1 DEF HandledHasSession
    <3>2. CASE HandlerIp(p) = HandlerIp(q)
      BY <1>5, <3>1, <3>2 DEF Collide
    <3>3. CASE HandlerIp(p) # HandlerIp(q)
      BY <1>1, <1>5, <2>1, <3>1, <3>3 DEF LostToCollision
    <3> QED
      BY <3>2, <3>3, <3>1
  <2>2. HandledHasSession'
    BY <1>1, <1>2, <1>5 DEF HandledHasSession
  <2>3. ASSUME NEW p \in Peers, handler'[p] = "running", registry'[HandlerIp(p)'] # p
        PROVE  \E r \in Peers : Collide(p, r)'
    <3>1. p # q
      BY <1>2, <1>5, <2>3
    <3>2. handler[p] = "running" /\ client_sessions[p] # None
      BY <1>1, <1>5, <2>3, <3>1 DEF HandledHasSession
    <3>3. registry'[HandlerIp(p)] # p
      BY <1>2, <2>3, <3>2
    <3> QED
      BY <1>3, <2>1, <3>1, <3>2, <3>3
  <2>4. LostToCollision'
    BY <2>3 DEF LostToCollision
  <2> QED
    BY <2>2, <2>4
<1> HIDE DEF Goal
<1>6. ASSUME NEW q \in Peers, HandlerStep(q) PROVE Goal
  <2>1. handler[q] \in {"spawned", "running", "ending"}
    BY <1>6 DEF HandlerStep, Register, SendTaskEnds, Unregister
  <2>2. client_sessions[q] # None /\ HandlerIp(q) \in Addresses
    BY <1>1, <1>2, <2>1 DEF HandledHasSession
  <2>3. CASE Register(q)
    <3>1. /\ registry'[HandlerIp(q)] = q
          /\ \A a \in Addresses \ {HandlerIp(q)} : registry'[a] = registry[a]
          /\ \A p \in Peers \ {q} : handler'[p] = handler[p]
      BY <1>1, <2>2, <2>3 DEF Register
    <3> QED
      BY <1>5, <2>2, <3>1
  <2>4. CASE SendTaskEnds(q) \/ Unregister(q)
    <3>1. /\ handler'[q] # "running"
          /\ \A a \in Addresses \ {HandlerIp(q)} : registry'[a] = registry[a]
          /\ \A p \in Peers \ {q} : handler'[p] = handler[p]
      BY <1>1, <2>2, <2>4 DEF SendTaskEnds, Unregister
    <3> QED
      BY <1>5, <2>2, <3>1
  <2> QED
    BY <1>6, <2>3, <2>4 DEF HandlerStep
<1>7. ASSUME NEW t \in Tasks, SpawnHandler(t) PROVE Goal
  <2>p. PICK q \in Peers : q = task[t].msg.peer
    BY <1>7, AdmissionHolds DEF SpawnHandler, Admitting
  <2>1. client_sessions[q] # None
    BY <1>7, <2>p, AdmissionHolds DEF SpawnHandler, Admitting, ListenerInv, AdmittedOnce
  <2>2. /\ handler'[q] = "spawned" /\ registry' = registry
        /\ \A p \in Peers \ {q} : handler'[p] = handler[p]
    BY <1>1, <1>7, <2>p DEF SpawnHandler
  <2> QED
    BY <1>5, <2>1, <2>2
<1>8. ASSUME NEW p \in Peers, PeerStep(p) PROVE Goal
  BY <1>4, <1>8 DEF PeerStep, PeerStarts, PeerAnswers, PeerConnects, PeerRestarts, PeerSays,
                    serverVars
<1>9. ASSUME NEW t \in Tasks,
             \/ LookUp(t) \/ HandleVpn(t) \/ VpnEnds(t)
             \/ \E sid \in SessionIds : TakeHello(t, sid)
             \/ RefuseHello(t) \/ TakeVerify(t) \/ VerifyNotSent(t) \/ RefuseVerify(t)
             \/ AddSession(t) \/ AddFails(t) \/ InsertSession(t)
             \/ \E m \in wire : Receive(t, m)
      PROVE  Goal
  BY <1>4, <1>9 DEF LookUp, HandleVpn, VpnEnds, TakeHello, RefuseHello, TakeVerify, VerifyNotSent,
                    RefuseVerify, AddSession, AddFails, InsertSession, Receive
<1>10. ASSUME NEW gone \in SUBSET manager, Cleanup(gone) PROVE Goal
  BY <1>4, <1>10 DEF Cleanup
<1>11. ASSUME UNCHANGED vars PROVE Goal
  BY <1>4, <1>11 DEF vars
<1> QED
  BY <1>6, <1>7, <1>8, <1>9, <1>10, <1>11 DEF Next, Handle, Goal

-----------------------------------------------------------------------------
(* The theorems.                                                           *)

(* ListenerInv holds of every state that the server and its clients reach, *)
(* however datagrams are lost, repeated or late and handlers interleave.   *)
THEOREM ListenerInvariance == Spec => []ListenerInv
<1>1. Init => ListenerInv
  <2> SUFFICES ASSUME Init PROVE ListenerInv
    OBVIOUS
  <2> USE ListenerAssumption DEF Init, Idle, Absent
  <2>1. TypeOK
    BY TypesInit
  <2>2. AdmissionUndisturbed /\ AdmittedOnce /\ NoStaleVerify
    BY DEF AdmissionUndisturbed, AdmittedOnce, NoStaleVerify, Admitting
  <2>3. IdsAreDrawn /\ VerifyIsKept /\ ConnectedWasVerified
    BY DEF IdsAreDrawn, VerifyIsKept, ConnectedWasVerified, VerifyDue
  <2>4. OneOwner /\ HandledHasSession /\ LostToCollision
    BY IdFacts DEF OneOwner, Owns, HandledHasSession, LostToCollision, VerifyDue
  <2> QED
    BY <2>1, <2>2, <2>3, <2>4 DEF ListenerInv
<1>2. ListenerInv /\ [Next]_vars => ListenerInv'
  BY TypesKept, AdmissionKept, IdsKept, NoStaleKept, VerifyKept, ConnectedKept, OwnersKept,
     HandlersKept DEF ListenerInv
<1> QED
  BY <1>1, <1>2, PTL DEF Spec

(* The tables of the listener keep their types, and every session an       *)
(* address of the pool.                                                    *)
THEOREM ListenerTypeCorrect == Spec => []TypeOK
<1>1. ListenerInv => TypeOK
  BY DEF ListenerInv
<1> QED
  BY <1>1, ListenerInvariance, PTL

(* A task between SERVER_VERIFY and the spawning of the handler is alone   *)
(* in the handshake table and finds the entry it verified.                 *)
THEOREM ListenerAdmits == Spec => []AdmissionUndisturbed
<1>1. ListenerInv => AdmissionUndisturbed
  BY DEF ListenerInv
<1> QED
  BY <1>1, ListenerInvariance, PTL

(* The session of an address is never replaced, whatever a client sends    *)
(* again and however late a task comes from its lookup.                    *)
THEOREM ListenerKeepsSessions == Spec => SessionNeverReplaced
<1>1. ListenerInv /\ [Next]_vars =>
         [\A p \in Peers : client_sessions[p] # None
              => client_sessions'[p] = client_sessions[p]]_vars
  BY SessionStays
<1> QED
  BY <1>1, ListenerInvariance, PTL DEF Spec, SessionNeverReplaced

(* A client that is connected and the server that serves its address mean  *)
(* the same session, also after restarts.                                  *)
THEOREM ListenerSameSession == Spec => []SameSession
<1>1. ListenerInv => SameSession
  <2> SUFFICES ASSUME ListenerInv, NEW p \in Peers, peer[p].phase = "connected",
                      client_sessions[p] # None
               PROVE  client_sessions[p] = peer[p].sid
    BY DEF SameSession
  <2>1. PICK r \in replies : r = ServerVerify(p, peer[p].attempt, peer[p].sid)
    BY DEF ListenerInv, ConnectedWasVerified
  <2>2. r.type = "verify" /\ r.peer = p /\ r.sid = peer[p].sid
    BY <2>1 DEF ServerVerify
  <2> QED
    BY <2>2 DEF ListenerInv, VerifyIsKept
<1> QED
  BY <1>1, ListenerInvariance, PTL

(* A client that is connected is served, about to be, or stranded.         *)
THEOREM ListenerServes == Spec => []ConnectedIsServed
<1>1. ListenerInv => ConnectedIsServed
  <2> SUFFICES ASSUME ListenerInv, NEW p \in Peers, peer[p].phase = "connected",
                      client_sessions[p] = None,
                      \A t \in Tasks : ~(Admitting(t) /\ task[t].msg.peer = p)
               PROVE  Stranded(p)
    BY DEF ConnectedIsServed
  <2>1. PICK r \in replies : r = ServerVerify(p, peer[p].attempt, peer[p].sid)
    BY DEF ListenerInv, ConnectedWasVerified
  <2>2. r.type = "verify" /\ r.peer = p /\ r.sid \in SessionIds
    BY <2>1 DEF ServerVerify, ListenerInv, TypeOK
  <2>3. Completed(p)
    BY <2>2, IdFacts DEF ListenerInv, VerifyIsKept, Completed
  <2> QED
    BY <2>3 DEF Stranded, Completed, VerifyDue
<1> QED
  BY <1>1, ListenerInvariance, PTL

(* Nothing frees a stranded address.                                       *)
THEOREM ListenerStranded == Spec => StrandedStays
<1>1. ListenerInv /\ [Next]_vars => [\A p \in Peers : Stranded(p) => Stranded(p)']_vars
  <2> SUFFICES ASSUME ListenerInv, [Next]_vars, NEW p \in Peers, Stranded(p)
               PROVE  Stranded(p)'
    OBVIOUS
  <2>1. /\ Completed(p) /\ client_sessions[p] = None
        /\ \A t \in Tasks : Admitting(t) => task[t].msg.peer # p
    BY DEF Stranded, Completed, VerifyDue
  <2>2. handshake_states'[p] = handshake_states[p] /\ client_sessions'[p] = None
    BY <2>1, AddressSteps DEF AddressStep, Completed
  <2>3. ASSUME NEW t \in Tasks, Admitting(t)', task'[t].msg.peer = p
        PROVE  FALSE
    BY <2>1, <2>3, TaskSteps DEF TaskStep, Admitting
  <2> QED
    BY <2>1, <2>2, <2>3 DEF Stranded, Completed, VerifyDue
<1> QED
  BY <1>1, ListenerInvariance, PTL DEF Spec, StrandedStays

(* A running handler that the registry does not know under its VPN address *)
(* has a rival whose session id is the same modulo the pool.               *)
THEOREM ListenerLosesToRival == Spec => []LostToCollision
<1>1. ListenerInv => LostToCollision
  BY DEF ListenerInv
<1> QED
  BY <1>1, ListenerInvariance, PTL

(* So, as long as no two ids fall on the same address, every running       *)
(* handler is registered.                                                  *)
THEOREM ListenerRegisters ==
    ASSUME \A i, j \in SessionIds : VpnIp(i) = VpnIp(j) => i = j
    PROVE  Spec => []RunningIsRegistered
<1>1. ListenerInv => RunningIsRegistered
  <2> SUFFICES ASSUME ListenerInv, NEW p \in Peers, handler[p] = "running",
                      registry[HandlerIp(p)] # p
               PROVE  FALSE
    BY DEF RunningIsRegistered
  <2>1. PICK q \in Peers : Collide(p, q)
    BY DEF ListenerInv, LostToCollision
  <2>2. /\ client_sessions[p] \in SessionIds /\ client_sessions[q] \in SessionIds
        /\ VpnIp(client_sessions[p]) = VpnIp(client_sessions[q]) /\ p # q
    BY <2>1 DEF ListenerInv, HandledHasSession, TypeOK, Collide, HandlerIp
  <2> QED
    BY <2>2 DEF ListenerInv, OneOwner, Owns
<1> QED
  BY <1>1, ListenerInvariance, PTL
===============================================================================
