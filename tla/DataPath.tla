------------------------------- MODULE DataPath -------------------------------
(***************************************************************************)
(* Traffic of admitted clients through the server: handle_vpn_packet and   *)
(* handle_incoming_packet (listener.rs, client_handler.rs), the TUN read   *)
(* loop (main.rs), ClientRegistry (client_registry.rs) and                 *)
(* NatGateway::route_packet (nat.rs).                                      *)
(*                                                                         *)
(* The four locks they share are tokio RwLocks: first come, first served,  *)
(* with readers next to each other admitted together.  A lock is its queue *)
(* of requests, the granted ones in front.  A step runs from one await to  *)
(* the next and enters the queue of the next lock it wants.                *)
(***************************************************************************)
EXTENDS Integers, Sequences

CONSTANTS
    Clients,       \* admitted clients, each with a VPN address of its own
    Tasks,         \* the tasks of datagrams that may run at once
    TunReader,     \* the task of the TUN read loop
    Sent,          \* counters of the packets the clients have sealed
    DamagedReads,  \* what the counter of a damaged datagram may read
    MaxCounter,    \* u64::MAX
    MaxChannel,    \* bound: packets from TUN that wait in one channel
    None

ASSUME DataPathAssumption ==
    /\ MaxCounter \in Nat
    /\ Sent \subseteq 0..MaxCounter /\ DamagedReads \subseteq 0..MaxCounter
    /\ MaxChannel \in Nat
    /\ None \notin Clients
    /\ TunReader \notin Tasks \union Clients /\ Tasks \intersect Clients = {}

VARIABLES
    tun_present,       \* whether the TUN device could be created
    queue,             \* per lock, the requests in order of arrival
    task,              \* per task, its place in the code and its datagram
    reader,            \* the TUN read loop
    handler,           \* per client, its ClientHandler
    receive_counter,   \* per client, the field of ClientSession
    channel,           \* per client, how many packets wait in its channel
    opened,            \* history: counters opened, per client, in order
    written            \* history: counters written to TUN, in order

vars == <<tun_present, queue, task, reader, handler, receive_counter, channel,
          opened, written>>

Locks == {"client_sessions", "clients", "nat_gateway", "tun_device"}
Actors == Tasks \union Clients \union {TunReader}

Datagrams ==
    [client : Clients, kind : {"genuine"}, counter : Sent] \union
    [client : Clients, kind : {"damaged"}, counter : DamagedReads] \union
    [client : Clients, kind : {"short"}, counter : {0}]

-----------------------------------------------------------------------------
(* The locks.                                                              *)

Granted(l, a) ==
    \E i \in DOMAIN queue[l] :
        /\ queue[l][i].who = a
        /\ i = 1 \/ \A j \in 1..i : queue[l][j].mode = "read"

Ask(q, l, a, mode) == [q EXCEPT ![l] = Append(@, [who |-> a, mode |-> mode])]

\* The request of actor a leaves a queue; nobody has two in the same one.
Without(s, a) ==
    IF \E i \in DOMAIN s : s[i].who = a
    THEN LET i == CHOOSE i \in DOMAIN s : s[i].who = a
         IN  [j \in 1..(Len(s) - 1) |-> s[IF j < i THEN j ELSE j + 1]]
    ELSE s

\* The guards of actor a are dropped.
Drop(q, a) == [l \in Locks |-> Without(q[l], a)]

Init ==
    /\ tun_present \in BOOLEAN
    /\ task = [t \in Tasks |-> [pc |-> "idle"]]
    /\ reader = IF tun_present THEN [pc |-> "tun"] ELSE [pc |-> "absent"]
    /\ queue = [l \in Locks |-> IF l = "tun_device" /\ tun_present
                                THEN <<[who |-> TunReader, mode |-> "write"]>>
                                ELSE <<>>]
    /\ handler = [c \in Clients |-> "spawned"]
    /\ receive_counter = [c \in Clients |-> 0]
    /\ channel = [c \in Clients |-> 0]
    /\ opened = [c \in Clients |-> <<>>]
    /\ written = [c \in Clients |-> <<>>]

-----------------------------------------------------------------------------
(* The task of one datagram.                                               *)

Packet(t) == task[t].datagram
At(t, pc, lock) == task[t].pc = pc /\ Granted(lock, t)

\* The task waits for lock l next, at place pc of the code.
Await(t, pc, q, l, mode) ==
    /\ task' = [task EXCEPT ![t].pc = pc]
    /\ queue' = Ask(q, l, t, mode)

\* The task returns and all its guards are dropped.
Return(t) ==
    /\ task' = [task EXCEPT ![t] = [pc |-> "idle"]]
    /\ queue' = Drop(queue, t)

Receive(t, d) ==
    /\ task[t].pc = "idle"
    /\ task' = [task EXCEPT ![t] = [pc |-> "lookup", datagram |-> d]]
    /\ queue' = Ask(queue, "client_sessions", t, "read")
    /\ UNCHANGED <<tun_present, reader, handler, receive_counter, channel, opened, written>>

\* handle_packet finds the session, drops the read lock and asks for the
\* write lock that handle_vpn_packet holds until it returns.
LookUp(t) ==
    /\ At(t, "lookup", "client_sessions")
    /\ Await(t, "vpn", Drop(queue, t), "client_sessions", "write")
    /\ UNCHANGED <<tun_present, reader, handler, receive_counter, channel, opened, written>>

\* Mutant: off by one.
RefusedLate(d) == d.kind = "short" \/ d.counter + 1 < receive_counter[d.client]

Refused(d) == d.kind = "short" \/ d.counter < receive_counter[d.client]

Refuse(t) ==
    /\ At(t, "vpn", "client_sessions")
    /\ Refused(Packet(t))
    /\ Return(t)
    /\ UNCHANGED <<tun_present, reader, handler, receive_counter, channel, opened, written>>

\* nonce_counter + 1; a release build wraps.
After(counter) == (counter + 1) % (MaxCounter + 1)

\* The counter moves before the packet is authenticated.
Undecipherable(t) ==
    LET d == Packet(t)
    IN  /\ At(t, "vpn", "client_sessions")
        /\ ~Refused(d) /\ d.kind = "damaged"
        /\ receive_counter' = [receive_counter EXCEPT ![d.client] = After(d.counter)]
        /\ Return(t)
        /\ UNCHANGED <<tun_present, reader, handler, channel, opened, written>>

\* Mutant: the guard on the session table is dropped before the echo.
OpenUnguarded(t) ==
    LET d == Packet(t)
    IN  /\ At(t, "vpn", "client_sessions")
        /\ ~Refused(d) /\ d.kind = "genuine"
        /\ receive_counter' = [receive_counter EXCEPT ![d.client] = After(d.counter)]
        /\ opened' = [opened EXCEPT ![d.client] = Append(@, d.counter)]
        /\ Await(t, "echo", Drop(queue, t), "clients", "read")
        /\ UNCHANGED <<tun_present, reader, handler, channel, written>>

Open(t) ==
    LET d == Packet(t)
    IN  /\ At(t, "vpn", "client_sessions")
        /\ ~Refused(d) /\ d.kind = "genuine"
        /\ receive_counter' = [receive_counter EXCEPT ![d.client] = After(d.counter)]
        /\ opened' = [opened EXCEPT ![d.client] = Append(@, d.counter)]
        /\ Await(t, "echo", queue, "clients", "read")
        /\ UNCHANGED <<tun_present, reader, handler, channel, written>>

\* The registry knows the client, and the receiver of its channel lives.
Reachable(c) == handler[c] = "running"

\* The plaintext goes back to the client; the read guard on the registry
\* lives on.
Echo(t) ==
    LET c == Packet(t).client
    IN  /\ At(t, "echo", "clients")
        /\ channel' = IF Reachable(c) THEN [channel EXCEPT ![c] = @ + 1] ELSE channel
        /\ Await(t, "nat", queue, "nat_gateway", "write")
        /\ UNCHANGED <<tun_present, reader, handler, receive_counter, opened, written>>

\* route_packet
RoutePacket(t) ==
    /\ At(t, "nat", "nat_gateway") /\ tun_present
    /\ Await(t, "tun", queue, "tun_device", "write")
    /\ UNCHANGED <<tun_present, reader, handler, receive_counter, channel, opened, written>>

NoRoute(t) ==
    /\ At(t, "nat", "nat_gateway") /\ ~tun_present
    /\ Return(t)
    /\ UNCHANGED <<tun_present, reader, handler, receive_counter, channel, opened, written>>

\* Mutant: a write that failed is tried again, with the lock taken anew.
WriteTunRetrying(t) ==
    LET d == Packet(t)
    IN  /\ At(t, "tun", "tun_device")
        /\ \/ /\ written' = [written EXCEPT ![d.client] = Append(@, d.counter)]
              /\ Return(t)
           \/ /\ queue' = [queue EXCEPT !["tun_device"] = Append(Tail(@), Head(@))]
              /\ UNCHANGED <<written, task>>
        /\ UNCHANGED <<tun_present, reader, handler, receive_counter, channel, opened>>

\* write_packet may fail, which is only logged.
WriteTun(t) ==
    LET d == Packet(t)
    IN  /\ At(t, "tun", "tun_device")
        /\ \/ written' = [written EXCEPT ![d.client] = Append(@, d.counter)]
           \/ UNCHANGED written
        /\ Return(t)
        /\ UNCHANGED <<tun_present, reader, handler, receive_counter, channel, opened>>

TaskStep(t) ==
    \/ LookUp(t) \/ Refuse(t) \/ Undecipherable(t) \/ Open(t)
    \/ Echo(t) \/ RoutePacket(t) \/ NoRoute(t) \/ WriteTun(t)

-----------------------------------------------------------------------------
(* The TUN read loop.  read_packet blocks until the kernel has a packet,   *)
(* and the write lock on the device is held meanwhile.                     *)

\* Mutant: the guard on the device lives on while the packet is routed.
ReadTunHolding(dst) ==
    /\ reader.pc = "tun" /\ Granted("tun_device", TunReader)
    /\ dst # None => channel[dst] < MaxChannel
    /\ reader' = [pc |-> "route", dst |-> dst]
    /\ queue' = Ask(queue, "clients", TunReader, "read")
    /\ UNCHANGED <<tun_present, task, handler, receive_counter, channel, opened, written>>

ReadTun(dst) ==
    /\ reader.pc = "tun" /\ Granted("tun_device", TunReader)
    /\ dst # None => channel[dst] < MaxChannel
    /\ reader' = [pc |-> "route", dst |-> dst]
    /\ queue' = Ask(Drop(queue, TunReader), "clients", TunReader, "read")
    /\ UNCHANGED <<tun_present, task, handler, receive_counter, channel, opened, written>>

\* A read that fails or returns nothing: the loop starts again.
ReadNothing ==
    /\ reader.pc = "tun" /\ Granted("tun_device", TunReader)
    /\ queue' = Ask(Drop(queue, TunReader), "tun_device", TunReader, "write")
    /\ UNCHANGED <<tun_present, task, reader, handler, receive_counter, channel,
                   opened, written>>

\* route_to_client; a packet for an unknown address is dropped.
RouteToClient ==
    /\ reader.pc = "route" /\ Granted("clients", TunReader)
    /\ channel' = IF reader.dst # None /\ Reachable(reader.dst)
                  THEN [channel EXCEPT ![reader.dst] = @ + 1] ELSE channel
    /\ reader' = [pc |-> "tun"]
    /\ queue' = Ask(Drop(queue, TunReader), "tun_device", TunReader, "write")
    /\ UNCHANGED <<tun_present, task, handler, receive_counter, opened, written>>

-----------------------------------------------------------------------------
(* ClientHandler::run                                                      *)

\* Register and unregister take the write lock on the registry.
AskRegistry(c, from, to) ==
    /\ handler[c] = from
    /\ handler' = [handler EXCEPT ![c] = to]
    /\ queue' = Ask(queue, "clients", c, "write")

Start(c) ==
    /\ AskRegistry(c, "spawned", "registering")
    /\ UNCHANGED <<tun_present, task, reader, receive_counter, channel, opened, written>>

Register(c) ==
    /\ handler[c] = "registering" /\ Granted("clients", c)
    /\ handler' = [handler EXCEPT ![c] = "running"]
    /\ queue' = Drop(queue, c)
    /\ UNCHANGED <<tun_present, task, reader, receive_counter, channel, opened, written>>

\* A packet of the channel is sealed and sent, or could not be sealed.
SendOne(c) ==
    /\ handler[c] = "running" /\ channel[c] > 0
    /\ channel' = [channel EXCEPT ![c] = @ - 1]
    /\ UNCHANGED <<tun_present, queue, task, reader, handler, receive_counter,
                   opened, written>>

\* send_to fails: the send task ends and its receiver goes, with whatever
\* waited in it.
SendFails(c) ==
    /\ channel[c] > 0
    /\ AskRegistry(c, "running", "ending")
    /\ channel' = [channel EXCEPT ![c] = 0]
    /\ UNCHANGED <<tun_present, task, reader, receive_counter, opened, written>>

Unregister(c) ==
    /\ handler[c] = "ending" /\ Granted("clients", c)
    /\ handler' = [handler EXCEPT ![c] = "ended"]
    /\ queue' = Drop(queue, c)
    /\ UNCHANGED <<tun_present, task, reader, receive_counter, channel, opened, written>>

HandlerStep(c) == Start(c) \/ Register(c) \/ SendOne(c) \/ SendFails(c) \/ Unregister(c)

Next ==
    \/ \E t \in Tasks : TaskStep(t) \/ \E d \in Datagrams : Receive(t, d)
    \/ \E dst \in Clients \union {None} : ReadTun(dst)
    \/ ReadNothing \/ RouteToClient
    \/ \E c \in Clients : HandlerStep(c)

Spec == Init /\ [][Next]_vars

\* Every task that can run does; nothing is assumed of the kernel, in whose
\* hands the return of read_packet is.
TasksRun ==
    /\ Spec
    /\ \A t \in Tasks : WF_vars(TaskStep(t))
    /\ \A c \in Clients : WF_vars(HandlerStep(c))
    /\ WF_vars(RouteToClient)

\* Besides, packets for the VPN network keep coming.
TrafficComes == TasksRun /\ WF_vars(\E dst \in Clients \union {None} : ReadTun(dst))

-----------------------------------------------------------------------------
(* Properties.                                                             *)

InTask == {"lookup", "vpn", "echo", "nat", "tun"}

TypeOK ==
    /\ tun_present \in BOOLEAN
    /\ \A l \in Locks : \A i \in DOMAIN queue[l] :
          queue[l][i] \in [who : Actors, mode : {"read", "write"}]
    /\ task \in [Tasks -> {[pc |-> "idle"]} \union [pc : InTask, datagram : Datagrams]]
    /\ reader \in [pc : {"absent", "tun"}] \union
                  [pc : {"route"}, dst : Clients \union {None}]
    /\ reader.pc = "absent" <=> ~tun_present
    /\ handler \in [Clients -> {"spawned", "registering", "running", "ending", "ended"}]
    /\ receive_counter \in [Clients -> 0..MaxCounter]
    /\ channel \in [Clients -> Nat]
    /\ opened \in [Clients -> Seq(Sent)] /\ written \in [Clients -> Seq(Sent)]

Increasing(s) == \A i, j \in DOMAIN s : i < j => s[i] < s[j]

\* The check of the packet order (client_handler.rs:195, "a simple protection
\* against replay"): a client's packets are opened in the order they were
\* sealed and none is opened twice, however they are delayed or repeated and
\* however many tasks handle them at once; unless the counter wraps.
OpenedInOrder == \A c \in Clients : Increasing(opened[c])

\* Packets keep that order up to the TUN device, although their tasks wait
\* for three more locks: the guard on the session table is held until
\* route_packet returns (listener.rs:249, client_handler.rs:242-247).
WrittenInOrder == \A c \in Clients : Increasing(written[c])

WaitsFor(a, b) ==
    \E l \in Locks : \E i, j \in DOMAIN queue[l] :
        /\ j < i
        /\ queue[l][i].who = a /\ ~Granted(l, a)
        /\ queue[l][j].who = b

\* The tasks, the read loop and the registrations never wait for each other
\* in a circle, with four locks of which a task holds up to four at a time
\* and the read loop takes two in the opposite order.
NoCircularWait ==
    \A S \in (SUBSET Actors) \ {{}} :
        \E a \in S : \A b \in S : ~WaitsFor(a, b)

\* A packet handed to route_packet leaves it: "accepts an IP packet from the
\* client and sends it to the Internet through the TUN interface"
\* (nat.rs:116), with the session table, the registry and the gateway held
\* meanwhile.
RouteEnds == \A t \in Tasks : task[t].pc \in {"nat", "tun"} ~> task[t].pc = "idle"
=============================================================================
