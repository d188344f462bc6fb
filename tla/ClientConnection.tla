--------------------------- MODULE ClientConnection ---------------------------
(***************************************************************************)
(* The Rust client: VpnClient (llp-client lib.rs) with its TUN interface   *)
(* (tunnel.rs) around one ServerConnection (connection.rs), from the       *)
(* configuration to the end of the program, and the keepalive task.        *)
(*                                                                         *)
(* The server's side of a connection is the stream of units it sent: for   *)
(* each frame a length (even units) and a body (odd units), of which       *)
(* `arrived' have arrived and `consumed' were read.  select! drops the     *)
(* future of receive_packet whenever a packet comes from TUN: what it had  *)
(* read is gone, and the next future starts with a length again.  A unit   *)
(* arrives whole, so the future is dropped between units only.             *)
(*                                                                         *)
(* Two tasks want the lock of the connection.  The main task lets go of it *)
(* only to ask again (its receive future holds it while it waits for the   *)
(* server), so the lock, which is fair, is never free: it is the keepalive *)
(* task's if that task was waiting, and the main task's otherwise.         *)
(***************************************************************************)
EXTENDS Config

CONSTANTS
    Configs,             \* what the configuration file may say
    HttpHeaders,         \* sizes of the HTTP header that the wrapper writes
    MaxConnections,      \* bound: TCP connections
    MaxFrames,           \* bound: frames the server sends on a connection
    None

ASSUME ClientAssumption ==
    /\ Configs \subseteq ClientConfig
    /\ HttpHeaders \subseteq UNION {HttpSizes(profile) : profile \in MimicryProfile}
    /\ MaxConnections \in Nat /\ MaxFrames \in Nat
    /\ None \notin Nat

VARIABLES
    config,
    place,        \* where the main task is
    packet,       \* size of the IP packet that waits to be sent, or None
    info,         \* ConnectionInfo: state and reconnect_attempts
    stream,       \* the TCP stream, numbered, or None
    session,      \* session and wrapper, by the stream they were made for
    made,         \* how many streams were made
    arrived, consumed,
    reading,      \* what the future of receive_packet reads next
    keepalive,    \* the keepalive task: none, asleep, waiting (for the lock), dead
    lock          \* whose the lock of the connection is

link  == <<stream, session, made>>
input == <<arrived, consumed, reading>>
tasks == <<keepalive, lock>>
vars  == <<config, place, packet, info, link, input, tasks>>

Units == 2 * MaxFrames
IsLength(unit) == unit % 2 = 0

Init ==
    /\ config \in Configs
    /\ place = "start" /\ packet = None
    /\ info = [state |-> "Disconnected", attempts |-> 0]
    /\ stream = None /\ session = None /\ made = 0
    /\ arrived = 0 /\ consumed = 0 /\ reading = "length"
    /\ keepalive = "none" /\ lock = "main"

Go(to, state) == place' = to /\ info' = [info EXCEPT !.state = state]

\* Mutant: the guard is kept from one turn of the loop to the next.
MainHolds == lock' = lock

\* The main task drops its guard and asks for the lock anew.
MainAsks == lock' = IF keepalive = "waiting" THEN "keepalive" ELSE "main"

MainHas(at) == place = at /\ lock = "main"

-----------------------------------------------------------------------------
(* main: a configuration that validate refuses, or a TUN interface that    *)
(* cannot be created, ends the program.                                    *)

Start ==
    /\ place = "start" /\ ValidClient(config)
    /\ Go("dialing", "Connecting")
    /\ UNCHANGED <<config, packet, link, input, tasks>>

Ends(from) ==
    /\ place = from /\ place' = "ended"
    /\ UNCHANGED <<config, packet, info, link, input, tasks>>

StartFails == Ends("start")

-----------------------------------------------------------------------------
(* connect: TCP under connection_timeout, then the handshake, both with    *)
(* the lock held.  Any error ends the program: connect of VpnClient returns*)
(* it the first time, run that of reconnect later.                         *)

\* Mutant: the state says Connected before the handshake.
DialSucceedsConnected ==
    /\ place = "dialing" /\ made < MaxConnections
    /\ Go("handshaking", "Connected")
    /\ stream' = made /\ made' = made + 1
    /\ arrived' = 0 /\ consumed' = 0
    /\ UNCHANGED <<config, packet, session, reading, tasks>>

DialSucceeds ==
    /\ place = "dialing" /\ made < MaxConnections
    /\ Go("handshaking", "Handshaking")
    /\ stream' = made /\ made' = made + 1
    /\ arrived' = 0 /\ consumed' = 0
    /\ UNCHANGED <<config, packet, session, reading, tasks>>

DialFails == Ends("dialing")
HandshakeFails == Ends("handshaking")

\* The first connection goes on to the addresses, a later one to the select!.
AfterHandshake ==
    IF keepalive = "none"
    THEN place' = "routing" /\ UNCHANGED lock
    ELSE place' = "selecting" /\ MainAsks

\* Mutant: the attempts are not reset.
HandshakeSucceedsCounting ==
    /\ place = "handshaking"
    /\ AfterHandshake
    /\ info' = [info EXCEPT !.state = "Connected"]
    /\ session' = stream
    /\ UNCHANGED <<config, packet, stream, made, input, keepalive>>

HandshakeSucceeds ==
    /\ place = "handshaking"
    /\ AfterHandshake
    /\ info' = [state |-> "Connected", attempts |-> 0]
    /\ session' = stream
    /\ UNCHANGED <<config, packet, stream, made, input, keepalive>>

\* set_ip_address and add_default_route; a route that cannot be added is only
\* logged, a command that cannot be run at all is an error.
RoutingFails ==
    /\ config.client_ip
    /\ Ends("routing")

\* run spawns the keepalive task; an interval of zero panics there.
Run ==
    /\ place = "routing" /\ place' = "selecting"
    /\ keepalive' = IF config.keepalive_interval = 0 THEN "dead" ELSE "asleep"
    /\ UNCHANGED <<config, packet, info, link, input, lock>>

-----------------------------------------------------------------------------
(* reconnect, with the lock held from here to its end: the attempt is      *)
(* counted before anything is tried.                                       *)

CountAttempt ==
    LET attempts == info.attempts + 1
    IN  /\ info' = [state |-> "Reconnecting", attempts |-> attempts]
        /\ place' = IF attempts > config.reconnect_attempts THEN "ended" ELSE "delay"
        /\ packet' = None

\* Mutant: the guard is dropped for the time of the delay.
ReconnectLetsGo == CountAttempt /\ MainAsks

Reconnect == CountAttempt /\ UNCHANGED lock

Redial ==
    /\ place = "delay"
    /\ Go("dialing", "Connecting")
    /\ stream' = None /\ session' = None
    /\ UNCHANGED <<config, packet, made, input, tasks>>

-----------------------------------------------------------------------------
(* The select! of run.                                                     *)

\* read_packet is ready: the future of receive_packet is dropped, with its
\* guard if it had one, and the packet waits for the lock.
TunPacket(size) ==
    /\ place = "selecting" /\ place' = "sending"
    /\ packet' = size
    /\ reading' = "length"
    /\ IF lock = "main" THEN MainAsks ELSE UNCHANGED lock
    /\ UNCHANGED <<config, info, link, arrived, consumed, keepalive>>

TunFails == Ends("selecting")

\* send_packet succeeds, or fails at one of its limits or at the stream. The
\* writes to the stream have no timeout, and the lock is held meanwhile.
SendPacket ==
    /\ MainHas("sending")
    /\ \/ /\ \E http \in HttpHeaders : Sendable(packet, http)
          /\ place' = "selecting" /\ packet' = None /\ MainAsks
          /\ UNCHANGED info
       \/ Reconnect
    /\ UNCHANGED <<config, link, input, keepalive>>

HasUnit == MainHas("selecting") /\ consumed < arrived

\* The future ends in an error: its guard is dropped, and the handler asks for
\* the lock to reconnect.
Errs == place' = "reviving" /\ reading' = "length" /\ MainAsks

\* The first four bytes of a body, taken for a length, are more than 65536: they
\* are "HTTP", or the version 1 of a packet that was not wrapped.
ReadLength ==
    /\ HasUnit /\ reading = "length"
    /\ consumed' = consumed + 1
    /\ IF IsLength(consumed)
       THEN reading' = "body" /\ UNCHANGED <<place, lock>>
       ELSE Errs
    /\ UNCHANGED <<config, packet, info, link, arrived, keepalive>>

\* The frame opens and goes to write_packet, whose errors are only logged, or
\* receive_packet returns an error.
ReadBody ==
    /\ HasUnit /\ reading = "body"
    /\ consumed' = consumed + 1
    /\ \/ reading' = "length" /\ MainAsks /\ UNCHANGED place
       \/ Errs
    /\ UNCHANGED <<config, packet, info, link, arrived, keepalive>>

\* The stream ends or breaks.
StreamEnds ==
    /\ MainHas("selecting")
    /\ Errs
    /\ UNCHANGED <<config, packet, info, link, arrived, consumed, keepalive>>

Revive ==
    /\ MainHas("reviving")
    /\ Reconnect
    /\ UNCHANGED <<config, link, input, keepalive>>

-----------------------------------------------------------------------------
(* The keepalive task: each tick it takes the lock, asks is_connected, and *)
(* calls send_keepalive, which writes nothing.                             *)

KeepaliveTick ==
    /\ place # "ended"
    /\ keepalive = "asleep" /\ keepalive' = "waiting"
    /\ UNCHANGED <<config, place, packet, info, link, input, lock>>

KeepaliveRuns ==
    /\ place # "ended"
    /\ lock = "keepalive" /\ lock' = "main"
    /\ keepalive' = "asleep"
    /\ UNCHANGED <<config, place, packet, info, link, input>>

-----------------------------------------------------------------------------
(* Ctrl+C is handled only while run is: then disconnect puts a new         *)
(* ServerConnection in place.  Before, it kills the program.               *)

Killed ==
    /\ keepalive = "none"
    /\ \E from \in {"dialing", "handshaking", "routing"} : Ends(from)

Interrupt ==
    /\ keepalive # "none" /\ place # "ended"
    /\ place' = "ended" /\ packet' = None
    /\ info' = [state |-> "Disconnected", attempts |-> 0]
    /\ stream' = None /\ session' = None
    /\ lock' = "main"
    /\ UNCHANGED <<config, made, input, keepalive>>

\* The server's next unit arrives.
Arrive ==
    /\ stream # None /\ stream = session
    /\ arrived < Units
    /\ arrived' = arrived + 1
    /\ UNCHANGED <<config, place, packet, info, link, consumed, reading, tasks>>

-----------------------------------------------------------------------------

\* The limits of the packets on their way are upper limits, so the smallest
\* and the largest packet stand for all that read_packet returns.
TunSizes == {1, ReadBuffer(config.mtu)}
ReadTun  == \E size \in TunSizes : TunPacket(size)

Connecting == Start \/ StartFails \/ DialSucceeds \/ DialFails
                \/ HandshakeSucceeds \/ HandshakeFails \/ RoutingFails \/ Run
Receiving  == ReadLength \/ ReadBody \/ StreamEnds
Keepalive  == KeepaliveTick \/ KeepaliveRuns

ClientNext ==
    \/ Connecting \/ Redial
    \/ ReadTun \/ TunFails \/ SendPacket \/ Receiving \/ Revive
    \/ Keepalive \/ Killed \/ Interrupt \/ Arrive

ClientSpec == Init /\ [][ClientNext]_vars

\* What has to end ends: the delay, the connect with its timeout, what the
\* keepalive task does with the lock; and what has arrived is read.  Nothing is
\* said of the host, the server, the handshake and the writes to the server.
ClientFairness ==
    /\ WF_vars(ReadLength \/ ReadBody) /\ WF_vars(Revive)
    /\ WF_vars(Redial) /\ WF_vars(DialSucceeds \/ DialFails)
    /\ WF_vars(KeepaliveRuns)

-----------------------------------------------------------------------------
(* Properties.                                                             *)

Streams == Nat \union {None}
Places == {"start", "dialing", "handshaking", "routing", "selecting", "sending",
           "reviving", "delay", "ended"}

TypeOK ==
    /\ config \in Configs
    /\ place \in Places
    /\ packet \in Nat \union {None}
    /\ info \in [state : {"Disconnected", "Connecting", "Handshaking", "Connected",
                         "Reconnecting"},
                attempts : Nat]
    /\ stream \in Streams /\ session \in Streams
    /\ made \in Nat /\ arrived \in Nat /\ consumed \in Nat
    /\ reading \in {"length", "body"}
    /\ keepalive \in {"none", "asleep", "waiting", "dead"}
    /\ lock \in {"main", "keepalive"}

\* What is_connected says is true (connection.rs:290; the keepalive task asks
\* it): a connection in state Connected has a session, made for the stream it
\* reads from, through every reconnect, failure and interrupt.
ConnectedIsReal == info.state = "Connected" => session # None /\ session = stream

\* The counter of reconnect attempts never gets past one, since an attempt
\* that fails ends the program and one that succeeds resets the counter
\* (connection.rs:136, 150; lib.rs:115, 144): with any configured limit from
\* one up, the limit is never what stops the client.
AttemptsStayAtOne ==
    config.reconnect_attempts >= 1 =>
        info.attempts <= 1 /\ (info.state = "Reconnecting" => place = "delay")

\* The keepalive task never meets a connection that is taken apart: whenever
\* it gets the lock, the state is Connected with session and stream in place,
\* so is_connected never says no and send_keepalive never fails (lib.rs:86-95,
\* connection.rs:146-176), whichever of the two tasks was faster.
KeepaliveSeesWhole ==
    lock = "keepalive" => info.state = "Connected" /\ session = stream /\ stream # None

\* A packet that the TUN interface can return under a validated MTU passes
\* every limit on the way out (config.rs:267, tunnel.rs:137, packet.rs:281,
\* 318, connection.rs:237): a large packet never costs the connection.
PacketIsSendable ==
    place = "sending" => \A http \in HttpHeaders : Sendable(packet, http)

\* A keepalive that waits for ever waits for one of three awaits that nothing
\* times out and that hold the lock: the handshake (lib.rs:113; connection.rs:
\* 116), a write to a server that does not read (connection.rs:219-221), and the
\* read from a server that sends nothing, while the host sends nothing either
\* (lib.rs:128, connection.rs:235).  No order of events starves it.
Quiet == place = "selecting" /\ consumed = arrived

KeepaliveServed ==
    <>[](keepalive = "waiting" /\ place # "ended") =>
        <>[](place = "handshaking") \/ <>[](place = "sending") \/ <>[]Quiet

\* lib.rs:126 (receive from the server, write to TUN): the client reads the
\* stream in step, and never takes the body of a frame for a length.
ReadInStep == [][ReadLength => IsLength(consumed)]_vars
=============================================================================
