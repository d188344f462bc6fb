# A formal model of LostLoveProtocol

TLA+ modules, TLC configurations and TLAPS proofs about the LLP VPN: the core
library (`crates/llp-core`), the UDP server (`crates/llp-server`), the Rust client
(`crates/llp-client`) and the C# client (`client-csharp`). Paths below are relative to the
repository; line numbers name the code a statement is about.

## 1. The system

| Part | State | Operations | Talks to |
|---|---|---|---|
| Replay window (`session.rs`) | `highest_seq`, deque of bits | `check_and_update` | `Session` |
| Session (`session.rs`) | `tx_sequence`, nonce counter, `rekey_required`, window, three instants | `encrypt_payload`, `decrypt_payload`, clock predicates | client connection, manager |
| Session manager (`session.rs`) | map id → session, lifetime | add, get, remove, `cleanup_expired` | listener, cleanup task |
| Handshake (`handshake.rs`) | state, keys, hellos of one run | the four messages, each side | listener, client |
| Crypto (`crypto.rs`) | nonce counter | encrypt, decrypt, derive, HMAC | everything above |
| Packet codec, wrapper (`packet.rs`, `wrapper.rs`, `profiles/`) | chunk counter | build, (de)serialize, wrap, unwrap | client connection |
| UDP listener (`listener.rs`) | `handshake_states`, `client_sessions` | one task per datagram: `handle_packet` → handshake or VPN | manager, registry, NAT |
| Client handler (`client_handler.rs`) | channel, send task, counters | `run`, `handle_incoming_packet` | registry, NAT, socket |
| Client registry (`client_registry.rs`) | map VPN address → channel | register, unregister, `route_to_client` | TUN loop, handlers |
| Server tasks, NAT, TUN (`main.rs`, `nat.rs`, `tun_device.rs`) | device, gateway | TUN read loop, `route_packet`, cleanup every 60 s | registry, manager |
| Router (`router.rs`) | map of clients, command channel, one sleeping loop per registration | register, send, remove | session manager |
| Rust client (`lib.rs`, `connection.rs`, `tunnel.rs`) | `ConnectionInfo`, stream, session, wrapper, all behind one lock | connect, reconnect, `select!` loop, keepalive task, disconnect | a server over TCP, the TUN device |
| Configuration (`config.rs` of both, `main.rs` of the server) | | read, validate, export | client, server |
| C# client (`Program.cs`, `VpnClient.cs`, `TunDevice.cs`, `Crypto/`) | menu, keys, hellos, stream, counters of each connection | handshake, two copy loops, Ctrl+C | a server over TCP |
| DPI bypass, errors | | see section 8 | |

The clients in the repository (Rust and C#) speak length-prefixed TCP; the
server speaks raw UDP datagrams, so no client of the repository talks to this
server. The server is therefore modelled with clients that follow the handshake
over UDP, and the client with an unspecified TCP server; both are marked
external.

What is hard in this code, and what the properties are about:

* reordering and repetition meet a bit mask that slides, pops and clears;
* two counters, nonce and sequence number, that must stay equal through errors;
* a header that is authenticated before its lengths are final;
* two implementations of one handshake, in two languages;
* handshake messages of many runs over one socket, lost, late or damaged, and one tag for
  both directions;
* a table looked at under one lock and acted on under another;
* an error after the peer has been told of success;
* addresses that collide, and entries removed by somebody else's handler;
* four locks held at once against a reader that blocks with one of them;
* `select!` that cancels a read half way;
* two tasks and one lock that is let go of only to be asked for again;
* a stream read without frames, and loops that outlive their connection;
* timers that remove by id, whoever has the id by then;
* awaits without a timeout, under a lock or in the only task there is;
* limits at four places that a packet of a configured size must pass;
* timeouts that are configured and never read.

`PROJECT.json` lists each of these at its line with the properties that cover it.

## 2. The modules

```
SlidingWindow  <== refines ==  ReplayWindow  <-- EXTENDS --  Session  <--  Session_proofs
                                                                ^                ^
                                    PacketCodec  <-- EXTENDS -- PacketLink  <-- PacketLink_proofs
                                        ^
                              PacketCodec_proofs

KeyAgreement   <== refines ==  Handshake  <-- EXTENDS --  CsHandshake  <--  Handshake_proofs

SessionManager  <-- EXTENDS --  Router  <--  Router_proofs

PacketCodec  <--  Config  <--  ClientConnection  <--  MCClientConnection  <--  MCClients
                                      ^                                           |
                               Clients_proofs                                     v
                       (and PacketCodec_proofs)  -->  CsTraffic  -->  PacketEncryption

Listener  <--  Listener_proofs                DataPath  <--  DataPath_proofs

MCHandshake, MCPacketLink  <--  MCProtocol
```

Each `MC...` module extends the module it checks: MCHandshake and MCListener (these two name their
symmetry sets), MCPacketLink, MCRouter, MCDataPath, MCClientConnection, MCProtocol and MCClients;
each `.cfg` gives the constants their values. Operators preceded by a comment
`Mutant:` are slips that a programmer could make in the definition below them;
no specification uses them. They serve to show that a property would notice.

**ReplayWindow / SlidingWindow.** `window` is the `VecDeque<bool>`, last element
the bit of `highest_seq`. One action per branch of `check_and_update`:
`FirstPacket`, `SlideTo` (shift smaller than the window), `JumpTo` (clear),
`FillGap` (older, unseen), `Refuse`. `Slid` is the loop of pushes and pops in
closed form. `accepts` and `verdict` are history. `SlidingWindow` is the same
gate with a set instead of a mask.

**Session.** `Numbered`, `CipherFails`, `NumbersRunOut` are the three ways out of
`encrypt_payload`; `DecryptPayload` is `decrypt_payload` with the window first
and the cipher second, as in the code. A packet is its number and the nonce it
was sealed with; it opens exactly if it is undamaged and the receiver rebuilds
that nonce.

**KeyAgreement / Handshake.** One record per `ClientHandshake` and
`ServerHandshake`. Keys and HMACs are symbolic: a session key is the pair of
hellos' key halves and random bytes (HKDF and X25519 agree exactly then), an HMAC is
key plus transcript. `Damaged` changes the fields of a hello in transit, or the type byte of a
message. The type byte is not authenticated: the two verify messages of a run carry the same HMAC, of
the same transcript under the same key (`handshake.rs:470-479`, `606-614`), so each becomes the other
by a changed type, and a longer SERVER_HELLO parses as a CLIENT_HELLO. Every verify message
records who made it (`by`), and every client run whose tag it has accepted (`confirmed_by`); no
guard reads either.
`KeyAgreement` says what the handshake promises, and the promise is one-sided: a client run offers one
contract, a server run settles on a contract only if it is offered, and a client run adopts
what it has offered itself, whether or not a server has settled on it. `handshake_types` is the
run that shows why no more can be said.

**CsHandshake.** The C# client as a client run next to the Rust ones. It has key
derivation and transcript of its own, written field by field as `Handshake.cs`
writes them, and goes through `PerformHandshakeAsync` once: an unexpected message
throws and ends it, where the Rust client returns an error and keeps its state.

**PacketCodec / PacketLink.** `PacketCodec` holds the limits and checks of
`packet.rs` with the real constants; a payload is its size, since no check looks
inside. `PacketLink` puts `send_packet` and `receive_packet` at the ends of a TCP
stream, each with a `Session` whose actions it reuses. The sizes of the HTTP
response of each profile follow its text field by field (`HttpSizes`): `SendPacket` is `Numbered`
with the header, the limits, the wrapper and the write around it; `ReceivePacket`
is `DecryptPayload`, and a packet counts as genuine if the header it was sealed
with is the header that was read. The far end may also write bytes that
`deserialize` refuses.

**SessionManager.** Instants are kept as elapsed times, capped where no comparison
changes any more. Only `session_lifetime` comes from the configuration
(`main.rs:145`); the limit and the keepalive times are the constants of `session.rs`, whatever
`max_connections` and the `keepalive_*` keys say.

**Router.** A command channel, the map of clients (a set of ids, since stream and wrapper
decide nothing), and one `client_read_loop` per registration, which sleeps and then sends
`RemoveClient`. `SendToClient` leaves the router writing to the client's stream until `WriteEnds`,
and meanwhile no command is taken: `router.rs:241-243` awaits the stream without a timeout, in the
one task that serves all clients. `RemoveClient` and `FinishRemove` are the two halves of `remove_client`
around the wait for the manager's lock; between them, as at any other time, the cleanup
task and other callers of the manager may run (`Others`). No code of the server calls
the handle that the listener is given, so `Submit` sends any command.

**Config.** The fields of both files that decide a step, their defaults, `from_file` with
`validate`, and `ExportedConfig`, the file that `export_client_config` writes. `Sendable` is
the way of an IP packet through the limits behind the MTU.

**Listener.** One record per task; its `pc` marks the awaits at which another task
may run: before the lookup, between lookup and handler, and the awaits of the
admission (`add`, `insert`, `spawn`) during which `states_lock` is held. Peers may
restart. `wire` and `replies` keep what was sent, so anything may arrive late,
again, or never. A VPN packet takes `client_sessions` and the registry (`routing`,
`TablesHeld`) until `VpnEnds`, however long that takes: it may wait for the TUN device, as
`data_path_quiet` shows. Session ids are drawn fresh (`rand::random::<u64>()` is taken not
to repeat). The client's verify carries its attempt and the id it saw, which
is what key and transcript tell apart.

**DataPath.** The locks `client_sessions`, `clients`, `nat_gateway`,
`tun_device` are FIFO queues of requests, as tokio's `RwLock` is fair. A task asks for
them in this order and drops all of them when it returns, because the guards are
bound to variables that live until the end of the function (the registry guard of
the echo included, `client_handler.rs:229`). The read loop holds the device
while it blocks in `read_packet`. Numbering and sealing of outgoing packets is
abstracted: a channel is the number of packets waiting in it.

**ClientConnection.** The main task's place, `ConnectionInfo`, the TCP
stream as a sequence of units, a length and a body for each frame, and the lock
of the connection. `TunPacket` drops the receive future, with what it had read and with its
guard. A length and a body each arrive whole, so the future is dropped between them and not inside
one. The next future reads a length, and what it finds after a length is a body, whose first four bytes
("HTTP" of the wrapper, or the version 1 of a bare header) are more than 65536: an error (`ReadLength`).
tokio's lock is fair, and the main task drops its guard only to ask again, so
the lock has two values: it goes to the keepalive task if that was waiting (`MainAsks`)
and stays with the main task otherwise. `reconnect` runs under the guard from its first
line to its last. The keepalive task ticks, waits, asks `is_connected` and calls `send_keepalive`,
which builds a header and writes nothing. What follows the end of the program is left out.

**PacketEncryption / CsTraffic.** `Decrypt` with the widths of C#: `Half` stands for 2^31,
`UintPlus` wraps and `AsInt` turns the upper half negative. `CsTraffic` is the menu, one
record per connection ever made, and its two loops. The stream is counted in bytes, and a
read returns what has arrived up to one of the cuts; whatever begins in the middle of
a frame was not made by `Encrypt` and does not open. `RunAsync` returns with the first loop
(`RunReturns`), the other goes on behind the menu, and Ctrl+C reaches every connection ever
made (`CancelKeyPress`). One key serves both directions of a connection; `NonceOnce` is about the packets that
this client seals, and says nothing of those the far end seals under the same key.

**MCProtocol** lets the two ends of a session do one of three things, so that one run checks all of
them: the handshake, the packets of a session as datagrams in any order, or its packets over the
stream of the Rust client. The handshake shares nothing with the packets.

**MCClients** lets one of the two client programs run, the Rust client or the C# client,
so that one run checks both; the programs share nothing.

## 3. The runs

`tlc -config <cfg> <module>`; expected results are in `PROJECT.json`.

| Run | Bounds | Shows |
|---|---|---|
| `protocol` (handshake) | a Rust and a C# client, 2 servers, 2 profiles, 2 ids | a server that accepts a tag agrees with a client; a client completes with a server that completed, or with a tag of its own; both implementations reach the same tag exactly from the same view; refines KeyAgreement |
| `protocol` (datagrams) | window 3, numbers 0..6, nonce to 8 | at most once; exact mask; refusals final; refines the gate; number = nonce; opened once; used-up numbers are lost |
| `protocol` (stream) | the same, 3 packet sizes, 7 malformed packets, 2 in flight | all that, and what is sent can be taken apart; header, nonce and order agree; the window never refuses |
| `router` | 2 ids, table of 1, thresholds 1/0/1, 2 loops of 1 tick, 1 command waiting | no client is forgotten and each leaves in the end, unless a write to one lasts for ever; order of the clocks, nobody leaves the manager early, what has expired leaves |
| `listener` | 2 peers, 3 ids, 2 tasks, limit 1, sends fail | the admission is undisturbed; a connected client is served or stranded; a handler is registered |
| `listener_restart` | 1 peer, 3 ids, 2 tasks, 1 restart, sends fail | no second session for an address; both sides mean the same session; what is stranded stays so; a completed handshake is served or stranded, unless a VPN packet keeps the tables |
| `data_path` | 1 client, 2 counters, 2 tasks | order up to TUN; no circular wait; every routed packet gets out while traffic comes |
| `client` (Rust) | 8 configurations, 3 streams, 2 frames | the state is true, for the keepalive task too; the attempt counter never passes 1; no packet is too large; who waits for the lock for ever waits for one of three awaits without a timeout |
| `client` (C#) | 2 connections, 2 frames each cut at 4, 40, 52 bytes, 2 packets | no nonce twice; frames rise, and whole ones are kept; Ctrl+C ends every loop |

Why the bounds are enough. The packets of `protocol` have more numbers than two windows, so
every branch of the window meets every fill level, and a jump can follow a jump;
they end beyond the last sequence number and beyond the last nonce. The sizes
on the stream are the real ones, on both sides of the limit of `LlpPacket::new`,
with an HTTP header of 392 bytes before them. Two server runs, and two
client runs in different languages,
are what it takes to mix up messages of different handshakes. Two
clients are what it takes for one to disturb another's admission or address,
and two tasks for a datagram whose lookup is stale to meet an admission, since
a task that is done takes the next datagram. Three ids let every attempt draw
two. For a circle among the locks, one client, one task and the reader
suffice: a waiting writer between two readers; a second task adds the case
where the session table is contended. Two ids for one place and two loops let an id be
registered again while its first loop still sleeps and its session has expired,
and thresholds of zero and one are passed in every order. The client's configurations are both ends of the MTU, with
and without an address, an interval and a number of attempts of zero, and a file of each kind
that is refused; three streams are two reconnects, one after a success. A C# frame of
52 bytes is cut behind its length, inside its tag and nowhere, which gives a read too short,
a read that is incomplete, one that begins in the middle and one with two frames.

Where a property holds only under a condition, the run says so by its constants:
`RunningIsRegistered` holds while ids differ modulo the pool (pool 3 with 3 ids;
`listener_addresses` drops that), `RouteEnds` while TUN has traffic
(`data_path_quiet` drops that), and `OpenedInOrder` while no counter field reads
u64::MAX (`data_path_wrap` drops that): there `nonce_counter + 1` (`client_handler.rs:203`) wraps to
zero in the release build, as `After` does, and earlier packets are in order once more. `WrittenInOrder`
has the same condition. The liveness properties state theirs themselves, as a first
disjunct or a premise: `RegisteredLeaves` that no write to a client lasts for ever, `CompletedIsServed`
that no VPN packet keeps the tables for ever, and `KeepaliveServed` names the three awaits
that can keep the lock of the connection.

### Runs that end in a violation

| Run | The code | Against |
|---|---|---|
| `packet_opens` | sender and receiver authenticate different headers: no packet opens | `connection.rs:228` |
| `listener_addresses` | colliding VPN addresses take each other's route | `client_registry.rs:4-6` |
| `data_path_quiet` | a client packet waits for a packet from TUN | `nat.rs:116` |
| `data_path_wrap` | one datagram with the last counter, deciphered or not, starts the order check over | `client_handler.rs:195` |
| `handshake_types` | a client run accepts its own CLIENT_VERIFY as SERVER_VERIFY and completes with nobody | `HANDSHAKE-IMPLEMENTATION.md:46` |
| `client_frames` | a read cancelled between length and body takes the body for a length; the frame and the connection are lost | `lib.rs:126` |

Further places where code and documents part, seen while modelling and visible in
the modules, without a run of their own:

* After the first packet, and after a jump of the window size or more, the deque
  holds one bit, and what lies further back is refused although it was never
  received (`FirstPacket`, `JumpTo`, `Refused`), against `session.rs:205-208`, a mask
  over a window of REPLAY_WINDOW_SIZE. `RefinesGate` states what it does instead: the
  gate reaches back to `oldest`.
* No datagram that the UDP server handles refreshes `last_keepalive`
  (`listener.rs:247-275` never touches the manager), so `CleanupExpired` takes every
  session 90 s after its handshake, however active its client
  (`IMPLEMENTATION_STATUS.md:35`, "Keepalive механизм"); the client is served on from
  `client_sessions`.
* `rekey_required` is raised at 2^31 and nothing lowers it (no action of Session
  does), against `IMPLEMENTATION_STATUS.md:37`, "Автоматический rekey".
* The limit on connections is that of the manager, from which `Cleanup` removes
  sessions while `client_sessions` keeps its entries, so more clients are served than
  `config/server.toml.example:11` allows.
* A handshake that was begun has no timer (`config/server.toml.example:14`): no
  action of Listener removes an entry but `SpawnHandler`. `StrandedStays` is the
  strongest form of it.
* One reconnect that fails ends the client, whatever `reconnect_attempts`
  (`config/client.toml.example:14-15`) says: `DialFails` and `HandshakeFails` go to the end, and
  `AttemptsStayAtOne` shows that the limit is never reached.
* The client's connection timeout (`config/client.toml.example:11`) covers the TCP connect
  (`connection.rs:104-108`) and not the handshake.
* On an idle connection the keepalive task waits for ever: `receive_packet` holds the lock until the
  server sends something or a packet comes from TUN (`lib.rs:127-129`). It is one of the three waits that
  `KeepaliveServed` names, against `config/client.toml.example:42`, the interval of the keepalives. When
  the task does run, it sends nothing (`connection.rs:281-282`).
* A keepalive interval of 0 passes `validate` and panics in the keepalive task
  (`lib.rs:89`, `Run`); the client goes on without it.
* `--export-client-config` writes `address` where the Rust client requires `host`
  (`server/main.rs:325`, `client/config.rs:31`), so `from_file` refuses the file (`ExportedConfig`,
  `ValidClient`), against `README.md:98-104` (compile the Rust client, copy the .toml files from the server); the C#
  client reads it.
* A read of the C# client that is not exactly one frame loses frames: the first one of a
  read is opened, the rest of the read is dropped, and a frame that arrives in two reads is lost
  (`VpnClient.cs:239-247`, `Taken`). `FramesRise` and `WholeFramesKept` say what does hold.
* A write to the server that fails leaves the sending loop of the C# client running for ever
  (`VpnClient.cs:223-226`), behind the menu too, until Ctrl+C (`InterruptEndsLoops`).

Deadlock checking is off where the system may really stop: handshakes that are over,
a client that has ended, and the bounded supply of session ids in `Listener`.

## 4. Fairness

* `router`: time passes, the cleanup task of `main.rs:231-242` comes round, and tokio runs
  what is ready: the router task with a command in its channel, and a loop whose sleep is over. That a
  write to a client ends (`WriteEnds`) is not assumed. The manager's lock is: nobody holds it
  across an await.
* `listener_restart`: spawned tasks and handlers run (tokio polls what is ready). Where they wait
  for the tables, fairness is strong: the locks are FIFO queues, so who waits gets the lock when it is free
  again and again. Nothing is assumed of when a VPN packet gives them back (`VpnEnds`), no datagram
  is assumed to arrive and no client to answer.
* `data_path`: tasks and handlers run, and `read_packet` keeps returning packets. Weak
  fairness is enough for lock waits, since the FIFO queue keeps a granted
  request granted. `data_path_quiet` drops the assumption on the kernel.
* `client`, Rust: what has arrived is read, the delay ends, a connect ends within its timeout, and
  the keepalive task gives back the lock. Nothing is assumed of the host, the server, the
  handshake and the writes, which have no timeout. C#: a loop whose token is
  cancelled ends, since each of its awaits takes the token.

The other runs check safety only.

## 5. The proofs

Every safety property that a passing run checks is also a theorem: for every number of peers,
tasks, runs, ids and numbers, every window, limit and threshold.

| Theorem | States |
|---|---|
| `WindowInvariance` | `WindowSpec => []WindowInv` |
| `WindowAtMostOnce`, `WindowMaskIsExact`, `WindowTypeCorrect` | its parts: every number at most once; the mask is exact where it reaches; types |
| `RefusalFinal` | a refusal is final |
| `MaskRefinesGate` | ReplayWindow implements SlidingWindow |
| `SessionInvariance`, `SessionTypeCorrect` | `SessionSpec => []SessionInv`, and the types in it |
| `SessionNumbering` | packet n has nonce n, none missing, none twice |
| `SessionCountersAgree` | the two counters are equal until the numbers run out |
| `SessionOpensOnce` | every plaintext at most once |
| `SessionLosesUsedUp` | a number used up by a damaged packet is never opened |
| `SessionReceives` | a session is, for its window, a run of ReplayWindow: the window's theorems hold in it |
| `LinkInvariance` | `LinkSpec => []LinkInv` |
| `LinkStreamInOrder` | every header names its nonce, and the numbers in the stream rise |
| `LinkNeverDuplicate` | in an ordered stream the window refuses nothing |
| `LinkSentParses` | what `send_packet` wrote, `receive_packet` unwraps and parses |
| `HandshakeInvariance`, `InteropInvariance`, `HandshakeTypeCorrect` | `HandshakeInv` for Rust clients alone and with C# clients, and the types in it |
| `ClientsComplete` | the tag that a completed client run has accepted is its own, or that of a server run that completed with it |
| `ServersComplete` | a server run that accepts a verify shares its key with one client run |
| `SameTags` | the C# client and the server reach the same tag exactly from the same two hellos |
| `HandshakeAgrees` | the handshake, with both implementations, implements KeyAgreement: offered, settled on, adopted |
| `ListenerInvariance`, `ListenerTypeCorrect` | `ListenerInv`, and the types in it |
| `ListenerAdmits` | nobody disturbs an admission from the reply to the handler |
| `ListenerKeepsSessions`, `ListenerSameSession` | no session is replaced; both sides mean the same one |
| `ListenerServes`, `ListenerStranded` | a connected client is served, being admitted, or stranded; stranded is for ever |
| `ListenerLosesToRival`, `ListenerRegisters` | a running handler is registered unless another client with its VPN address took the place; hence always, if no two ids share an address |
| `LockInvariance`, `DataPathTypeCorrect` | `LockInv`, and the types in it |
| `NobodyWaitsInACircle` | no set of tasks, handlers and the reader waits in a circle |
| `OrderInvariance` | `OrderInv`, while no header reads u64::MAX |
| `PacketsOpenInOrder`, `PacketsWriteInOrder` | packets are opened, and reach TUN, in the order of their counters |
| `RouterTypeCorrect`, `RouterForgetsNobody` | every registered client has a loop or a command that will remove it |
| `RouterRunsManager`, `RouterLeaves` | a run of the router is a run of the manager, whose theorems hold under it |
| `ManagerInvariance`, `ManagerWithinLimit`, `ManagerClocksOrdered` | the table keeps its limit and the clocks their order |
| `ManagerLeaves` | a session leaves only when it is removed or due |
| `BuiltIsSerialized`, `RoundTrip` | what `LlpPacket::new` accepts, `serialize` and `deserialize` accept, and nothing is lost |
| `UnpaddedFits` | without padding, it stays below the reader's limit behind any HTTP response |
| `ValidIsSendable`, `ClientPacketIsSendable` | under a validated MTU no packet is too large |
| `ClientInvariance`, `ClientTypeCorrect` | `ClientSpec => []ClientInv`, and the types in it |
| `ClientConnectedIsReal`, `ClientKeepaliveSeesWhole` | Connected means session and stream; the keepalive task never sees less |
| `ClientAttemptsStayAtOne` | one attempt at a time, whatever the limit |
| `DecryptStaysInside` | what passes the checks of `Decrypt` lies inside the read, wrapping included |
| `CsTrafficInvariance`, `CsTrafficTypeCorrect` | `CsTrafficSpec => []ProgramInv`, and the types in it |
| `CsNonceOnce`, `CsFramesRise`, `CsWholeFramesKept` | the nonces of what the client seals on a connection differ; the frames it opens rise; whole frames are kept |

`Session_proofs`, the window, assumes `WindowSize \in Nat \ {0}` and `MaxSeq \in Nat`, no
more. `AtMostOnce` is not inductive: the code decides from the mask while the
property is about history. `WindowInv` adds that the mask is exact where the deque
reaches (`MaskIsExact`) and that nothing above `highest_seq` was accepted
(`HighestBounds`). `SlidShape` gives the length and the bits of the deque after
a shift; every branch then keeps each conjunct (`WindowStep`).

`Session_proofs`, the session, reuses the step lemmas of the window: a step of the receiver is a
step of the window, and a step of the sender leaves it alone. `OpenedOnce` follows from
`opened <= accepts` and `AtMostOnce`; that a number let through now was never
opened before is the lemma `FreshWasUnused`. The session needs further that
the nonce counter is wider than the sequence number (`MaxSeq < MaxNonce`, u32 and
u64) and that the rekey mark lies within the sequence numbers.

`PacketLink_proofs` puts both ends together: `NeverDuplicate` alone is not inductive,
it needs where the numbers in the stream lie (`StreamInOrder`) and that the receiver
has seen only numbers that the sender took (`SeenWasTaken`). A number above all that
was seen is let through (`AboveIsTaken`); each step of the link either leaves the stream
alone (`SenderMoves`), drops its head (`HeadDropped`) or writes behind it (`TailWritten`).
The far end's malformed packets may be any that `deserialize` refuses.

`Handshake_proofs`: what a run concludes from a tag is about a run it never sees, so `HandshakeInv`
says who can have made each tag on the network, by the run that made it and not by the type it
arrives with (`TagsMade`): a client run that is that far, or a server run that has completed. Equal tags come
from equal pairs of hellos (`TagsDetermineHellos`), and keys are in the hellos, so two client runs, or
two server runs, never make one tag. A server run that accepts a tag therefore agrees with its
maker (`AcceptedTag`), and a client run with the server run that made the tag it accepts,
unless it made that tag itself (`ConfirmedTag`); neither side changes its hellos afterwards. The
C# client computes key and transcript in its own way; `SameComputation` shows that it is the same way,
after which its steps keep the invariant as the Rust ones do. The refinement takes each step to a step of
KeyAgreement or to a stutter: sending CLIENT_VERIFY offers a contract (`ClientOffers`), sending
SERVER_VERIFY settles it (`ServerSettles`), and accepting SERVER_VERIFY adopts it (`ClientAdopts`).

`Listener_proofs`: `AdmissionUndisturbed` says what the lock `states_lock` is for, and needs
little else. `SessionNeverReplaced` and `SameSession` need what a datagram on the wire or
in a task may still say: a verify that looked up the session table before there was a session must not
match a handshake begun since (`NoStaleVerify`), which holds because ids are drawn
once (`IdsAreDrawn`, `OneOwner`); and a SERVER_VERIFY, however late it arrives, is that of the session
the server holds or of a completed entry that is left (`VerifyIsKept`). `RunningIsRegistered` is false in
general (`listener_addresses`); what holds in general is `LostToCollision`, and
`ListenerRegisters` adds the hypothesis that `VpnIp` is injective on the ids, which up to
`AddressPool` consecutive ids satisfy and random ones do not guarantee.

`DataPath_proofs`: `LockInv` says, for every await, whose request is in which queue
(`QueuesMatch`) and which were granted (`GuardsHeld`). A circle is excluded by the
order of the locks: an actor waits only at the last lock it has asked for (`HoldsEarlierLocks`).
If everybody in a set S waits for somebody in S, nobody in S stands at the device, since the
first of them in that queue (`FirstOfThem`) could wait at no other lock and for nobody
ahead of it; then nobody stands at the gateway, and so on down to the session table (`NoneAtLast`).
The reader fits in because it asks for the registry only when it has dropped the device. The bound on tasks and handlers does not enter, and nothing is assumed of
the constants beyond their types. The order of packets rests on the write lock of the session
table, which one task holds from the counter check to the device (`OneTaskInside`):
`OrderInv` adds that all packets opened or written lie behind the counter of the
handler, and that the packet of the task inside lies between the two (`NextToWrite`). Its hypothesis,
that no header reads `MaxCounter`, stands for u64::MAX, where the counter wraps (section 3).

`Router_proofs`, the manager, needs of the thresholds only that they are natural numbers,
and of the set of ids that it is finite; the limit rests on a lemma about the cardinality of a set that grows by one.
In the router, `EveryClientIsWatched` is inductive once the types are known; the cases that
matter are the loop that ends, which turns into a command, and the command at the head of
the channel, which takes its client with it. For the manager each step of the router is a call,
a cleanup, a tick or a stutter, which is all that `RouterRunsManager` needs.

`PacketCodec_proofs` is arithmetic: 24 + 64472 + 1024 + 16 = 65536, so the separate
limits of payload and padding imply the limit on the whole, and both lengths are below
2^16 where they are cast.

`Clients_proofs`, Rust: the properties hold because of where the lock can be. `ClientInv`
adds that the keepalive task has the lock only between a handshake and the next reconnect
(`LockInv`), that in all these places session and stream are whole and the counter is zero
(`StateInv`), and that a packet on its way came from a buffer of a validated size (`PacketInv`).
C#: each connection has an invariant of its own: the n-th nonce is n - 1,
and every frame opened begins before the place up to which the stream was read, which is what makes the next one
later. A frame opens only if a read begins at its first byte and holds all of it;
`DecryptStaysInside` is the arithmetic behind that, by cases on whether the sum wrapped.

Only model-checked: the liveness properties, which the prover does not handle: `ExpiredLeaves`,
`RegisteredLeaves`, `CompletedIsServed`, `RouteEnds`, `KeepaliveServed` and `InterruptEndsLoops`.
`RouteEnds` and `RegisteredLeaves` rest on
`NobodyWaitsInACircle` and `RouterForgetsNobody`, which are proved. The type invariants of Handshake, Listener, DataPath and
PacketLink are theorems; TLC checked them while the invariants were found, and the runs
spend their time on the other properties.

## 6. Assumptions

* AEAD, HMAC, HKDF and X25519 are ideal: what was not sealed or signed
  under the same key and data does not verify.
* A session id is not drawn twice by the server.
* Release build: unsigned overflow wraps.
* The server does not crash and restart; nothing is persisted.

## 7. Plan

Done since the first version: `Router`, `Config`, the keepalive task and the lock of the Rust client, the
traffic of the C# client, the sizes of the mimicry, and proofs about each of them; then the
handshake, the listener and the data path as theorems.

1. The numbering of the packets that the server's handler sends, abstracted in `DataPath`,
   with `NumberIsNonce` for it.
2. An abstract specification of the server's path to TUN, a gate per client that lets counters
   through in rising order, which `DataPath` implements step by step.
3. `Listener` over `Handshake`: that the verify messages of the listener, which carry an attempt
   and an id, are those of a run of KeyAgreement.

## 8. Not modelled

The commands that create a device or set an address or route (pure I/O; that they fail is
modelled), TOML syntax, the command line, the detection of the public address and error wording. The DPI bypass
and the NAT table are stubs that nothing calls or that return their input. Of the mimicry
profiles, the texts, the requests and the timing (no code uses the last two). Key
generation, Ed25519 and BLAKE3: contents that no step tells apart, the last two unused.
`validate_timestamp` is called by no code. The list of files in the C# menu and the reading of such a file.
