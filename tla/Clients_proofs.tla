---------------------------- MODULE Clients_proofs ----------------------------
(***************************************************************************)
(* Proofs about the two client programs.  The Rust client: its             *)
(* configuration, the lock that its two tasks share, and what its state    *)
(* promises.  The C# client: what Decrypt reads, the nonces that Encrypt   *)
(* uses, and the frames that reach the TUN device.                         *)
(***************************************************************************)
EXTENDS ClientConnection, CsTraffic, PacketCodec_proofs

(* The Rust client.                                                        *)

\* Every packet that the TUN interface can return under an MTU that validate
\* lets through passes every limit on its way to the server (config.rs:267,
\* tunnel.rs:137, packet.rs:281, 318; connection.rs:237).
THEOREM ValidIsSendable ==
    ASSUME NEW mtu \in Nat, ValidMtu(mtu), NEW size \in ReadSizes(mtu),
           NEW http \in Nat, http <= 1024
    PROVE  Sendable(size, http)
<1> DEFINE p == PacketOf(size)
<1>1. size \in Nat /\ size <= 9004
  BY DEF ValidMtu, MIN_MTU, MAX_MTU, ReadSizes, ReadBuffer
<1>2. p.payload = size + 16 /\ p.padding = 0
  BY DEF PacketOf, LlpPacket, AUTH_TAG_SIZE
<1>3. TotalSize(p) = size + 56
  BY <1>1, <1>2 DEF TotalSize, HEADER_SIZE, AUTH_TAG_SIZE
<1>4. MayBeBuilt(p)
  BY <1>1, <1>2 DEF MayBeBuilt, MAX_PAYLOAD_SIZE, MAX_PADDING_SIZE, MAX_PACKET_SIZE,
                    MIN_PACKET_SIZE, HEADER_SIZE, AUTH_TAG_SIZE
<1>5. MaySerialize(p)
  BY <1>1, <1>3 DEF MaySerialize, MAX_PACKET_SIZE
<1>6. Wrap(Serialize(p), http).size = http + (size + 56)
  BY <1>3 DEF Wrap, Serialize
<1> QED BY <1>1, <1>4, <1>5, <1>6 DEF Sendable, MAX_PACKET_SIZE

-----------------------------------------------------------------------------
(* The invariant.                                                          *)

Whole == info.state = "Connected" /\ session = stream /\ stream # None

\* Between the first handshake and a reconnect.
Live == {"routing", "selecting", "sending", "reviving"}

LockInv == lock = "keepalive" => Whole /\ place \in Live \union {"ended"}

StateInv ==
    /\ place \in Live => Whole /\ info.attempts = 0
    /\ info.state = "Connected" => Whole
    /\ place = "handshaking" => stream # None
    /\ place = "start" => info.attempts = 0

AttemptsInv ==
    config.reconnect_attempts >= 1 =>
        info.attempts <= 1 /\ (info.state = "Reconnecting" => place = "delay")

PacketInv ==
    /\ place \notin {"start", "ended"} => ValidClient(config)
    /\ place = "sending" => packet \in TunSizes

ClientInv == TypeOK /\ LockInv /\ StateInv /\ AttemptsInv /\ PacketInv

LEMMA ConfigFields ==
    ASSUME NEW c \in ClientConfig
    PROVE  c.mtu \in Nat /\ c.reconnect_attempts \in Nat
<1>1. c.mtu \in Word /\ c.reconnect_attempts \in Nat
  BY DEF ClientConfig
<1> QED BY <1>1, WordRange

LEMMA ConfigIsTyped ==
    ASSUME TypeOK
    PROVE  config.mtu \in Nat /\ config.reconnect_attempts \in Nat
<1>1. config \in ClientConfig
  BY ClientAssumption DEF TypeOK
<1> QED BY <1>1, ConfigFields

LEMMA TunSizeIsNat ==
    ASSUME TypeOK, NEW size \in TunSizes
    PROVE  size \in Nat
<1>1. config.mtu \in Nat
  BY ConfigIsTyped
<1>2. size = 1 \/ size = config.mtu + 4
  BY DEF TunSizes, ReadBuffer
<1> QED BY <1>1, <1>2

\* CountAttempt from a place where the state is Connected.
LEMMA CountAttemptKeeps ==
    ASSUME ClientInv, place \in Live, CountAttempt, lock = "main",
           UNCHANGED <<config, link, input, tasks>>
    PROVE  ClientInv'
<1>1. TypeOK /\ info.attempts = 0 /\ config.reconnect_attempts \in Nat
  BY ConfigIsTyped DEF ClientInv, StateInv
<1>2. /\ info' = [state |-> "Reconnecting", attempts |-> 1]
      /\ place' = IF 1 > config.reconnect_attempts THEN "ended" ELSE "delay"
      /\ packet' = None
  <2>1. info.attempts + 1 = 1
    BY <1>1
  <2>2. /\ info' = [state |-> "Reconnecting", attempts |-> info.attempts + 1]
        /\ place' = IF info.attempts + 1 > config.reconnect_attempts THEN "ended" ELSE "delay"
        /\ packet' = None
    BY DEF CountAttempt
  <2> QED BY <2>1, <2>2
<1>3. place' \in {"ended", "delay"} /\ info'.state = "Reconnecting" /\ info'.attempts = 1
  BY <1>2
<1>4. TypeOK'
  <2>1. info' \in [state : {"Disconnected", "Connecting", "Handshaking", "Connected",
                           "Reconnecting"}, attempts : Nat]
    BY <1>2
  <2> QED BY <1>1, <1>2, <1>3, <2>1 DEF TypeOK, Places, Streams, link, input, tasks
<1>5. AttemptsInv'
  BY <1>1, <1>2, <1>3 DEF AttemptsInv
<1>6. PacketInv'
  BY <1>3 DEF ClientInv, PacketInv, Live
<1>7. LockInv' /\ StateInv'
  BY <1>3 DEF LockInv, StateInv, Live, Whole, tasks
<1> QED BY <1>4, <1>5, <1>6, <1>7 DEF ClientInv

LEMMA ClientStep == ASSUME ClientInv, [ClientNext]_vars PROVE ClientInv'
<1> USE ClientAssumption DEF link, input, tasks
<1>t. TypeOK /\ LockInv /\ StateInv /\ AttemptsInv /\ PacketInv
  BY DEF ClientInv
\* A step of the main task that leaves the connection and its state alone.
<1>a. ASSUME UNCHANGED <<config, info, link>>, TypeOK',
             place' \in Places, place' # "handshaking", place' # "start",
             place' \in Live => place \in Live,
             lock' = "keepalive" => place \in Live /\ place' \in Live,
             place' = "delay" <=> place = "delay",
             place' # "ended" => place \notin {"start", "ended"},
             place' = "sending" => packet' \in TunSizes
      PROVE  ClientInv'
  BY <1>t, <1>a DEF ClientInv, LockInv, StateInv, AttemptsInv, PacketInv, Whole, Live, TunSizes
<1>b. ASSUME Errs PROVE place' = "reviving" /\ reading' = "length" /\ lock' \in {"main", "keepalive"}
  BY <1>b DEF Errs, MainAsks
<1>1. CASE Start
  BY <1>1, <1>t DEF Start, Go, ClientInv, TypeOK, LockInv, StateInv, AttemptsInv, PacketInv,
     Whole, Live, Places, Streams
<1>2. ASSUME NEW from, Ends(from), from # "delay" PROVE ClientInv'
  BY <1>2, <1>t DEF Ends, ClientInv, TypeOK, LockInv, StateInv, AttemptsInv, PacketInv, Whole,
     Live, Places, Streams
<1>3. CASE DialSucceeds
  BY <1>3, <1>t DEF DialSucceeds, Go, ClientInv, TypeOK, LockInv, StateInv, AttemptsInv, PacketInv,
     Whole, Live, Places, Streams, TunSizes
<1>4. CASE HandshakeSucceeds
  <2>1. place' \in {"routing", "selecting"} /\ lock' \in {"main", "keepalive"}
    BY <1>4, <1>t DEF HandshakeSucceeds, AfterHandshake, MainAsks, TypeOK
  <2> QED
    BY <1>4, <1>t, <2>1 DEF HandshakeSucceeds, ClientInv, TypeOK, LockInv, StateInv, AttemptsInv,
       PacketInv, Whole, Live, Places, Streams, TunSizes
<1>5. CASE Run
  BY <1>5, <1>t DEF Run, ClientInv, TypeOK, LockInv, StateInv, AttemptsInv, PacketInv, Whole, Live,
     Places, Streams, TunSizes
<1>6. CASE Redial
  BY <1>6, <1>t DEF Redial, Go, ClientInv, TypeOK, LockInv, StateInv, AttemptsInv, PacketInv,
     Whole, Live, Places, Streams, TunSizes
<1>7. CASE ReadTun
  <2>1. PICK size \in TunSizes : TunPacket(size)
    BY <1>7 DEF ReadTun
  <2>2. size \in Nat
    BY <1>t, TunSizeIsNat
  <2>3. lock' \in {"main", "keepalive"}
    BY <1>t, <2>1 DEF TunPacket, MainAsks, TypeOK
  <2>4. TypeOK'
    BY <1>t, <2>1, <2>2, <2>3 DEF TunPacket, TypeOK, Places
  <2> QED BY <1>a, <2>1, <2>4 DEF TunPacket, TunSizes, Places, Live
<1>8. CASE SendPacket
  <2>1. CASE Reconnect
    BY <1>8, <1>t, <2>1, CountAttemptKeeps
       DEF SendPacket, MainHas, Reconnect, Live
  <2>2. CASE ~Reconnect
    <3>1. place = "sending" /\ place' = "selecting" /\ packet' = None
          /\ UNCHANGED <<config, info, link, input, keepalive>> /\ MainAsks
      BY <1>8, <2>2 DEF SendPacket, MainHas
    <3>2. TypeOK'
      BY <1>t, <3>1 DEF TypeOK, Places, MainAsks
    <3> QED BY <1>a, <3>1, <3>2 DEF Places, Live
  <2> QED BY <2>1, <2>2
<1>9. ASSUME ReadLength \/ StreamEnds PROVE ClientInv'
  <2>1. /\ place = "selecting" /\ place' \in {"selecting", "reviving"}
        /\ UNCHANGED <<config, packet, info, link, arrived, keepalive>>
        /\ consumed' \in Nat /\ reading' \in {"length", "body"}
        /\ lock' \in {"main", "keepalive"}
    <3>1. place = "selecting" /\ lock \in {"main", "keepalive"} /\ consumed \in Nat
      BY <1>9, <1>t DEF ReadLength, StreamEnds, HasUnit, MainHas, TypeOK
    <3> QED BY <1>9, <1>b, <3>1 DEF ReadLength, StreamEnds
  <2>2. TypeOK'
    BY <1>t, <2>1 DEF TypeOK, Places
  <2> QED BY <1>a, <2>1, <2>2 DEF Places, Live
<1>10. CASE ReadBody
  <2>1. /\ place = "selecting" /\ place' \in {"selecting", "reviving"}
        /\ UNCHANGED <<config, packet, info, link, arrived, keepalive>>
        /\ consumed' \in Nat /\ reading' = "length"
        /\ lock' \in {"main", "keepalive"}
    BY <1>10, <1>b, <1>t DEF ReadBody, HasUnit, MainHas, MainAsks, TypeOK
  <2>2. TypeOK'
    BY <1>t, <2>1 DEF TypeOK, Places
  <2> QED BY <1>a, <2>1, <2>2 DEF Places, Live
<1>11. CASE Revive
  BY <1>11, <1>t, CountAttemptKeeps DEF Revive, MainHas, Reconnect, Live
<1>12. CASE Keepalive
  BY <1>12, <1>t DEF Keepalive, KeepaliveTick, KeepaliveRuns, ClientInv, TypeOK, LockInv, StateInv,
     AttemptsInv, PacketInv, Whole, Live, TunSizes
<1>13. CASE Interrupt
  BY <1>13, <1>t DEF Interrupt, ClientInv, TypeOK, LockInv, StateInv, AttemptsInv, PacketInv, Whole,
     Live, Places, Streams
<1>14. CASE Arrive \/ UNCHANGED vars
  BY <1>14, <1>t DEF Arrive, vars, ClientInv, TypeOK, LockInv, StateInv, AttemptsInv, PacketInv,
     Whole, Live, TunSizes
<1> QED
  BY <1>1, <1>2, <1>3, <1>4, <1>5, <1>6, <1>7, <1>8, <1>9, <1>10, <1>11, <1>12, <1>13, <1>14
     DEF ClientNext, Connecting, Receiving, StartFails, DialFails, HandshakeFails, RoutingFails,
         TunFails, Killed

\* The invariant holds for every set of configurations.
THEOREM ClientInvariance == ClientSpec => []ClientInv
<1>1. Init => ClientInv
  BY ClientAssumption DEF Init, ClientInv, TypeOK, LockInv, StateInv, AttemptsInv, PacketInv,
     Whole, Live, Places, Streams
<1>2. ClientInv /\ [ClientNext]_vars => ClientInv'
  BY ClientStep
<1> QED BY <1>1, <1>2, PTL DEF ClientSpec

\* The fields keep their types (connection.rs:55-67, lib.rs:26-33).
THEOREM ClientTypeCorrect == ClientSpec => []TypeOK
<1>1. ClientInv => TypeOK
  BY DEF ClientInv
<1> QED BY <1>1, ClientInvariance, PTL

\* is_connected is true to its word (connection.rs:290).
THEOREM ClientConnectedIsReal == ClientSpec => []ConnectedIsReal
<1>1. ClientInv => ConnectedIsReal
  BY DEF ClientInv, StateInv, Whole, ConnectedIsReal
<1> QED BY <1>1, ClientInvariance, PTL

\* The keepalive task only ever meets a whole connection (lib.rs:86-95).
THEOREM ClientKeepaliveSeesWhole == ClientSpec => []KeepaliveSeesWhole
<1>1. ClientInv => KeepaliveSeesWhole
  BY DEF ClientInv, LockInv, Whole, KeepaliveSeesWhole
<1> QED BY <1>1, ClientInvariance, PTL

\* The limit of attempts is never what stops the client (connection.rs:150).
THEOREM ClientAttemptsStayAtOne == ClientSpec => []AttemptsStayAtOne
<1>1. ClientInv => AttemptsStayAtOne
  BY DEF ClientInv, AttemptsInv, AttemptsStayAtOne
<1> QED BY <1>1, ClientInvariance, PTL

\* No packet from TUN is too large for the way out (tunnel.rs:137, packet.rs:281).
THEOREM ClientPacketIsSendable == ClientSpec => []PacketIsSendable
<1>1. ASSUME ClientInv, place = "sending", NEW http \in HttpHeaders
      PROVE  Sendable(packet, http)
  <2>1. config.mtu \in Nat /\ ValidMtu(config.mtu)
    <3>1. config.mtu \in Nat
      BY <1>1, ConfigIsTyped DEF ClientInv
    <3> QED BY <1>1, <3>1 DEF ClientInv, PacketInv, ValidClient
  <2>2. packet \in ReadSizes(config.mtu)
    BY <1>1, <2>1 DEF ClientInv, PacketInv, TunSizes, ReadSizes, ReadBuffer
  <2>3. http \in Nat /\ http <= 1024
    <3>1. PICK profile \in MimicryProfile : http \in HttpSizes(profile)
      BY ClientAssumption
    <3> QED BY <3>1, HttpIsShort
  <2> QED BY <2>1, <2>2, <2>3, ValidIsSendable
<1>2. ClientInv => PacketIsSendable
  BY <1>1 DEF PacketIsSendable
<1> QED BY <1>2, ClientInvariance, PTL

-----------------------------------------------------------------------------
(* The C# client.                                                          *)

\* Decrypt reads no byte beyond its packet: once the checks have passed, the
\* length covers nonce and tag and lies within the packet, although the sum in
\* the check wraps (PacketEncryption.cs:77-108).
THEOREM DecryptStaysInside ==
    ASSUME NEW p \in Incoming, p.size < Half, Passes(p)
    PROVE  /\ NONCE_SIZE + TAG_SIZE <= p.length
           /\ LENGTH_SIZE + p.length <= p.size
<1> USE UintAssumption DEF Incoming, Uint, LENGTH_SIZE, NONCE_SIZE, TAG_SIZE
<1>1. p.length < Half
  BY DEF Passes, CiphertextLen, AsInt
<1>2. NONCE_SIZE + TAG_SIZE <= p.length
  BY <1>1 DEF Passes, CiphertextLen, AsInt
<1>3. UintPlus(LENGTH_SIZE, p.length) = LENGTH_SIZE + p.length
  <2>1. LENGTH_SIZE + p.length < 2 * Half
    BY <1>1
  <2>2. ASSUME NEW n \in Nat, NEW m \in Nat, n < m PROVE n % m = n
    BY <2>2
  <2> QED BY <2>1, <2>2 DEF UintPlus
<1> QED BY <1>2, <1>3 DEF Passes, Incomplete

-----------------------------------------------------------------------------
(* Arithmetic of whole frames.                                             *)

LEMMA FrameFacts == Frame \in Nat \ {0} /\ Frame = LENGTH_SIZE + LengthField(PlainSize) /\ Frame > 32
  BY CsTrafficAssumption DEF Frame, FrameSize, LengthField, LENGTH_SIZE, NONCE_SIZE, TAG_SIZE

LEMMA WholeFrames ==
    ASSUME NEW p \in Nat, NEW f \in Nat \ {0}, p % f = 0
    PROVE  p \div f \in Nat /\ p = f * (p \div f)
  OBVIOUS

LEMMA DivOfMultiple ==
    ASSUME NEW n \in Nat, NEW f \in Nat \ {0}
    PROVE  (n * f) % f = 0 /\ (n * f) \div f = n
  OBVIOUS

LEMMA OneFrameMore ==
    ASSUME NEW n \in Nat, NEW f \in Nat
    PROVE  (n + 1) * f = n * f + f
  OBVIOUS

LEMMA FewerFrames ==
    ASSUME NEW m \in Nat, NEW n \in Nat, NEW f \in Nat \ {0}, m * f + f <= n * f
    PROVE  m < n
  OBVIOUS

-----------------------------------------------------------------------------
(* The invariant of a connection.                                          *)

\* The nonces used are those below the counter.
NoncesCounted(conn) ==
    /\ Len(conn.sealed) = conn.sendCounter
    /\ \A n \in 1..Len(conn.sealed) : conn.sealed[n] = n - 1

\* The frames opened lie before the place of the reader, in their order.
FramesBehind(conn) ==
    /\ \A n \in 1..Len(conn.opened) : conn.opened[n] * Frame + Frame <= conn.pos
    /\ Rises(conn.opened)

NoneMissing(conn) ==
    ~conn.ragged => /\ conn.pos = Len(conn.opened) * Frame
                    /\ \A n \in 1..Len(conn.opened) : conn.opened[n] = n - 1

ConnectionInv(conn) ==
    conn \in Connection /\ NoncesCounted(conn) /\ FramesBehind(conn) /\ NoneMissing(conn)

CsTrafficInv == CsTrafficTypeOK /\ \A c \in Clients : ConnectionInv(conns[c])

LEMMA NewConnectionInv == ConnectionInv(NewConnection)
  BY FrameFacts DEF ConnectionInv, NewConnection, Connection, LoopStates, NoncesCounted,
     FramesBehind, NoneMissing, Rises

\* What is said of a connection does not depend on its flags.
LEMMA FlagsKeep ==
    ASSUME NEW conn, ConnectionInv(conn), NEW new \in Connection,
           new.sendCounter = conn.sendCounter, new.sealed = conn.sealed,
           new.pos = conn.pos, new.opened = conn.opened, new.ragged = conn.ragged
    PROVE  ConnectionInv(new)
  BY DEF ConnectionInv, NoncesCounted, FramesBehind, NoneMissing

LEMMA SealKeeps ==
    ASSUME NEW conn, ConnectionInv(conn), NEW written \in BOOLEAN, NEW s \in LoopStates
    PROVE  ConnectionInv([Sealed(conn, written) EXCEPT !.sender = s])
<1> DEFINE new == [Sealed(conn, written) EXCEPT !.sender = s]
<1>1. conn \in Connection
  BY DEF ConnectionInv
<1>2. /\ new \in Connection
      /\ new.sealed = Append(conn.sealed, conn.sendCounter)
      /\ new.sendCounter = conn.sendCounter + 1
      /\ new.pos = conn.pos /\ new.opened = conn.opened /\ new.ragged = conn.ragged
  <2>1. conn.sealed \in Seq(Nat) /\ conn.sendCounter \in Nat
    BY <1>1 DEF Connection
  <2>2. Append(conn.sealed, conn.sendCounter) \in Seq(Nat) /\ conn.sendCounter + 1 \in Nat
    BY <2>1
  <2>3. Sealed(conn, written) = [conn EXCEPT !.sealed = Append(conn.sealed, conn.sendCounter),
                                             !.sendCounter = conn.sendCounter + 1]
    BY <1>1 DEF Sealed, Connection
  <2> QED BY <1>1, <2>2, <2>3 DEF Connection
<1>3. NoncesCounted(new)
  <2>1. Len(new.sealed) = new.sendCounter
    BY <1>1, <1>2 DEF ConnectionInv, NoncesCounted, Connection
  <2>2. ASSUME NEW n \in 1..Len(new.sealed) PROVE new.sealed[n] = n - 1
    <3>1. conn.sealed \in Seq(Nat) /\ Len(conn.sealed) = conn.sendCounter
      BY <1>1 DEF ConnectionInv, NoncesCounted, Connection
    <3>2. CASE n \in 1..Len(conn.sealed)
      BY <1>2, <3>1, <3>2 DEF ConnectionInv, NoncesCounted
    <3>3. CASE n = Len(conn.sealed) + 1
      BY <1>2, <3>1, <3>3
    <3> QED BY <1>2, <3>1, <3>2, <3>3
  <2> QED BY <2>1, <2>2 DEF NoncesCounted
<1>4. FramesBehind(new) /\ NoneMissing(new)
  BY <1>2 DEF ConnectionInv, FramesBehind, NoneMissing
<1> QED BY <1>2, <1>3, <1>4 DEF ConnectionInv

\* A read opens a frame only if it begins with it and holds all of it, and
\* then it opens it.
LEMMA ReadOpens ==
    ASSUME NEW from \in Nat, NEW to \in Nat, from < to
    PROVE  Opens(Read(from, to)) <=> from % Frame = 0 /\ to - from >= Frame
<1> DEFINE l == LengthField(PlainSize)
<1>1. l \in Nat /\ l >= 28 /\ l + 4 = Frame /\ l < Half /\ Frame < Half
  BY CsTrafficAssumption, UintAssumption, FrameFacts
     DEF LengthField, LENGTH_SIZE, NONCE_SIZE, TAG_SIZE
<1>2. UintPlus(LENGTH_SIZE, l) = Frame
  <2>1. ASSUME NEW n \in Nat, NEW m \in Nat, n < m PROVE n % m = n
    BY <2>1
  <2>2. Frame < 2 * Half /\ 2 * Half \in Nat
    BY <1>1, UintAssumption, FrameFacts
  <2> QED BY <1>1, <2>1, <2>2, FrameFacts DEF UintPlus, LENGTH_SIZE
<1>3. AsInt(l) = l
  BY <1>1 DEF AsInt
<1>4. CiphertextLen(Read(from, to)) >= 0
  BY <1>1, <1>3 DEF CiphertextLen, Read, NONCE_SIZE, TAG_SIZE
<1>5. Incomplete(Read(from, to)) <=> to - from < Frame
  BY <1>2 DEF Incomplete, Read
<1>6. TooShort(Read(from, to)) <=> to - from < 32
  BY DEF TooShort, Read, LENGTH_SIZE, NONCE_SIZE, TAG_SIZE
<1>7. Read(from, to).genuine <=> from % Frame = 0
  BY DEF Read
<1> QED BY <1>4, <1>5, <1>6, <1>7, FrameFacts DEF Opens, Passes

LEMMA TakeKeeps ==
    ASSUME NEW conn, ConnectionInv(conn), NEW to \in Nat, conn.pos < to
    PROVE  ConnectionInv([conn EXCEPT !.pos = to, !.opened = Taken(conn, to),
               !.ragged = @ \/ conn.pos % Frame # 0 \/ to - conn.pos # Frame])
<1> DEFINE new == [conn EXCEPT !.pos = to, !.opened = Taken(conn, to),
               !.ragged = @ \/ conn.pos % Frame # 0 \/ to - conn.pos # Frame]
           whole == conn.pos % Frame = 0 /\ to - conn.pos >= Frame
           k == conn.pos \div Frame
<1>1. conn \in Connection /\ conn.pos \in Nat /\ conn.opened \in Seq(Nat) /\ conn.ragged \in BOOLEAN
  BY DEF ConnectionInv, Connection
<1>2. Taken(conn, to) = IF whole THEN Append(conn.opened, k) ELSE conn.opened
  BY <1>1, ReadOpens DEF Taken
<1>3. whole => k \in Nat /\ conn.pos = Frame * k /\ k * Frame = Frame * k
  <2> SUFFICES ASSUME whole PROVE k \in Nat /\ conn.pos = Frame * k /\ k * Frame = Frame * k
    OBVIOUS
  <2>1. k \in Nat /\ conn.pos = Frame * k
    BY <1>1, FrameFacts, WholeFrames
  <2>2. ASSUME NEW m \in Nat, NEW n \in Nat PROVE m * n = n * m
    OBVIOUS
  <2> QED BY <2>1, <2>2, FrameFacts
<1>4. Taken(conn, to) \in Seq(Nat)
  BY <1>1, <1>2, <1>3
<1>5. /\ new \in Connection /\ new.pos = to /\ new.opened = Taken(conn, to)
      /\ new.sealed = conn.sealed /\ new.sendCounter = conn.sendCounter
      /\ new.ragged = (conn.ragged \/ conn.pos % Frame # 0 \/ to - conn.pos # Frame)
  <2>1. (conn.ragged \/ conn.pos % Frame # 0 \/ to - conn.pos # Frame) \in BOOLEAN
    BY <1>1
  <2> QED BY <1>1, <1>4, <2>1 DEF Connection
<1>6. NoncesCounted(new)
  BY <1>5 DEF ConnectionInv, NoncesCounted
<1>7. ASSUME NEW n \in 1..Len(conn.opened)
      PROVE  conn.opened[n] \in Nat /\ conn.opened[n] * Frame + Frame <= conn.pos
  BY <1>1, <1>7 DEF ConnectionInv, FramesBehind
<1>8. FramesBehind(new)
  <2>1. CASE ~whole
    <3>1. new.opened = conn.opened
      BY <1>2, <1>5, <2>1
    <3>2. ASSUME NEW n \in 1..Len(conn.opened) PROVE conn.opened[n] * Frame + Frame <= to
      <4>1. conn.opened[n] * Frame \in Nat
        BY <1>7, FrameFacts
      <4> QED BY <1>1, <1>7, <4>1, FrameFacts
    <3> QED BY <1>5, <3>1, <3>2 DEF ConnectionInv, FramesBehind
  <2>2. CASE whole
    <3>1. new.opened = Append(conn.opened, k)
      BY <1>2, <1>5, <2>2
    <3>2. ASSUME NEW n \in 1..Len(conn.opened) PROVE conn.opened[n] < k
      <4>1. conn.opened[n] * Frame + Frame <= k * Frame
        BY <1>3, <1>7, <2>2
      <4> QED BY <1>3, <1>7, <2>2, <4>1, FewerFrames, FrameFacts
    <3>3. ASSUME NEW n \in 1..Len(new.opened) PROVE new.opened[n] * Frame + Frame <= to
      <4>1. CASE n \in 1..Len(conn.opened)
        <5>1. new.opened[n] = conn.opened[n]
          BY <1>1, <1>3, <2>2, <3>1, <4>1
        <5>2. conn.opened[n] * Frame + Frame \in Nat
          BY <1>7, <4>1, FrameFacts
        <5>3. conn.opened[n] * Frame + Frame <= conn.pos
          BY <1>7, <4>1
        <5>4. conn.opened[n] * Frame + Frame <= to
          <6> DEFINE end == conn.opened[n] * Frame + Frame
          <6> HIDE DEF end
          <6> QED BY <1>1, <5>2, <5>3
        <5> QED BY <5>1, <5>4
      <4>2. CASE n = Len(conn.opened) + 1
        <5>1. new.opened[n] = k
          BY <1>1, <1>3, <2>2, <3>1, <4>2
        <5>2. k * Frame = conn.pos
          BY <1>3, <2>2
        <5> QED BY <1>1, <2>2, <5>1, <5>2, FrameFacts
      <4> QED BY <1>1, <1>3, <2>2, <3>1, <3>3, <4>1, <4>2
    <3>4. ASSUME NEW m \in DOMAIN new.opened, NEW n \in DOMAIN new.opened, m < n
          PROVE  new.opened[m] < new.opened[n]
      <4>1. m \in 1..Len(conn.opened) /\ n \in 1..(Len(conn.opened) + 1)
        BY <1>1, <1>3, <2>2, <3>1, <3>4
      <4>2. new.opened[m] = conn.opened[m]
        BY <1>1, <1>3, <2>2, <3>1, <4>1
      <4>3. CASE n \in 1..Len(conn.opened)
        <5>1. new.opened[n] = conn.opened[n]
          BY <1>1, <1>3, <2>2, <3>1, <4>3
        <5> QED BY <1>1, <3>4, <4>1, <4>2, <4>3, <5>1 DEF ConnectionInv, FramesBehind, Rises
      <4>4. CASE n = Len(conn.opened) + 1
        BY <1>1, <1>3, <2>2, <3>1, <3>2, <4>1, <4>2, <4>4
      <4> QED BY <4>1, <4>3, <4>4
    <3> QED BY <1>5, <3>3, <3>4 DEF FramesBehind, Rises
  <2> QED BY <2>1, <2>2
<1>9. NoneMissing(new)
  <2> SUFFICES ASSUME ~new.ragged
               PROVE  /\ new.pos = Len(new.opened) * Frame
                      /\ \A n \in 1..Len(new.opened) : new.opened[n] = n - 1
    BY DEF NoneMissing
  <2>1. ~conn.ragged /\ conn.pos % Frame = 0 /\ to - conn.pos = Frame
    BY <1>5
  <2>2. new.opened = Append(conn.opened, k)
    BY <1>2, <1>5, <2>1, FrameFacts
  <2>3. conn.pos = Len(conn.opened) * Frame
    BY <2>1 DEF ConnectionInv, NoneMissing
  <2>4. k = Len(conn.opened) /\ k \in Nat
    <3>1. Len(conn.opened) \in Nat
      BY <1>1
    <3>2. (Len(conn.opened) * Frame) \div Frame = Len(conn.opened)
      BY <3>1, DivOfMultiple, FrameFacts
    <3> QED BY <2>3, <3>1, <3>2
  <2>5. Len(new.opened) = Len(conn.opened) + 1
    BY <1>1, <2>2, <2>4
  <2>6. to = (Len(conn.opened) + 1) * Frame
    <3>1. to = Len(conn.opened) * Frame + Frame
      BY <1>1, <2>1, <2>3, FrameFacts
    <3>2. Len(conn.opened) \in Nat
      BY <1>1
    <3> QED BY <3>1, <3>2, OneFrameMore, FrameFacts
  <2>7. ASSUME NEW n \in 1..Len(new.opened) PROVE new.opened[n] = n - 1
    <3>1. CASE n \in 1..Len(conn.opened)
      BY <1>1, <2>1, <2>2, <2>4, <3>1 DEF ConnectionInv, NoneMissing
    <3>2. CASE n = Len(conn.opened) + 1
      BY <1>1, <2>2, <2>4, <3>2
    <3> QED BY <1>1, <2>5, <3>1, <3>2
  <2> QED BY <1>5, <2>5, <2>6, <2>7
<1> QED BY <1>5, <1>6, <1>8, <1>9 DEF ConnectionInv

-----------------------------------------------------------------------------
(* The program.                                                            *)

\* Whoever connects or runs has a client.
ProgramInv == CsTrafficInv /\ (at \in {"connecting", "running"} => clients \in Clients)

\* A step of one connection.
LEMMA SetKeeps ==
    ASSUME CsTrafficInv, NEW c \in Clients, NEW new, ConnectionInv(new), Set(c, new)
    PROVE  /\ conns' \in [Clients -> Connection]
           /\ \A d \in Clients : ConnectionInv(conns[d])'
<1>1. conns \in [Clients -> Connection] /\ new \in Connection
  BY DEF CsTrafficInv, CsTrafficTypeOK, ConnectionInv
<1>2. conns' \in [Clients -> Connection]
  BY <1>1 DEF Set
<1>3. ASSUME NEW d \in Clients PROVE ConnectionInv(conns'[d])
  <2>1. conns'[d] = IF d = c THEN new ELSE conns[d]
    BY <1>1 DEF Set
  <2> QED BY <2>1 DEF CsTrafficInv
<1>4. ASSUME NEW d \in Clients PROVE ConnectionInv(conns[d])'
  BY <1>3 DEF ConnectionInv, NoncesCounted, FramesBehind, NoneMissing
<1> QED BY <1>2, <1>4

\* Setting the flags of connections.
LEMMA FlagsKeepAll ==
    ASSUME CsTrafficInv, conns' \in [Clients -> Connection],
           \A c \in Clients :
               /\ conns'[c].sendCounter = conns[c].sendCounter
               /\ conns'[c].sealed = conns[c].sealed /\ conns'[c].pos = conns[c].pos
               /\ conns'[c].opened = conns[c].opened /\ conns'[c].ragged = conns[c].ragged
    PROVE  \A c \in Clients : ConnectionInv(conns[c])'
<1>1. ASSUME NEW c \in Clients PROVE ConnectionInv(conns'[c])
  BY FlagsKeep DEF CsTrafficInv
<1> QED BY <1>1 DEF ConnectionInv, NoncesCounted, FramesBehind, NoneMissing

LEMMA ProgramStep ==
    ASSUME ProgramInv, [CsTrafficNext]_csVars
    PROVE  ProgramInv'
<1> USE DEF ProgramInv
<1>1. /\ conns \in [Clients -> Connection] /\ \A c \in Clients : ConnectionInv(conns[c])
      /\ clients \in 0..MaxClients /\ pressed \in 0..MaxClients
      /\ MaxClients \in Nat
  BY CsTrafficAssumption DEF CsTrafficInv, CsTrafficTypeOK
<1>a. ASSUME UNCHANGED conns PROVE (\A c \in Clients : ConnectionInv(conns[c]))'
  BY <1>1, <1>a DEF ConnectionInv, NoncesCounted, FramesBehind, NoneMissing
<1>2. CASE Choose
  BY <1>1, <1>2, <1>a DEF Choose, CsTrafficInv, CsTrafficTypeOK, Clients
<1>3. CASE ConnectThrows \/ RunReturns \/ Quit
  BY <1>1, <1>3, <1>a DEF ConnectThrows, RunReturns, Quit, CsTrafficInv, CsTrafficTypeOK
<1>4. CASE Connected
  <2>1. PICK tun \in {"real", "stub"}, start \in {"on", "over"} :
          conns' = [conns EXCEPT ![clients].tun = tun, ![clients].sender = start,
                                 ![clients].receiver = start]
    BY <1>4 DEF Connected
  <2>2. clients \in Clients
    BY <1>4 DEF Connected
  <2>3. conns' = [conns EXCEPT ![clients] = [conns[clients] EXCEPT !.tun = tun,
                                                !.sender = start, !.receiver = start]]
    BY <1>1, <2>1, <2>2
  <2>4. [conns[clients] EXCEPT !.tun = tun, !.sender = start, !.receiver = start] \in Connection
    BY <1>1, <2>2 DEF Connection, LoopStates
  <2>5. conns' \in [Clients -> Connection]
    BY <1>1, <2>3, <2>4
  <2>6. \A c \in Clients : ConnectionInv(conns[c])'
    BY <1>1, <2>2, <2>3, <2>5, FlagsKeepAll DEF Connection
  <2> QED BY <1>1, <1>4, <2>2, <2>5, <2>6 DEF Connected, CsTrafficInv, CsTrafficTypeOK
<1>5. CASE CancelKeyPress
  <2>1. conns' = [c \in Clients |-> IF c <= clients THEN [conns[c] EXCEPT !.cancelled = TRUE]
                                    ELSE conns[c]]
    BY <1>5 DEF CancelKeyPress
  <2>2. conns' \in [Clients -> Connection]
    BY <1>1, <2>1 DEF Connection
  <2>3. \A c \in Clients : ConnectionInv(conns[c])'
    BY <1>1, <2>1, <2>2, FlagsKeepAll DEF Connection
  <2> QED BY <1>1, <1>5, <2>2, <2>3 DEF CancelKeyPress, CsTrafficInv, CsTrafficTypeOK
<1>6. ASSUME NEW c \in Clients, Running(c), NEW new, ConnectionInv(new), Set(c, new)
      PROVE  ProgramInv'
  <2>1. conns' \in [Clients -> Connection] /\ \A d \in Clients : ConnectionInv(conns[d])'
    BY <1>6, SetKeeps
  <2> QED BY <1>1, <1>6, <2>1 DEF Running, CsTrafficInv, CsTrafficTypeOK
<1>7. ASSUME NEW c \in Clients, TunToServer(c) PROVE ProgramInv'
  <2>1. PICK written \in BOOLEAN :
          Set(c, [Sealed(conns[c], written) EXCEPT
                     !.sender = IF conns[c].cancelled THEN "over" ELSE "on"])
    BY <1>7 DEF TunToServer
  <2>2. ConnectionInv([Sealed(conns[c], written) EXCEPT
                     !.sender = IF conns[c].cancelled THEN "over" ELSE "on"])
    BY <1>1, SealKeeps DEF LoopStates
  <2> QED BY <1>6, <1>7, <2>1, <2>2 DEF TunToServer
<1>8. ASSUME NEW c \in Clients, SenderStops(c) PROVE ProgramInv'
  <2>1. ConnectionInv([conns[c] EXCEPT !.sender = "over"])
    BY <1>1, FlagsKeep DEF Connection, LoopStates
  <2> QED BY <1>6, <1>8, <2>1 DEF SenderStops
<1>9. ASSUME NEW c \in Clients, ServerToTun(c) PROVE ProgramInv'
  <2>1. PICK to \in CutPoints(conns[c].pos, ServerFrames * Frame) :
          Set(c, [conns[c] EXCEPT !.pos = to, !.opened = Taken(conns[c], to),
                     !.ragged = @ \/ conns[c].pos % Frame # 0 \/ to - conns[c].pos # Frame])
    BY <1>9 DEF ServerToTun
  <2>2. to \in Nat /\ conns[c].pos < to
    <3>1. conns[c].pos \in Nat /\ ServerFrames * Frame \in Nat
      BY <1>1, FrameFacts, CsTrafficAssumption DEF Connection
    <3> QED BY <3>1 DEF CutPoints
  <2>3. ConnectionInv([conns[c] EXCEPT !.pos = to, !.opened = Taken(conns[c], to),
                     !.ragged = @ \/ conns[c].pos % Frame # 0 \/ to - conns[c].pos # Frame])
    BY <1>1, <2>2, TakeKeeps
  <2> QED BY <1>6, <1>9, <2>1, <2>3 DEF ServerToTun
<1>10. ASSUME NEW c \in Clients, StreamIsOver(c) \/ ReceiverStops(c) PROVE ProgramInv'
  <2>1. ConnectionInv([conns[c] EXCEPT !.receiver = "over"])
    BY <1>1, FlagsKeep DEF Connection, LoopStates
  <2> QED BY <1>6, <1>10, <2>1 DEF StreamIsOver, ReceiverStops
<1>11. CASE UNCHANGED csVars
  BY <1>1, <1>11, <1>a DEF csVars, CsTrafficInv, CsTrafficTypeOK
<1> QED BY <1>2, <1>3, <1>4, <1>5, <1>7, <1>8, <1>9, <1>10, <1>11 DEF CsTrafficNext

\* The invariant holds for every size of frame, every way the stream may be cut
\* and every number of connections.
THEOREM CsTrafficInvariance == CsTrafficSpec => []ProgramInv
<1>1. CsTrafficInit => ProgramInv
  BY CsTrafficAssumption, NewConnectionInv
     DEF CsTrafficInit, ProgramInv, CsTrafficInv, CsTrafficTypeOK, ConnectionInv
<1>2. ProgramInv /\ [CsTrafficNext]_csVars => ProgramInv'
  BY ProgramStep
<1> QED BY <1>1, <1>2, PTL DEF CsTrafficSpec

\* The fields keep their types (VpnClient.cs:9-17, PacketEncryption.cs:15-18).
THEOREM CsTrafficTypeCorrect == CsTrafficSpec => []CsTrafficTypeOK
<1>1. ProgramInv => CsTrafficTypeOK
  BY DEF ProgramInv, CsTrafficInv
<1> QED BY <1>1, CsTrafficInvariance, PTL

\* No nonce seals two packets of the client on a connection (PacketEncryption.cs:37).
THEOREM CsNonceOnce == CsTrafficSpec => []NonceOnce
<1>1. ASSUME ProgramInv, NEW c \in Clients PROVE Rises(conns[c].sealed)
  <2>1. conns[c].sealed \in Seq(Nat) /\ NoncesCounted(conns[c])
    BY <1>1 DEF ProgramInv, CsTrafficInv, ConnectionInv, Connection
  <2>2. ASSUME NEW s \in Seq(Nat) PROVE DOMAIN s = 1..Len(s) /\ Len(s) \in Nat
    OBVIOUS
  <2>3. DOMAIN conns[c].sealed = 1..Len(conns[c].sealed) /\ Len(conns[c].sealed) \in Nat
    BY <2>1, <2>2
  <2>4. \A n \in 1..Len(conns[c].sealed) : n \in Nat /\ conns[c].sealed[n] = n - 1
    BY <2>1, <2>3 DEF NoncesCounted
  <2> QED BY <2>3, <2>4 DEF Rises
<1>2. ProgramInv => NonceOnce
  BY <1>1 DEF NonceOnce
<1> QED BY <1>2, CsTrafficInvariance, PTL

\* Frames reach TUN in their order and at most once, however the stream is cut
\* (VpnClient.cs:239-253).
THEOREM CsFramesRise == CsTrafficSpec => []FramesRise
<1>1. ProgramInv => FramesRise
  BY DEF ProgramInv, CsTrafficInv, ConnectionInv, FramesBehind, FramesRise
<1> QED BY <1>1, CsTrafficInvariance, PTL

\* Only a read that is not one whole frame loses a frame (VpnClient.cs:239-247).
THEOREM CsWholeFramesKept == CsTrafficSpec => []WholeFramesKept
<1>1. ASSUME ProgramInv, NEW c \in Clients
      PROVE  ~conns[c].ragged => /\ conns[c].pos = Len(conns[c].opened) * Frame
                                 /\ \A n \in DOMAIN conns[c].opened : conns[c].opened[n] = n - 1
  <2>1. ConnectionInv(conns[c])
    BY <1>1 DEF ProgramInv, CsTrafficInv
  <2>2. DOMAIN conns[c].opened = 1..Len(conns[c].opened)
    BY <2>1 DEF ConnectionInv, Connection
  <2> QED
    BY <2>1, <2>2 DEF ConnectionInv, NoneMissing
<1>2. ProgramInv => WholeFramesKept
  BY <1>1 DEF WholeFramesKept
<1> QED BY <1>2, CsTrafficInvariance, PTL
===============================================================================
