--------------------------- MODULE Handshake_proofs ---------------------------
(***************************************************************************)
(* Proofs about Handshake and CsHandshake: every tag on the network was    *)
(* made by a run that holds both hellos and is that far, whatever type the *)
(* message has when it arrives.  Hence a server run that accepts a tag     *)
(* agrees with a client run, a client run that completes agrees with a     *)
(* server run unless the tag is its own, and the handshake implements the  *)
(* abstract agreement, also between the two implementations.               *)
(***************************************************************************)
EXTENDS CsHandshake, Integers, SequenceTheorems, TLAPS

-----------------------------------------------------------------------------
(* The inductive invariant.                                                *)

\* A client run that has made its tag: its two hellos are settled.
Verified(c) == client[c].state \in {"ClientVerifySent", "Completed"}

\* A server run that has accepted a tag.
Accepted(s) == server[s].state \in {"ClientVerifyReceived", "Completed"}

ClientTag(c) == Hmac(OwnClientHello(c), client[c].server_hello)
ServerTag(s) == Hmac(server[s].client_hello, OwnServerHello(s))

IsVerify(m) == m.type \in VerifyTypes /\ m = [type |-> m.type, by |-> m.by, tag |-> m.tag]

NetTypeOK == \A m \in net : m \in ClientHellos \/ m \in ServerHellos \/ IsVerify(m)

\* The maker of a verify message is a client run that has sent its tag, or a
\* server run that has completed.
MadeByClient(m) == m.by \in Clients /\ Verified(m.by) /\ m.tag = ClientTag(m.by)
MadeByServer(m) ==
    m.by \in Servers /\ server[m.by].state = "Completed" /\ m.tag = ServerTag(m.by)

TagsMade == \A m \in net : IsVerify(m) => MadeByClient(m) \/ MadeByServer(m)

\* A server run that has accepted a tag, and the client run that made it,
\* hold the same hellos.
AcceptedAgree ==
    \A s \in Servers : Accepted(s) =>
        \E c \in Clients : /\ Verified(c)
                           /\ server[s].client_hello = OwnClientHello(c)
                           /\ client[c].server_hello = OwnServerHello(s)

CompletedAgree ==
    \A c \in Clients : client[c].state = "Completed" =>
        \/ client[c].confirmed_by = c
        \/ \E s \in Servers : /\ client[c].confirmed_by = s
                               /\ server[s].state = "Completed"
                               /\ server[s].client_hello = OwnClientHello(c)
                               /\ client[c].server_hello = OwnServerHello(s)

HandshakeInv ==
    /\ TypeOK
    /\ NetTypeOK
    /\ TagsMade
    /\ AcceptedAgree
    /\ CompletedAgree

-----------------------------------------------------------------------------
(* Tags.                                                                   *)

LEMMA Transcript ==
    ASSUME NEW ch, NEW sh
    PROVE  LET data == Hmac(ch, sh).data
           IN  /\ data[2] = PublicKey(ch) /\ data[4] = ch.profile
               /\ data[6] = PublicKey(sh) /\ data[8] = sh.session_id
<1>1. ASSUME NEW a, NEW b, NEW c, NEW d, NEW e, NEW f, NEW g, NEW h
      PROVE  LET z == <<a, b, c, d>> \o <<e, f, g, h>>
             IN  z[2] = b /\ z[4] = d /\ z[6] = f /\ z[8] = h
  <2> DEFINE X == {a, b, c, d, e, f, g, h}
             x == <<a, b, c, d>>
             y == <<e, f, g, h>>
  <2>1. /\ x \in Seq(X) /\ Len(x) = 4 /\ x[2] = b /\ x[4] = d
        /\ y \in Seq(X) /\ Len(y) = 4 /\ y[2] = f /\ y[4] = h
    OBVIOUS
  <2> HIDE DEF X, x, y
  <2>2. \A i \in 1..(Len(x) + Len(y)) :
            (x \o y)[i] = IF i <= Len(x) THEN x[i] ELSE y[i - Len(x)]
    BY <2>1, ConcatProperties
  <2>3. ASSUME NEW i \in Nat, NEW j \in Nat, i \in 1..4, j = i + 4
        PROVE  (x \o y)[i] = x[i] /\ (x \o y)[j] = y[i]
    <3>1. i \in 1..(Len(x) + Len(y)) /\ i <= Len(x)
      BY <2>1, <2>3
    <3>2. j \in 1..(Len(x) + Len(y)) /\ ~(j <= Len(x)) /\ j - Len(x) = i
      BY <2>1, <2>3
    <3>. QED
      BY <2>2, <3>1, <3>2
  <2>4. (x \o y)[2] = x[2] /\ (x \o y)[6] = y[2]
    <3>1. 2 \in Nat /\ 6 \in Nat /\ 2 \in 1..4 /\ 6 = 2 + 4
      OBVIOUS
    <3>. QED
      BY <2>3, <3>1, Zenon
  <2>5. (x \o y)[4] = x[4] /\ (x \o y)[8] = y[4]
    <3>1. 4 \in Nat /\ 8 \in Nat /\ 4 \in 1..4 /\ 8 = 4 + 4
      OBVIOUS
    <3>. QED
      BY <2>3, <3>1, Zenon
  <2>. QED
    BY <2>1, <2>4, <2>5 DEF x, y
<1>. QED
  BY <1>1 DEF Hmac, HmacSha256, ClientHelloBytes, ServerHelloBytes

\* Equal tags were made from equal hellos: the transcript holds every field
\* of both (handshake.rs, compute_hmac).
LEMMA TagsDetermineHellos ==
    ASSUME NEW ch \in ClientHellos, NEW dh \in ClientHellos,
           NEW sh \in ServerHellos, NEW th \in ServerHellos,
           Hmac(ch, sh) = Hmac(dh, th)
    PROVE  ch = dh /\ sh = th
<1>1. Hmac(ch, sh).data = Hmac(dh, th).data
  OBVIOUS
<1>2. /\ PublicKey(ch) = PublicKey(dh) /\ ch.profile = dh.profile
      /\ PublicKey(sh) = PublicKey(th) /\ sh.session_id = th.session_id
  BY <1>1, Transcript
<1>3. ch.from = dh.from /\ ch.bits = dh.bits /\ sh.from = th.from /\ sh.bits = th.bits
  BY <1>2 DEF PublicKey
<1>4. ch = dh
  BY <1>2, <1>3 DEF ClientHellos
<1>5. sh = th
  BY <1>2, <1>3 DEF ServerHellos
<1>. QED
  BY <1>4, <1>5

\* The two implementations compute the same tag from the same hellos.
LEMMA SameComputation ==
    ASSUME NEW ch, NEW sh
    PROVE  CsHmac(ch, sh) = Hmac(ch, sh)
BY DEF CsHmac, Hmac, CsSessionKey, SessionKey, DiffieHellman, CsTranscript,
       CsClientHelloBytes, ClientHelloBytes, ServerHelloBytes

LEMMA OwnHellos ==
    ASSUME TypeOK
    PROVE  /\ \A c \in Clients : OwnClientHello(c) \in ClientHellos
           /\ \A s \in Servers : OwnServerHello(s) \in ServerHellos
BY DEF TypeOK, ClientRuns, ServerRuns, OwnClientHello, OwnServerHello,
       ClientHello, ServerHello, ClientHellos, ServerHellos, Bits

\* What a run takes for a hello has the fields of one, damaged or not, and
\* what it takes for a tag is a tag that was sent, of either type.
LEMMA ArrivalTypes ==
    ASSUME NetTypeOK, NEW m \in Arrivals
    PROVE  /\ m.type = "CLIENT_HELLO" => m \in ClientHellos
           /\ m.type = "SERVER_HELLO" => m \in ServerHellos
           /\ m.type \in VerifyTypes =>
                 \E n \in net : IsVerify(n) /\ m.by = n.by /\ m.tag = n.tag
<1> DEFINE Sent == \E n \in net : IsVerify(n) /\ m.by = n.by /\ m.tag = n.tag
<1>1. ASSUME m \in net
      PROVE  m \in ClientHellos \/ m \in ServerHellos \/ (IsVerify(m) /\ Sent)
  BY <1>1 DEF NetTypeOK
<1>2. ASSUME NEW n \in net, m \in Damaged(n)
      PROVE  m \in ClientHellos \/ m \in ServerHellos \/ (IsVerify(m) /\ Sent)
  <2>1. CASE n \in ClientHellos
    <3>1. n.type = "CLIENT_HELLO"
      BY <2>1 DEF ClientHellos
    <3>2. \/ m = [n EXCEPT !.bits = "damaged"]
          \/ \E p \in Profiles : m = [n EXCEPT !.profile = p]
      BY <1>2, <3>1 DEF Damaged, VerifyTypes
    <3>. QED
      BY <2>1, <3>2 DEF ClientHellos, Bits
  <2>2. CASE n \in ServerHellos
    <3>1. n.type = "SERVER_HELLO" /\ n.from \in Servers
      BY <2>2 DEF ServerHellos
    <3>2. \/ m = [n EXCEPT !.bits = "damaged"]
          \/ \E i \in SessionIds : m = [n EXCEPT !.session_id = i]
          \/ \E p \in Profiles : m = ClientHello(n.from, p)
      BY <1>2, <3>1 DEF Damaged, VerifyTypes
    <3>3. ASSUME NEW p \in Profiles, m = ClientHello(n.from, p)  PROVE m \in ClientHellos
      BY <3>1, <3>3 DEF ClientHello, ClientHellos, Bits
    <3>4. \/ m = [n EXCEPT !.bits = "damaged"]
          \/ \E i \in SessionIds : m = [n EXCEPT !.session_id = i]
          => m \in ServerHellos
      BY <2>2 DEF ServerHellos, Bits
    <3>. QED
      BY <3>2, <3>3, <3>4
  <2>3. CASE IsVerify(n)
    <3>1. n.type \in VerifyTypes /\ n = [type |-> n.type, by |-> n.by, tag |-> n.tag]
      BY <2>3 DEF IsVerify
    <3>2. m \in {[n EXCEPT !.type = t] : t \in VerifyTypes}
      BY <1>2, <3>1 DEF Damaged, VerifyTypes
    <3>3. PICK t \in VerifyTypes : m = [n EXCEPT !.type = t]
      BY <3>2
    <3>4. m = [type |-> t, by |-> n.by, tag |-> n.tag]
      BY <3>1, <3>3
    <3>. QED
      BY <2>3, <3>4 DEF IsVerify
  <2>. QED
    BY <2>1, <2>2, <2>3 DEF NetTypeOK
<1>3. m \in ClientHellos => m.type = "CLIENT_HELLO"
  BY DEF ClientHellos
<1>4. m \in ServerHellos => m.type = "SERVER_HELLO"
  BY DEF ServerHellos
<1>5. m \in net \/ \E n \in net : m \in Damaged(n)
  BY DEF Arrivals
<1>6. m \in ClientHellos \/ m \in ServerHellos \/ (IsVerify(m) /\ Sent)
  BY <1>1, <1>2, <1>5
<1> HIDE DEF Sent
<1>7. /\ m.type = "CLIENT_HELLO" => m \in ClientHellos
      /\ m.type = "SERVER_HELLO" => m \in ServerHellos
      /\ m.type \in VerifyTypes => Sent
  BY <1>3, <1>4, <1>6 DEF IsVerify, VerifyTypes
<1>. QED
  BY <1>7 DEF Sent

\* A tag that a server run accepts was made by a client run with the same
\* two hellos: only this server run could have made it otherwise, and it makes
\* none before it accepts one.
LEMMA AcceptedTag ==
    ASSUME HandshakeInv, NEW s \in Servers, server[s].state = "ServerHelloSent",
           NEW m \in Arrivals, m.type \in VerifyTypes,
           m.tag = Hmac(server[s].client_hello, OwnServerHello(s))
    PROVE  \E c \in Clients : /\ Verified(c)
                              /\ server[s].client_hello = OwnClientHello(c)
                              /\ client[c].server_hello = OwnServerHello(s)
<1>1. TypeOK /\ NetTypeOK
  BY DEF HandshakeInv
<1>2. PICK n \in net : IsVerify(n) /\ m.by = n.by /\ m.tag = n.tag
  BY <1>1, ArrivalTypes
<1>3. server[s].client_hello \in ClientHellos /\ OwnServerHello(s) \in ServerHellos
  BY <1>1, OwnHellos DEF TypeOK
<1>4. CASE MadeByClient(n)
  <2>1. PICK c \in Clients : Verified(c) /\ n.tag = ClientTag(c)
    BY <1>4 DEF MadeByClient
  <2>2. OwnClientHello(c) \in ClientHellos /\ client[c].server_hello \in ServerHellos
    BY <1>1, <2>1, OwnHellos DEF TypeOK, Verified
  <2>3. Hmac(server[s].client_hello, OwnServerHello(s)) = Hmac(OwnClientHello(c), client[c].server_hello)
    BY <1>2, <2>1 DEF ClientTag
  <2>. QED
    BY <1>3, <2>1, <2>2, <2>3, TagsDetermineHellos
<1>5. CASE MadeByServer(n)
  <2>1. PICK t \in Servers : server[t].state = "Completed" /\ n.tag = ServerTag(t)
    BY <1>5 DEF MadeByServer
  <2>2. server[t].client_hello \in ClientHellos /\ OwnServerHello(t) \in ServerHellos
    BY <1>1, <2>1, OwnHellos DEF TypeOK
  <2>3. Hmac(server[s].client_hello, OwnServerHello(s)) = Hmac(server[t].client_hello, OwnServerHello(t))
    BY <1>2, <2>1 DEF ServerTag
  <2>4. OwnServerHello(s).from = OwnServerHello(t).from
    BY <1>3, <2>2, <2>3, TagsDetermineHellos
  <2>5. s = t
    BY <2>4 DEF OwnServerHello, ServerHello
  <2>. QED
    BY <2>1, <2>5
<1>. QED
  BY <1>2, <1>4, <1>5 DEF HandshakeInv, TagsMade

\* A tag that a client run accepts is its own, or was made by a completed
\* server run with the same two hellos.
LEMMA ConfirmedTag ==
    ASSUME HandshakeInv, NEW c \in Clients, client[c].state = "ClientVerifySent",
           NEW m \in Arrivals, m.type \in VerifyTypes,
           m.tag = Hmac(OwnClientHello(c), client[c].server_hello)
    PROVE  \/ m.by = c
           \/ \E s \in Servers : /\ m.by = s
                                 /\ server[s].state = "Completed"
                                 /\ server[s].client_hello = OwnClientHello(c)
                                 /\ client[c].server_hello = OwnServerHello(s)
<1>1. TypeOK /\ NetTypeOK
  BY DEF HandshakeInv
<1>2. PICK n \in net : IsVerify(n) /\ m.by = n.by /\ m.tag = n.tag
  BY <1>1, ArrivalTypes
<1>3. OwnClientHello(c) \in ClientHellos /\ client[c].server_hello \in ServerHellos
  BY <1>1, OwnHellos DEF TypeOK
<1>4. CASE MadeByClient(n)
  <2>1. PICK d \in Clients : n.by = d /\ Verified(d) /\ n.tag = ClientTag(d)
    BY <1>4 DEF MadeByClient
  <2>2. OwnClientHello(d) \in ClientHellos /\ client[d].server_hello \in ServerHellos
    BY <1>1, <2>1, OwnHellos DEF TypeOK, Verified
  <2>3. Hmac(OwnClientHello(c), client[c].server_hello) = Hmac(OwnClientHello(d), client[d].server_hello)
    BY <1>2, <2>1 DEF ClientTag
  <2>4. OwnClientHello(c).from = OwnClientHello(d).from
    BY <1>3, <2>2, <2>3, TagsDetermineHellos
  <2>5. c = d
    BY <2>4 DEF OwnClientHello, ClientHello
  <2>. QED
    BY <1>2, <2>1, <2>5
<1>5. CASE MadeByServer(n)
  <2>1. PICK s \in Servers : n.by = s /\ server[s].state = "Completed" /\ n.tag = ServerTag(s)
    BY <1>5 DEF MadeByServer
  <2>2. server[s].client_hello \in ClientHellos /\ OwnServerHello(s) \in ServerHellos
    BY <1>1, <2>1, OwnHellos DEF TypeOK
  <2>3. Hmac(OwnClientHello(c), client[c].server_hello) = Hmac(server[s].client_hello, OwnServerHello(s))
    BY <1>2, <2>1 DEF ServerTag
  <2>. QED
    BY <1>2, <1>3, <2>1, <2>2, <2>3, TagsDetermineHellos
<1>. QED
  BY <1>2, <1>4, <1>5 DEF HandshakeInv, TagsMade

-----------------------------------------------------------------------------
(* Every step keeps the invariant.                                         *)

\* What no step of anybody takes back: profiles and ids, the hellos a run
\* has taken, and how far it has come.
Grows ==
    /\ \A c \in Clients :
          /\ client'[c].profile = client[c].profile
          /\ Verified(c) => /\ client'[c].state \in {"ClientVerifySent", "Completed"}
                            /\ client'[c].server_hello = client[c].server_hello
          /\ client[c].state = "Completed" => client'[c].confirmed_by = client[c].confirmed_by
    /\ \A s \in Servers :
          /\ server'[s].session_id = server[s].session_id
          /\ Accepted(s) => /\ server'[s].state \in {"ClientVerifyReceived", "Completed"}
                            /\ server'[s].client_hello = server[s].client_hello
          /\ server[s].state = "Completed" => server'[s].state = "Completed"

\* A step keeps the invariant if it takes nothing back and what it adds, a
\* tag on the network or a run that accepts one, is as the invariant says.
LEMMA StepKeeps ==
    ASSUME HandshakeInv, TypeOK', NetTypeOK', Grows,
           \A m \in net' \ net : IsVerify(m) => MadeByClient(m)' \/ MadeByServer(m)',
           \A s \in Servers : Accepted(s)' /\ ~Accepted(s) =>
               \E c \in Clients : /\ Verified(c)
                                  /\ server'[s].client_hello = OwnClientHello(c)
                                  /\ client[c].server_hello = OwnServerHello(s),
           \A c \in Clients : client'[c].state = "Completed" /\ client[c].state # "Completed" =>
               \/ client'[c].confirmed_by = c
               \/ \E s \in Servers : /\ client'[c].confirmed_by = s
                                     /\ server[s].state = "Completed"
                                     /\ server[s].client_hello = OwnClientHello(c)
                                     /\ client'[c].server_hello = OwnServerHello(s)
    PROVE  HandshakeInv'
<1>1. /\ \A c \in Clients : OwnClientHello(c)' = OwnClientHello(c)
      /\ \A s \in Servers : OwnServerHello(s)' = OwnServerHello(s)
  BY DEF Grows, OwnClientHello, OwnServerHello, ClientHello, ServerHello
<1>2. \A c \in Clients : Verified(c) => /\ Verified(c)'
                                        /\ client'[c].server_hello = client[c].server_hello
                                        /\ ClientTag(c)' = ClientTag(c)
  BY <1>1 DEF Grows, Verified, ClientTag
<1>3. \A s \in Servers : Accepted(s) => /\ Accepted(s)'
                                        /\ server'[s].client_hello = server[s].client_hello
                                        /\ ServerTag(s)' = ServerTag(s)
  BY <1>1 DEF Grows, Accepted, ServerTag
<1>4. \A s \in Servers : server[s].state = "Completed" =>
                            Accepted(s) /\ server'[s].state = "Completed"
  BY DEF Grows, Accepted
<1>5. TagsMade'
  <2> SUFFICES ASSUME NEW m \in net', IsVerify(m)
               PROVE  MadeByClient(m)' \/ MadeByServer(m)'
    BY DEF TagsMade, IsVerify
  <2>1. CASE m \in net /\ MadeByClient(m)
    BY <1>2, <2>1 DEF MadeByClient
  <2>2. CASE m \in net /\ MadeByServer(m)
    BY <1>3, <1>4, <2>2 DEF MadeByServer
  <2>. QED
    BY <2>1, <2>2 DEF HandshakeInv, TagsMade
<1>7. AcceptedAgree'
  <2> SUFFICES ASSUME NEW s \in Servers, Accepted(s)'
               PROVE  \E c \in Clients : /\ Verified(c)'
                                         /\ server'[s].client_hello = OwnClientHello(c)'
                                         /\ client'[c].server_hello = OwnServerHello(s)'
    BY DEF AcceptedAgree, Accepted, Verified
  <2>1. PICK c \in Clients : /\ Verified(c)
                             /\ server'[s].client_hello = OwnClientHello(c)
                             /\ client[c].server_hello = OwnServerHello(s)
    <3>1. CASE Accepted(s)
      BY <1>3, <3>1 DEF HandshakeInv, AcceptedAgree
    <3>. QED
      BY <3>1
  <2>. QED
    BY <1>1, <1>2, <2>1
<1>8. CompletedAgree'
  <2> SUFFICES ASSUME NEW c \in Clients, client'[c].state = "Completed", client'[c].confirmed_by # c
               PROVE  \E s \in Servers : /\ client'[c].confirmed_by = s
                                         /\ server'[s].state = "Completed"
                                         /\ server'[s].client_hello = OwnClientHello(c)'
                                         /\ client'[c].server_hello = OwnServerHello(s)'
    BY DEF CompletedAgree
  <2>1. PICK s \in Servers : /\ client'[c].confirmed_by = s
                             /\ server[s].state = "Completed"
                             /\ server[s].client_hello = OwnClientHello(c)
                             /\ client'[c].server_hello = OwnServerHello(s)
    <3>1. CASE client[c].state = "Completed"
      <4>1. /\ client'[c].server_hello = client[c].server_hello
            /\ client'[c].confirmed_by = client[c].confirmed_by
        BY <3>1 DEF Grows, Verified
      <4>. QED
        BY <3>1, <4>1 DEF HandshakeInv, CompletedAgree
    <3>. QED
      BY <3>1
  <2>. QED
    BY <1>1, <1>3, <1>4, <2>1
<1>. QED
  BY <1>5, <1>7, <1>8 DEF HandshakeInv

LEMMA TagTypes ==
    \A type \in VerifyTypes : \A by, ch, sh :
        /\ IsVerify(Verify(type, by, ch, sh))
        /\ Verify(type, by, ch, sh).by = by
        /\ Verify(type, by, ch, sh).tag = Hmac(ch, sh)
BY DEF Verify, IsVerify

LEMMA StartKeeps ==
    ASSUME HandshakeInv, NEW c \in Clients, Start(c)
    PROVE  HandshakeInv'
<1>1. TypeOK /\ NetTypeOK
  BY DEF HandshakeInv
<1>2. /\ client[c].state = "Initial" /\ server' = server
      /\ client' = [client EXCEPT ![c].state = "ClientHelloSent"]
      /\ net' = net \union {OwnClientHello(c)}
  BY DEF Start
<1>3. /\ \A b \in Clients \ {c} : client'[b] = client[b]
      /\ client'[c].state = "ClientHelloSent"
      /\ client'[c].profile = client[c].profile
  BY <1>1, <1>2 DEF TypeOK, ClientRuns
<1>4. TypeOK'
  BY <1>1, <1>2, <1>3 DEF TypeOK, ClientRuns
<1>5. OwnClientHello(c) \in ClientHellos /\ ~IsVerify(OwnClientHello(c))
  BY <1>1, OwnHellos DEF ClientHellos, IsVerify, VerifyTypes
<1>6. NetTypeOK'
  BY <1>1, <1>2, <1>5 DEF NetTypeOK
<1>7. Grows
  BY <1>2, <1>3 DEF Grows, Verified, Accepted
<1>8. \A s \in Servers : Accepted(s)' <=> Accepted(s)
  BY <1>2 DEF Accepted
<1>. QED
  BY <1>2, <1>3, <1>4, <1>5, <1>6, <1>7, <1>8, StepKeeps

LEMMA ProcessServerHelloKeeps ==
    ASSUME HandshakeInv, NEW c \in Clients, NEW m \in Arrivals, ProcessServerHello(c, m)
    PROVE  HandshakeInv'
<1>1. TypeOK /\ NetTypeOK
  BY DEF HandshakeInv
<1>2. /\ client[c].state = "ClientHelloSent" /\ server' = server /\ net' = net
      /\ client' = [client EXCEPT ![c].state = "ServerHelloReceived", ![c].server_hello = m]
      /\ m \in ServerHellos
  BY <1>1, ArrivalTypes DEF ProcessServerHello
<1>3. /\ \A b \in Clients \ {c} : client'[b] = client[b]
      /\ client'[c].state = "ServerHelloReceived" /\ client'[c].server_hello = m
      /\ client'[c].profile = client[c].profile
  BY <1>1, <1>2 DEF TypeOK, ClientRuns
<1>10. client' \in [Clients -> ClientRuns]
  <2>1. client[c] \in ClientRuns
    BY <1>1 DEF TypeOK
  <2>2. [client[c] EXCEPT !.state = "ServerHelloReceived", !.server_hello = m] \in ClientRuns
    BY <1>2, <2>1 DEF ClientRuns
  <2>3. client' = [client EXCEPT ![c] = [client[c] EXCEPT !.state = "ServerHelloReceived", !.server_hello = m]]
    BY <1>2
  <2>. QED
    BY <1>1, <2>2, <2>3 DEF TypeOK
<1>4. TypeOK'
  BY <1>1, <1>2, <1>3, <1>10 DEF TypeOK
<1>6. NetTypeOK'
  BY <1>1, <1>2 DEF NetTypeOK
<1>7. Grows
  BY <1>2, <1>3 DEF Grows, Verified, Accepted
<1>8. \A s \in Servers : Accepted(s)' <=> Accepted(s)
  BY <1>2 DEF Accepted
<1>. QED
  BY <1>2, <1>3, <1>4, <1>6, <1>7, <1>8, StepKeeps

LEMMA SendClientVerifyKeeps ==
    ASSUME HandshakeInv, NEW c \in Clients, SendClientVerify(c)
    PROVE  HandshakeInv'
<1>0. PICK tag : tag = Verify("CLIENT_VERIFY", c, OwnClientHello(c), client[c].server_hello)
  OBVIOUS
<1>1. TypeOK /\ NetTypeOK
  BY DEF HandshakeInv
<1>2. /\ client[c].state = "ServerHelloReceived" /\ server' = server
      /\ client' = [client EXCEPT ![c].state = "ClientVerifySent"]
      /\ net' = net \union {tag}
  BY <1>0 DEF SendClientVerify
<1>3. /\ \A b \in Clients \ {c} : client'[b] = client[b]
      /\ client'[c].state = "ClientVerifySent"
      /\ client'[c].profile = client[c].profile
      /\ client'[c].server_hello = client[c].server_hello
      /\ client' \in [Clients -> ClientRuns]
  BY <1>1, <1>2 DEF TypeOK, ClientRuns
<1>4. TypeOK'
  BY <1>1, <1>2, <1>3 DEF TypeOK
<1>5. IsVerify(tag) /\ MadeByClient(tag)'
  <2>1. /\ IsVerify(tag) /\ tag.by = c
        /\ tag.tag = Hmac(OwnClientHello(c), client[c].server_hello)
    BY <1>0, TagTypes DEF VerifyTypes
  <2>2. Verified(c)' /\ tag.tag = ClientTag(c)'
    BY <1>3, <2>1 DEF ClientTag, Verified, OwnClientHello
  <2>. QED
    BY <2>1, <2>2 DEF MadeByClient
<1>6. NetTypeOK'
  BY <1>1, <1>2, <1>5 DEF NetTypeOK
<1>7. Grows
  BY <1>2, <1>3 DEF Grows, Verified, Accepted
<1>8. \A s \in Servers : Accepted(s)' <=> Accepted(s)
  BY <1>2 DEF Accepted
<1>9. \A m \in net' \ net : m = tag
  BY <1>2
<1>. QED
  BY <1>2, <1>3, <1>4, <1>5, <1>6, <1>7, <1>8, <1>9, StepKeeps

LEMMA ProcessServerVerifyKeeps ==
    ASSUME HandshakeInv, NEW c \in Clients, NEW m \in Arrivals, ProcessServerVerify(c, m)
    PROVE  HandshakeInv'
<1>1. TypeOK /\ NetTypeOK
  BY DEF HandshakeInv
<1>2. /\ client[c].state = "ClientVerifySent" /\ server' = server /\ net' = net
      /\ client' = [client EXCEPT ![c].state = "Completed", ![c].confirmed_by = m.by]
      /\ m.type \in VerifyTypes /\ m.tag = Hmac(OwnClientHello(c), client[c].server_hello)
  BY DEF ProcessServerVerify, VerifyTypes
<1>5. \/ m.by = c
      \/ \E s \in Servers : /\ m.by = s
                            /\ server[s].state = "Completed"
                            /\ server[s].client_hello = OwnClientHello(c)
                            /\ client[c].server_hello = OwnServerHello(s)
  BY <1>2, ConfirmedTag
<1>3. /\ \A b \in Clients \ {c} : client'[b] = client[b]
      /\ client'[c].state = "Completed" /\ client'[c].confirmed_by = m.by
      /\ client'[c].profile = client[c].profile
      /\ client'[c].server_hello = client[c].server_hello
  BY <1>1, <1>2, <1>5 DEF TypeOK, ClientRuns
<1>10. client' \in [Clients -> ClientRuns]
  <2>1. client[c] \in ClientRuns
    BY <1>1 DEF TypeOK
  <2>2. [client[c] EXCEPT !.state = "Completed", !.confirmed_by = m.by] \in ClientRuns
    BY <1>5, <2>1 DEF ClientRuns
  <2>3. client' = [client EXCEPT ![c] = [client[c] EXCEPT !.state = "Completed", !.confirmed_by = m.by]]
    BY <1>2
  <2>. QED
    BY <1>1, <2>2, <2>3 DEF TypeOK
<1>4. TypeOK'
  BY <1>1, <1>2, <1>3, <1>10 DEF TypeOK
<1>6. NetTypeOK'
  BY <1>1, <1>2 DEF NetTypeOK
<1>7. Grows
  BY <1>2, <1>3 DEF Grows, Verified, Accepted
<1>8. \A s \in Servers : Accepted(s)' <=> Accepted(s)
  BY <1>2 DEF Accepted
<1>. QED
  BY <1>2, <1>3, <1>4, <1>5, <1>6, <1>7, <1>8, StepKeeps

LEMMA ProcessClientHelloKeeps ==
    ASSUME HandshakeInv, NEW s \in Servers, NEW m \in Arrivals, ProcessClientHello(s, m)
    PROVE  HandshakeInv'
<1>1. TypeOK /\ NetTypeOK
  BY DEF HandshakeInv
<1>2. /\ server[s].state = "Initial" /\ client' = client
      /\ server' = [server EXCEPT ![s].state = "ServerHelloSent", ![s].client_hello = m]
      /\ net' = net \union {OwnServerHello(s)}
      /\ m \in ClientHellos
  BY <1>1, ArrivalTypes DEF ProcessClientHello
<1>3. /\ \A t \in Servers \ {s} : server'[t] = server[t]
      /\ server'[s].state = "ServerHelloSent" /\ server'[s].client_hello = m
      /\ server'[s].session_id = server[s].session_id
      /\ server' \in [Servers -> ServerRuns]
  BY <1>1, <1>2 DEF TypeOK, ServerRuns
<1>4. TypeOK'
  BY <1>1, <1>2, <1>3 DEF TypeOK
<1>5. OwnServerHello(s) \in ServerHellos /\ ~IsVerify(OwnServerHello(s))
  BY <1>1, OwnHellos DEF ServerHellos, IsVerify, VerifyTypes
<1>6. NetTypeOK'
  BY <1>1, <1>2, <1>5 DEF NetTypeOK
<1>7. Grows
  BY <1>2, <1>3 DEF Grows, Verified, Accepted
<1>8. \A t \in Servers : Accepted(t)' <=> Accepted(t)
  BY <1>2, <1>3 DEF Accepted
<1>. QED
  BY <1>2, <1>4, <1>5, <1>6, <1>7, <1>8, StepKeeps

LEMMA ProcessClientVerifyKeeps ==
    ASSUME HandshakeInv, NEW s \in Servers, NEW m \in Arrivals, ProcessClientVerify(s, m)
    PROVE  HandshakeInv'
<1>1. TypeOK /\ NetTypeOK
  BY DEF HandshakeInv
<1>2. /\ server[s].state = "ServerHelloSent" /\ client' = client /\ net' = net
      /\ server' = [server EXCEPT ![s].state = "ClientVerifyReceived"]
      /\ m.type \in VerifyTypes /\ m.tag = Hmac(server[s].client_hello, OwnServerHello(s))
  BY DEF ProcessClientVerify, VerifyTypes
<1>3. /\ \A t \in Servers \ {s} : server'[t] = server[t]
      /\ server'[s].state = "ClientVerifyReceived"
      /\ server'[s].client_hello = server[s].client_hello
      /\ server'[s].session_id = server[s].session_id
      /\ server' \in [Servers -> ServerRuns]
  BY <1>1, <1>2 DEF TypeOK, ServerRuns
<1>4. TypeOK'
  BY <1>1, <1>2, <1>3 DEF TypeOK
<1>5. \E c \in Clients : /\ Verified(c)
                         /\ server[s].client_hello = OwnClientHello(c)
                         /\ client[c].server_hello = OwnServerHello(s)
  BY <1>2, AcceptedTag
<1>6. NetTypeOK'
  BY <1>1, <1>2 DEF NetTypeOK
<1>7. Grows
  BY <1>2, <1>3 DEF Grows, Verified, Accepted
<1>8. \A t \in Servers \ {s} : Accepted(t)' <=> Accepted(t)
  BY <1>3 DEF Accepted
<1>. QED
  BY <1>2, <1>3, <1>4, <1>5, <1>6, <1>7, <1>8, StepKeeps

LEMMA SendServerVerifyKeeps ==
    ASSUME HandshakeInv, NEW s \in Servers, SendServerVerify(s)
    PROVE  HandshakeInv'
<1>0. PICK tag : tag = Verify("SERVER_VERIFY", s, server[s].client_hello, OwnServerHello(s))
  OBVIOUS
<1>1. TypeOK /\ NetTypeOK
  BY DEF HandshakeInv
<1>2. /\ server[s].state = "ClientVerifyReceived" /\ client' = client
      /\ server' = [server EXCEPT ![s].state = "Completed"]
      /\ net' = net \union {tag}
  BY <1>0 DEF SendServerVerify
<1>3. /\ \A t \in Servers \ {s} : server'[t] = server[t]
      /\ server'[s].state = "Completed"
      /\ server'[s].client_hello = server[s].client_hello
      /\ server'[s].session_id = server[s].session_id
      /\ server' \in [Servers -> ServerRuns]
  BY <1>1, <1>2 DEF TypeOK, ServerRuns
<1>4. TypeOK'
  BY <1>1, <1>2, <1>3 DEF TypeOK
<1>5. IsVerify(tag) /\ MadeByServer(tag)'
  <2>1. /\ IsVerify(tag) /\ tag.by = s
        /\ tag.tag = Hmac(server[s].client_hello, OwnServerHello(s))
    BY <1>0, TagTypes DEF VerifyTypes
  <2>2. server'[s].state = "Completed" /\ tag.tag = ServerTag(s)'
    BY <1>3, <2>1 DEF ServerTag, OwnServerHello
  <2>. QED
    BY <2>1, <2>2 DEF MadeByServer
<1>6. NetTypeOK'
  BY <1>1, <1>2, <1>5 DEF NetTypeOK
<1>7. Grows
  BY <1>2, <1>3 DEF Grows, Verified, Accepted
<1>8. \A t \in Servers : Accepted(t)' => Accepted(t)
  BY <1>2, <1>3 DEF Accepted
<1>9. \A m \in net' \ net : m = tag
  BY <1>2
<1>. QED
  BY <1>2, <1>3, <1>4, <1>5, <1>6, <1>7, <1>8, <1>9, StepKeeps

\* The C# client takes the hello and sends its tag in one step.
LEMMA CsTakeServerHelloKeeps ==
    ASSUME HandshakeInv, NEW c \in Clients, NEW m \in Arrivals, CsTakeServerHello(c, m)
    PROVE  HandshakeInv'
<1>0. PICK tag : tag = [type |-> "CLIENT_VERIFY", by |-> c, tag |-> CsHmac(OwnClientHello(c), m)]
  OBVIOUS
<1>1. TypeOK /\ NetTypeOK
  BY DEF HandshakeInv
<1>2. /\ client[c].state = "ClientHelloSent" /\ server' = server
      /\ client' = [client EXCEPT ![c].state = "ClientVerifySent", ![c].server_hello = m]
      /\ net' = net \union {tag}
      /\ m \in ServerHellos
  BY <1>0, <1>1, ArrivalTypes DEF CsTakeServerHello
<1>3. /\ \A b \in Clients \ {c} : client'[b] = client[b]
      /\ client'[c].state = "ClientVerifySent"
      /\ client'[c].profile = client[c].profile
      /\ client'[c].server_hello = m
  BY <1>1, <1>2 DEF TypeOK, ClientRuns
<1>10. client' \in [Clients -> ClientRuns]
  <2>1. client[c] \in ClientRuns
    BY <1>1 DEF TypeOK
  <2>2. [client[c] EXCEPT !.state = "ClientVerifySent", !.server_hello = m] \in ClientRuns
    BY <1>2, <2>1 DEF ClientRuns
  <2>3. client' = [client EXCEPT ![c] = [client[c] EXCEPT !.state = "ClientVerifySent", !.server_hello = m]]
    BY <1>2
  <2>. QED
    BY <1>1, <2>2, <2>3 DEF TypeOK
<1>4. TypeOK'
  BY <1>1, <1>2, <1>3, <1>10 DEF TypeOK
<1>5. IsVerify(tag) /\ MadeByClient(tag)'
  <2>1. IsVerify(tag) /\ tag.by = c /\ tag.tag = Hmac(OwnClientHello(c), m)
    BY <1>0, SameComputation DEF IsVerify, VerifyTypes
  <2>2. Verified(c)' /\ tag.tag = ClientTag(c)'
    BY <1>3, <2>1 DEF ClientTag, Verified, OwnClientHello
  <2>. QED
    BY <2>1, <2>2 DEF MadeByClient
<1>6. NetTypeOK'
  BY <1>1, <1>2, <1>5 DEF NetTypeOK
<1>7. Grows
  BY <1>2, <1>3 DEF Grows, Verified, Accepted
<1>8. \A s \in Servers : Accepted(s)' <=> Accepted(s)
  BY <1>2 DEF Accepted
<1>9. \A n \in net' \ net : n = tag
  BY <1>2
<1>. QED
  BY <1>2, <1>3, <1>4, <1>5, <1>6, <1>7, <1>8, <1>9, StepKeeps

\* With one computation of the tags, the C# client accepts what a Rust
\* client accepts.
LEMMA CsAcceptsTheSame ==
    ASSUME NEW c, NEW m, CsTakeServerVerify(c, m)
    PROVE  ProcessServerVerify(c, m)
BY SameComputation DEF CsTakeServerVerify, ProcessServerVerify, CsTag

LEMMA RustStepKeeps ==
    ASSUME HandshakeInv,
           \/ \E c \in Clients : ClientStep(c)
           \/ \E s \in Servers : ServerStep(s)
    PROVE  HandshakeInv'
<1>1. ASSUME NEW c \in Clients, ClientStep(c)  PROVE HandshakeInv'
  BY <1>1, StartKeeps, SendClientVerifyKeeps, ProcessServerHelloKeeps, ProcessServerVerifyKeeps
  DEF ClientStep
<1>2. ASSUME NEW s \in Servers, ServerStep(s)  PROVE HandshakeInv'
  BY <1>2, SendServerVerifyKeeps, ProcessClientHelloKeeps, ProcessClientVerifyKeeps DEF ServerStep
<1>. QED
  BY <1>1, <1>2

LEMMA UnchangedKeeps ==
    ASSUME HandshakeInv, UNCHANGED vars
    PROVE  HandshakeInv'
<1>1. TypeOK' /\ NetTypeOK'
  BY DEF HandshakeInv, vars, TypeOK, NetTypeOK
<1>2. Grows /\ (\A s \in Servers : Accepted(s)' <=> Accepted(s)) /\ net' = net /\ client' = client
  BY DEF vars, Grows, Verified, Accepted
<1>. QED
  BY <1>1, <1>2, StepKeeps

LEMMA CsStepKeeps ==
    ASSUME HandshakeInv, NEW c \in CsClients, CsStep(c)
    PROVE  HandshakeInv'
<1>1. c \in Clients
  BY CsAssumption
<1>2. CASE CsStart(c)
  BY <1>1, <1>2, StartKeeps DEF CsStart, Start
<1>3. ASSUME NEW m \in Arrivals, CsTakeServerHello(c, m)  PROVE HandshakeInv'
  BY <1>1, <1>3, CsTakeServerHelloKeeps
<1>4. ASSUME NEW m \in Arrivals, CsTakeServerVerify(c, m)  PROVE HandshakeInv'
  BY <1>1, <1>4, CsAcceptsTheSame, ProcessServerVerifyKeeps
<1>5. CASE CsThrows(c)
  BY <1>5, UnchangedKeeps DEF CsThrows
<1>. QED
  BY <1>2, <1>3, <1>4, <1>5 DEF CsStep

LEMMA InitKeeps ==
    ASSUME Init
    PROVE  HandshakeInv
<1>1. PICK p \in [Clients -> Profiles] : client = [c \in Clients |-> NewClient(p[c])]
  BY DEF Init
<1>2. PICK i \in [Servers -> SessionIds] : server = [s \in Servers |-> NewServer(i[s])]
  BY DEF Init
<1>3. \A c \in Clients : NewClient(p[c]) \in ClientRuns /\ NewClient(p[c]).state = "Initial"
  BY DEF NewClient, ClientRuns
<1>4. \A s \in Servers : NewServer(i[s]) \in ServerRuns /\ NewServer(i[s]).state = "Initial"
  BY DEF NewServer, ServerRuns
<1>5. TypeOK
  BY <1>1, <1>2, <1>3, <1>4 DEF TypeOK
<1>6. net = {}
  BY DEF Init
<1>7. NetTypeOK /\ TagsMade
  BY <1>6 DEF NetTypeOK, TagsMade
<1>8. AcceptedAgree /\ CompletedAgree
  BY <1>1, <1>2, <1>3, <1>4 DEF AcceptedAgree, CompletedAgree, Accepted
<1>. QED
  BY <1>5, <1>7, <1>8 DEF HandshakeInv

THEOREM HandshakeInvariance == Spec => []HandshakeInv
<1>1. HandshakeInv /\ [Next]_vars => HandshakeInv'
  BY RustStepKeeps, UnchangedKeeps DEF Next
<1>. QED
  BY InitKeeps, <1>1, PTL DEF Spec

\* The same for Rust and C# clients together.
THEOREM InteropInvariance == InteropSpec => []HandshakeInv
<1>1. InteropInit => HandshakeInv
  BY InitKeeps DEF InteropInit
<1>2. HandshakeInv /\ [InteropNext]_interopVars => HandshakeInv'
  <2> SUFFICES ASSUME HandshakeInv, [InteropNext]_interopVars  PROVE HandshakeInv'
    OBVIOUS
  <2>1. ASSUME UNCHANGED interopVars  PROVE HandshakeInv'
    BY <2>1, UnchangedKeeps DEF interopVars
  <2>2. ASSUME InteropNext  PROVE HandshakeInv'
    BY <2>2, CsStepKeeps, RustStepKeeps DEF InteropNext
  <2>. QED
    BY <2>1, <2>2
<1>. QED
  BY <1>1, <1>2, PTL DEF InteropSpec

-----------------------------------------------------------------------------
(* What the runs agree on.                                                 *)

LEMMA InvAgrees ==
    ASSUME HandshakeInv
    PROVE  TypeOK /\ ClientCompletionAgrees /\ ServerCompletionAgrees
<1>1. ClientCompletionAgrees
  BY DEF HandshakeInv, CompletedAgree, ClientCompletionAgrees, CompletedWith,
         ServerKey, ClientKey
<1>2. ServerCompletionAgrees
  BY DEF HandshakeInv, AcceptedAgree, ServerCompletionAgrees, ServerKey, ClientKey,
         Verified, Accepted
<1>. QED
  BY <1>1, <1>2 DEF HandshakeInv

\* Every run is in a state of its enum, and has the peer's hello exactly when
\* it has come that far, whatever the network delivers.
THEOREM HandshakeTypeCorrect == (Spec => []TypeOK) /\ (InteropSpec => []TypeOK)
BY HandshakeInvariance, InteropInvariance, InvAgrees, PTL

\* A client run that completes has accepted its own tag, or that of a server
\* run that has completed with it: the same two hellos, undamaged, hence the same
\* key, profile and session id (test_full_handshake, handshake.rs:689-695), for
\* any number of runs of both implementations and any network.
THEOREM ClientsComplete ==
    (Spec => []ClientCompletionAgrees) /\ (InteropSpec => []ClientCompletionAgrees)
BY HandshakeInvariance, InteropInvariance, InvAgrees, PTL

\* A server run that accepts a CLIENT_VERIFY is the only one that the client
\* run it names has taken for its peer, and holds the same key.
THEOREM ServersComplete ==
    (Spec => []ServerCompletionAgrees) /\ (InteropSpec => []ServerCompletionAgrees)
BY HandshakeInvariance, InteropInvariance, InvAgrees, PTL

\* The tags of the C# client and of the server are equal exactly if both have
\* seen the same two hellos (Handshake.cs:258-268).
THEOREM SameTags == InteropSpec => []SameViewSameTag
<1>1. ASSUME HandshakeInv  PROVE SameViewSameTag
  <2> SUFFICES ASSUME NEW c \in CsClients, NEW s \in Servers,
                      client[c].server_hello # None, server[s].client_hello # None
               PROVE  CsTag(c) = Hmac(server[s].client_hello, OwnServerHello(s))
                        <=> /\ client[c].server_hello = OwnServerHello(s)
                            /\ server[s].client_hello = OwnClientHello(c)
    BY DEF SameViewSameTag
  <2>1. TypeOK /\ c \in Clients
    BY <1>1, CsAssumption DEF HandshakeInv
  <2>2. /\ OwnClientHello(c) \in ClientHellos /\ client[c].server_hello \in ServerHellos
        /\ server[s].client_hello \in ClientHellos /\ OwnServerHello(s) \in ServerHellos
    BY <2>1, OwnHellos DEF TypeOK, ClientRuns, ServerRuns
  <2>3. CsTag(c) = Hmac(OwnClientHello(c), client[c].server_hello)
    BY SameComputation DEF CsTag
  <2>. QED
    BY <2>2, <2>3, TagsDetermineHellos
<1>. QED
  BY <1>1, InteropInvariance, PTL

-----------------------------------------------------------------------------
(* The handshake implements the abstract agreement.                        *)

\* The contracts of a run, as the refinement reads them off its fields.
AgreementOf(s) == [client  |-> server[s].client_hello.from,
                   server  |-> s,
                   profile |-> server[s].client_hello.profile,
                   sid     |-> server[s].session_id,
                   intact  |-> server[s].client_hello.bits = "sent"]
OfferedBy(c) == IF Verified(c) THEN Offer(c) ELSE None
AdoptedBy(c) == IF client[c].state = "Completed" THEN Offer(c) ELSE None
SettledBy(s) == IF server[s].state = "Completed" THEN AgreementOf(s) ELSE None

\* What a step leaves alone of the clients' part, and of the servers' part.
ClientsKeep(C) ==
    \A c \in C : /\ client'[c].profile = client[c].profile
                 /\ Verified(c)' <=> Verified(c)
                 /\ client'[c].state = "Completed" <=> client[c].state = "Completed"
                 /\ Verified(c) => client'[c].server_hello = client[c].server_hello
ServersKeep(S) ==
    \A s \in S : /\ server'[s].session_id = server[s].session_id
                 /\ server'[s].state = "Completed" <=> server[s].state = "Completed"
                 /\ server[s].state = "Completed" =>
                       server'[s].client_hello = server[s].client_hello

LEMMA KeptContracts ==
    /\ \A C : ClientsKeep(C) => \A c \in C : OfferedBy(c)' = OfferedBy(c) /\ AdoptedBy(c)' = AdoptedBy(c)
    /\ \A S : ServersKeep(S) => \A s \in S : SettledBy(s)' = SettledBy(s)
<1>1. ASSUME NEW C, ClientsKeep(C), NEW c \in C
      PROVE  OfferedBy(c)' = OfferedBy(c) /\ AdoptedBy(c)' = AdoptedBy(c)
  <2>1. Verified(c) => Offer(c)' = Offer(c)
    BY <1>1 DEF ClientsKeep, Offer
  <2>2. client[c].state = "Completed" => Verified(c)
    BY DEF Verified
  <2>. QED
    BY <1>1, <2>1, <2>2 DEF ClientsKeep, OfferedBy, AdoptedBy
<1>2. ASSUME NEW S, ServersKeep(S), NEW s \in S
      PROVE  SettledBy(s)' = SettledBy(s)
  BY <1>2 DEF ServersKeep, SettledBy, AgreementOf
<1>. QED
  BY <1>1, <1>2

\* Steps in which nobody commits itself, settles or adopts are stuttering
\* steps of the agreement.
LEMMA NothingAgreed ==
    ASSUME ClientsKeep(Clients), ServersKeep(Servers)
    PROVE  UNCHANGED Agreement!agreementVars
<1>1. \A c \in Clients : OfferedBy(c)' = OfferedBy(c) /\ AdoptedBy(c)' = AdoptedBy(c)
  BY KeptContracts
<1>2. \A s \in Servers : SettledBy(s)' = SettledBy(s)
  BY KeptContracts
<1>3. /\ [c \in Clients |-> OfferedBy(c)]' = [c \in Clients |-> OfferedBy(c)]
      /\ [c \in Clients |-> AdoptedBy(c)]' = [c \in Clients |-> AdoptedBy(c)]
      /\ [s \in Servers |-> SettledBy(s)]' = [s \in Servers |-> SettledBy(s)]
  BY <1>1, <1>2
<1>4. /\ [c \in Clients |-> client[c].profile]' = [c \in Clients |-> client[c].profile]
      /\ [s \in Servers |-> server[s].session_id]' = [s \in Servers |-> server[s].session_id]
  BY DEF ClientsKeep, ServersKeep
<1>. QED
  BY <1>3, <1>4 DEF Agreement!agreementVars, OfferedBy, AdoptedBy, SettledBy, AgreementOf, Verified

\* A client run that makes its tag commits itself to what it has understood.
LEMMA ClientOffers ==
    ASSUME NEW c \in Clients, NEW h \in ServerHellos, ~Verified(c),
           client'[c].state = "ClientVerifySent", client'[c].server_hello = h,
           client'[c].profile = client[c].profile,
           ClientsKeep(Clients \ {c}), server' = server
    PROVE  Agreement!Offer(c)
<1> DEFINE offer == [client |-> c, server |-> h.from, profile |-> client[c].profile,
                     sid |-> h.session_id, intact |-> h.bits = "sent"]
<1>1. OfferedBy(c) = None /\ AdoptedBy(c) = None /\ AdoptedBy(c)' = None
  BY DEF OfferedBy, AdoptedBy, Verified
<1>2. OfferedBy(c)' = offer
  BY DEF OfferedBy, Offer, Verified
<1>3. \A b \in Clients \ {c} : OfferedBy(b)' = OfferedBy(b) /\ AdoptedBy(b)' = AdoptedBy(b)
  BY KeptContracts
<1>4. h.from \in Servers /\ h.session_id \in SessionIds /\ (h.bits = "sent") \in BOOLEAN
  BY DEF ServerHellos
<1> HIDE DEF offer
<1>5. [b \in Clients |-> OfferedBy(b)]' = [[b \in Clients |-> OfferedBy(b)] EXCEPT ![c] = offer]
  BY <1>2, <1>3
<1>6. [b \in Clients |-> AdoptedBy(b)]' = [b \in Clients |-> AdoptedBy(b)]
  BY <1>1, <1>3
<1>7. /\ [b \in Clients |-> client[b].profile]' = [b \in Clients |-> client[b].profile]
      /\ [t \in Servers |-> server[t].session_id]' = [t \in Servers |-> server[t].session_id]
      /\ [t \in Servers |-> SettledBy(t)]' = [t \in Servers |-> SettledBy(t)]
  BY DEF ClientsKeep, SettledBy, AgreementOf
<1>8. [b \in Clients |-> OfferedBy(b)][c] = None
  BY <1>1
<1>9. PICK s \in Servers, i \in SessionIds, intact \in BOOLEAN :
          offer = [client |-> c, server |-> s, profile |-> client[c].profile,
                   sid |-> i, intact |-> intact]
  BY <1>4 DEF offer
<1>10. [b \in Clients |-> client[b].profile][c] = client[c].profile
  OBVIOUS
<1>11. [b \in Clients |-> OfferedBy(b)]' = [[b \in Clients |-> OfferedBy(b)] EXCEPT ![c] =
           [client |-> c, server |-> s, profile |-> [b \in Clients |-> client[b].profile][c],
            sid |-> i, intact |-> intact]]
  BY <1>5, <1>9, <1>10
<1>12. \E t \in Servers, k \in SessionIds, whole \in BOOLEAN :
           [b \in Clients |-> OfferedBy(b)]' = [[b \in Clients |-> OfferedBy(b)] EXCEPT ![c] =
               [client |-> c, server |-> t, profile |-> [b \in Clients |-> client[b].profile][c],
                sid |-> k, intact |-> whole]]
  BY <1>11, Zenon
<1>. QED
  BY <1>6, <1>7, <1>8, <1>12, Zenon
  DEF Agreement!Offer, OfferedBy, AdoptedBy, SettledBy, AgreementOf, Verified

LEMMA ServerSettles ==
    ASSUME HandshakeInv, NEW s \in Servers, SendServerVerify(s)
    PROVE  \E c \in Clients : Agreement!Settle(s, c)
<1>1. TypeOK
  BY DEF HandshakeInv
<1>2. /\ server[s].state = "ClientVerifyReceived" /\ client' = client
      /\ server' = [server EXCEPT ![s].state = "Completed"]
  BY DEF SendServerVerify
<1>3. /\ \A t \in Servers \ {s} : server'[t] = server[t]
      /\ server'[s].state = "Completed"
      /\ server'[s].client_hello = server[s].client_hello
      /\ server'[s].session_id = server[s].session_id
  BY <1>1, <1>2 DEF TypeOK, ServerRuns
<1>4. PICK c \in Clients : /\ Verified(c)
                           /\ server[s].client_hello = OwnClientHello(c)
                           /\ client[c].server_hello = OwnServerHello(s)
  BY <1>2 DEF HandshakeInv, AcceptedAgree, Accepted
<1> DEFINE contract == [client |-> c, server |-> s, profile |-> client[c].profile,
                        sid |-> server[s].session_id, intact |-> TRUE]
<1>5. OfferedBy(c) = contract
  <2>1. /\ client[c].server_hello.from = s
        /\ client[c].server_hello.session_id = server[s].session_id
        /\ (client[c].server_hello.bits = "sent") = TRUE
    BY <1>4 DEF OwnServerHello, ServerHello
  <2>. QED
    BY <1>4, <2>1 DEF OfferedBy, Offer
<1>6. SettledBy(s) = None
  BY <1>2 DEF SettledBy
<1>7. SettledBy(s)' = contract
  <2>1. /\ server'[s].client_hello.from = c
        /\ server'[s].client_hello.profile = client[c].profile
        /\ (server'[s].client_hello.bits = "sent") = TRUE
    BY <1>3, <1>4 DEF OwnClientHello, ClientHello
  <2>. QED
    BY <1>3, <2>1 DEF SettledBy, AgreementOf
<1>8. \A t \in Servers \ {s} : SettledBy(t)' = SettledBy(t)
  BY <1>3 DEF SettledBy, AgreementOf
<1>9. /\ [b \in Clients |-> client[b].profile]' = [b \in Clients |-> client[b].profile]
      /\ [t \in Servers |-> server[t].session_id]' = [t \in Servers |-> server[t].session_id]
      /\ [b \in Clients |-> OfferedBy(b)]' = [b \in Clients |-> OfferedBy(b)]
      /\ [b \in Clients |-> AdoptedBy(b)]' = [b \in Clients |-> AdoptedBy(b)]
  BY <1>2, <1>3 DEF OfferedBy, AdoptedBy, Offer, Verified
<1> HIDE DEF contract
<1>10. [t \in Servers |-> SettledBy(t)]' = [[t \in Servers |-> SettledBy(t)] EXCEPT ![s] = contract]
  BY <1>7, <1>8
<1>11. /\ [t \in Servers |-> SettledBy(t)][s] = None
       /\ [b \in Clients |-> OfferedBy(b)][c] = contract
       /\ Agreement!Contract(c, s) = contract
  BY <1>5, <1>6 DEF Agreement!Contract, contract
<1>. QED
  BY <1>9, <1>10, <1>11
  DEF Agreement!Settle, OfferedBy, AdoptedBy, SettledBy, AgreementOf, Verified

LEMMA ClientAdopts ==
    ASSUME HandshakeInv, NEW c \in Clients, NEW m \in Arrivals, ProcessServerVerify(c, m)
    PROVE  Agreement!Adopt(c)
<1>1. TypeOK
  BY DEF HandshakeInv
<1>2. /\ client[c].state = "ClientVerifySent" /\ server' = server
      /\ client' = [client EXCEPT ![c].state = "Completed", ![c].confirmed_by = m.by]
  BY DEF ProcessServerVerify
<1>3. /\ \A b \in Clients \ {c} : client'[b] = client[b]
      /\ client'[c].state = "Completed"
      /\ client'[c].profile = client[c].profile
      /\ client'[c].server_hello = client[c].server_hello
  BY <1>1, <1>2 DEF TypeOK, ClientRuns
<1>4. Verified(c) /\ Verified(c)' /\ Offer(c)' = Offer(c)
  BY <1>2, <1>3 DEF Verified, Offer
<1>5. /\ AdoptedBy(c) = None /\ AdoptedBy(c)' = OfferedBy(c)
      /\ OfferedBy(c)' = OfferedBy(c) /\ OfferedBy(c) = Offer(c)
  BY <1>2, <1>3, <1>4 DEF AdoptedBy, OfferedBy
<1>6. OfferedBy(c) # None
  <2>1. client[c].server_hello \in ServerHellos /\ client[c].profile \in Profiles
    BY <1>1, <1>2 DEF TypeOK, ClientRuns
  <2>2. Offer(c) \in [client : Clients, server : Servers, profile : Profiles,
                      sid : SessionIds, intact : BOOLEAN]
    BY <2>1 DEF Offer, ServerHellos
  <2>. QED
    BY <1>5, <2>2, HandshakeAssumption
<1>7. \A b \in Clients \ {c} : OfferedBy(b)' = OfferedBy(b) /\ AdoptedBy(b)' = AdoptedBy(b)
  BY <1>3 DEF OfferedBy, AdoptedBy, Offer, Verified
<1>8. /\ [b \in Clients |-> OfferedBy(b)]' = [b \in Clients |-> OfferedBy(b)]
      /\ [b \in Clients |-> AdoptedBy(b)]' =
             [[b \in Clients |-> AdoptedBy(b)] EXCEPT ![c] = [b \in Clients |-> OfferedBy(b)][c]]
  BY <1>5, <1>7
<1>9. /\ [b \in Clients |-> client[b].profile]' = [b \in Clients |-> client[b].profile]
      /\ [t \in Servers |-> server[t].session_id]' = [t \in Servers |-> server[t].session_id]
      /\ [t \in Servers |-> SettledBy(t)]' = [t \in Servers |-> SettledBy(t)]
  <2>1. \A b \in Clients : client'[b].profile = client[b].profile
    BY <1>3
  <2>2. \A t \in Servers : SettledBy(t)' = SettledBy(t)
    BY <1>2 DEF SettledBy, AgreementOf
  <2>. QED
    BY <1>2, <2>1, <2>2
<1>10. [b \in Clients |-> AdoptedBy(b)][c] = None /\ [b \in Clients |-> OfferedBy(b)][c] # None
  BY <1>5, <1>6
<1>. QED
  BY <1>8, <1>9, <1>10
  DEF Agreement!Adopt, OfferedBy, AdoptedBy, SettledBy, AgreementOf, Verified

\* Any step of the handshake is a step of the agreement, or none.
LEMMA RustStepAgrees ==
    ASSUME HandshakeInv,
           \/ \E c \in Clients : ClientStep(c)
           \/ \E s \in Servers : ServerStep(s)
    PROVE  Agreement!AgreementNext \/ UNCHANGED Agreement!agreementVars
<1>1. TypeOK
  BY DEF HandshakeInv
<1>2. ASSUME NEW c \in Clients, Start(c)
      PROVE  UNCHANGED Agreement!agreementVars
  <2>1. /\ \A b \in Clients \ {c} : client'[b] = client[b]
        /\ client'[c].state = "ClientHelloSent" /\ client'[c].profile = client[c].profile
        /\ client[c].state = "Initial" /\ server' = server
    BY <1>1, <1>2 DEF TypeOK, ClientRuns, Start
  <2>2. ClientsKeep(Clients) /\ ServersKeep(Servers)
    BY <2>1 DEF ClientsKeep, ServersKeep, Verified
  <2>. QED
    BY <2>2, NothingAgreed
<1>3. ASSUME NEW c \in Clients, NEW m \in Arrivals, ProcessServerHello(c, m)
      PROVE  UNCHANGED Agreement!agreementVars
  <2>1. /\ \A b \in Clients \ {c} : client'[b] = client[b]
        /\ client'[c].state = "ServerHelloReceived" /\ client'[c].profile = client[c].profile
        /\ client[c].state = "ClientHelloSent" /\ server' = server
    BY <1>1, <1>3 DEF TypeOK, ClientRuns, ProcessServerHello
  <2>2. ClientsKeep(Clients) /\ ServersKeep(Servers)
    BY <2>1 DEF ClientsKeep, ServersKeep, Verified
  <2>. QED
    BY <2>2, NothingAgreed
<1>4. ASSUME NEW c \in Clients, SendClientVerify(c)
      PROVE  Agreement!AgreementNext
  <2>1. /\ \A b \in Clients \ {c} : client'[b] = client[b]
        /\ client'[c].state = "ClientVerifySent" /\ client'[c].profile = client[c].profile
        /\ client'[c].server_hello = client[c].server_hello
        /\ client[c].state = "ServerHelloReceived" /\ server' = server
    BY <1>1, <1>4 DEF TypeOK, ClientRuns, SendClientVerify
  <2>2. client[c].server_hello \in ServerHellos
    BY <1>1, <2>1 DEF TypeOK
  <2>3. ClientsKeep(Clients \ {c}) /\ ~Verified(c)
    BY <2>1 DEF ClientsKeep, Verified
  <2>4. Agreement!Offer(c)
    BY <2>1, <2>2, <2>3, ClientOffers
  <2>. QED
    BY <2>4 DEF Agreement!AgreementNext
<1>5. ASSUME NEW s \in Servers, NEW m \in Arrivals, ProcessClientHello(s, m)
      PROVE  UNCHANGED Agreement!agreementVars
  <2>1. /\ \A t \in Servers \ {s} : server'[t] = server[t]
        /\ server'[s].state = "ServerHelloSent" /\ server'[s].session_id = server[s].session_id
        /\ server[s].state = "Initial" /\ client' = client
    BY <1>1, <1>5 DEF TypeOK, ServerRuns, ProcessClientHello
  <2>2. ClientsKeep(Clients) /\ ServersKeep(Servers)
    BY <2>1 DEF ClientsKeep, ServersKeep, Verified
  <2>. QED
    BY <2>2, NothingAgreed
<1>6. ASSUME NEW s \in Servers, NEW m \in Arrivals, ProcessClientVerify(s, m)
      PROVE  UNCHANGED Agreement!agreementVars
  <2>1. /\ \A t \in Servers \ {s} : server'[t] = server[t]
        /\ server'[s].state = "ClientVerifyReceived"
        /\ server'[s].session_id = server[s].session_id
        /\ server[s].state = "ServerHelloSent" /\ client' = client
    BY <1>1, <1>6 DEF TypeOK, ServerRuns, ProcessClientVerify
  <2>2. ClientsKeep(Clients) /\ ServersKeep(Servers)
    BY <2>1 DEF ClientsKeep, ServersKeep, Verified
  <2>. QED
    BY <2>2, NothingAgreed
<1>7. ASSUME NEW c \in Clients, NEW m \in Arrivals, ProcessServerVerify(c, m)
      PROVE  Agreement!AgreementNext
  BY <1>7, ClientAdopts DEF Agreement!AgreementNext
<1>8. ASSUME NEW s \in Servers, SendServerVerify(s)
      PROVE  Agreement!AgreementNext
  BY <1>8, ServerSettles DEF Agreement!AgreementNext
<1>. QED
  BY <1>2, <1>3, <1>4, <1>5, <1>6, <1>7, <1>8 DEF ClientStep, ServerStep

LEMMA CsStepAgrees ==
    ASSUME HandshakeInv, NEW c \in CsClients, CsStep(c)
    PROVE  Agreement!AgreementNext \/ UNCHANGED Agreement!agreementVars
<1>1. TypeOK /\ NetTypeOK /\ c \in Clients
  BY CsAssumption DEF HandshakeInv
<1>2. CASE CsStart(c)
  BY <1>1, <1>2, RustStepAgrees DEF CsStart, Start, ClientStep
<1>3. ASSUME NEW m \in Arrivals, CsTakeServerHello(c, m)
      PROVE  Agreement!AgreementNext
  <2>1. /\ \A b \in Clients \ {c} : client'[b] = client[b]
        /\ client'[c].state = "ClientVerifySent" /\ client'[c].profile = client[c].profile
        /\ client'[c].server_hello = m
        /\ client[c].state = "ClientHelloSent" /\ server' = server
    BY <1>1, <1>3 DEF TypeOK, ClientRuns, CsTakeServerHello
  <2>2. m \in ServerHellos
    BY <1>1, <1>3, ArrivalTypes DEF CsTakeServerHello
  <2>3. ClientsKeep(Clients \ {c}) /\ ~Verified(c)
    BY <2>1 DEF ClientsKeep, Verified
  <2>4. Agreement!Offer(c)
    BY <1>1, <2>1, <2>2, <2>3, ClientOffers
  <2>. QED
    BY <1>1, <2>4 DEF Agreement!AgreementNext
<1>4. ASSUME NEW m \in Arrivals, CsTakeServerVerify(c, m)
      PROVE  Agreement!AgreementNext
  BY <1>1, <1>4, CsAcceptsTheSame, ClientAdopts DEF Agreement!AgreementNext
<1>5. CASE CsThrows(c)
  <2>1. client' = client /\ server' = server
    BY <1>5 DEF CsThrows, vars
  <2>2. ClientsKeep(Clients) /\ ServersKeep(Servers)
    BY <2>1 DEF ClientsKeep, ServersKeep, Verified
  <2>. QED
    BY <2>2, NothingAgreed
<1>. QED
  BY <1>2, <1>3, <1>4, <1>5 DEF CsStep

LEMMA AgreementInitial ==
    ASSUME Init
    PROVE  Agreement!AgreementInit
<1>1. PICK p \in [Clients -> Profiles] : client = [c \in Clients |-> NewClient(p[c])]
  BY DEF Init
<1>2. PICK i \in [Servers -> SessionIds] : server = [s \in Servers |-> NewServer(i[s])]
  BY DEF Init
<1>3. \A c \in Clients : client[c].state = "Initial" /\ client[c].profile \in Profiles
  BY <1>1 DEF NewClient
<1>4. \A s \in Servers : server[s].state # "Completed" /\ server[s].session_id \in SessionIds
  BY <1>2 DEF NewServer
<1>. QED
  BY <1>3, <1>4 DEF Agreement!AgreementInit

LEMMA Stutter ==
    ASSUME UNCHANGED vars
    PROVE  UNCHANGED Agreement!agreementVars
<1>1. client' = client /\ server' = server
  BY DEF vars
<1>2. ClientsKeep(Clients) /\ ServersKeep(Servers)
  BY <1>1 DEF ClientsKeep, ServersKeep, Verified
<1>. QED
  BY <1>2, NothingAgreed

\* The handshake implements the agreement: a server run settles once, on the
\* contract that one client run has committed itself to, and a client run adopts
\* what it has committed itself to, or nothing, in any mixture of Rust and C#
\* clients.
THEOREM HandshakeAgrees == (Spec => RefinesAgreement) /\ (InteropSpec => RefinesAgreement)
<1>1. HandshakeInv /\ [Next]_vars => [Agreement!AgreementNext]_(Agreement!agreementVars)
  BY RustStepAgrees, Stutter DEF Next
<1>2. HandshakeInv /\ [InteropNext]_interopVars
        => [Agreement!AgreementNext]_(Agreement!agreementVars)
  <2> SUFFICES ASSUME HandshakeInv, [InteropNext]_interopVars
               PROVE  Agreement!AgreementNext \/ UNCHANGED Agreement!agreementVars
    OBVIOUS
  <2>1. ASSUME UNCHANGED interopVars  PROVE UNCHANGED Agreement!agreementVars
    BY <2>1, Stutter DEF interopVars
  <2>2. ASSUME InteropNext
        PROVE  Agreement!AgreementNext \/ UNCHANGED Agreement!agreementVars
    BY <2>2, CsStepAgrees, RustStepAgrees DEF InteropNext
  <2>. QED
    BY <2>1, <2>2
<1>3. Spec => RefinesAgreement
  BY HandshakeInvariance, AgreementInitial, <1>1, PTL
  DEF Spec, RefinesAgreement, Agreement!AgreementSpec
<1>4. InteropSpec => RefinesAgreement
  <2>1. InteropInit => Agreement!AgreementInit
    BY AgreementInitial DEF InteropInit
  <2>. QED
    BY InteropInvariance, <1>2, <2>1, PTL
    DEF InteropSpec, RefinesAgreement, Agreement!AgreementSpec
<1>. QED
  BY <1>3, <1>4
=============================================================================
