------------------------------ MODULE Handshake ------------------------------
(***************************************************************************)
(* The four-message handshake of llp-core (handshake.rs): any number of    *)
(* ClientHandshake and ServerHandshake objects, called `runs' here, that   *)
(* exchange CLIENT_HELLO, SERVER_HELLO, CLIENT_VERIFY and SERVER_VERIFY.   *)
(*                                                                         *)
(* The network `net' keeps everything that was sent: a message may arrive  *)
(* late, again, at any run, or never, and with changed bytes.  A public    *)
(* key with its random bytes is the run that generated them; key and       *)
(* random changed in transit are `bits = "damaged"'.  The HMAC of a        *)
(* message is the pair of key and transcript it was computed from; the     *)
(* type byte of a message is not among them, so a message whose type byte  *)
(* was changed is a message of the other type, with the same tag.          *)
(***************************************************************************)
EXTENDS Sequences

CONSTANTS
    Clients, Servers,      \* the runs on either side
    Profiles,              \* mimicry profiles
    SessionIds,
    None

\* None is neither a run nor a contract between two runs, and every run has
\* keys of its own.
ASSUME HandshakeAssumption ==
    /\ None \notin [client : Clients, server : Servers, profile : Profiles,
                    sid : SessionIds, intact : BOOLEAN]
    /\ None \notin Clients \union Servers
    /\ Clients \intersect Servers = {}

VARIABLES
    client,     \* client[c]: the fields of ClientHandshake c, and confirmed_by,
                \* a history: the run that made the tag c has accepted
    server,     \* server[s]: the fields of ServerHandshake s
    net         \* the messages sent so far

vars == <<client, server, net>>

Bits == {"sent", "damaged"}

ClientHello(c, p) ==
    [type |-> "CLIENT_HELLO", from |-> c, bits |-> "sent", profile |-> p]
ServerHello(s, sid) ==
    [type |-> "SERVER_HELLO", from |-> s, bits |-> "sent", session_id |-> sid]

\* The fields a message is made of; of a damaged one both are changed.
PublicKey(m) == <<"key", m.from, m.bits>>
Random(m)    == <<"random", m.from, m.bits>>

\* X25519: either side computes the secret from its own key and the other's.
DiffieHellman(own, their) == {own, their}

\* HKDF over the secret, salted with both random values.
SessionKey(ch, sh) == [secret |-> DiffieHellman(PublicKey(ch), PublicKey(sh)),
                       salt   |-> <<Random(ch), Random(sh)>>,
                       info   |-> "llp-session-key-v1"]

\* The bytes of the two hellos, field by field.
ClientHelloBytes(m) == <<1, PublicKey(m), Random(m), m.profile>>
ServerHelloBytes(m) == <<2, PublicKey(m), Random(m), m.session_id>>

\* hmac_sha256: equal tags are tags of the same data under the same key.
HmacSha256(key, data) == [key |-> key, data |-> data]

\* Mutant: the transcript is left out of the HMAC.
HmacOfKeyOnly(ch, sh) == HmacSha256(SessionKey(ch, sh), <<>>)

Hmac(ch, sh) == HmacSha256(SessionKey(ch, sh), ClientHelloBytes(ch) \o ServerHelloBytes(sh))

\* `by' is a history that no code reads: the run that made the message.
Verify(type, by, ch, sh) == [type |-> type, by |-> by, tag |-> Hmac(ch, sh)]

VerifyTypes == {"CLIENT_VERIFY", "SERVER_VERIFY"}

\* What may arrive: anything that was sent, and a message with changed bytes
\* that still parses.  Either verify message is a type and a tag, so a changed
\* type makes one the other; a SERVER_HELLO is long enough for a CLIENT_HELLO,
\* whose profile is then what the session id begins with.  A verify message
\* with a changed tag, or a hello read as one, is an error without effect.
Damaged(m) ==
    CASE m.type = "CLIENT_HELLO" ->
            {[m EXCEPT !.bits = "damaged"]} \union
            {[m EXCEPT !.profile = p] : p \in Profiles}
      [] m.type = "SERVER_HELLO" ->
            {[m EXCEPT !.bits = "damaged"]} \union
            {[m EXCEPT !.session_id = i] : i \in SessionIds} \union
            {ClientHello(m.from, p) : p \in Profiles}
      [] m.type \in VerifyTypes -> {[m EXCEPT !.type = t] : t \in VerifyTypes}

Arrivals == net \union UNION {Damaged(m) : m \in net}

\* ClientHandshake::new and ServerHandshake::new.
NewClient(p) == [state |-> "Initial", profile |-> p, server_hello |-> None,
                 confirmed_by |-> None]
NewServer(i) == [state |-> "Initial", session_id |-> i, client_hello |-> None]

Init ==
    /\ \E p \in [Clients -> Profiles] : client = [c \in Clients |-> NewClient(p[c])]
    /\ \E i \in [Servers -> SessionIds] : server = [s \in Servers |-> NewServer(i[s])]
    /\ net = {}

-----------------------------------------------------------------------------
(* The client's operations.                                                *)

OwnClientHello(c) == ClientHello(c, client[c].profile)
OwnServerHello(s) == ServerHello(s, server[s].session_id)

Start(c) ==
    /\ client[c].state = "Initial"
    /\ client' = [client EXCEPT ![c].state = "ClientHelloSent"]
    /\ net' = net \union {OwnClientHello(c)}
    /\ UNCHANGED server

ProcessServerHello(c, m) ==
    /\ client[c].state = "ClientHelloSent"
    /\ m.type = "SERVER_HELLO"
    /\ client' = [client EXCEPT ![c].state = "ServerHelloReceived",
                                ![c].server_hello = m]
    /\ UNCHANGED <<server, net>>

SendClientVerify(c) ==
    /\ client[c].state = "ServerHelloReceived"
    /\ client' = [client EXCEPT ![c].state = "ClientVerifySent"]
    /\ net' = net \union {Verify("CLIENT_VERIFY", c, OwnClientHello(c), client[c].server_hello)}
    /\ UNCHANGED server

\* Mutant: the tag is not verified.
ProcessServerVerifyUnchecked(c, m) ==
    /\ client[c].state = "ClientVerifySent"
    /\ m.type = "SERVER_VERIFY"
    /\ client' = [client EXCEPT ![c].state = "Completed", ![c].confirmed_by = m.by]
    /\ UNCHANGED <<server, net>>

\* A SERVER_VERIFY with another tag is an error that leaves the state alone.
ProcessServerVerify(c, m) ==
    /\ client[c].state = "ClientVerifySent"
    /\ m.type = "SERVER_VERIFY"
    /\ m.tag = Hmac(OwnClientHello(c), client[c].server_hello)
    /\ client' = [client EXCEPT ![c].state = "Completed", ![c].confirmed_by = m.by]
    /\ UNCHANGED <<server, net>>

-----------------------------------------------------------------------------
(* The server's operations.                                                *)

ProcessClientHello(s, m) ==
    /\ server[s].state = "Initial"
    /\ m.type = "CLIENT_HELLO"
    /\ server' = [server EXCEPT ![s].state = "ServerHelloSent",
                                ![s].client_hello = m]
    /\ net' = net \union {OwnServerHello(s)}
    /\ UNCHANGED client

\* Mutant: the tag is not verified.
ProcessClientVerifyUnchecked(s, m) ==
    /\ server[s].state = "ServerHelloSent"
    /\ m.type = "CLIENT_VERIFY"
    /\ server' = [server EXCEPT ![s].state = "ClientVerifyReceived"]
    /\ UNCHANGED <<client, net>>

ProcessClientVerify(s, m) ==
    /\ server[s].state = "ServerHelloSent"
    /\ m.type = "CLIENT_VERIFY"
    /\ m.tag = Hmac(server[s].client_hello, OwnServerHello(s))
    /\ server' = [server EXCEPT ![s].state = "ClientVerifyReceived"]
    /\ UNCHANGED <<client, net>>

SendServerVerify(s) ==
    /\ server[s].state = "ClientVerifyReceived"
    /\ server' = [server EXCEPT ![s].state = "Completed"]
    /\ net' = net \union {Verify("SERVER_VERIFY", s, server[s].client_hello, OwnServerHello(s))}
    /\ UNCHANGED client

-----------------------------------------------------------------------------
ClientStep(c) ==
    \/ Start(c)
    \/ SendClientVerify(c)
    \/ \E m \in Arrivals : ProcessServerHello(c, m) \/ ProcessServerVerify(c, m)

ServerStep(s) ==
    \/ SendServerVerify(s)
    \/ \E m \in Arrivals : ProcessClientHello(s, m) \/ ProcessClientVerify(s, m)

Next == \/ \E c \in Clients : ClientStep(c)
        \/ \E s \in Servers : ServerStep(s)

Spec == Init /\ [][Next]_vars

-----------------------------------------------------------------------------
(* Properties.                                                             *)

ClientKey(c) == SessionKey(OwnClientHello(c), client[c].server_hello)
ServerKey(s) == SessionKey(server[s].client_hello, OwnServerHello(s))

ClientHellos == [type : {"CLIENT_HELLO"}, from : Clients \union Servers, bits : Bits,
                 profile : Profiles]
ServerHellos == [type : {"SERVER_HELLO"}, from : Servers, bits : Bits, session_id : SessionIds]

ClientRuns == [state : {"Initial", "ClientHelloSent", "ServerHelloReceived",
                        "ClientVerifySent", "Completed"},
               profile : Profiles,
               server_hello : ServerHellos \union {None},
               confirmed_by : Clients \union Servers \union {None}]
ServerRuns == [state : {"Initial", "ServerHelloSent", "ClientVerifyReceived", "Completed"},
               session_id : SessionIds,
               client_hello : ClientHellos \union {None}]

TypeOK ==
    /\ client \in [Clients -> ClientRuns]
    /\ server \in [Servers -> ServerRuns]
    /\ \A c \in Clients : client[c].state \notin {"Initial", "ClientHelloSent"} =>
                             client[c].server_hello \in ServerHellos
    /\ \A s \in Servers : server[s].state # "Initial" => server[s].client_hello \in ClientHellos

\* The server run s has completed with the client run c: each took the
\* other's hello undamaged, so they hold the same session key and know the same
\* profile and session id.
CompletedWith(s, c) ==
    /\ server[s].state = "Completed"
    /\ client[c].server_hello = OwnServerHello(s)
    /\ server[s].client_hello = OwnClientHello(c)
    /\ ServerKey(s) = ClientKey(c)

\* When a client run completes, the tag it accepted was made by a server run
\* that has completed with it (the assertions at the end of test_full_handshake,
\* handshake.rs:689-695), or is its own, which came back as a SERVER_VERIFY: both
\* ends compute one tag, over the two hellos and not over its direction.  No
\* mixture of runs, and no loss, repetition, reordering or damage of messages,
\* makes it accept any other.
ClientCompletionAgrees ==
    \A c \in Clients :
        client[c].state = "Completed" =>
            \/ client[c].confirmed_by = c
            \/ \E s \in Servers : client[c].confirmed_by = s /\ CompletedWith(s, c)

\* SERVER_VERIFY confirms that the server has the right session key
\* (HANDSHAKE-IMPLEMENTATION.md:44-46): a client run completes with a server run.
\* It does not hold: one changed byte makes the CLIENT_VERIFY of the client
\* itself a SERVER_VERIFY that it accepts.
ServerConfirmed ==
    \A c \in Clients :
        client[c].state = "Completed" => \E s \in Servers : CompletedWith(s, c)

\* When a server run has accepted a CLIENT_VERIFY, the client run it names
\* has taken this server's hello and no other, and holds the same key.
ServerCompletionAgrees ==
    \A s \in Servers :
        server[s].state \in {"ClientVerifyReceived", "Completed"} =>
            \E c \in Clients :
                /\ server[s].client_hello = OwnClientHello(c)
                /\ client[c].server_hello = OwnServerHello(s)
                /\ client[c].state \in {"ClientVerifySent", "Completed"}
                /\ ClientKey(c) = ServerKey(s)

\* What a client run has put its tag under.
Offer(c) == [client  |-> c,
             server  |-> client[c].server_hello.from,
             profile |-> client[c].profile,
             sid     |-> client[c].server_hello.session_id,
             intact  |-> client[c].server_hello.bits = "sent"]

\* The handshake implements the abstract agreement.
Agreement == INSTANCE KeyAgreement WITH
    profile <- [c \in Clients |-> client[c].profile],
    sid     <- [s \in Servers |-> server[s].session_id],
    offered <- [c \in Clients |->
                  IF client[c].state \in {"ClientVerifySent", "Completed"} THEN Offer(c) ELSE None],
    settled <- [s \in Servers |->
                  IF server[s].state = "Completed"
                  THEN [client  |-> server[s].client_hello.from,
                        server  |-> s,
                        profile |-> server[s].client_hello.profile,
                        sid     |-> server[s].session_id,
                        intact  |-> server[s].client_hello.bits = "sent"]
                  ELSE None],
    adopted <- [c \in Clients |-> IF client[c].state = "Completed" THEN Offer(c) ELSE None]
RefinesAgreement == Agreement!AgreementSpec
=============================================================================
