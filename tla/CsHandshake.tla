----------------------------- MODULE CsHandshake -----------------------------
(***************************************************************************)
(* The handshake of the C# client (client-csharp, VpnClient.cs and         *)
(* Crypto/Handshake.cs), a second implementation of the client's side,     *)
(* next to Rust clients and with the same servers.  It computes key and    *)
(* transcript itself, and PerformHandshakeAsync runs through its steps     *)
(* once: whatever it does not expect is an exception that ends it.         *)
(*                                                                         *)
(* client[c].state is the place PerformHandshakeAsync has reached.  A run  *)
(* that is cancelled, or whose stream ends, makes no further step.  The    *)
(* stream is the network of Handshake, which may do more than TCP would:   *)
(* the server of the repository listens on UDP.                            *)
(***************************************************************************)
EXTENDS Handshake

CONSTANT CsClients      \* the client runs that are C# clients

ASSUME CsAssumption == CsClients \subseteq Clients

VARIABLE threw          \* threw[c]: PerformHandshakeAsync has thrown

interopVars == <<vars, threw>>

-----------------------------------------------------------------------------
(* ClientHandshake of Handshake.cs.                                        *)

CsSessionKey(ch, sh) == [secret |-> {PublicKey(ch), PublicKey(sh)},
                         salt   |-> <<Random(ch), Random(sh)>>,
                         info   |-> "llp-session-key-v1"]

CsClientHelloBytes(m) == <<1, PublicKey(m), Random(m), m.profile>>

\* Mutant: session id before the random value.
CsTranscriptSwapped(ch, sh) ==
    CsClientHelloBytes(ch) \o <<2, PublicKey(sh), sh.session_id, Random(sh)>>

\* The CLIENT_HELLO as it was sent, and the fields of the SERVER_HELLO put
\* together again.
CsTranscript(ch, sh) ==
    CsClientHelloBytes(ch) \o <<2, PublicKey(sh), Random(sh), sh.session_id>>

CsHmac(ch, sh) == HmacSha256(CsSessionKey(ch, sh), CsTranscript(ch, sh))

CsTag(c) == CsHmac(OwnClientHello(c), client[c].server_hello)

-----------------------------------------------------------------------------
(* PerformHandshakeAsync.                                                  *)

CsStart(c) ==
    /\ client[c].state = "Initial"
    /\ client' = [client EXCEPT ![c].state = "ClientHelloSent"]
    /\ net' = net \union {OwnClientHello(c)}
    /\ UNCHANGED server

\* ProcessServerHello and, at once, SendClientVerify.
CsTakeServerHello(c, m) ==
    /\ client[c].state = "ClientHelloSent"
    /\ m.type = "SERVER_HELLO"
    /\ client' = [client EXCEPT ![c].state = "ClientVerifySent",
                                ![c].server_hello = m]
    /\ net' = net \union {[type |-> "CLIENT_VERIFY", by |-> c, tag |-> CsHmac(OwnClientHello(c), m)]}
    /\ UNCHANGED server

CsTakeServerVerify(c, m) ==
    /\ client[c].state = "ClientVerifySent"
    /\ m.type = "SERVER_VERIFY"
    /\ m.tag = CsTag(c)
    /\ client' = [client EXCEPT ![c].state = "Completed", ![c].confirmed_by = m.by]
    /\ UNCHANGED <<server, net>>

\* A message of another length or type, or with another tag.
Unexpected(c, m) ==
    \/ client[c].state = "ClientHelloSent"  /\ m.type # "SERVER_HELLO"
    \/ client[c].state = "ClientVerifySent" /\ m.type # "SERVER_VERIFY"
    \/ client[c].state = "ClientVerifySent" /\ m.type = "SERVER_VERIFY" /\ m.tag # CsTag(c)

CsThrows(c) ==
    /\ \E m \in Arrivals : Unexpected(c, m)
    /\ threw' = [threw EXCEPT ![c] = TRUE]
    /\ UNCHANGED vars

CsStep(c) ==
    /\ ~threw[c]
    /\ \/ /\ \/ CsStart(c)
             \/ \E m \in Arrivals : CsTakeServerHello(c, m) \/ CsTakeServerVerify(c, m)
          /\ UNCHANGED threw
       \/ CsThrows(c)

-----------------------------------------------------------------------------
InteropInit == Init /\ threw = [c \in CsClients |-> FALSE]

InteropNext ==
    \/ \E c \in CsClients : CsStep(c)
    \/ \E c \in Clients \ CsClients : ClientStep(c) /\ UNCHANGED threw
    \/ \E s \in Servers : ServerStep(s) /\ UNCHANGED threw

InteropSpec == InteropInit /\ [][InteropNext]_interopVars

\* The two implementations compute the same tag exactly if the C# client and
\* the server have seen the same two hellos, whatever the network did to them
\* (the C# client writes the SERVER_HELLO anew, Handshake.cs:258-268).
SameViewSameTag ==
    \A c \in CsClients, s \in Servers :
        (client[c].server_hello # None /\ server[s].client_hello # None) =>
            (CsTag(c) = Hmac(server[s].client_hello, OwnServerHello(s))
               <=> /\ client[c].server_hello = OwnServerHello(s)
                   /\ server[s].client_hello = OwnClientHello(c))
=============================================================================
