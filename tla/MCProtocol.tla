------------------------------ MODULE MCProtocol ------------------------------
(* What the two ends of a session do: the handshake of a Rust client, a C#  *)
(* client and two server runs; or the packets of a session, as datagrams in *)
(* any order or over the stream of the Rust client.  A session has six      *)
(* numbers, and its cipher two nonces more.                                 *)
EXTENDS MCHandshake, MCPacketLink

VARIABLE part

\* The packets know nothing of the profiles and ids of the handshake.
OneProfileAndId ==
    /\ \A c, d \in Clients : client[c].profile = client[d].profile
    /\ \A s, t \in Servers : server[s].session_id = server[t].session_id

MCInit ==
    /\ InteropInit /\ LinkInit
    /\ \/ part = "handshake"
       \/ part \in {"datagrams", "stream"} /\ OneProfileAndId

MCNext ==
    /\ UNCHANGED part
    /\ \/ part = "handshake" /\ InteropNext /\ UNCHANGED linkVars
       \/ part = "datagrams" /\ SessionNext
            /\ UNCHANGED <<stream, in_step, chunk_counter, received, interopVars>>
       \/ part = "stream" /\ LinkNext /\ UNCHANGED interopVars

MCSpec == MCInit /\ [][MCNext]_<<part, interopVars, linkVars>>
=============================================================================
