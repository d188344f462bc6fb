-------------------------------- MODULE Config --------------------------------
(***************************************************************************)
(* The configuration files of client and server (llp-client config.rs,     *)
(* llp-server config.rs) as their readers use them: which of them validate *)
(* lets through, and what a validated one promises the code behind it.     *)
(*                                                                         *)
(* Names and addresses are told apart only by being empty or not, profiles *)
(* by being known; what decides no step (DNS servers, route_all_traffic,   *)
(* verify_server, the log file, the server's subnet and timeouts) is left  *)
(* out.                                                                    *)
(***************************************************************************)
EXTENDS PacketCodec

ProfileNames == {"none", "vk_video", "yandex_music", "rutube"}
Texts == ProfileNames \union {"unknown"}

MIN_MTU == 576
MAX_MTU == 9000

\* What a file may say: any value of the fields' types.  Every key has a
\* default but the host, which may be missing.
Hosts == {"given", "empty", "missing"}

ClientConfig ==
    [host : Hosts, port : Word, mimicry_profile : Texts, mtu : Word,
     keepalive_interval : Nat, reconnect_attempts : Nat,
     client_ip : BOOLEAN]

ServerConfig ==
    [port : Word, max_connections : Nat, default_mimicry_profile : Texts, mtu : Word]

DefaultClientConfig ==
    [host |-> "given", port |-> 8443, mimicry_profile |-> "vk_video", mtu |-> 1420,
     keepalive_interval |-> 30, reconnect_attempts |-> 5,
     client_ip |-> FALSE]

DefaultServerConfig ==
    [port |-> 8443, max_connections |-> 1000, default_mimicry_profile |-> "vk_video",
     mtu |-> 1420]

\* The file that the server exports for its clients names an `address' and no
\* host; its other sections have keys of their own, so the defaults stand.
ExportedConfig(server) ==
    [DefaultClientConfig EXCEPT !.host = "missing", !.mtu = server.mtu,
                                !.mimicry_profile = server.default_mimicry_profile]

KnownProfile(text) == text \in ProfileNames

\* Mutant: the MTU is only bounded from below.
ValidMtuAtLeast(mtu) == mtu >= MIN_MTU

ValidMtu(mtu) == mtu >= MIN_MTU /\ mtu <= MAX_MTU

\* from_file: what cannot be read without the host, and what validate refuses.
ValidClient(c) ==
    /\ c.host = "given" /\ c.port # 0
    /\ KnownProfile(c.mimicry_profile)
    /\ ValidMtu(c.mtu)

ValidServer(c) ==
    /\ c.port # 0 /\ c.max_connections # 0
    /\ KnownProfile(c.default_mimicry_profile)
    /\ ValidMtu(c.mtu)

-----------------------------------------------------------------------------
(* What tunnel.rs makes of the MTU: the sizes read_packet can return.      *)

ReadBuffer(mtu) == mtu + 4
ReadSizes(mtu) == 1..ReadBuffer(mtu)

\* The LLP packet that send_packet makes of an IP packet of that size: the
\* payload is the ciphertext with its tag, and there is no padding.
PacketOf(size) == LlpPacket(NewHeader(0, 0), size + AUTH_TAG_SIZE, 0)

\* No limit on the way stops a packet of this size: not LlpPacket::new, not
\* serialize, not the 65536 bytes of receive_packet behind an HTTP header.
Sendable(size, http) ==
    /\ MayBeBuilt(PacketOf(size))
    /\ MaySerialize(PacketOf(size))
    /\ Wrap(Serialize(PacketOf(size)), http).size <= MAX_PACKET_SIZE
=============================================================================
