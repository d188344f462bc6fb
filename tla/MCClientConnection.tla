-------------------------- MODULE MCClientConnection --------------------------
(* The default configuration, a large MTU with an address and few attempts,*)
(* a keepalive interval and a number of attempts of zero, and four files   *)
(* that from_file refuses, among them the one that the server exports.     *)
EXTENDS ClientConnection

FewAttempts == [DefaultClientConfig EXCEPT !.mtu = MAX_MTU, !.reconnect_attempts = 1,
                                           !.client_ip = TRUE, !.mimicry_profile = "none"]
NoInterval  == [DefaultClientConfig EXCEPT !.mtu = MIN_MTU, !.keepalive_interval = 0]
NoAttempts  == [DefaultClientConfig EXCEPT !.reconnect_attempts = 0]
Refused     == {[DefaultClientConfig EXCEPT !.mtu = 65535],
                [DefaultClientConfig EXCEPT !.mimicry_profile = "unknown"],
                [DefaultClientConfig EXCEPT !.host = "empty"],
                ExportedConfig(DefaultServerConfig)}

MCConfigs == {DefaultClientConfig, FewAttempts, NoInterval, NoAttempts} \union Refused
MCHeaders == {0, 428}
=============================================================================
