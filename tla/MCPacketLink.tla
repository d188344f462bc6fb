----------------------------- MODULE MCPacketLink -----------------------------
(* A video session whose IP packets are of ordinary size, of the largest   *)
(* size that can be sent, and one byte more; and a packet of every kind    *)
(* that deserialize refuses.                                               *)
EXTENDS PacketLink

Largest == MAX_PAYLOAD_SIZE - AUTH_TAG_SIZE
MCIpSizes == {1400, Largest, Largest + 1}

Bytes(version, profile, padding, size) ==
    [header |-> [version |-> version, sequence_number |-> 0, mimicry_profile |-> profile,
                 payload_length |-> 16, padding_length |-> padding],
     size |-> size]

MCMalformed == {Bytes(1, 1, 0, 0), Bytes(1, 1, 0, 39), Bytes(2, 1, 0, 56),
                Bytes(1, 4, 0, 56), Bytes(1, 1, 1025, 1081),
                Bytes(1, 1, 0, 57), Bytes(1, 1, 0, 65600)}
=============================================================================
