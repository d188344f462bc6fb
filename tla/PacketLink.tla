------------------------------ MODULE PacketLink ------------------------------
(***************************************************************************)
(* Packets of the Rust client over its TCP stream: send_packet at one end  *)
(* and receive_packet at the other (ServerConnection, llp-client           *)
(* connection.rs), each with its Session, packet codec and wrapper.  No    *)
(* other code of the repository speaks this framing, so the far end is     *)
(* taken to run the same two functions; it may also send a packet that is  *)
(* not well-formed.                                                        *)
(*                                                                         *)
(* The stream delivers in order and loses nothing; reads that are cancelled*)
(* half-way are in ClientConnection.                                       *)
(***************************************************************************)
EXTENDS Session, PacketCodec

CONSTANTS
    IpSizes,        \* sizes of the IP packets that come from the TUN device
    Http,           \* sizes of the HTTP header of a response
    Profile,        \* the profile of the session
    Malformed,      \* byte strings deserialize refuses, from a far end of another make
    MaxStream       \* bound: packets in flight

ASSUME LinkAssumption ==
    /\ IpSizes \subseteq Nat
    /\ Profile \in MimicryProfile /\ Http \subseteq HttpSizes(Profile)
    /\ Malformed \subseteq [header : PacketHeader, size : Nat]
    /\ \A b \in Malformed : Verdict(b) # "ok"
    /\ MaxStream \in Nat

VARIABLES
    stream,         \* the packets written and not yet read
    in_step,        \* the reader is at the beginning of a packet
    chunk_counter,  \* of the sender's PacketWrapper
    received        \* what receive_packet returned last

linkVars == <<sessionVars, stream, in_step, chunk_counter, received>>

TOO_LARGE == 65536      \* the reader's limit on a wrapped packet

LinkInit ==
    /\ SessionInit
    /\ stream = <<>>
    /\ in_step = TRUE
    /\ chunk_counter = 0
    /\ received = "none"

-----------------------------------------------------------------------------
(* send_packet.                                                            *)

\* Mutant: the number is the one used last.
HeaderOfLast == NewHeader(IF tx_sequence = 0 THEN 0 ELSE tx_sequence - 1, Profile)

\* The header is made before encrypt_payload, from current_tx_sequence.
HeaderOfNext == NewHeader(tx_sequence, Profile)

\* The payload is the ciphertext, which includes the AEAD's tag; there is no
\* padding yet.
Sealed(size) == LlpPacket(HeaderOfNext, size + AUTH_TAG_SIZE, 0)

\* What is written: the wrapped bytes, and what the payload was sealed with.
Written(size, http) ==
    [wrapped |-> Wrap(Serialize(Sealed(size)), http), aad |-> HeaderOfNext, nonce |-> nonce]

\* encrypt_payload fails, and send_packet with it.
SendFails ==
    /\ CipherFails \/ NumbersRunOut
    /\ UNCHANGED <<stream, in_step, chunk_counter, received>>

\* The packet is too large: its number is used, and nothing is written.
SendTooLarge(size) ==
    /\ ~(MayBeBuilt(Sealed(size)) /\ MaySerialize(Sealed(size)))
    /\ Numbered
    /\ UNCHANGED <<stream, in_step, chunk_counter, received>>

SendPacket(size, http) ==
    /\ Len(stream) < MaxStream
    /\ MayBeBuilt(Sealed(size)) /\ MaySerialize(Sealed(size))
    /\ Numbered
    /\ chunk_counter' = IF Profile = 0 THEN chunk_counter ELSE chunk_counter + 1
    /\ stream' = Append(stream, Written(size, http))
    /\ UNCHANGED <<in_step, received>>

-----------------------------------------------------------------------------
(* receive_packet.                                                         *)

\* The length is refused; what follows it stays in the stream.
ReceiveTooLarge ==
    /\ in_step /\ stream # <<>>
    /\ Head(stream).wrapped.size > TOO_LARGE
    /\ in_step' = FALSE
    /\ received' = "TooLarge"
    /\ UNCHANGED <<sessionVars, stream, chunk_counter>>

\* unwrap or deserialize refuses the bytes.
ReceiveMalformed ==
    /\ in_step /\ stream # <<>>
    /\ LET w == Head(stream).wrapped
       IN  /\ w.size <= TOO_LARGE
           /\ ~MayUnwrap(w) \/ Verdict(w.inner) # "ok"
           /\ received' = IF MayUnwrap(w) THEN Verdict(w.inner) ELSE "ParseError"
    /\ stream' = Tail(stream)
    /\ UNCHANGED <<sessionVars, in_step, chunk_counter>>

\* The payload opens only under the header it was sealed with; the receiver
\* authenticates the header it has read.
ReceivePacket ==
    /\ in_step /\ stream # <<>>
    /\ LET f == Head(stream)
           h == Deserialize(f.wrapped.inner).header
       IN  /\ f.wrapped.size <= TOO_LARGE
           /\ MayUnwrap(f.wrapped) /\ Verdict(f.wrapped.inner) = "ok"
           /\ DecryptPayload(h.sequence_number, h = f.aad)
           /\ received' = rx_result'
    /\ stream' = Tail(stream)
    /\ UNCHANGED <<in_step, chunk_counter>>

-----------------------------------------------------------------------------
\* A far end of another make writes something that is no packet of this version.
FarEndSends(bytes, http) ==
    /\ Len(stream) < MaxStream
    /\ stream' = Append(stream, [wrapped |-> Wrap(bytes, http), aad |-> bytes.header, nonce |-> 0])
    /\ UNCHANGED <<sessionVars, in_step, chunk_counter, received>>

LinkNext ==
    \/ SendFails
    \/ \E size \in IpSizes : SendTooLarge(size)
    \/ \E size \in IpSizes, http \in Http : SendPacket(size, http)
    \/ ReceiveTooLarge
    \/ ReceiveMalformed
    \/ ReceivePacket
    \/ \E bytes \in Malformed, http \in Http : FarEndSends(bytes, http)

LinkSpec == LinkInit /\ [][LinkNext]_linkVars

-----------------------------------------------------------------------------
(* Properties.                                                             *)

WellFormed(f) == Verdict(f.wrapped.inner) = "ok"

\* The sequence number in the header of the i-th packet of the stream.
Number(i) == stream[i].wrapped.inner.header.sequence_number

LinkTypeOK ==
    /\ SessionTypeOK
    /\ Len(stream) <= MaxStream
    /\ in_step \in BOOLEAN
    /\ chunk_counter \in 0..tx_sequence
    /\ received \in {"none", "ok", "TooLarge", "ParseError", "InvalidPacketSize",
                     "UnsupportedVersion", "UnsupportedMimicryProfile",
                     "InvalidPaddingSize", "DuplicateSequenceNumber", "DecryptionError"}

\* Whatever send_packet accepts, receive_packet can take apart again: it is
\* within the limit of the reader with its HTTP header, the parsers find the
\* packet in it, and its lengths are those of the packet that was built.
WhatIsSentParses ==
    \A i \in DOMAIN stream :
        LET w == stream[i].wrapped
        IN  w.inner \notin Malformed =>
                /\ w.size <= TOO_LARGE /\ MayUnwrap(w) /\ WellFormed(stream[i])
                /\ TotalSize(Deserialize(w.inner)) = w.inner.size

\* send_packet reads the number for the header before encrypt_payload takes
\* it (connection.rs:186, 202), and may fail in between or after: still every
\* header names the nonce its payload was sealed with, and the numbers in the
\* stream rise above all that the receiver has seen.
StreamInOrder ==
    \A i \in DOMAIN stream : WellFormed(stream[i]) =>
        /\ Number(i) = stream[i].nonce
        /\ Number(i) < tx_sequence
        /\ window # <<>> => Number(i) > highest_seq
        /\ \A j \in DOMAIN stream :
              (i < j /\ WellFormed(stream[j])) => Number(i) < Number(j)

\* On a stream that delivers in order the replay window never refuses a packet.
NeverDuplicate == received # "DuplicateSequenceNumber"

\* What receive_packet is for (connection.rs:228): a well-formed packet that the
\* far end has sent opens.
PacketsOpen == received # "DecryptionError"
=============================================================================
