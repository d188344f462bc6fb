----------------------------- MODULE PacketCodec -----------------------------
(***************************************************************************)
(* The LLP packet and its bytes (llp-core packet.rs) and the HTTP wrapping *)
(* around them (llp-mimicry wrapper.rs).                                   *)
(*                                                                         *)
(* Contents are not told apart, so a payload, a padding or a byte string is*)
(* its size, and the bytes of a packet are the header they begin with and  *)
(* their number.  session_id and timestamp are carried unchanged and left  *)
(* out; all eight flag bits are defined, so no flags are refused.          *)
(***************************************************************************)
EXTENDS Integers

PROTOCOL_VERSION == 1
HEADER_SIZE      == 24
AUTH_TAG_SIZE    == 16
MIN_PACKET_SIZE  == HEADER_SIZE + AUTH_TAG_SIZE
MAX_PACKET_SIZE  == 65536
MAX_PADDING_SIZE == 1024
MAX_PAYLOAD_SIZE == MAX_PACKET_SIZE - MIN_PACKET_SIZE - MAX_PADDING_SIZE

MimicryProfile == 0..3          \* None, VkVideo, YandexMusic, RuTube

BYTE_MAX == 255
WORD_MAX == 65535

Byte == 0..BYTE_MAX
Word == 0..WORD_MAX

U16(n) == n % 65536             \* n as u16

\* The fields of a header as they are read off the wire.
PacketHeader == [version : Byte, sequence_number : Nat, mimicry_profile : Word,
                 payload_length : Word, padding_length : Word]

\* PacketHeader::new: the lengths are left at zero.
NewHeader(seq, profile) ==
    [version |-> PROTOCOL_VERSION, sequence_number |-> seq, mimicry_profile |-> profile,
     payload_length |-> 0, padding_length |-> 0]

-----------------------------------------------------------------------------
(* LlpPacket.                                                              *)

LlpPacket(header, payload, padding) ==
    [header |-> header, payload |-> payload, padding |-> padding]

\* LlpPacket::new refuses a packet with a part that is too large.
MayBeBuilt(p) == p.payload <= MAX_PAYLOAD_SIZE /\ p.padding <= MAX_PADDING_SIZE

TotalSize(p) == HEADER_SIZE + p.payload + p.padding + AUTH_TAG_SIZE

MaySerialize(p) == TotalSize(p) <= MAX_PACKET_SIZE

\* Mutant: the lengths of the header are not brought up to date.
SerializeAsIs(p) == [header |-> p.header, size |-> TotalSize(p)]

\* The lengths of the header are rewritten with the actual ones.
Serialize(p) ==
    [header |-> [p.header EXCEPT !.payload_length = U16(p.payload),
                                 !.padding_length = U16(p.padding)],
     size   |-> TotalSize(p)]

ExpectedSize(h) == HEADER_SIZE + h.payload_length + h.padding_length + AUTH_TAG_SIZE

\* deserialize: the checks in their order, and what the first that fails returns.
Verdict(bytes) ==
    LET h == bytes.header
    IN  CASE bytes.size < MIN_PACKET_SIZE             -> "InvalidPacketSize"
          [] h.version # PROTOCOL_VERSION             -> "UnsupportedVersion"
          [] h.mimicry_profile \notin MimicryProfile  -> "UnsupportedMimicryProfile"
          [] h.padding_length > MAX_PADDING_SIZE      -> "InvalidPaddingSize"
          [] bytes.size # ExpectedSize(h)             -> "InvalidPacketSize"
          [] OTHER                                    -> "ok"

\* What deserialize returns when every check has passed.
Deserialize(bytes) ==
    LlpPacket(bytes.header, bytes.header.payload_length, bytes.header.padding_length)

-----------------------------------------------------------------------------
(* PacketWrapper: an HTTP response is put before the packet, or nothing for*)
(* the profile None.                                                       *)

\* How long the header of a response is (generate_response): its fixed text
\* with the date and the session's token, and what varies: the length of the
\* packet and, in the order of the text, the ends of the range; the content
\* type and the request id; the content type and the number of the server.
LengthDigits == 2..5

VkVideoResponse ==
    {372 + length + from + to : length \in LengthDigits, from \in 1..7, to \in 2..8}

YandexMusicResponse ==
    {374 + type + length + id : type \in {9, 10}, length \in LengthDigits, id \in 9..39}

RuTubeResponse ==
    {372 + type + length + cdn : type \in {10, 17}, length \in LengthDigits, cdn \in 1..2}

HttpSizes(profile) ==
    CASE profile = 0 -> {0}
      [] profile = 1 -> VkVideoResponse
      [] profile = 2 -> YandexMusicResponse
      [] profile = 3 -> RuTubeResponse

Wrap(bytes, http) == [http |-> http, inner |-> bytes, size |-> http + bytes.size]

\* The parser finds the end of the HTTP header; a response without a body is
\* refused.
MayUnwrap(w) == w.http > 0 => w.http < w.size
=============================================================================
