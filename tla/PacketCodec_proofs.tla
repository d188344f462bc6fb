------------------------- MODULE PacketCodec_proofs -------------------------
(***************************************************************************)
(* What the LLP packet codec guarantees for every size.  The limits of     *)
(* packet.rs fit together: the largest payload and the largest padding     *)
(* fill a packet of MAX_PACKET_SIZE exactly.                               *)
(***************************************************************************)
EXTENDS PacketCodec, TLAPS

\* The packets a caller can put together under a header of this version.
Headers == [version : {PROTOCOL_VERSION}, sequence_number : Nat,
            mimicry_profile : MimicryProfile,
            payload_length : Nat, padding_length : Nat]
Packets == [header : Headers, payload : Nat, padding : Nat]

LEMMA WordRange ==
    /\ \A n \in Word : n \in Nat
    /\ \A n \in Nat : n < 65536 => n \in Word
    /\ \A n \in Nat : n < 256 => n \in Byte
    /\ \A n \in Nat : U16(n) \in Word
  <1>1. /\ \A n \in Nat : n < 65536 => n <= WORD_MAX
        /\ \A n \in Nat : n < 256 => n <= BYTE_MAX
        /\ WORD_MAX \in Nat /\ BYTE_MAX \in Nat
    BY DEF WORD_MAX, BYTE_MAX
  <1>2. \A n \in Nat : U16(n) \in Nat /\ U16(n) < 65536
    BY DEF U16
  <1>3. \A n \in Nat : n < 65536 => n \in Word
    BY <1>1 DEF Word
  <1> QED
    BY <1>1, <1>2, <1>3 DEF Word, Byte

\* The limits of new, in numbers.
LEMMA Limits ==
    ASSUME NEW payload \in Nat, NEW padding \in Nat,
           payload <= MAX_PAYLOAD_SIZE, padding <= MAX_PADDING_SIZE
    PROVE  /\ HEADER_SIZE + payload + padding + AUTH_TAG_SIZE <= MAX_PACKET_SIZE
           /\ U16(payload) = payload
           /\ U16(padding) = padding
  <1>1. payload <= 64472 /\ padding <= 1024
    BY DEF MAX_PAYLOAD_SIZE, MAX_PADDING_SIZE, MAX_PACKET_SIZE, MIN_PACKET_SIZE,
           HEADER_SIZE, AUTH_TAG_SIZE
  <1>2. HEADER_SIZE + payload + padding + AUTH_TAG_SIZE <= MAX_PACKET_SIZE
    BY <1>1 DEF HEADER_SIZE, AUTH_TAG_SIZE, MAX_PACKET_SIZE
  <1>3. payload % 65536 = payload /\ padding % 65536 = padding
    BY <1>1
  <1> QED
    BY <1>2, <1>3 DEF U16

\* LlpPacket::new (packet.rs:274) and serialize (packet.rs:317) check different
\* limits: no packet that new accepts is refused by serialize, and both
\* lengths fit the 16 bits of the header they are cast to.
THEOREM BuiltIsSerialized ==
    ASSUME NEW p \in Packets, MayBeBuilt(p)
    PROVE  /\ MaySerialize(p)
           /\ U16(p.payload) = p.payload
           /\ U16(p.padding) = p.padding
  <1>1. p.payload \in Nat /\ p.padding \in Nat
    BY DEF Packets
  <1> QED
    BY <1>1, Limits DEF MayBeBuilt, MaySerialize, TotalSize

\* deserialize (packet.rs:344) accepts the bytes of every packet that new
\* accepts, and returns the payload and the padding that were put in.
THEOREM RoundTrip ==
    ASSUME NEW p \in Packets, MayBeBuilt(p)
    PROVE  /\ Verdict(Serialize(p)) = "ok"
           /\ Deserialize(Serialize(p)).payload = p.payload
           /\ Deserialize(Serialize(p)).padding = p.padding
           /\ Serialize(Deserialize(Serialize(p))) = Serialize(p)
  <1> DEFINE h == [p.header EXCEPT !.payload_length = p.payload,
                                   !.padding_length = p.padding]
  <1>1. /\ U16(p.payload) = p.payload
        /\ U16(p.padding) = p.padding
    BY BuiltIsSerialized
  <1>2. Serialize(p) = [header |-> h, size |-> TotalSize(p)]
    BY <1>1 DEF Serialize
  <1>3. /\ h.version = PROTOCOL_VERSION
        /\ h.mimicry_profile \in MimicryProfile
        /\ h.payload_length = p.payload
        /\ h.padding_length = p.padding
        /\ [h EXCEPT !.payload_length = p.payload, !.padding_length = p.padding] = h
    <2>1. p.header \in Headers
      BY DEF Packets
    <2> QED
      BY <2>1 DEF Headers
  <1> HIDE DEF h
  <1>4. /\ TotalSize(p) = ExpectedSize(h)
        /\ ~(TotalSize(p) < MIN_PACKET_SIZE)
        /\ ~(h.padding_length > MAX_PADDING_SIZE)
    <2>1. ASSUME NEW payload \in Nat, NEW padding \in Nat
          PROVE  ~(HEADER_SIZE + payload + padding + AUTH_TAG_SIZE < MIN_PACKET_SIZE)
      BY DEF HEADER_SIZE, AUTH_TAG_SIZE, MIN_PACKET_SIZE
    <2>2. ASSUME NEW padding \in Nat, padding <= MAX_PADDING_SIZE
          PROVE  ~(padding > MAX_PADDING_SIZE)
      BY <2>2 DEF MAX_PADDING_SIZE
    <2>3. p.payload \in Nat /\ p.padding \in Nat
      BY DEF Packets
    <2> QED
      BY <1>3, <2>1, <2>2, <2>3 DEF TotalSize, ExpectedSize, MayBeBuilt
  <1>5. Verdict(Serialize(p)) = "ok"
    BY <1>2, <1>3, <1>4 DEF Verdict
  <1>6. Deserialize(Serialize(p)) = [header |-> h, payload |-> p.payload, padding |-> p.padding]
    BY <1>2, <1>3 DEF Deserialize, LlpPacket
  <1>7. Serialize(Deserialize(Serialize(p))) = Serialize(p)
    <2> DEFINE d == Deserialize(Serialize(p))
    <2>1. /\ d.header = h /\ d.payload = p.payload /\ d.padding = p.padding
      BY <1>6
    <2>2. TotalSize(d) = TotalSize(p)
      BY <2>1 DEF TotalSize
    <2> HIDE DEF d
    <2>3. Serialize(d) = [header |-> [h EXCEPT !.payload_length = p.payload,
                                               !.padding_length = p.padding],
                          size   |-> TotalSize(p)]
      BY <1>1, <2>1, <2>2 DEF Serialize
    <2> QED
      BY <1>2, <1>3, <2>3 DEF d
  <1> QED
    BY <1>5, <1>6, <1>7

\* The header of a response is never longer than the room that the limits keep
\* for padding (vk_video.rs:82, yandex_music.rs:84, rutube.rs:91).
LEMMA HttpIsShort ==
    ASSUME NEW profile \in MimicryProfile, NEW http \in HttpSizes(profile)
    PROVE  http \in Nat /\ http <= 1024
  <1>1. profile \in {0, 1, 2, 3}
    BY DEF MimicryProfile
  <1>2. CASE profile = 0
    BY <1>2 DEF HttpSizes
  <1>3. CASE profile = 1
    BY <1>3 DEF HttpSizes, VkVideoResponse, LengthDigits
  <1>4. CASE profile = 2
    BY <1>4 DEF HttpSizes, YandexMusicResponse, LengthDigits
  <1>5. CASE profile = 3
    BY <1>5 DEF HttpSizes, RuTubeResponse, LengthDigits
  <1> QED
    BY <1>1, <1>2, <1>3, <1>4, <1>5

\* A packet without padding that new accepts is within the reader's limit of
\* 65536 bytes under the response of any profile (packet.rs:274,
\* connection.rs:237): send_packet, which leaves the padding empty
\* (connection.rs:208), never writes what receive_packet refuses as too large.
THEOREM UnpaddedFits ==
    ASSUME NEW p \in Packets, MayBeBuilt(p), p.padding = 0,
           NEW profile \in MimicryProfile, NEW http \in HttpSizes(profile)
    PROVE  Wrap(Serialize(p), http).size <= MAX_PACKET_SIZE
  <1>1. p.payload \in Nat /\ p.payload <= 64472
    BY DEF Packets, MayBeBuilt, MAX_PAYLOAD_SIZE, MAX_PACKET_SIZE, MIN_PACKET_SIZE,
           HEADER_SIZE, AUTH_TAG_SIZE, MAX_PADDING_SIZE
  <1>2. Wrap(Serialize(p), http).size = http + (24 + p.payload + 0 + 16)
    BY DEF Wrap, Serialize, TotalSize, HEADER_SIZE, AUTH_TAG_SIZE
  <1>3. http \in Nat /\ http <= 1024
    BY HttpIsShort
  <1> QED
    BY <1>1, <1>2, <1>3 DEF MAX_PACKET_SIZE
=============================================================================
