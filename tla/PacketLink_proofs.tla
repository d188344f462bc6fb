-------------------------- MODULE PacketLink_proofs --------------------------
(***************************************************************************)
(* On a stream that delivers in order the replay window of the receiver    *)
(* never refuses a packet, for every window size, every width of the       *)
(* numbers, every size of packets and every malformed packet between them. *)
(*                                                                         *)
(* NeverDuplicate needs to know where the numbers in the stream lie: above *)
(* what the receiver has seen, in rising order, and below the number the   *)
(* sender takes next (StreamInOrder); and that the receiver has seen only  *)
(* numbers that were taken (SeenWasTaken).                                 *)
(***************************************************************************)
EXTENDS PacketLink, Session_proofs, PacketCodec_proofs

\* What may lie in the stream.
ByteStrings == [header : PacketHeader, size : Nat]
Wrapped == [http : Nat, inner : ByteStrings, size : Nat]
Frames  == [wrapped : Wrapped, aad : PacketHeader, nonce : Nat]

SeenWasTaken == window # <<>> => highest_seq < tx_sequence

\* The inductive invariant.
LinkInv ==
    /\ SessionInv
    /\ stream \in Seq(Frames)
    /\ StreamInOrder
    /\ SeenWasTaken
    /\ NeverDuplicate

LEMMA SessionUnchanged ==
    ASSUME SessionInv, UNCHANGED sessionVars
    PROVE  /\ SessionInv'
           /\ tx_sequence' = tx_sequence
           /\ highest_seq' = highest_seq
           /\ window' = window
  <1>1. UNCHANGED rxVars /\ UNCHANGED txVars
    BY DEF sessionVars
  <1>2. WindowInv' /\ OpenedOnce'
    BY <1>1, ReceiverKept DEF txVars
  <1>3. SessionTypeOK'
    BY <1>1, <1>2 DEF SessionInv, SessionTypeOK, WindowInv, rxVars, txVars
  <1>4. NumberIsNonce' /\ CountersInStep'
    BY <1>1 DEF SessionInv, NumberIsNonce, CountersInStep, txVars
  <1> QED
    BY <1>1, <1>2, <1>3, <1>4 DEF SessionInv, rxVars, txVars

LEMMA HeaderNumber ==
    ASSUME NEW h \in PacketHeader
    PROVE  h.sequence_number \in Nat
  BY DEF PacketHeader

LEMMA NumberIsNat ==
    ASSUME LinkInv, NEW i \in DOMAIN stream
    PROVE  Number(i) \in Nat
  <1>1. stream[i] \in Frames
    BY DEF LinkInv
  <1> DEFINE b == stream[i].wrapped.inner
  <1>2. stream[i].wrapped \in Wrapped
    BY <1>1 DEF Frames
  <1>3. b \in ByteStrings
    BY <1>2 DEF Wrapped
  <1> HIDE DEF b
  <1>4. b.header \in PacketHeader
    BY <1>3 DEF ByteStrings
  <1>5. b.header.sequence_number \in Nat
    BY <1>4, HeaderNumber
  <1> QED
    BY <1>5 DEF Number, b

\* A number above all that was seen is let through and becomes the highest.
LEMMA AboveIsTaken ==
    ASSUME WindowInv, NEW seq \in Seqs, CheckAndUpdate(seq),
           window # <<>> => seq > highest_seq
    PROVE  verdict' /\ highest_seq' = seq
  <1>0. seq \in Int /\ highest_seq \in Int
    BY WindowAssumption DEF WindowInv, WindowTypeOK, Seqs
  <1>1. CASE FirstPacket(seq)
    BY <1>1 DEF FirstPacket, Answer
  <1>2. CASE SlideTo(seq)
    BY <1>2 DEF SlideTo, Answer
  <1>3. CASE JumpTo(seq)
    BY <1>3 DEF JumpTo, Answer
  <1>4. CASE FillGap(seq)
    BY <1>0, <1>4 DEF FillGap
  <1>5. CASE Refuse(seq)
    BY <1>0, <1>5 DEF Refuse, Refused
  <1> QED
    BY <1>1, <1>2, <1>3, <1>4, <1>5 DEF CheckAndUpdate

\* Verdict is never the answer of the replay window.
LEMMA VerdictIsNoDuplicate ==
    ASSUME NEW b
    PROVE  Verdict(b) # "DuplicateSequenceNumber"
  BY DEF Verdict

\* A step that leaves stream and window alone, and may take a number.
LEMMA SenderMoves ==
    ASSUME LinkInv, SessionInv',
           tx_sequence' \in {tx_sequence, tx_sequence + 1},
           highest_seq' = highest_seq, window' = window,
           stream' = stream, received' # "DuplicateSequenceNumber"
    PROVE  LinkInv'
  <1>1. tx_sequence \in Int /\ highest_seq \in Int
    BY WindowAssumption DEF LinkInv, SessionInv, SessionTypeOK, WindowTypeOK, WindowInv, Seqs
  <1>2. \A i \in DOMAIN stream : Number(i) \in Nat
    BY NumberIsNat
  <1>3. StreamInOrder'
    BY <1>1, <1>2 DEF LinkInv, StreamInOrder, Number, WellFormed
  <1>4. SeenWasTaken'
    BY <1>1 DEF LinkInv, SeenWasTaken
  <1> QED
    BY <1>3, <1>4 DEF LinkInv, NeverDuplicate

\* What follows when the first packet is read and not accepted.
LEMMA HeadDropped ==
    ASSUME LinkInv, SessionInv', stream # <<>>, stream' = Tail(stream),
           tx_sequence' = tx_sequence, highest_seq' = highest_seq, window' = window,
           received' # "DuplicateSequenceNumber"
    PROVE  LinkInv'
  <1>1. /\ stream' \in Seq(Frames)
        /\ \A i \in DOMAIN stream' : i + 1 \in DOMAIN stream /\ stream'[i] = stream[i + 1]
    BY DEF LinkInv
  <1>2. \A i, j \in DOMAIN stream' : i < j => i + 1 < j + 1
    BY <1>1
  <1>3. StreamInOrder'
    BY <1>1, <1>2 DEF LinkInv, StreamInOrder, Number, WellFormed
  <1> QED
    BY <1>1, <1>3 DEF LinkInv, SeenWasTaken, NeverDuplicate

\* What follows when a packet is written behind the others.
LEMMA TailWritten ==
    ASSUME LinkInv, SessionInv', NEW f \in Frames, stream' = Append(stream, f),
           tx_sequence' \in {tx_sequence, tx_sequence + 1},
           highest_seq' = highest_seq, window' = window,
           WellFormed(f) => /\ f.wrapped.inner.header.sequence_number = tx_sequence
                            /\ f.nonce = tx_sequence
                            /\ tx_sequence' = tx_sequence + 1,
           received' = received
    PROVE  LinkInv'
  <1>1. /\ stream' \in Seq(Frames)
        /\ DOMAIN stream' = DOMAIN stream \union {Len(stream) + 1}
        /\ stream'[Len(stream) + 1] = f
        /\ \A i \in DOMAIN stream : stream'[i] = stream[i]
        /\ \A i \in DOMAIN stream : i < Len(stream) + 1
        /\ \A i \in DOMAIN stream : ~(Len(stream) + 1 < i)
        /\ ~(Len(stream) + 1 < Len(stream) + 1)
    BY DEF LinkInv
  <1>2. tx_sequence \in Int /\ highest_seq \in Int
    BY WindowAssumption DEF LinkInv, SessionInv, SessionTypeOK, WindowTypeOK, WindowInv, Seqs
  <1>3. \A i \in DOMAIN stream : Number(i) \in Nat
    BY NumberIsNat
  <1>4. StreamInOrder'
    <2> SUFFICES ASSUME NEW i \in DOMAIN stream', WellFormed(stream'[i])
                 PROVE  /\ Number(i)' = stream'[i].nonce
                        /\ Number(i)' < tx_sequence'
                        /\ window' # <<>> => Number(i)' > highest_seq'
                        /\ \A j \in DOMAIN stream' :
                             (i < j /\ WellFormed(stream'[j])) => Number(i)' < Number(j)'
      BY DEF StreamInOrder, Number, WellFormed
    <2>1. CASE i \in DOMAIN stream
      <3>1. /\ Number(i) = stream[i].nonce
            /\ Number(i) < tx_sequence
            /\ window # <<>> => Number(i) > highest_seq
            /\ \A j \in DOMAIN stream :
                 (i < j /\ WellFormed(stream[j])) => Number(i) < Number(j)
        BY <1>1, <2>1 DEF LinkInv, StreamInOrder
      <3>2. Number(i)' = Number(i)
        BY <1>1, <2>1 DEF Number
      <3>3. ASSUME NEW j \in DOMAIN stream', i < j, WellFormed(stream'[j])
            PROVE  Number(i)' < Number(j)'
        BY <1>1, <2>1, <3>1, <3>2, <3>3 DEF Number
      <3> QED
        BY <1>1, <1>2, <1>3, <2>1, <3>1, <3>2, <3>3
    <2>2. CASE i = Len(stream) + 1
      <3>1. Number(i)' = tx_sequence /\ stream'[i].nonce = tx_sequence
        BY <1>1, <2>2 DEF Number
      <3> QED
        BY <1>1, <1>2, <2>2, <3>1 DEF LinkInv, SeenWasTaken
    <2> QED
      BY <1>1, <2>1, <2>2
  <1>5. SeenWasTaken'
    BY <1>2 DEF LinkInv, SeenWasTaken
  <1> QED
    BY <1>1, <1>4, <1>5 DEF LinkInv, NeverDuplicate

\* send_packet that writes (connection.rs:178-226).
LEMMA SendKeeps ==
    ASSUME LinkInv, NEW size \in IpSizes, NEW http \in Http, SendPacket(size, http)
    PROVE  LinkInv'
  <1>1. SessionInv'
    BY EncryptStep DEF LinkInv, SendPacket, EncryptPayload
  <1>2. /\ tx_sequence' = tx_sequence + 1
        /\ highest_seq' = highest_seq /\ window' = window
        /\ tx_sequence < MaxSeq
    BY DEF SendPacket, Numbered, rxVars
  <1>3. tx_sequence \in Nat /\ nonce \in Nat /\ nonce = tx_sequence
    BY <1>2, WindowAssumption, SessionAssumption
    DEF LinkInv, SessionInv, SessionTypeOK, CountersInStep, Seqs
  <1> DEFINE f == Written(size, http)
  <1>4. /\ f \in Frames
        /\ f.wrapped.inner.header.sequence_number = tx_sequence
        /\ f.nonce = tx_sequence
    <2>1. HeaderOfNext \in PacketHeader /\ HeaderOfNext.sequence_number = tx_sequence
      <3>1. 1 \in Byte /\ 0 \in Word /\ Profile \in Word
        BY LinkAssumption, WordRange DEF MimicryProfile
      <3> QED
        BY <1>3, <3>1 DEF HeaderOfNext, NewHeader, PROTOCOL_VERSION, PacketHeader
    <2>2. Sealed(size) = [header |-> HeaderOfNext, payload |-> size + 16, padding |-> 0]
      BY DEF Sealed, LlpPacket, AUTH_TAG_SIZE
    <2>3. size \in Nat /\ http \in Nat
      BY LinkAssumption, HttpIsShort
    <2> DEFINE b == Serialize(Sealed(size))
    <2>4. /\ b.header = [HeaderOfNext EXCEPT !.payload_length = U16(size + 16),
                                             !.padding_length = U16(0)]
          /\ b.size = 24 + (size + 16) + 0 + 16
          /\ b = [header |-> b.header, size |-> b.size]
      BY <2>2 DEF Serialize, TotalSize, HEADER_SIZE, AUTH_TAG_SIZE
    <2>5. U16(size + 16) \in Word /\ U16(0) \in Word
      <3>1. size + 16 \in Nat /\ 0 \in Nat
        BY <2>3
      <3> QED
        BY <3>1, WordRange
    <2> HIDE DEF b
    <2>6. b.header \in PacketHeader /\ b.header.sequence_number = tx_sequence
      <3> DEFINE l == U16(size + 16)
                 d == U16(0)
      <3>1. l \in Word /\ d \in Word /\ HeaderOfNext \in PacketHeader
        BY <2>1, <2>5
      <3>2. b.header = [HeaderOfNext EXCEPT !.payload_length = l, !.padding_length = d]
        BY <2>4
      <3> HIDE DEF l, d
      <3> QED
        <4>1. /\ [HeaderOfNext EXCEPT !.payload_length = l, !.padding_length = d]
                    \in PacketHeader
              /\ [HeaderOfNext EXCEPT !.payload_length = l, !.padding_length = d]
                    .sequence_number = HeaderOfNext.sequence_number
          BY <3>1 DEF PacketHeader
        <4> QED
          BY <2>1, <3>2, <4>1
    <2>7. b.size \in Nat
      BY <2>3, <2>4
    <2>8. b \in ByteStrings
      BY <2>4, <2>6, <2>7 DEF ByteStrings
    <2>9. f = [wrapped |-> [http |-> http, inner |-> b, size |-> http + b.size],
               aad |-> HeaderOfNext, nonce |-> nonce]
      BY DEF Written, Wrap, b
    <2>10. http + b.size \in Nat
      BY <2>3, <2>7
    <2> HIDE DEF f
    <2>11. f \in Frames
      BY <1>3, <2>3, <2>8, <2>9, <2>10, <2>1 DEF Frames, Wrapped
    <2> QED
      BY <1>3, <2>6, <2>9, <2>11
  <1>5. stream' = Append(stream, f) /\ received' = received
    BY DEF SendPacket
  <1> HIDE DEF f
  <1> QED
    BY <1>1, <1>2, <1>4, <1>5, TailWritten

\* A packet of another make, which deserialize refuses.
LEMMA FarEndKeeps ==
    ASSUME LinkInv, NEW bytes \in Malformed, NEW http \in Http, FarEndSends(bytes, http)
    PROVE  LinkInv'
  <1> DEFINE f == [wrapped |-> Wrap(bytes, http), aad |-> bytes.header, nonce |-> 0]
  <1>1. bytes \in [header : PacketHeader, size : Nat] /\ Verdict(bytes) # "ok" /\ http \in Nat
    BY LinkAssumption, HttpIsShort
  <1>3. bytes \in ByteStrings /\ bytes.header \in PacketHeader /\ bytes.size \in Nat
    BY <1>1 DEF ByteStrings
  <1>4. http + bytes.size \in Nat
    BY <1>1, <1>3
  <1>5. f \in Frames /\ ~WellFormed(f)
    BY <1>1, <1>3, <1>4 DEF Frames, Wrapped, Wrap, WellFormed
  <1>6. /\ UNCHANGED sessionVars
        /\ stream' = Append(stream, f)
        /\ received' = received
    BY DEF FarEndSends
  <1> HIDE DEF f
  <1>7. /\ SessionInv'
        /\ tx_sequence' = tx_sequence
        /\ highest_seq' = highest_seq /\ window' = window
    BY <1>6, SessionUnchanged DEF LinkInv
  <1> QED
    BY <1>5, <1>6, <1>7, TailWritten

\* receive_packet of a packet that deserialize accepts (connection.rs:228-267).
LEMMA ReceiveKeeps ==
    ASSUME LinkInv, ReceivePacket
    PROVE  LinkInv'
  <1> DEFINE seq == Number(1)
             genuine == Head(stream).wrapped.inner.header = Head(stream).aad
  <1>1. /\ stream # <<>> /\ stream' = Tail(stream)
        /\ 1 \in DOMAIN stream /\ Head(stream) = stream[1]
        /\ stream' \in Seq(Frames)
        /\ \A i \in DOMAIN stream' : i + 1 \in DOMAIN stream /\ stream'[i] = stream[i + 1]
        /\ \A i \in DOMAIN stream' : 1 < i + 1
        /\ \A i, j \in DOMAIN stream' : i < j => i + 1 < j + 1
    BY DEF LinkInv, ReceivePacket
  <1>2. /\ WellFormed(stream[1])
        /\ DecryptPayload(seq, genuine)
        /\ received' = rx_result'
    BY <1>1 DEF ReceivePacket, Deserialize, LlpPacket, WellFormed, Number
  <1>3. /\ seq < tx_sequence
        /\ window # <<>> => seq > highest_seq
        /\ \A j \in DOMAIN stream : (1 < j /\ WellFormed(stream[j])) => seq < Number(j)
    BY <1>1, <1>2 DEF LinkInv, StreamInOrder
  <1>4. seq \in Nat
    BY <1>1, NumberIsNat
  <1>5. seq \in Seqs /\ genuine \in BOOLEAN
    BY <1>3, <1>4, WindowAssumption DEF LinkInv, SessionInv, SessionTypeOK, Seqs
  <1> HIDE DEF seq, genuine
  <1>6. SessionInv'
    BY <1>2, <1>5, DecryptStep DEF LinkInv
  <1>7. CheckAndUpdate(seq) /\ tx_sequence' = tx_sequence
    BY <1>2 DEF DecryptPayload, txVars
  <1>8. verdict' /\ highest_seq' = seq
    BY <1>3, <1>5, <1>7, AboveIsTaken DEF LinkInv, SessionInv
  <1>9. received' # "DuplicateSequenceNumber"
    BY <1>2, <1>8 DEF DecryptPayload
  <1>10. StreamInOrder'
    <2> SUFFICES ASSUME NEW i \in DOMAIN stream', WellFormed(stream'[i])
                 PROVE  /\ Number(i)' = stream'[i].nonce
                        /\ Number(i)' < tx_sequence'
                        /\ Number(i)' > highest_seq'
                        /\ \A j \in DOMAIN stream' :
                             (i < j /\ WellFormed(stream'[j])) => Number(i)' < Number(j)'
      BY DEF StreamInOrder, Number, WellFormed
    <2>1. \A k \in DOMAIN stream' : Number(k)' = Number(k + 1)
      BY <1>1 DEF Number
    <2>2. /\ i + 1 \in DOMAIN stream /\ WellFormed(stream[i + 1])
          /\ Number(i + 1) = stream[i + 1].nonce
          /\ Number(i + 1) < tx_sequence
      BY <1>1 DEF LinkInv, StreamInOrder
    <2>3. seq < Number(i + 1) /\ Number(i + 1) \in Nat
      BY <1>1, <1>3, <2>2, NumberIsNat
    <2>4. ASSUME NEW j \in DOMAIN stream', i < j, WellFormed(stream'[j])
          PROVE  Number(i + 1) < Number(j + 1)
      BY <1>1, <2>2, <2>4 DEF LinkInv, StreamInOrder
    <2> QED
      BY <1>1, <1>4, <1>7, <1>8, <2>1, <2>2, <2>3, <2>4
  <1>11. SeenWasTaken'
    BY <1>3, <1>7, <1>8 DEF SeenWasTaken
  <1> QED
    BY <1>1, <1>6, <1>9, <1>10, <1>11 DEF LinkInv, NeverDuplicate

\* LinkInv holds at the beginning.
LEMMA LinkInitial == LinkInit => LinkInv
  <1> SUFFICES ASSUME LinkInit PROVE LinkInv
    OBVIOUS
  <1>1. SessionInv
    BY SessionInitial DEF LinkInit
  <1>2. window = <<>> /\ stream = <<>> /\ received = "none"
    BY DEF LinkInit, SessionInit, WindowInit
  <1>3. stream \in Seq(Frames) /\ DOMAIN stream = {}
    BY <1>2
  <1> QED
    BY <1>1, <1>2, <1>3 DEF LinkInv, StreamInOrder, SeenWasTaken, NeverDuplicate

\* LinkInv is an invariant of the link.
THEOREM LinkInvariance == LinkSpec => []LinkInv
  <1>1. ASSUME LinkInv, [LinkNext]_linkVars PROVE LinkInv'
    <2>1. CASE SendFails
      <3>1. SessionInv'
        BY <1>1, <2>1, EncryptStep DEF LinkInv, SendFails, EncryptPayload
      <3>2. /\ tx_sequence' = tx_sequence
            /\ highest_seq' = highest_seq /\ window' = window
            /\ stream' = stream /\ received' = received
        BY <2>1 DEF SendFails, CipherFails, NumbersRunOut, rxVars
      <3> QED
        BY <1>1, <3>1, <3>2, SenderMoves DEF LinkInv, NeverDuplicate
    <2>2. ASSUME NEW size \in IpSizes, SendTooLarge(size) PROVE LinkInv'
      <3>1. SessionInv'
        BY <1>1, <2>2, EncryptStep DEF LinkInv, SendTooLarge, EncryptPayload
      <3>2. /\ tx_sequence' = tx_sequence + 1
            /\ highest_seq' = highest_seq /\ window' = window
            /\ stream' = stream /\ received' = received
        BY <2>2 DEF SendTooLarge, Numbered, rxVars
      <3> QED
        BY <1>1, <3>1, <3>2, SenderMoves DEF LinkInv, NeverDuplicate
    <2>3. ASSUME NEW size \in IpSizes, NEW http \in Http, SendPacket(size, http)
          PROVE  LinkInv'
      BY <1>1, <2>3, SendKeeps
    <2>4. CASE ReceiveTooLarge
      <3>1. UNCHANGED sessionVars /\ stream' = stream /\ received' = "TooLarge"
        BY <2>4 DEF ReceiveTooLarge
      <3> QED
        BY <1>1, <3>1, SessionUnchanged, SenderMoves DEF LinkInv
    <2>5. CASE ReceiveMalformed
      <3>1. /\ UNCHANGED sessionVars /\ stream # <<>> /\ stream' = Tail(stream)
            /\ \/ received' = "ParseError"
               \/ received' = Verdict(Head(stream).wrapped.inner)
        BY <2>5 DEF ReceiveMalformed
      <3>2. received' # "DuplicateSequenceNumber"
        BY <3>1, VerdictIsNoDuplicate
      <3> QED
        BY <1>1, <3>1, <3>2, SessionUnchanged, HeadDropped DEF LinkInv
    <2>6. CASE ReceivePacket
      BY <1>1, <2>6, ReceiveKeeps
    <2>7. ASSUME NEW bytes \in Malformed, NEW http \in Http, FarEndSends(bytes, http)
          PROVE  LinkInv'
      BY <1>1, <2>7, FarEndKeeps
    <2>8. CASE UNCHANGED linkVars
      <3>1. UNCHANGED sessionVars /\ stream' = stream /\ received' = received
        BY <2>8 DEF linkVars
      <3> QED
        BY <1>1, <3>1, SessionUnchanged, SenderMoves DEF LinkInv, NeverDuplicate
    <2> QED
      BY <1>1, <2>1, <2>2, <2>3, <2>4, <2>5, <2>6, <2>7, <2>8 DEF LinkNext
  <1> QED
    BY LinkInitial, <1>1, PTL DEF LinkSpec

\* The replay window never refuses a packet of a stream that delivers in order
\* (session.rs:128-134 under connection.rs:260): whatever fails between two
\* packets, send_packet does not use a number again.
THEOREM LinkNeverDuplicate == LinkSpec => []NeverDuplicate
  <1>1. LinkInv => NeverDuplicate
    BY DEF LinkInv
  <1> QED
    BY LinkInvariance, <1>1, PTL

\* Header, nonce and order agree for all that is in the stream (connection.rs:186,
\* 202).
THEOREM LinkStreamInOrder == LinkSpec => []StreamInOrder
  <1>1. LinkInv => StreamInOrder
    BY DEF LinkInv
  <1> QED
    BY LinkInvariance, <1>1, PTL

-----------------------------------------------------------------------------
(* What send_packet writes can be taken apart again.                       *)

Parses(f) ==
    f.wrapped.inner \notin Malformed =>
        /\ f.wrapped.size <= TOO_LARGE /\ MayUnwrap(f.wrapped) /\ WellFormed(f)
        /\ TotalSize(Deserialize(f.wrapped.inner)) = f.wrapped.inner.size

LEMMA WrittenParses ==
    ASSUME tx_sequence \in Nat, NEW size \in IpSizes, NEW http \in Http,
           MayBeBuilt(Sealed(size))
    PROVE  Parses(Written(size, http))
  <1> DEFINE p == Sealed(size)
             b == Serialize(p)
  <1>1. size \in Nat /\ http \in Nat /\ Profile \in MimicryProfile
    BY LinkAssumption, HttpIsShort
  <1>2. p = [header |-> HeaderOfNext, payload |-> size + 16, padding |-> 0]
    BY DEF Sealed, LlpPacket, AUTH_TAG_SIZE
  <1>3. HeaderOfNext \in Headers
    BY <1>1 DEF HeaderOfNext, NewHeader, Headers
  <1>4. p \in Packets /\ p.padding = 0
    BY <1>1, <1>2, <1>3 DEF Packets
  <1> HIDE DEF p
  <1>5. MayBeBuilt(p)
    BY DEF p
  <1>6. /\ Verdict(b) = "ok"
        /\ Deserialize(b).payload = p.payload /\ Deserialize(b).padding = p.padding
    BY <1>4, <1>5, RoundTrip
  <1>7. TotalSize(Deserialize(b)) = TotalSize(p) /\ b.size = TotalSize(p)
    BY <1>6 DEF TotalSize, Serialize
  <1>8. Wrap(b, http).size <= TOO_LARGE
    BY <1>1, <1>4, <1>5, LinkAssumption, UnpaddedFits DEF TOO_LARGE, MAX_PACKET_SIZE
  <1>9. MayUnwrap(Wrap(b, http))
    <2>1. p.payload \in Nat
      BY <1>4 DEF Packets
    <2>2. b.size = 24 + p.payload + 0 + 16
      BY <1>4, <1>7 DEF TotalSize, HEADER_SIZE, AUTH_TAG_SIZE
    <2> QED
      BY <1>1, <2>1, <2>2 DEF MayUnwrap, Wrap
  <1>10. Written(size, http).wrapped = Wrap(b, http) /\ Wrap(b, http).inner = b
    BY DEF Written, Wrap, p
  <1> QED
    BY <1>6, <1>7, <1>8, <1>9, <1>10 DEF Parses, WellFormed

\* The limits of new, serialize, deserialize, unwrap and of the reader agree on
\* everything that send_packet writes (packet.rs:274, 317, 344; connection.rs:205-216,
\* 237-251).
THEOREM LinkSentParses == LinkSpec => []WhatIsSentParses
  <1>1. LinkInit => \A i \in DOMAIN stream : Parses(stream[i])
    BY DEF LinkInit
  <1>2. ASSUME LinkInv, \A i \in DOMAIN stream : Parses(stream[i]), [LinkNext]_linkVars
        PROVE  (\A i \in DOMAIN stream : Parses(stream[i]))'
    <2>1. stream \in Seq(Frames)
      BY <1>2 DEF LinkInv
    <2>2. ASSUME NEW f, stream' = Append(stream, f), Parses(f)
          PROVE  \A i \in DOMAIN stream' : Parses(stream'[i])
      <3>1. /\ DOMAIN stream' = 1..Len(stream) + 1
            /\ \A i \in DOMAIN stream' :
                  \/ i \in DOMAIN stream /\ stream'[i] = stream[i]
                  \/ stream'[i] = f
        BY <2>1, <2>2
      <3> QED
        BY <1>2, <2>2, <3>1
    <2>3. ASSUME stream # <<>>, stream' = Tail(stream)
          PROVE  \A i \in DOMAIN stream' : Parses(stream'[i])
      <3>1. \A i \in DOMAIN stream' : i + 1 \in DOMAIN stream /\ stream'[i] = stream[i + 1]
        BY <2>1, <2>3
      <3> QED
        BY <1>2, <3>1
    <2>4. CASE \E size \in IpSizes, http \in Http : SendPacket(size, http)
      <3>1. PICK size \in IpSizes, http \in Http : SendPacket(size, http)
        BY <2>4
      <3>2. tx_sequence \in Nat
        BY <1>2, WindowAssumption DEF LinkInv, SessionInv, SessionTypeOK, Seqs
      <3>3. stream' = Append(stream, Written(size, http)) /\ MayBeBuilt(Sealed(size))
        BY <3>1 DEF SendPacket
      <3> QED
        BY <2>2, <3>2, <3>3, WrittenParses
    <2>5. CASE \E bytes \in Malformed, http \in Http : FarEndSends(bytes, http)
      <3>1. PICK bytes \in Malformed, http \in Http : FarEndSends(bytes, http)
        BY <2>5
      <3> DEFINE f == [wrapped |-> Wrap(bytes, http), aad |-> bytes.header, nonce |-> 0]
      <3>2. stream' = Append(stream, f)
        BY <3>1 DEF FarEndSends
      <3>3. Parses(f)
        BY DEF Parses, Wrap
      <3> QED
        BY <2>2, <3>2, <3>3
    <2>6. CASE ReceiveMalformed \/ ReceivePacket
      <3>1. stream # <<>> /\ stream' = Tail(stream)
        BY <2>6 DEF ReceiveMalformed, ReceivePacket
      <3> QED
        BY <2>3, <3>1
    <2>7. CASE \/ SendFails \/ ReceiveTooLarge \/ UNCHANGED linkVars
               \/ \E size \in IpSizes : SendTooLarge(size)
      <3>1. stream' = stream
        BY <2>7 DEF SendFails, ReceiveTooLarge, SendTooLarge, linkVars
      <3> QED
        BY <1>2, <3>1
    <2> QED
      BY <1>2, <2>4, <2>5, <2>6, <2>7 DEF LinkNext
  <1>3. LinkSpec => [](\A i \in DOMAIN stream : Parses(stream[i]))
    BY <1>1, <1>2, LinkInvariance, PTL DEF LinkSpec
  <1>4. (\A i \in DOMAIN stream : Parses(stream[i])) => WhatIsSentParses
    BY DEF Parses, WhatIsSentParses
  <1> QED
    BY <1>3, <1>4, PTL
=============================================================================
