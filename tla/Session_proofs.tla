---------------------------- MODULE Session_proofs ----------------------------
(***************************************************************************)
(* Proofs about ReplayWindow: the window decides at most once for every    *)
(* sequence number, a refusal is final, and the bit mask implements the    *)
(* gate of SlidingWindow; and about Session: what is sent is numbered by   *)
(* its nonce, and no plaintext is returned twice.  All of it for every     *)
(* window size, every width of numbers and every rekey mark.               *)
(***************************************************************************)
EXTENDS Session, TLAPS

(* The replay window.                                                      *)

(* What a partial shift produces (session.rs:248-261): the deque grows by  *)
(* diff bits and keeps the last WindowSize of them; the old bits move      *)
(* down, the gap is unset and the last bit is set.                         *)
LEMMA SlidShape ==
    ASSUME NEW bits \in Seq(BOOLEAN), NEW diff \in Nat \ {0}
    PROVE  /\ Slid(bits, diff) \in Seq(BOOLEAN)
           /\ Len(Slid(bits, diff)) = IF Len(bits) + diff > WindowSize
                                      THEN WindowSize ELSE Len(bits) + diff
           /\ \A i \in 1..Len(Slid(bits, diff)) :
                LET d == Len(bits) + diff - Len(Slid(bits, diff))
                IN  Slid(bits, diff)[i] =
                      IF i + d <= Len(bits) THEN bits[i + d]
                                            ELSE i + d = Len(bits) + diff
<1> DEFINE grown == Len(bits) + diff
           dropped == IF grown > WindowSize THEN grown - WindowSize ELSE 0
           f == [i \in 1..(grown - dropped) |->
                   IF i + dropped <= Len(bits) THEN bits[i + dropped]
                                               ELSE i + dropped = grown]
<1>1. Slid(bits, diff) = f
  BY DEF Slid
<1>2. /\ Len(bits) \in Nat
      /\ grown \in Nat
      /\ dropped \in Nat
      /\ grown - dropped \in Nat
      /\ grown - dropped = IF grown > WindowSize THEN WindowSize ELSE grown
  BY WindowAssumption
<1>3. \A i \in 1..(grown - dropped) : f[i] \in BOOLEAN
  <2> SUFFICES ASSUME NEW i \in 1..(grown - dropped) PROVE f[i] \in BOOLEAN
    OBVIOUS
  <2>1. CASE i + dropped <= Len(bits)
    <3>1. i + dropped \in 1..Len(bits)
      BY <1>2, <2>1
    <3> QED
      BY <2>1, <3>1
  <2>2. CASE ~(i + dropped <= Len(bits))
    <3>1. f[i] = (i + dropped = grown)
      BY <2>2
    <3> HIDE DEF f, grown, dropped
    <3> QED
      BY <3>1
  <2> QED
    BY <2>1, <2>2
<1> HIDE DEF f
<1>4. f \in Seq(BOOLEAN) /\ Len(f) = grown - dropped
  <2>1. f = [i \in 1..(grown - dropped) |-> f[i]]
    BY DEF f
  <2>2. f \in [1..(grown - dropped) -> BOOLEAN]
    BY <1>3, <2>1
  <2> QED
    BY <1>2, <2>2
<1>5. Len(bits) + diff - Len(f) = dropped
  BY <1>2, <1>4
<1>6. \A i \in 1..(grown - dropped) :
        f[i] = IF i + dropped <= Len(bits) THEN bits[i + dropped]
                                           ELSE i + dropped = grown
  BY DEF f
<1> QED
  BY <1>1, <1>2, <1>4, <1>5, <1>6

(* The invariant holds of a new window (session.rs:220-226).               *)
LEMMA WindowInitial == WindowInit => WindowInv
<1> SUFFICES ASSUME WindowInit PROVE WindowInv
  OBVIOUS
<1>1. window = <<>> /\ Len(window) = 0 /\ window \in Seq(BOOLEAN)
  BY DEF WindowInit
<1>2. WindowTypeOK
  <2>1. highest_seq \in Seqs
    BY WindowAssumption DEF WindowInit, Seqs
  <2>2. accepts \in [Seqs -> Nat] /\ verdict \in BOOLEAN
    BY DEF WindowInit
  <2>3. Len(window) <= WindowSize
    BY <1>1, WindowAssumption
  <2> QED
    BY <1>1, <2>1, <2>2, <2>3 DEF WindowTypeOK
<1>3. AtMostOnce /\ HighestBounds
  BY <1>1 DEF WindowInit, AtMostOnce, HighestBounds
<1>4. MaskIsExact
  BY <1>1 DEF WindowInit, MaskIsExact, Seqs
<1> QED
  BY <1>2, <1>3, <1>4 DEF WindowInv

(* Counting one more answer for a number that was not accepted yet keeps   *)
(* every number at one answer or none.                                     *)
LEMMA AnswerOnce ==
    ASSUME WindowInv, NEW seq \in Seqs, Answer(seq), accepts[seq] = 0
    PROVE  /\ accepts' \in [Seqs -> Nat]
           /\ AtMostOnce'
           /\ accepts'[seq] = 1
           /\ \A s \in Seqs : s # seq => accepts'[s] = accepts[s]
           /\ verdict' \in BOOLEAN
BY DEF Answer, WindowInv, WindowTypeOK, AtMostOnce

(* The invariant survives every branch of check_and_update                 *)
(* (session.rs:232-285).                                                   *)
LEMMA WindowStep ==
    ASSUME WindowInv, NEW seq \in Seqs, CheckAndUpdate(seq)
    PROVE  WindowInv'
<1> USE WindowAssumption
<1>1. CASE FirstPacket(seq)
  <2>1. accepts[seq] = 0 /\ Answer(seq) /\ highest_seq' = seq /\ window' = <<TRUE>>
    BY <1>1 DEF FirstPacket, WindowInv, HighestBounds
  <2>2. Len(window') = 1 /\ window' \in Seq(BOOLEAN) /\ window'[1] = TRUE
    BY <2>1
  <2>3. \A s \in Seqs : accepts[s] = 0
    BY <1>1 DEF FirstPacket, WindowInv, HighestBounds
  <2>4. WindowTypeOK' /\ AtMostOnce'
    BY <2>1, <2>2, AnswerOnce DEF WindowTypeOK
  <2>5. HighestBounds'
    BY <2>1, <2>2, <2>3, AnswerOnce DEF HighestBounds, Seqs
  <2>6. MaskIsExact'
    <3> SUFFICES ASSUME NEW s \in Seqs, s <= seq, seq - s < 1
                 PROVE  window'[1 - (seq - s)] <=> accepts'[s] = 1
      BY <2>1, <2>2 DEF MaskIsExact, BitOf
    <3>1. s = seq
      BY DEF Seqs
    <3> QED
      BY <3>1, <2>1, <2>2, AnswerOnce DEF Seqs
  <2> QED
    BY <2>4, <2>5, <2>6 DEF WindowInv
<1>2. CASE SlideTo(seq)
  <2> DEFINE diff == seq - highest_seq
             kept == IF Len(window) + diff > WindowSize
                     THEN WindowSize ELSE Len(window) + diff
             d    == Len(window) + diff - kept
  <2>1. /\ highest_seq \in Nat /\ seq \in Nat /\ diff \in Nat \ {0}
        /\ window \in Seq(BOOLEAN) /\ Len(window) \in 1..WindowSize
        /\ accepts[seq] = 0 /\ Answer(seq)
        /\ highest_seq' = seq /\ window' = Slid(window, diff)
    BY <1>2 DEF SlideTo, WindowInv, WindowTypeOK, HighestBounds, Seqs
  <2>2. /\ window' \in Seq(BOOLEAN)
        /\ Len(window') = kept
        /\ \A i \in 1..kept :
              window'[i] = IF i + d <= Len(window) THEN window[i + d]
                                                   ELSE i + d = Len(window) + diff
    <3>1. Len(Slid(window, diff)) = kept
      BY <2>1, SlidShape
    <3>2. window' \in Seq(BOOLEAN)
      BY <2>1, SlidShape
    <3>3. \A i \in 1..Len(window') :
            LET e == Len(window) + diff - Len(window')
            IN  window'[i] = IF i + e <= Len(window) THEN window[i + e]
                                                     ELSE i + e = Len(window) + diff
      <4> HIDE DEF diff
      <4> QED
        BY <2>1, SlidShape
    <3> HIDE DEF kept
    <3> QED
      BY <3>1, <3>2, <3>3, <2>1
  <2>3. /\ kept \in 1..WindowSize /\ d \in Nat /\ kept <= highest_seq + 1 + diff
        /\ d = Len(window) + diff - kept
        /\ Len(window) \in Nat /\ kept \in Nat
    BY <2>1 DEF WindowInv, HighestBounds
  <2> HIDE DEF kept, d
  <2>7. /\ \A s \in Seqs : s # seq => accepts'[s] = accepts[s]
        /\ accepts'[seq] = 1
    BY <2>1, AnswerOnce
  <2>4. WindowTypeOK' /\ AtMostOnce'
    BY <2>1, <2>2, <2>3, AnswerOnce DEF WindowTypeOK
  <2>5. HighestBounds'
    <3>1. Len(window') <= highest_seq' + 1 /\ window' # <<>>
      BY <2>1, <2>2, <2>3
    <3>2. \A s \in Seqs : s > seq => accepts'[s] = 0
      <4> SUFFICES ASSUME NEW s \in Seqs, s > seq PROVE accepts'[s] = 0
        OBVIOUS
      <4>1. s > highest_seq /\ s # seq
        BY <2>1 DEF Seqs
      <4> QED
        BY <4>1, <2>7 DEF WindowInv, HighestBounds
    <3> QED
      BY <3>1, <3>2, <2>1 DEF HighestBounds
  <2>6. MaskIsExact'
    <3> SUFFICES ASSUME NEW s \in Seqs, s <= seq, seq - s < kept
                 PROVE  window'[kept - (seq - s)] <=> accepts'[s] = 1
      BY <2>1, <2>2 DEF MaskIsExact, BitOf
    <3> DEFINE i == kept - (seq - s)
    <3>0. /\ s \in Nat /\ seq \in Nat /\ highest_seq \in Nat /\ Len(window) \in Nat
          /\ Len(window) + diff = Len(window) + seq - highest_seq
          /\ seq > highest_seq
      BY <2>1 DEF Seqs
    <3>1. i \in 1..kept /\ i \in Nat /\ i + d = Len(window) - (highest_seq - s)
      BY <3>0, <2>3
    <3> HIDE DEF i, diff
    <3>2. CASE s <= highest_seq
      <4>1. i + d \in 1..Len(window) /\ highest_seq - s < Len(window)
        BY <3>0, <3>1, <3>2, <2>3
      <4>2. window'[i] = window[BitOf(s)]
        BY <4>1, <3>1, <2>2 DEF BitOf
      <4>3. accepts'[s] = accepts[s]
        <5>1. s # seq
          BY <3>0, <3>2
        <5> QED
          BY <5>1, <2>1, AnswerOnce
      <4> QED
        BY <4>1, <4>2, <4>3, <3>2 DEF i, WindowInv, MaskIsExact
    <3>3. CASE s > highest_seq
      <4>1. ~(i + d <= Len(window)) /\ ((i + d = Len(window) + diff) <=> s = seq)
        BY <3>0, <3>1, <3>3
      <4>2. window'[i] <=> i + d = Len(window) + diff
        BY <4>1, <3>1, <2>2
      <4>3. accepts'[s] = 1 <=> s = seq
        BY <3>3, <2>1, AnswerOnce DEF WindowInv, HighestBounds
      <4> QED
        BY <4>1, <4>2, <4>3 DEF i
    <3> QED
      BY <3>0, <3>2, <3>3
  <2> QED
    BY <2>4, <2>5, <2>6 DEF WindowInv
<1>3. CASE JumpTo(seq)
  <2>1. accepts[seq] = 0 /\ Answer(seq) /\ highest_seq' = seq /\ window' = <<TRUE>>
    BY <1>3 DEF JumpTo, WindowInv, HighestBounds
  <2>2. Len(window') = 1 /\ window' \in Seq(BOOLEAN) /\ window'[1] = TRUE
    BY <2>1
  <2>3. \A s \in Seqs : s > seq => accepts[s] = 0
    BY <1>3 DEF JumpTo, WindowInv, HighestBounds, WindowTypeOK, Seqs
  <2>4. WindowTypeOK' /\ AtMostOnce'
    BY <2>1, <2>2, AnswerOnce DEF WindowTypeOK
  <2>5. HighestBounds'
    BY <2>1, <2>2, <2>3, AnswerOnce DEF HighestBounds, Seqs
  <2>6. MaskIsExact'
    <3> SUFFICES ASSUME NEW s \in Seqs, s <= seq, seq - s < 1
                 PROVE  window'[1 - (seq - s)] <=> accepts'[s] = 1
      BY <2>1, <2>2 DEF MaskIsExact, BitOf
    <3>1. s = seq
      BY DEF Seqs
    <3> QED
      BY <3>1, <2>1, <2>2, AnswerOnce DEF Seqs
  <2> QED
    BY <2>4, <2>5, <2>6 DEF WindowInv
<1>4. CASE FillGap(seq)
  <2> DEFINE b == BitOf(seq)
  <2>1. /\ window \in Seq(BOOLEAN) /\ highest_seq \in Nat /\ seq \in Nat
        /\ seq <= highest_seq /\ highest_seq - seq < Len(window)
        /\ b \in 1..Len(window) /\ ~window[b]
        /\ window' = [window EXCEPT ![b] = TRUE]
        /\ highest_seq' = highest_seq /\ Answer(seq)
    BY <1>4 DEF FillGap, Refused, BitOf, WindowInv, WindowTypeOK, Seqs
  <2>2. accepts[seq] = 0
    BY <2>1 DEF WindowInv, WindowTypeOK, AtMostOnce, MaskIsExact
  <2> HIDE DEF b
  <2>3. /\ window' \in Seq(BOOLEAN) /\ Len(window') = Len(window)
        /\ \A i \in 1..Len(window) : window'[i] = IF i = b THEN TRUE ELSE window[i]
    <3>1. window \in [1..Len(window) -> BOOLEAN] /\ Len(window) \in Nat
      BY <2>1
    <3>2. /\ window' \in [1..Len(window) -> BOOLEAN]
          /\ \A i \in 1..Len(window) : window'[i] = IF i = b THEN TRUE ELSE window[i]
      BY <3>1, <2>1
    <3>3. window' \in Seq(BOOLEAN)
      BY <3>1, <3>2
    <3>4. Len(window') = Len(window)
      BY <3>1, <3>2, <3>3
    <3> QED
      BY <3>2, <3>3, <3>4
  <2>7. /\ \A s \in Seqs : s # seq => accepts'[s] = accepts[s]
        /\ accepts'[seq] = 1
    BY <2>1, <2>2, AnswerOnce
  <2>4. WindowTypeOK' /\ AtMostOnce'
    BY <2>1, <2>2, <2>3, AnswerOnce DEF WindowTypeOK, WindowInv
  <2>5. HighestBounds'
    <3>1. window' # <<>> /\ Len(window') <= highest_seq' + 1
      BY <2>1, <2>3 DEF WindowInv, HighestBounds
    <3>2. \A s \in Seqs : s > highest_seq' => accepts'[s] = 0
      BY <2>1, <2>7 DEF WindowInv, HighestBounds, Seqs
    <3> QED
      BY <3>1, <3>2 DEF HighestBounds
  <2>6. MaskIsExact'
    <3> SUFFICES ASSUME NEW s \in Seqs, s <= highest_seq, highest_seq - s < Len(window)
                 PROVE  window'[BitOf(s)] <=> accepts'[s] = 1
      BY <2>1, <2>3 DEF MaskIsExact, BitOf
    <3>1. BitOf(s) \in 1..Len(window) /\ (BitOf(s) = b <=> s = seq)
      BY <2>1 DEF b, BitOf, Seqs
    <3>2. window[BitOf(s)] <=> accepts[s] = 1
      BY DEF WindowInv, MaskIsExact
    <3> QED
      BY <3>1, <3>2, <2>3, <2>7
  <2> QED
    BY <2>4, <2>5, <2>6 DEF WindowInv
<1>5. CASE Refuse(seq)
  BY <1>5 DEF Refuse, WindowInv, WindowTypeOK, AtMostOnce, HighestBounds, MaskIsExact, BitOf
<1> QED
  BY <1>1, <1>2, <1>3, <1>4, <1>5 DEF CheckAndUpdate

(* WindowInv is an invariant: the mask is exact in every reachable state.  *)
THEOREM WindowInvariance == WindowSpec => []WindowInv
<1>1. ASSUME WindowInv, [WindowNext]_windowVars PROVE WindowInv'
  <2>1. CASE WindowNext
    BY <1>1, <2>1, WindowStep DEF WindowNext
  <2>2. CASE UNCHANGED windowVars
    BY <1>1, <2>2 DEF windowVars, WindowInv, WindowTypeOK, AtMostOnce, HighestBounds,
                      MaskIsExact, BitOf
  <2> QED
    BY <1>1, <2>1, <2>2
<1> QED
  BY WindowInitial, <1>1, PTL DEF WindowSpec

(* No sequence number passes check_and_update twice, whatever the order    *)
(* and repetition of packets and whatever the window size.                 *)
THEOREM WindowAtMostOnce == WindowSpec => []AtMostOnce
<1>1. WindowInv => AtMostOnce
  BY DEF WindowInv
<1> QED
  BY WindowInvariance, <1>1, PTL

(* The deque keeps its bound and its type.                                 *)
THEOREM WindowTypeCorrect == WindowSpec => []WindowTypeOK
<1>1. WindowInv => WindowTypeOK
  BY DEF WindowInv
<1> QED
  BY WindowInvariance, <1>1, PTL
-----------------------------------------------------------------------------
(* Read off the history, a refusal says: not above the newest, and accepted *)
(* already if the deque still covers it.                                   *)
LEMMA RefusedMeans ==
    ASSUME WindowInv, NEW s \in Seqs
    PROVE  Refused(s) <=> /\ window # <<>>
                          /\ s <= highest_seq
                          /\ highest_seq - s < Len(window) => accepts[s] = 1
BY DEF Refused, WindowInv, MaskIsExact

(* How one branch moves the window: the newest number never falls, the     *)
(* oldest covered number (highest_seq - Len(window) + 1) never falls       *)
(* either, and the history only grows.                                     *)
LEMMA StepMoves ==
    ASSUME WindowInv, NEW seq \in Seqs, CheckAndUpdate(seq), window # <<>>
    PROVE  /\ highest_seq' >= highest_seq
           /\ highest_seq' - Len(window') >= highest_seq - Len(window)
           /\ window' # <<>>
           /\ \A s \in Seqs : accepts'[s] >= accepts[s]
<1> USE WindowAssumption
<1>0. /\ highest_seq \in Nat /\ seq \in Nat /\ Len(window) \in Nat
      /\ window \in Seq(BOOLEAN) /\ Len(window) <= WindowSize /\ Len(window) >= 1
      /\ accepts \in [Seqs -> Nat]
  BY DEF WindowInv, WindowTypeOK, Seqs
<1>1. CASE SlideTo(seq)
  <2> DEFINE diff == seq - highest_seq
  <2>1. diff \in Nat \ {0} /\ window' = Slid(window, diff) /\ highest_seq' = seq /\ Answer(seq)
    BY <1>0, <1>1 DEF SlideTo
  <2>2. Len(window') = IF Len(window) + diff > WindowSize
                       THEN WindowSize ELSE Len(window) + diff
    <3> HIDE DEF diff
    <3> QED
      BY <1>0, <2>1, SlidShape
  <2>3. window' # <<>>
    BY <1>0, <2>1, <2>2
  <2>4. highest_seq' - Len(window') >= highest_seq - Len(window)
    BY <1>0, <2>1, <2>2
  <2> QED
    BY <1>0, <2>1, <2>3, <2>4 DEF Answer
<1>2. CASE JumpTo(seq)
  <2>1. window' = <<TRUE>> /\ Len(window') = 1 /\ highest_seq' = seq /\ Answer(seq)
        /\ seq - highest_seq >= WindowSize /\ seq > highest_seq
    BY <1>2 DEF JumpTo
  <2> QED
    BY <1>0, <2>1 DEF Answer
<1>3. CASE FillGap(seq)
  <2>1. Len(window') = Len(window) /\ highest_seq' = highest_seq /\ Answer(seq)
    BY <1>0, <1>3 DEF FillGap
  <2> QED
    BY <1>0, <2>1 DEF Answer
<1>4. CASE Refuse(seq)
  BY <1>0, <1>4 DEF Refuse
<1>5. ~FirstPacket(seq)
  BY DEF FirstPacket
<1> QED
  BY <1>1, <1>2, <1>3, <1>4, <1>5 DEF CheckAndUpdate

(* A number that would be refused stays refused: no later packet brings it *)
(* back into the window.                                                   *)
THEOREM RefusalFinal == WindowSpec => RefusalIsFinal
<1>1. ASSUME WindowInv, [WindowNext]_windowVars
      PROVE  [\A s \in Seqs : Refused(s) => Refused(s)']_windowVars
  <2>1. CASE UNCHANGED windowVars
    BY <2>1
  <2>2. ASSUME NEW seq \in Seqs, CheckAndUpdate(seq), NEW s \in Seqs, Refused(s)
        PROVE  Refused(s)'
    <3>1. /\ window # <<>>
          /\ s <= highest_seq
          /\ highest_seq - s < Len(window) => accepts[s] = 1
      BY <1>1, <2>2, RefusedMeans
    <3>2. WindowInv'
      BY <1>1, <2>2, WindowStep
    <3>3. /\ highest_seq \in Nat /\ highest_seq' \in Nat /\ s \in Nat
          /\ Len(window) \in Nat /\ Len(window') \in Nat
          /\ accepts'[s] \in Nat /\ accepts'[s] <= 1
      BY <1>1, <3>2 DEF WindowInv, WindowTypeOK, AtMostOnce, Seqs
    <3>4. /\ highest_seq' >= highest_seq
          /\ highest_seq' - Len(window') >= highest_seq - Len(window)
          /\ window' # <<>>
          /\ accepts'[s] >= accepts[s]
      BY <1>1, <2>2, <3>1, StepMoves
    <3>5. s <= highest_seq' /\ (highest_seq' - s < Len(window') => accepts'[s] = 1)
      BY <3>1, <3>3, <3>4
    <3>6. /\ window' # <<>>
          /\ s <= highest_seq'
          /\ highest_seq' - s < Len(window') => window'[BitOf(s)'] = TRUE
      BY <3>2, <3>4, <3>5 DEF WindowInv, MaskIsExact, WindowTypeOK
    <3> QED
      BY <3>6 DEF Refused
  <2> QED
    BY <1>1, <2>1, <2>2 DEF WindowNext
<1> QED
  BY WindowInvariance, <1>1, PTL DEF WindowSpec, RefusalIsFinal

-----------------------------------------------------------------------------
(* A new window is the gate that has let nothing through.                  *)
LEMMA GateInitial == WindowInit => Gate!GateInit
BY DEF WindowInit, Gate!GateInit

(* Every branch that answers true admits the number to the gate, and the   *)
(* refusing branch turns it away.                                          *)
LEMMA GateStep ==
    ASSUME WindowInv, NEW seq \in Seqs, CheckAndUpdate(seq)
    PROVE  Gate!Admit(seq) \/ Gate!TurnAway(seq)
<1> USE WindowAssumption
<1> DEFINE past == {s \in Seqs : accepts[s] > 0}
           low  == highest_seq - Len(window) + 1
<1>0. /\ highest_seq \in Nat /\ seq \in Nat /\ Len(window) \in Nat
      /\ window \in Seq(BOOLEAN) /\ Len(window) <= WindowSize
      /\ accepts \in [Seqs -> Nat] /\ (window # <<>> <=> Len(window) >= 1)
  BY DEF WindowInv, WindowTypeOK, Seqs
<1>1. Gate!Admissible(seq) <=> \/ Len(window) = 0
                               \/ seq > highest_seq
                               \/ highest_seq - seq < Len(window) /\ accepts[seq] = 0
  BY <1>0 DEF Gate!Admissible
<1>2. Answer(seq) => {s \in Seqs : accepts[s] > 0}' = past \union {seq}
  BY <1>0 DEF Answer
<1>3. CASE FirstPacket(seq)
  <2>1. Len(window) = 0 /\ Len(window') = 1 /\ highest_seq' = seq /\ Answer(seq)
    BY <1>3 DEF FirstPacket
  <2>2. low > highest_seq /\ seq - Len(window') + 1 = seq
    BY <1>0, <2>1
  <2> QED
    BY <1>0, <1>1, <1>2, <2>1, <2>2 DEF Gate!Admit, Answer
<1>4. CASE SlideTo(seq)
  <2> DEFINE diff == seq - highest_seq
  <2>1. /\ diff \in Nat \ {0} /\ seq > highest_seq /\ diff < WindowSize
        /\ Len(window) >= 1
        /\ window' = Slid(window, diff) /\ highest_seq' = seq /\ Answer(seq)
    BY <1>0, <1>4 DEF SlideTo
  <2>2. Len(window') = IF Len(window) + diff > WindowSize
                       THEN WindowSize ELSE Len(window) + diff
    <3> HIDE DEF diff
    <3> QED
      BY <1>0, <2>1, SlidShape
  <2>3. /\ ~(low > highest_seq \/ seq - highest_seq >= WindowSize)
        /\ Gate!Larger(highest_seq, seq) = seq
        /\ seq - Len(window') + 1 = Gate!Larger(low, seq - WindowSize + 1)
    <3>1. ~(low > highest_seq \/ seq - highest_seq >= WindowSize)
      BY <1>0, <2>1
    <3>2. Gate!Larger(highest_seq, seq) = seq
      BY <1>0, <2>1 DEF Gate!Larger
    <3>3. IF low > seq - WindowSize + 1
          THEN seq - Len(window') + 1 = low
          ELSE seq - Len(window') + 1 = seq - WindowSize + 1
      <4>1. CASE Len(window) + diff > WindowSize
        <5>1. Len(window') = WindowSize
          BY <2>2, <4>1
        <5>2. low <= seq - WindowSize + 1
          BY <1>0, <2>1, <4>1
        <5>3. low \in Int /\ seq - WindowSize + 1 \in Int
          BY <1>0
        <5> HIDE DEF low
        <5> QED
          BY <5>1, <5>2, <5>3
      <4>2. CASE Len(window) + diff <= WindowSize
        <5>1. Len(window') = Len(window) + diff
          BY <1>0, <2>1, <2>2, <4>2
        <5>2. seq - Len(window') + 1 = low
          BY <1>0, <5>1
        <5>3. low >= seq - WindowSize + 1
          BY <1>0, <2>1, <4>2
        <5>4. low \in Int /\ seq - WindowSize + 1 \in Int
          BY <1>0
        <5> HIDE DEF low
        <5> QED
          BY <5>2, <5>3, <5>4
      <4> QED
        BY <1>0, <2>1, <4>1, <4>2
    <3>4. seq - Len(window') + 1 = Gate!Larger(low, seq - WindowSize + 1)
      <4> HIDE DEF low
      <4> QED
        BY <3>3 DEF Gate!Larger
    <3> QED
      BY <3>1, <3>2, <3>4
  <2> QED
    BY <1>0, <1>1, <1>2, <2>1, <2>3 DEF Gate!Admit, Answer
<1>5. CASE JumpTo(seq)
  <2>1. /\ window' = <<TRUE>> /\ Len(window') = 1 /\ highest_seq' = seq /\ Answer(seq)
        /\ seq - highest_seq >= WindowSize /\ seq > highest_seq /\ Len(window) >= 1
    BY <1>0, <1>5 DEF JumpTo
  <2>2. /\ ~(low > highest_seq) /\ seq - Len(window') + 1 = seq
        /\ Gate!Larger(highest_seq, seq) = seq
    BY <1>0, <2>1 DEF Gate!Larger
  <2> QED
    BY <1>0, <1>1, <1>2, <2>1, <2>2 DEF Gate!Admit, Answer
<1>6. CASE FillGap(seq)
  <2>1. /\ Len(window') = Len(window) /\ highest_seq' = highest_seq /\ Answer(seq)
        /\ seq <= highest_seq /\ Len(window) >= 1 /\ ~Refused(seq)
    BY <1>0, <1>6 DEF FillGap
  <2>2. highest_seq - seq < Len(window) /\ accepts[seq] = 0
    <3>1. highest_seq - seq < Len(window) /\ accepts[seq] # 1
      BY <1>0, <2>1, RefusedMeans
    <3> QED
      BY <3>1, <1>0 DEF WindowInv, AtMostOnce
  <2>3. /\ ~(low > highest_seq \/ seq - highest_seq >= WindowSize)
        /\ Gate!Larger(highest_seq, seq) = highest_seq
        /\ Gate!Larger(low, highest_seq - WindowSize + 1) = low
    <3>1. /\ ~(low > highest_seq) /\ ~(seq - highest_seq >= WindowSize)
          /\ low \in Int /\ low >= highest_seq - WindowSize + 1
      BY <1>0, <2>1
    <3>2. Gate!Larger(highest_seq, seq) = highest_seq
      BY <1>0, <2>1 DEF Gate!Larger
    <3>3. Gate!Larger(low, highest_seq - WindowSize + 1) = low
      <4> HIDE DEF low
      <4> QED
        BY <1>0, <3>1 DEF Gate!Larger
    <3> QED
      BY <3>1, <3>2, <3>3
  <2> QED
    BY <1>0, <1>1, <1>2, <2>1, <2>2, <2>3 DEF Gate!Admit, Answer
<1>7. CASE Refuse(seq)
  <2>1. /\ window # <<>> /\ seq <= highest_seq
        /\ highest_seq - seq < Len(window) => accepts[seq] = 1
    BY <1>7, RefusedMeans DEF Refuse
  <2>2. ~Gate!Admissible(seq)
    BY <1>0, <1>1, <2>1
  <2> QED
    BY <1>7, <2>2 DEF Refuse, Gate!TurnAway
<1> QED
  BY <1>3, <1>4, <1>5, <1>6, <1>7 DEF CheckAndUpdate

(* The bit mask of session.rs implements the gate over the set of accepted *)
(* numbers, for every window size.                                         *)
THEOREM MaskRefinesGate == WindowSpec => RefinesGate
<1>1. ASSUME WindowInv, [WindowNext]_windowVars
      PROVE  [Gate!GateNext]_(Gate!gateVars)
  <2>1. CASE UNCHANGED windowVars
    BY <2>1 DEF windowVars, Gate!gateVars
  <2>2. ASSUME NEW seq \in Seqs, CheckAndUpdate(seq)
        PROVE  Gate!GateNext
    <3>1. Gate!Admit(seq) \/ Gate!TurnAway(seq)
      BY <1>1, <2>2, GateStep
    <3> QED
      BY <3>1 DEF Gate!GateNext, Seqs
  <2> QED
    BY <1>1, <2>1, <2>2 DEF WindowNext
<1> QED
  BY WindowInvariance, GateInitial, <1>1, PTL DEF WindowSpec, RefinesGate, Gate!GateSpec

\* A bit of the deque stands for exactly the number it was set for, across
\* every shift, pop and clear (session.rs:241-265).
THEOREM WindowMaskIsExact == WindowSpec => []MaskIsExact
  <1>1. WindowInv => MaskIsExact
    BY DEF WindowInv
  <1> QED
    BY WindowInvariance, <1>1, PTL

-----------------------------------------------------------------------------
(* The session.                                                            *)

LEMMA SessionInitial == SessionInit => SessionInv
<1> SUFFICES ASSUME SessionInit PROVE SessionInv
  OBVIOUS
<1> USE WindowAssumption, SessionAssumption
<1>1. WindowInv
  BY WindowInitial DEF SessionInit
<1>2. SessionTypeOK
  <2>1. tx_sequence \in Seqs /\ nonce \in 0..MaxNonce
    BY DEF SessionInit, Seqs
  <2>2. opened \in [Seqs -> Nat] /\ sent \subseteq Packet
    BY DEF SessionInit
  <2>3. rekey_required \in BOOLEAN /\ tx_result = "none" /\ rx_result = "none"
    BY DEF SessionInit
  <2> QED
    BY <1>1, <2>1, <2>2, <2>3 DEF SessionTypeOK, WindowInv
<1>3. NumberIsNonce
  BY DEF SessionInit, NumberIsNonce
<1>4. CountersInStep
  BY DEF SessionInit, CountersInStep
<1>5. OpenedOnce
  BY DEF SessionInit, WindowInit, OpenedOnce
<1> QED
  BY <1>1, <1>2, <1>3, <1>4, <1>5 DEF SessionInv

(* The receiving half does not change under the sender's steps.            *)
LEMMA ReceiverKept ==
    ASSUME SessionInv, UNCHANGED rxVars, sent \subseteq sent'
    PROVE  WindowInv' /\ OpenedOnce'
<1>1. /\ highest_seq' = highest_seq /\ window' = window
      /\ accepts' = accepts /\ verdict' = verdict /\ opened' = opened
  BY DEF rxVars
<1>2. WindowInv'
  BY <1>1 DEF SessionInv, WindowInv, WindowTypeOK, AtMostOnce, HighestBounds,
              MaskIsExact, BitOf
<1>3. OpenedOnce'
  BY <1>1 DEF SessionInv, OpenedOnce
<1> QED
  BY <1>2, <1>3

(* encrypt_payload keeps the invariant however it returns                  *)
(* (session.rs:101-119, crypto.rs:217-234).                                *)
LEMMA EncryptStep ==
    ASSUME SessionInv, EncryptPayload
    PROVE  SessionInv'
<1> USE WindowAssumption, SessionAssumption
<1>0. /\ tx_sequence \in Nat /\ nonce \in Nat /\ tx_sequence <= MaxSeq
      /\ nonce <= MaxNonce /\ SessionTypeOK
  BY DEF SessionInv, SessionTypeOK, Seqs
<1>1. CASE CipherFails
  <2>1. /\ UNCHANGED <<tx_sequence, nonce, rekey_required, sent>>
        /\ UNCHANGED rxVars
        /\ tx_result' \in {"EncryptionError", "NonceOverflow"}
    BY <1>1 DEF CipherFails
  <2>2. WindowInv' /\ OpenedOnce'
    BY <2>1, ReceiverKept
  <2>3. SessionTypeOK'
    BY <2>1, <2>2, <1>0 DEF SessionTypeOK, WindowInv, rxVars
  <2>4. NumberIsNonce' /\ CountersInStep'
    BY <2>1 DEF SessionInv, NumberIsNonce, CountersInStep
  <2> QED
    BY <2>2, <2>3, <2>4 DEF SessionInv
<1>2. CASE Numbered
  <2>1. /\ nonce < MaxNonce /\ tx_sequence < MaxSeq
        /\ sent' = sent \union {[seq |-> tx_sequence, nonce |-> nonce]}
        /\ nonce' = nonce + 1 /\ tx_sequence' = tx_sequence + 1
        /\ rekey_required' \in BOOLEAN /\ tx_result' = "ok"
        /\ UNCHANGED rxVars
    BY <1>2, <1>0 DEF Numbered, SessionTypeOK
  <2>2. WindowInv' /\ OpenedOnce'
    BY <2>1, ReceiverKept
  <2>3. nonce = tx_sequence
    BY <2>1 DEF SessionInv, CountersInStep
  <2>4. SessionTypeOK'
    <3>1. [seq |-> tx_sequence, nonce |-> nonce] \in Packet
      BY <1>0, <2>1 DEF Packet, Seqs
    <3>2. tx_sequence' \in Seqs /\ nonce' \in 0..MaxNonce
      BY <1>0, <2>1 DEF Seqs
    <3> QED
      BY <3>1, <3>2, <2>1, <2>2, <1>0 DEF SessionTypeOK, WindowInv, rxVars
  <2>5. NumberIsNonce'
    <3>1. 0..(tx_sequence' - 1) = 0..(tx_sequence - 1) \union {tx_sequence}
      BY <1>0, <2>1
    <3>2. {[seq |-> n, nonce |-> n] : n \in 0..(tx_sequence' - 1)}
            = {[seq |-> n, nonce |-> n] : n \in 0..(tx_sequence - 1)}
                \union {[seq |-> tx_sequence, nonce |-> tx_sequence]}
      BY <3>1
    <3> QED
      BY <3>2, <2>1, <2>3 DEF SessionInv, NumberIsNonce
  <2>6. CountersInStep'
    BY <2>1, <2>3, <1>0 DEF CountersInStep
  <2> QED
    BY <2>2, <2>4, <2>5, <2>6 DEF SessionInv
<1>3. CASE NumbersRunOut
  <2>1. /\ nonce < MaxNonce /\ tx_sequence = MaxSeq /\ nonce' = nonce + 1
        /\ UNCHANGED <<tx_sequence, rekey_required, sent>>
        /\ tx_result' = "RekeyRequired"
        /\ UNCHANGED rxVars
    BY <1>3 DEF NumbersRunOut
  <2>2. WindowInv' /\ OpenedOnce'
    BY <2>1, ReceiverKept
  <2>3. SessionTypeOK'
    BY <2>1, <2>2, <1>0 DEF SessionTypeOK, WindowInv, rxVars
  <2>4. NumberIsNonce'
    BY <2>1 DEF SessionInv, NumberIsNonce
  <2>5. CountersInStep'
    BY <2>1, <1>0 DEF SessionInv, CountersInStep
  <2> QED
    BY <2>2, <2>3, <2>4, <2>5 DEF SessionInv
<1> QED
  BY <1>1, <1>2, <1>3 DEF EncryptPayload

(* A number the window lets through was accepted before in no way.         *)
LEMMA FreshWasUnused ==
    ASSUME WindowInv, NEW seq \in Seqs, CheckAndUpdate(seq), verdict'
    PROVE  accepts[seq] = 0 /\ Answer(seq)
<1>1. CASE FirstPacket(seq)
  BY <1>1 DEF FirstPacket, WindowInv, HighestBounds
<1>2. CASE SlideTo(seq)
  BY <1>2 DEF SlideTo, WindowInv, HighestBounds
<1>3. CASE JumpTo(seq)
  BY <1>3 DEF JumpTo, WindowInv, HighestBounds
<1>4. CASE FillGap(seq)
  <2>1. accepts[seq] # 1 /\ Answer(seq)
    BY <1>4, RefusedMeans DEF FillGap
  <2> QED
    BY <2>1 DEF WindowInv, WindowTypeOK, AtMostOnce
<1>5. CASE Refuse(seq)
  BY <1>5 DEF Refuse
<1> QED
  BY <1>1, <1>2, <1>3, <1>4, <1>5 DEF CheckAndUpdate

(* decrypt_payload keeps the invariant for genuine and damaged packets     *)
(* (session.rs:122-145).                                                   *)
LEMMA DecryptStep ==
    ASSUME SessionInv, NEW seq \in Seqs, NEW genuine \in BOOLEAN,
           DecryptPayload(seq, genuine)
    PROVE  SessionInv'
<1> DEFINE opens == genuine /\ [seq |-> seq, nonce |-> seq] \in sent
<1>1. /\ CheckAndUpdate(seq) /\ UNCHANGED txVars
      /\ opened' = IF verdict' /\ opens
                   THEN [opened EXCEPT ![seq] = @ + 1] ELSE opened
      /\ rx_result' = CASE ~verdict'          -> "DuplicateSequenceNumber"
                        [] verdict' /\ opens  -> "ok"
                        [] verdict' /\ ~opens -> "DecryptionError"
  BY DEF DecryptPayload, CipherOpens
<1>2. WindowInv /\ SessionTypeOK /\ OpenedOnce
  BY DEF SessionInv
<1>3. WindowInv'
  BY <1>1, <1>2, WindowStep
<1>4. verdict' \in BOOLEAN
  BY <1>3 DEF WindowInv, WindowTypeOK
<1>5. /\ rx_result' \in {"none", "ok", "DuplicateSequenceNumber", "DecryptionError"}
  BY <1>1, <1>4
<1>6. NumberIsNonce' /\ CountersInStep'
  BY <1>1 DEF SessionInv, NumberIsNonce, CountersInStep, txVars
<1>7. /\ opened \in [Seqs -> Nat] /\ accepts \in [Seqs -> Nat]
  BY <1>2 DEF SessionTypeOK, WindowInv, WindowTypeOK
<1>8. opened' \in [Seqs -> Nat]
  BY <1>1, <1>7
<1>9. SessionTypeOK'
  BY <1>1, <1>2, <1>3, <1>5, <1>8 DEF SessionTypeOK, WindowInv, txVars
<1>10. OpenedOnce'
  <2>1. CASE verdict' /\ opens
    <3>1. accepts[seq] = 0 /\ Answer(seq)
      BY <1>1, <1>2, <2>1, FreshWasUnused
    <3>2. opened[seq] = 0
      BY <3>1, <1>2, <1>7 DEF OpenedOnce
    <3>3. opened' = [opened EXCEPT ![seq] = @ + 1] /\ sent' = sent
      BY <1>1, <2>1 DEF txVars
    <3>4. accepts' = [accepts EXCEPT ![seq] = @ + 1]
      BY <3>1 DEF Answer
    <3>5. opened'[seq] = 1 /\ accepts'[seq] = 1 /\ \E p \in sent : p.seq = seq
      BY <3>1, <3>2, <3>3, <3>4, <1>7, <2>1
    <3>6. \A s \in Seqs : s # seq => opened'[s] = opened[s] /\ accepts'[s] = accepts[s]
      BY <3>3, <3>4, <1>7
    <3> QED
      BY <3>3, <3>5, <3>6, <1>2 DEF OpenedOnce
  <2>2. CASE ~(verdict' /\ opens)
    <3>1. opened' = opened /\ sent' = sent
      BY <1>1, <2>2 DEF txVars
    <3>2. \A s \in Seqs : accepts'[s] >= accepts[s]
      <4>1. Answer(seq) \/ accepts' = accepts
        BY <1>1 DEF CheckAndUpdate, FirstPacket, SlideTo, JumpTo, FillGap, Refuse
      <4>2. CASE Answer(seq)
        <5>1. accepts' = [accepts EXCEPT ![seq] = @ + 1]
          BY <4>2 DEF Answer
        <5> QED
          BY <5>1, <1>7
      <4>3. CASE accepts' = accepts
        BY <4>3, <1>7
      <4> QED
        BY <4>1, <4>2, <4>3
    <3>3. accepts' \in [Seqs -> Nat]
      BY <1>3 DEF WindowInv, WindowTypeOK
    <3> SUFFICES ASSUME NEW s \in Seqs
                 PROVE  /\ opened'[s] <= accepts'[s] /\ opened'[s] <= 1
                        /\ opened'[s] > 0 => \E p \in sent' : p.seq = s
      BY DEF OpenedOnce
    <3>4. /\ opened[s] <= accepts[s] /\ opened[s] <= 1
          /\ opened[s] > 0 => \E p \in sent : p.seq = s
      BY <1>2 DEF OpenedOnce
    <3>5. opened[s] <= accepts'[s]
      <4>1. opened[s] \in Nat /\ accepts[s] \in Nat /\ accepts'[s] \in Nat
        BY <1>7, <3>3
      <4> QED
        BY <4>1, <3>2, <3>4
    <3> QED
      BY <3>1, <3>4, <3>5
  <2> QED
    BY <2>1, <2>2
<1> QED
  BY <1>3, <1>6, <1>9, <1>10 DEF SessionInv

(* SessionInv is an invariant of the session.                              *)
THEOREM SessionInvariance == SessionSpec => []SessionInv
<1>1. ASSUME SessionInv, [SessionNext]_sessionVars PROVE SessionInv'
  <2>1. CASE EncryptPayload
    BY <1>1, <2>1, EncryptStep
  <2>2. CASE \E seq \in Seqs, genuine \in BOOLEAN : DecryptPayload(seq, genuine)
    BY <1>1, <2>2, DecryptStep
  <2>3. CASE UNCHANGED sessionVars
    <3>1. UNCHANGED rxVars /\ UNCHANGED txVars
      BY <2>3 DEF sessionVars
    <3>2. WindowInv' /\ OpenedOnce'
      BY <1>1, <3>1, ReceiverKept DEF txVars
    <3>3. SessionTypeOK'
      BY <1>1, <3>1, <3>2 DEF SessionInv, SessionTypeOK, WindowInv, rxVars, txVars
    <3>4. NumberIsNonce' /\ CountersInStep'
      BY <1>1, <3>1 DEF SessionInv, NumberIsNonce, CountersInStep, txVars
    <3> QED
      BY <3>2, <3>3, <3>4 DEF SessionInv
  <2> QED
    BY <1>1, <2>1, <2>2, <2>3 DEF SessionNext
<1> QED
  BY SessionInitial, <1>1, PTL DEF SessionSpec

(* Packet n is sealed with nonce n, whatever errors lie between packets.   *)
THEOREM SessionNumbering == SessionSpec => []NumberIsNonce
<1>1. SessionInv => NumberIsNonce
  BY DEF SessionInv
<1> QED
  BY SessionInvariance, <1>1, PTL

(* No plaintext is returned twice, and none that was not sent.             *)
THEOREM SessionOpensOnce == SessionSpec => []OpenedOnce
<1>1. SessionInv => OpenedOnce
  BY DEF SessionInv
<1> QED
  BY SessionInvariance, <1>1, PTL

(* The counters of cipher and session agree until the numbers run out.     *)
THEOREM SessionCountersAgree == SessionSpec => []CountersInStep
<1>1. SessionInv => CountersInStep
  BY DEF SessionInv
<1> QED
  BY SessionInvariance, <1>1, PTL

(* The receiver of a session moves its window by check_and_update only, so *)
(* whatever holds of the window alone holds of the window in a session.    *)
THEOREM SessionReceives == SessionSpec => WindowSpec
<1>1. SessionInit => WindowInit
  BY DEF SessionInit
<1>2. [SessionNext]_sessionVars => [WindowNext]_windowVars
  <2> SUFFICES ASSUME [SessionNext]_sessionVars PROVE [WindowNext]_windowVars
    OBVIOUS
  <2>1. CASE EncryptPayload
    BY <2>1 DEF EncryptPayload, CipherFails, Numbered, NumbersRunOut, rxVars, windowVars
  <2>2. CASE \E seq \in Seqs, genuine \in BOOLEAN : DecryptPayload(seq, genuine)
    BY <2>2 DEF DecryptPayload, WindowNext
  <2>3. CASE UNCHANGED sessionVars
    BY <2>3 DEF sessionVars, rxVars, windowVars
  <2> QED
    BY <2>1, <2>2, <2>3 DEF SessionNext
<1> QED
  BY <1>1, <1>2, PTL DEF SessionSpec, WindowSpec

(* A number that a damaged packet has used up is lost: the genuine packet  *)
(* of that number is never opened.                                         *)
THEOREM SessionLosesUsedUp == SessionSpec => UsedUpIsLost
<1>1. ASSUME SessionInv, SessionInv', [SessionNext]_sessionVars
      PROVE  [\A s \in Seqs : accepts[s] > opened[s] => opened'[s] = opened[s]]_sessionVars
  <2>1. CASE EncryptPayload
    BY <2>1 DEF EncryptPayload, CipherFails, Numbered, NumbersRunOut, rxVars
  <2>2. ASSUME NEW seq \in Seqs, NEW genuine \in BOOLEAN, DecryptPayload(seq, genuine),
               NEW s \in Seqs, accepts[s] > opened[s]
        PROVE  opened'[s] = opened[s]
    <3>1. /\ accepts \in [Seqs -> Nat] /\ opened \in [Seqs -> Nat]
          /\ accepts[s] <= 1 /\ accepts'[s] <= 1
      BY <1>1, <2>2 DEF SessionInv, WindowInv, WindowTypeOK, AtMostOnce, SessionTypeOK
    <3>2. verdict' /\ s = seq => accepts'[s] = accepts[s] + 1
      BY <2>2, <3>1 DEF DecryptPayload, CheckAndUpdate, FirstPacket, SlideTo, JumpTo,
                        FillGap, Refuse, Answer
    <3>3. ~(verdict' /\ s = seq)
      BY <2>2, <3>1, <3>2
    <3> QED
      BY <2>2, <3>1, <3>3 DEF DecryptPayload
  <2>3. CASE UNCHANGED sessionVars
    BY <2>3
  <2> QED
    BY <1>1, <2>1, <2>2, <2>3 DEF SessionNext
<1> QED
  BY SessionInvariance, <1>1, PTL DEF SessionSpec, UsedUpIsLost

\* The fields of a session keep their types (session.rs:29-60).
THEOREM SessionTypeCorrect == SessionSpec => []SessionTypeOK
  <1>1. SessionInv => SessionTypeOK
    BY DEF SessionInv
  <1> QED
    BY SessionInvariance, <1>1, PTL
===============================================================================
