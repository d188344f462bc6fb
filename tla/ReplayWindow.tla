---------------------------- MODULE ReplayWindow ----------------------------
(***************************************************************************)
(* The sliding window that a Session keeps over the sequence numbers it    *)
(* receives: struct ReplayWindow of llp-core (session.rs).                 *)
(*                                                                         *)
(* The VecDeque<bool> is a sequence of Booleans whose last element is the  *)
(* bit of highest_seq.  `accepts' is a history variable, how often each    *)
(* number was answered with true, and `verdict' is the value               *)
(* check_and_update returned last.                                         *)
(***************************************************************************)
EXTENDS Integers, Sequences

CONSTANTS WindowSize,   \* REPLAY_WINDOW_SIZE (256 in the code)
          MaxSeq        \* u32::MAX

ASSUME WindowAssumption == WindowSize \in Nat \ {0} /\ MaxSeq \in Nat

VARIABLES highest_seq, window, accepts, verdict

windowVars == <<highest_seq, window, accepts, verdict>>

Seqs == 0..MaxSeq

WindowInit ==
    /\ highest_seq = 0
    /\ window = <<>>
    /\ accepts = [s \in Seqs |-> 0]
    /\ verdict = FALSE

-----------------------------------------------------------------------------
(* check_and_update(seq), one action per branch.                           *)

Answer(seq) ==
    /\ verdict' = TRUE
    /\ accepts' = [accepts EXCEPT ![seq] = @ + 1]

\* Mutant: the first packet leaves highest_seq at its initial zero.
FirstPacketAtZero(seq) ==
    /\ window = <<>>
    /\ window' = <<TRUE>>
    /\ UNCHANGED highest_seq
    /\ Answer(seq)

FirstPacket(seq) ==
    /\ window = <<>>
    /\ highest_seq' = seq
    /\ window' = <<TRUE>>
    /\ Answer(seq)

\* diff - 1 pushes of false and one of true, each followed by a pop_front
\* when the deque has grown beyond the window size.
Slid(bits, diff) ==
    LET grown   == Len(bits) + diff
        dropped == IF grown > WindowSize THEN grown - WindowSize ELSE 0
    IN  [i \in 1..(grown - dropped) |->
            IF i + dropped <= Len(bits) THEN bits[i + dropped]
                                        ELSE i + dropped = grown]

\* Mutant: the bits slide and highest_seq stays.
SlideToStale(seq) ==
    /\ window # <<>>
    /\ seq > highest_seq
    /\ seq - highest_seq < WindowSize
    /\ window' = Slid(window, seq - highest_seq)
    /\ UNCHANGED highest_seq
    /\ Answer(seq)

SlideTo(seq) ==
    /\ window # <<>>
    /\ seq > highest_seq
    /\ seq - highest_seq < WindowSize
    /\ window' = Slid(window, seq - highest_seq)
    /\ highest_seq' = seq
    /\ Answer(seq)

\* Mutant: without the clear.
JumpToUncleared(seq) ==
    /\ window # <<>>
    /\ seq > highest_seq
    /\ seq - highest_seq >= WindowSize
    /\ highest_seq' = seq
    /\ UNCHANGED window
    /\ Answer(seq)

\* The full shift: the deque is cleared and holds one bit afterwards.
JumpTo(seq) ==
    /\ window # <<>>
    /\ seq > highest_seq
    /\ seq - highest_seq >= WindowSize
    /\ window' = <<TRUE>>
    /\ highest_seq' = seq
    /\ Answer(seq)

\* The position of seq in the deque, for a seq not above highest_seq.
BitOf(seq) == Len(window) - (highest_seq - seq)

\* seq is too old for the deque, or its bit is set.
Refused(seq) ==
    /\ window # <<>>
    /\ seq <= highest_seq
    /\ highest_seq - seq < Len(window) => window[BitOf(seq)]

\* Mutant: the bit of a late packet is not set.
FillGapUnmarked(seq) ==
    /\ window # <<>>
    /\ seq <= highest_seq
    /\ ~Refused(seq)
    /\ UNCHANGED <<window, highest_seq>>
    /\ Answer(seq)

FillGap(seq) ==
    /\ window # <<>>
    /\ seq <= highest_seq
    /\ ~Refused(seq)
    /\ window' = [window EXCEPT ![BitOf(seq)] = TRUE]
    /\ UNCHANGED highest_seq
    /\ Answer(seq)

Refuse(seq) ==
    /\ Refused(seq)
    /\ verdict' = FALSE
    /\ UNCHANGED <<highest_seq, window, accepts>>

CheckAndUpdate(seq) ==
    \/ FirstPacket(seq)
    \/ SlideTo(seq)
    \/ JumpTo(seq)
    \/ FillGap(seq)
    \/ Refuse(seq)

WindowNext == \E seq \in Seqs : CheckAndUpdate(seq)

WindowSpec == WindowInit /\ [][WindowNext]_windowVars

-----------------------------------------------------------------------------
(* Properties.                                                             *)

\* The fields have their types and the deque never outgrows the window size
\* (the pop_front after each push, session.rs:249-260).
WindowTypeOK ==
    /\ highest_seq \in Seqs
    /\ window \in Seq(BOOLEAN)
    /\ Len(window) <= WindowSize
    /\ accepts \in [Seqs -> Nat]
    /\ verdict \in BOOLEAN

\* However packets are reordered and repeated, check_and_update answers true
\* at most once for a sequence number, although the window forgets numbers.
AtMostOnce == \A s \in Seqs : accepts[s] <= 1

\* Nothing above highest_seq was ever accepted, and the deque covers no
\* number below zero.
HighestBounds ==
    /\ window = <<>> => \A s \in Seqs : accepts[s] = 0
    /\ Len(window) <= highest_seq + 1
    /\ \A s \in Seqs : s > highest_seq => accepts[s] = 0

\* The bit mask is exact: a bit of the deque is set if and only if the number
\* it stands for was accepted, across every shift, pop and clear.
MaskIsExact ==
    \A s \in Seqs :
        (s <= highest_seq /\ highest_seq - s < Len(window))
            => (window[BitOf(s)] <=> accepts[s] = 1)

\* The inductive invariant: AtMostOnce is not inductive alone, since the
\* code decides from the mask and not from the history.
WindowInv == WindowTypeOK /\ AtMostOnce /\ HighestBounds /\ MaskIsExact

\* A refusal is final: a sequence number that check_and_update would refuse
\* now stays refused after any further packet (sliding never brings a
\* number back, and a jump forgets only downwards).
RefusalIsFinal == [][\A s \in Seqs : Refused(s) => Refused(s)']_windowVars

\* The bit mask implements the gate that keeps the set of accepted numbers.
Gate == INSTANCE SlidingWindow WITH
            newest   <- highest_seq,
            oldest   <- highest_seq - Len(window) + 1,
            accepted <- {s \in Seqs : accepts[s] > 0}
RefinesGate == Gate!GateSpec
=============================================================================
