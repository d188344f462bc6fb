---------------------------- MODULE SlidingWindow ----------------------------
(***************************************************************************)
(* What the replay window of llp-core promises, without its bit mask: a    *)
(* gate that looks at sequence numbers and remembers which ones it let     *)
(* through.  Between `oldest' and `newest' it decides exactly, from the    *)
(* set `accepted'; above `newest' everything is new; below `oldest' it has *)
(* forgotten, and refuses.                                                 *)
(*                                                                         *)
(* ReplayWindow implements this specification (property RefinesGate).      *)
(***************************************************************************)
EXTENDS Integers

CONSTANTS WindowSize,   \* how many numbers the gate can decide exactly
          MaxSeq        \* the largest sequence number

VARIABLES newest,       \* the largest number let through
          oldest,       \* the smallest number still decided exactly
          accepted,     \* the numbers let through so far
          verdict       \* the answer given last

gateVars == <<newest, oldest, accepted, verdict>>

GateInit ==
    /\ newest = 0
    /\ oldest = 1          \* an empty range: nothing was let through yet
    /\ accepted = {}
    /\ verdict = FALSE

\* The gate lets s through: it is beyond everything seen, or it is in the
\* range that is still decided exactly and was not let through before.
Admissible(s) ==
    \/ oldest > newest
    \/ s > newest
    \/ s >= oldest /\ s \notin accepted

Larger(a, b) == IF a > b THEN a ELSE b

Admit(s) ==
    /\ Admissible(s)
    /\ accepted' = accepted \union {s}
    /\ newest' = IF oldest > newest THEN s ELSE Larger(newest, s)
    /\ oldest' = IF oldest > newest \/ s - newest >= WindowSize
                 THEN s
                 ELSE Larger(oldest, newest' - WindowSize + 1)
    /\ verdict' = TRUE

TurnAway(s) ==
    /\ ~Admissible(s)
    /\ verdict' = FALSE
    /\ UNCHANGED <<newest, oldest, accepted>>

GateNext == \E s \in 0..MaxSeq : Admit(s) \/ TurnAway(s)

GateSpec == GateInit /\ [][GateNext]_gateVars
=============================================================================
