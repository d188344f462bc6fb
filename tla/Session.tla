------------------------------- MODULE Session -------------------------------
(***************************************************************************)
(* One direction of an established LLP session (struct Session, llp-core   *)
(* session.rs): the sender numbers and seals payloads with encrypt_payload,*)
(* the receiver checks the number against its replay window and opens them *)
(* with decrypt_payload.  Whatever was sent stays in `sent', so a packet   *)
(* may arrive late, again, or never; a packet may also arrive damaged, with*)
(* any sequence number in its header.                                      *)
(*                                                                         *)
(* The clock fields of Session are in SessionManager.                      *)
(***************************************************************************)
EXTENDS ReplayWindow

CONSTANTS RekeyAt,     \* 2^31, where rekey_required is raised
          MaxNonce     \* u64::MAX, the last value of the cipher's counter

ASSUME SessionAssumption ==
    RekeyAt \in 1..MaxSeq /\ MaxNonce \in Nat /\ MaxSeq < MaxNonce

VARIABLES
    tx_sequence,       \* the number of the next packet
    nonce,             \* counter of tx_cipher's nonce
    rekey_required,
    tx_result,         \* what encrypt_payload returned last
    sent,              \* the packets returned by encrypt_payload
    opened,            \* history: how often each number's plaintext was returned
    rx_result          \* what decrypt_payload returned last

txVars == <<tx_sequence, nonce, rekey_required, tx_result, sent>>
rxVars == <<highest_seq, window, accepts, verdict, opened, rx_result>>
sessionVars == <<txVars, rxVars>>

Packet == [seq : Seqs, nonce : 0..MaxNonce]

SessionInit ==
    /\ WindowInit
    /\ tx_sequence = 0
    /\ nonce = 0
    /\ rekey_required = FALSE
    /\ tx_result = "none"
    /\ sent = {}
    /\ opened = [s \in Seqs |-> 0]
    /\ rx_result = "none"

-----------------------------------------------------------------------------
(* encrypt_payload, one action per way it returns.                         *)

\* Mutant: the counter moves although the cipher failed.
CipherFailsLate ==
    /\ nonce < MaxNonce
    /\ nonce' = nonce + 1
    /\ tx_result' = "EncryptionError"
    /\ UNCHANGED <<tx_sequence, rekey_required, sent, rxVars>>

\* AeadCipher::encrypt fails before anything changes: the AEAD refuses the
\* plaintext, or the nonce counter cannot be incremented.
CipherFails ==
    /\ tx_result' \in {"EncryptionError"} \union
                      (IF nonce = MaxNonce THEN {"NonceOverflow"} ELSE {})
    /\ UNCHANGED <<tx_sequence, nonce, rekey_required, sent, rxVars>>

\* Mutant: the sequence is read after it was incremented.
NumberedLate ==
    /\ nonce < MaxNonce
    /\ tx_sequence < MaxSeq
    /\ sent' = sent \union {[seq |-> tx_sequence + 1, nonce |-> nonce]}
    /\ nonce' = nonce + 1
    /\ tx_sequence' = tx_sequence + 1
    /\ rekey_required' = (rekey_required \/ tx_sequence' >= RekeyAt)
    /\ tx_result' = "ok"
    /\ UNCHANGED rxVars

\* The payload is sealed with the current nonce and numbered.
Numbered ==
    /\ nonce < MaxNonce
    /\ tx_sequence < MaxSeq
    /\ sent' = sent \union {[seq |-> tx_sequence, nonce |-> nonce]}
    /\ nonce' = nonce + 1
    /\ tx_sequence' = tx_sequence + 1
    /\ rekey_required' = (rekey_required \/ tx_sequence' >= RekeyAt)
    /\ tx_result' = "ok"
    /\ UNCHANGED rxVars

\* checked_add overflows after the cipher has moved on: the ciphertext is
\* dropped and the caller is told to rekey.
NumbersRunOut ==
    /\ nonce < MaxNonce
    /\ tx_sequence = MaxSeq
    /\ nonce' = nonce + 1
    /\ tx_result' = "RekeyRequired"
    /\ UNCHANGED <<tx_sequence, rekey_required, sent, rxVars>>

EncryptPayload == CipherFails \/ Numbered \/ NumbersRunOut

-----------------------------------------------------------------------------
(* decrypt_payload.                                                        *)

\* Mutant: the answer of the window is not looked at.
DecryptAnyway(seq, genuine) ==
    /\ genuine => \E p \in sent : p.seq = seq
    /\ CheckAndUpdate(seq)
    /\ LET opens == genuine /\ [seq |-> seq, nonce |-> seq] \in sent
       IN  /\ rx_result' = IF opens THEN "ok" ELSE "DecryptionError"
           /\ opened' = IF opens THEN [opened EXCEPT ![seq] = @ + 1] ELSE opened
    /\ UNCHANGED txVars

\* AeadCipher::decrypt: the receiver rebuilds the nonce from the sequence
\* number, so an undamaged packet opens if it was sealed under it.
CipherOpens(seq, genuine) == genuine /\ [seq |-> seq, nonce |-> seq] \in sent

DecryptPayload(seq, genuine) ==
    /\ genuine => \E p \in sent : p.seq = seq
    /\ CheckAndUpdate(seq)
    /\ LET opens == CipherOpens(seq, genuine)
       IN  /\ rx_result' = CASE ~verdict'          -> "DuplicateSequenceNumber"
                             [] verdict' /\ opens  -> "ok"
                             [] verdict' /\ ~opens -> "DecryptionError"
           /\ opened' = IF verdict' /\ opens
                        THEN [opened EXCEPT ![seq] = @ + 1]
                        ELSE opened
    /\ UNCHANGED txVars

SessionNext ==
    \/ EncryptPayload
    \/ \E seq \in Seqs, genuine \in BOOLEAN : DecryptPayload(seq, genuine)

SessionSpec == SessionInit /\ [][SessionNext]_sessionVars

-----------------------------------------------------------------------------
(* Properties.                                                             *)

SessionTypeOK ==
    /\ WindowTypeOK
    /\ tx_sequence \in Seqs
    /\ nonce \in 0..MaxNonce
    /\ rekey_required \in BOOLEAN
    /\ tx_result \in {"none", "ok", "EncryptionError", "NonceOverflow", "RekeyRequired"}
    /\ sent \subseteq Packet
    /\ opened \in [Seqs -> Nat]
    /\ rx_result \in {"none", "ok", "DuplicateSequenceNumber", "DecryptionError"}

\* The cipher's counter and the packet's number are kept apart in the code
\* (crypto.rs:231 and session.rs:105) yet always agree on what is sent:
\* packet n was sealed with nonce n, none is numbered twice or left out, and
\* a failed encryption between two packets does not part them.
NumberIsNonce ==
    sent = {[seq |-> n, nonce |-> n] : n \in 0..(tx_sequence - 1)}

\* Once the numbers run out (u32::MAX) the two counters part for good; until
\* then they are equal, also after errors.
CountersInStep == IF tx_sequence < MaxSeq THEN nonce = tx_sequence
                                          ELSE nonce >= tx_sequence

\* A plaintext is returned at most once, only for a packet that was sent, and
\* only for a number the window let through.
OpenedOnce ==
    \A s \in Seqs : /\ opened[s] <= accepts[s]
                    /\ opened[s] <= 1
                    /\ opened[s] > 0 => \E p \in sent : p.seq = s

\* decrypt_payload marks the window before it authenticates (session.rs:129,
\* 137): when a damaged packet has used up a number, the genuine packet of
\* that number is never opened, however often it is repeated.
UsedUpIsLost ==
    [][\A s \in Seqs : accepts[s] > opened[s] => opened'[s] = opened[s]]_sessionVars

\* The inductive invariant of a session.
SessionInv == WindowInv /\ SessionTypeOK /\ NumberIsNonce /\ CountersInStep /\ OpenedOnce
=============================================================================
