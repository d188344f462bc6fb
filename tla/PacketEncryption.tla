--------------------------- MODULE PacketEncryption ---------------------------
(***************************************************************************)
(* The packets of the C# client (Crypto/PacketEncryption.cs):              *)
(* length, nonce, ciphertext, tag, the length being that of the other      *)
(* three.  What Decrypt is given is a run of bytes from the stream: how    *)
(* many there are, the length they begin with, and whether they begin with *)
(* bytes that Encrypt made.                                                *)
(*                                                                         *)
(* The length is a C# uint: sums wrap, and (int) of its upper half is      *)
(* negative.  Half stands for 2^31.                                        *)
(***************************************************************************)
EXTENDS Integers

CONSTANT Half

LENGTH_SIZE == 4
NONCE_SIZE  == 12
TAG_SIZE    == 16

ASSUME UintAssumption == Half \in Nat /\ Half > LENGTH_SIZE + NONCE_SIZE + TAG_SIZE

Uint == 0..(2 * Half - 1)
UintPlus(m, n) == (m + n) % (2 * Half)
AsInt(n) == IF n < Half THEN n ELSE n - 2 * Half

\* The length that Encrypt writes for a plaintext of that size, and the size
\* of the whole packet.
LengthField(plain) == NONCE_SIZE + plain + TAG_SIZE
FrameSize(plain) == LENGTH_SIZE + LengthField(plain)

Incoming == [size : Nat, length : Uint, genuine : BOOLEAN]

TooShort(p) == p.size < LENGTH_SIZE + NONCE_SIZE + TAG_SIZE

\* Mutant: a packet that fills the read is taken for incomplete.
IncompleteOrExact(p) == p.size <= UintPlus(LENGTH_SIZE, p.length)

Incomplete(p) == p.size < UintPlus(LENGTH_SIZE, p.length)

CiphertextLen(p) == AsInt(p.length) - NONCE_SIZE - TAG_SIZE

\* The checks before the bytes are copied out.
Passes(p) == ~TooShort(p) /\ ~Incomplete(p) /\ CiphertextLen(p) >= 0

\* Decrypt returns a plaintext; otherwise it returns null, and does not tell
\* why.  What follows the packet in the read is not looked at, and neither is
\* the counter in the nonce.
Opens(p) == Passes(p) /\ p.genuine
=============================================================================
