----------------------------- MODULE Serialization -----------------------------
(***************************************************************************)
(* How numbers are put into transactions and blocks (engine/lib/util.js),  *)
(* as sequences of bytes, and how a node reads them (Bitcoin's protocol).  *)
(***************************************************************************)
EXTENDS Integers, Sequences, FiniteSets

CONSTANT Word    \* 2^32: packInt64LE writes two words

ASSUME WordAssumption == Word \in Nat \ {0}

\* varIntBuffer, up to 0xffff (see SizesAssumption of BlockAssembly).
VarIntBuffer(n) ==
  IF n < 253 THEN <<n>> ELSE <<253, n % 256, n \div 256>>

\* What a node reads, -1 if bytes are missing.
ReadVarInt(bytes) ==
  CASE bytes[1] < 253  -> bytes[1]
    [] Len(bytes) >= 3 -> bytes[2] + 256 * bytes[3]
    [] OTHER           -> -1

\* The bytes serializeNumber's loop writes, least significant first; a last
\* byte of 0x80 and more would be read as a sign.
SignedBytes[n \in Nat] ==
  IF n <= 127 THEN <<n>> ELSE <<n % 256>> \o SignedBytes[n \div 256]

\* The loop shifts a signed number of 32 bits.
MaxNumber == 2147483647

\* A slip: small numbers have no opcode of their own.
PushBytesAlways(n) == <<Len(SignedBytes[n])>> \o SignedBytes[n]

\* A push of a number: an opcode of its own for 1 .. 16.
SerializeNumber(n) ==
  IF n \in 1 .. 16 THEN <<80 + n>>
  ELSE <<Len(SignedBytes[n])>> \o SignedBytes[n]

\* What a node pushes for n: the least number of bytes that leaves the sign
\* bit free (BIP 34, CScriptNum).
MinimalPush(n) ==
  LET place     == <<1, 256, 256 * 256, 256 * 256 * 256>>
      Digits(l) == [i \in 1 .. l |-> (n \div place[i]) % 256]
      Fits(l)   == n \div place[l] < 128
      length    == CHOOSE l \in 1 .. 4 : Fits(l) /\ (l > 1 => ~Fits(l - 1))
  IN  IF n \in 1 .. 16 THEN <<80 + n>> ELSE <<length>> \o Digits(length)

\* Two words: a number above 2^32 is cut in two.
PackInt64LE(n) == <<n % Word, n \div Word>>
ReadInt64LE(words) == words[1] + Word * words[2]
===============================================================================
