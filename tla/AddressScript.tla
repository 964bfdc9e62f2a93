----------------------------- MODULE AddressScript -----------------------------
(***************************************************************************)
(* From an address to the script that pays to it (engine/lib/util.js).     *)
(* A bech32 address is what its checksum protects: the witness version and *)
(* the program in symbols of 5 bits; a base58 address is its bytes.        *)
(***************************************************************************)
EXTENDS Integers, SequencesExt

CONSTANT AccSize   \* numbers the accumulator can hold: 2^32 in JavaScript

ASSUME AccAssumption == AccSize \in Nat \ {0} /\ AccSize % 4096 = 0

Invalid == <<>>    \* null, or an exception

\* One pass of the loop of bech32ConvertBits(symbols, 5, 8, false).  The accumulator
\* is never masked and overflows with the seventh symbol; only its low bits are used.
Feed(s, v) ==
  LET acc  == (32 * s.acc + v) % AccSize
      bits == s.bits + 5
  IN  IF bits >= 8
      THEN [acc |-> acc, bits |-> bits - 8, ret |-> Append(s.ret, (acc \div 2^(bits - 8)) % 256)]
      ELSE [acc |-> acc, bits |-> bits, ret |-> s.ret]

\* After each symbol.
Fed(symbols) ==
  LET fed[j \in 0 .. Len(symbols)] ==
        IF j = 0 THEN [acc |-> 0, bits |-> 0, ret |-> <<>>] ELSE Feed(fed[j - 1], symbols[j])
  IN  fed

\* A slip: the program may end in the middle of a byte.
ConvertBitsLoosely(symbols) == Fed(symbols)[Len(symbols)].ret

\* What is left over are less than 5 bits, and zero.
ConvertBits(symbols) ==
  LET end == Fed(symbols)[Len(symbols)]
  IN  IF end.bits >= 5 \/ end.acc % 2^end.bits # 0 THEN Invalid ELSE end.ret

VersionByte(version) == IF version = 0 THEN 0 ELSE 80 + version

SegwitAddressToScript(symbols) ==
  LET version == symbols[1]
      program == ConvertBits(Tail(symbols))
  IN  IF version > 16 \/ Len(program) \notin 2 .. 40
         \/ (version = 0 /\ Len(program) \notin {20, 32})
      THEN Invalid
      ELSE <<VersionByte(version), Len(program)>> \o program

\* base58: a version byte, 20 bytes of hash, 4 of checksum.
HashScript(hash) == <<118, 169, 20>> \o hash \o <<136, 172>>

AddressToScript(address) ==
  IF address.kind = "bech32" THEN SegwitAddressToScript(address.data)
  ELSE IF Len(address.data) = 25 THEN HashScript(SubSeq(address.data, 2, 21))
  ELSE Invalid

-------------------------------------------------------------------------------
(* What the address stands for (BIP 173). *)

Byte(program, q) == IF q < Len(program) THEN program[q + 1] ELSE 0

\* The 5 bits of the program from bit k on, which two bytes hold.
FiveBits(program, k) ==
  ((256 * Byte(program, k \div 8) + Byte(program, k \div 8 + 1)) \div 2^(11 - (k % 8))) % 32

SegwitSymbols(version, program) ==
  <<version>> \o [j \in 1 .. (8 * Len(program) + 4) \div 5 |-> FiveBits(program, 5 * (j - 1))]

\* The script pays to the witness program, or the hash, that the address names.
PaysTo(script, address) ==
  IF address.kind = "bech32"
  THEN LET version == address.data[1]
           program == SubSeq(script, 3, Len(script))
       IN  /\ script = <<VersionByte(version), Len(program)>> \o program
           /\ \A i \in DOMAIN program : program[i] \in 0 .. 255
           /\ address.data = SegwitSymbols(version, program)
  ELSE script = HashScript(SubSeq(address.data, 2, 21))
===============================================================================
