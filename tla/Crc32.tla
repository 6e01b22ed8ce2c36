------------------------------- MODULE Crc32 -------------------------------
(***************************************************************************)
(* crc32 of src/microFS.c: the table of remainders, built on the first     *)
(* call, and the loop that takes one byte per step; and its two uses, over *)
(* a whole table from 0xFFFFFFFF (calcTableCRC) and, over a file, call     *)
(* after call from where the last one ended (ufat_fwrite, ufat_fread).     *)
(*                                                                         *)
(* A word or a byte is the set of its bits that are 1, which is also a     *)
(* polynomial over two elements: the set of its exponents.                 *)
(***************************************************************************)
EXTENDS Integers, Sequences

CONSTANTS
  WordBits,     \* 32
  ByteBits,     \* 8
  CRC32_POLY,   \* 0x04c11db7, the generator without its highest exponent
  MaxBytes      \* bound on the bytes a checksum is taken over

ASSUME PolyAssumption ==
  /\ ByteBits \in Nat \ {0} /\ WordBits \in Nat /\ ByteBits <= WordBits /\ MaxBytes \in Nat
  /\ CRC32_POLY \subseteq 0..WordBits - 1 /\ 0 \in CRC32_POLY

VARIABLES
  crc32_table,
  crc,
  crcPc,   \* "idle", or "loop" within crc32
  bytes    \* history: what the checksum was taken over so far

crcVars == <<crc32_table, crc, crcPc, bytes>>

Bytes == SUBSET (0..ByteBits - 1)
AllOnes == 0..WordBits - 1

Xor(a, b) == (a \ b) \cup (b \ a)
ShiftLeft(w, n) == {e + n : e \in w} \cap (0..WordBits - 1)
ShiftRight(w, n) == {e - n : e \in {x \in w : x >= n}}

-----------------------------------------------------------------------------
\* Mutant of TableEntry: the bit that was shifted out is looked for after the shift.
TableEntryLate(i) ==
  LET c[j \in 0..ByteBits] ==
        IF j = 0 THEN ShiftLeft(i, WordBits - ByteBits)
        ELSE LET w == ShiftLeft(c[j - 1], 1)
             IN  IF WordBits - 1 \in w THEN Xor(w, CRC32_POLY) ELSE w
  IN  c[ByteBits]

\* init_crc32 for one byte: the remainder it leaves, bit by bit.
TableEntry(i) ==
  LET c[j \in 0..ByteBits] ==
        IF j = 0 THEN ShiftLeft(i, WordBits - ByteBits)
        ELSE IF WordBits - 1 \in c[j - 1] THEN Xor(ShiftLeft(c[j - 1], 1), CRC32_POLY)
        ELSE ShiftLeft(c[j - 1], 1)
  IN  c[ByteBits]

init_crc32 == [i \in Bytes |-> TableEntry(i)]

\* Built on the first call; the entry of 0 is 0 in a built table too, so that of
\* 1 is looked at.
crc32(seed) ==
  /\ crcPc = "idle"
  /\ crc32_table' = IF crc32_table[{0}] = {} THEN init_crc32 ELSE crc32_table
  /\ crc' = seed
  /\ crcPc' = "loop"

\* Mutant of NextCrc: the byte is added behind the register, not in front.
NextCrcBehind(w, b) ==
  Xor(Xor(ShiftLeft(w, ByteBits), b), crc32_table[ShiftRight(w, WordBits - ByteBits)])

NextCrc(w, b) ==
  Xor(ShiftLeft(w, ByteBits), crc32_table[Xor(ShiftRight(w, WordBits - ByteBits), b)])

crc32Byte(b) ==
  /\ crcPc = "loop" /\ Len(bytes) < MaxBytes
  /\ crc' = NextCrc(crc, b)
  /\ bytes' = Append(bytes, b)
  /\ UNCHANGED <<crc32_table, crcPc>>

crc32Return ==
  /\ crcPc = "loop"
  /\ crcPc' = "idle"
  /\ UNCHANGED <<crc32_table, crc, bytes>>

\* Mutant of Seed: it is 0.
SeedZero == {}

\* 0xFFFFFFFF
Seed == AllOnes

\* A checksum begins; or it goes on with more of the same file.
calcTableCRC == crc32(Seed) /\ bytes' = <<>>
crcOfMore == bytes # <<>> /\ crc32(crc) /\ UNCHANGED bytes

CrcInit ==
  /\ crc32_table = [i \in Bytes |-> {}]
  /\ crc = {} /\ crcPc = "idle" /\ bytes = <<>>

CrcNext ==
  calcTableCRC \/ crcOfMore \/ (\E b \in Bytes : crc32Byte(b)) \/ crc32Return

CrcSpec == CrcInit /\ [][CrcNext]_crcVars

-----------------------------------------------------------------------------
(* What a checksum is: the remainder of a division of polynomials.           *)

\* The bytes as one polynomial, the first byte and its highest bit in front.
Message(s) == UNION {{e + ByteBits * (Len(s) - k) : e \in s[k]} : k \in 1..Len(s)}

\* Long division by x^WordBits + CRC32_POLY, from exponent top down.
Remainder(p, top) ==
  LET r[n \in WordBits - 1..top] ==
        IF n = top THEN p
        ELSE IF n + 1 \in r[n + 1]
             THEN Xor(r[n + 1], {e + n + 1 - WordBits : e \in CRC32_POLY \cup {WordBits}})
             ELSE r[n + 1]
  IN  r[WordBits - 1]

\* The register after all bytes of s, as the loop computes it.
CrcOf(s) ==
  LET c[k \in 0..Len(s)] == IF k = 0 THEN Seed ELSE NextCrc(c[k - 1], s[k])
  IN  c[Len(s)]

\* The messages of s's length that differ from it within WordBits bits in a row.
Damaged(s) ==
  LET bits == ByteBits * Len(s)
      Bursts == UNION {{{e + k : e \in p} : p \in SUBSET (0..WordBits - 1)}
                       : k \in 0..(IF bits > WordBits THEN bits - WordBits ELSE 0)}
      InByte(p, k) == ShiftRight({e \in p : e < ByteBits * (Len(s) - k + 1)},
                                 ByteBits * (Len(s) - k))
  IN  {[k \in DOMAIN s |-> Xor(s[k], InByte(p, k))] :
        p \in {q \in Bursts : q # {} /\ q \subseteq 0..bits - 1}}

\* The table driven loop computes the remainder of what it has read, behind its
\* seed, however the bytes are split into calls.
IsRemainder ==
  bytes # <<>> =>
    crc = Remainder(Xor({e + WordBits : e \in Message(bytes)},
                        {e + ByteBits * Len(bytes) : e \in AllOnes}),
                    WordBits + ByteBits * MaxBytes)

\* A table or a file that was damaged within one word, or anywhere in a row of
\* 32 bits, never has the checksum it had.
BurstsDetected ==
  crcPc = "idle" /\ bytes # <<>> => \A s \in Damaged(bytes) : CrcOf(s) # crc

\* An erased device, zero throughout, has no table that passes for valid: its
\* stored checksum is zero, and that of zeros is not.
BlankRefused == bytes # <<>> /\ (\A k \in DOMAIN bytes : bytes[k] = {}) => crc # {}
=============================================================================
