------------------------------- MODULE Crc16 -------------------------------
(***************************************************************************)
(* CRC16_Calculate (User/ch32v30x_it.c): CRC-16/MODBUS, computed bit by    *)
(* bit on a 16-bit register.                                               *)
(*                                                                         *)
(* The register is the set of its bits that are 1, so that `^' is the      *)
(* symmetric difference and `>> 1' moves every bit down by one.            *)
(***************************************************************************)
EXTENDS Naturals, Sequences, FiniteSetsExt

\* A word and the set of its one bits.
Bits(n) == {k \in 0..15 : (n \div 2^k) % 2 = 1}
Word(S) == MapThenSumSet(LAMBDA k : 2^k, S)

XorBits(S, T) == (S \ T) \cup (T \ S)

ShiftRight(S) == {k - 1 : k \in S \ {0}}

Register == SUBSET (0..15)

POLY == {15, 13, 0}          \* 0xA001

\* One round of the inner loop: shift, and feed the polynomial back.
CrcBit[S \in Register] ==
  IF 0 \in S THEN XorBits(ShiftRight(S), POLY) ELSE ShiftRight(S)

\* The eight rounds.
CrcByte[S \in Register] ==
  LET round[j \in 0..8] == IF j = 0 THEN S ELSE CrcBit[round[j - 1]]
  IN  round[8]

\* crc = 0xFFFF; for each byte, crc ^= data[i] and eight rounds.
CRC16_Calculate(data) ==
  LET crc[i \in 0..Len(data)] ==
        IF i = 0 THEN 0..15
        ELSE LET prev == crc[i - 1]
             IN  CrcByte[XorBits(prev, Bits(data[i]))]
  IN  Word(crc[Len(data)])
=============================================================================
