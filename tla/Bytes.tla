-------------------------------- MODULE Bytes --------------------------------
(***************************************************************************)
(* The bytes of Go and the operators of the parsers on them: tests of one  *)
(* bit, and exclusive or.                                                  *)
(***************************************************************************)
EXTENDS Integers

Byte == 0..255

BitMasks == {1, 2, 4, 8, 16, 32, 64, 128}

\* byte & mask != 0, for a mask of one bit.
Has(byte, mask) == (byte \div mask) % 2 = 1

\* a ^ b, bit by bit.
Xor(a, b) ==
    LET bit(mask) == mask * (((a \div mask) + (b \div mask)) % 2)
    IN  bit(1) + bit(2) + bit(4) + bit(8) + bit(16) + bit(32) + bit(64) + bit(128)

=============================================================================
