-------------------------- MODULE MCFrameReceiver --------------------------
(***************************************************************************)
(* FrameReceiver on a line that carries any sequence of four byte values,  *)
(* with the real checksum.  A5 5A 02 5A 00 02 A5 02 A5 02 is a frame all   *)
(* of whose bytes, checksum included, are among the four.                  *)
(***************************************************************************)
EXTENDS FrameReceiver, Crc16

MCBytes == {165, 90, 0, 2}
MCMaxDataLen == 2

Bodies == {<<t, c, 0, 2, d, e>> : t, c, d, e \in MCBytes}
CrcTable == [s \in Bodies |-> CRC16_Calculate(s)]
=============================================================================
