-------------------------- MODULE MCImageTransfer --------------------------
(***************************************************************************)
(* ImageTransfer with the real checksum, frames of at most four data bytes *)
(* and an image of three packets, the last one short.  The image contains  *)
(* the two header values, so that a receiver out of step meets false frame *)
(* starts inside the data.                                                 *)
(***************************************************************************)
EXTENDS ImageTransfer, Crc16

MCMaxDataLen == 4
MCImage == <<165, 90, 209, 27, 228>>
MCCrc == [s \in Seq(0..255) |-> CRC16_Calculate(s)]
=============================================================================
