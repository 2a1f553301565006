---------------------------- MODULE FrameStream ----------------------------
(***************************************************************************)
(* What the frame receiver promises, stated on the raw bytes of the line.  *)
(*                                                                         *)
(* `buf' is the candidate frame: the bytes read since the last resync.  A  *)
(* byte that makes the candidate impossible throws it away (the byte       *)
(* included); the byte that completes it raises the event if and only if   *)
(* the two last bytes are the CRC, high byte first, of everything between  *)
(* the headers and themselves.  Nothing else raises the event.             *)
(*                                                                         *)
(* FrameReceiver implements this specification: see its refinement         *)
(* mapping.                                                                *)
(***************************************************************************)
EXTENDS Naturals, Sequences

CONSTANTS Bytes, MaxDataLen, CRC16

VARIABLES buf,        \* the candidate frame, as it came off the line
          event       \* 1 when WIFI_EVENT_RECV is pending

vars == <<buf, event>>

\* The length field of a candidate that holds its first six bytes.
DataLen(s) == s[5] * 256 + s[6]

\* No byte of s contradicts the frame format.
Viable(s) == /\ Len(s) >= 1 => s[1] = 165
             /\ Len(s) >= 2 => s[2] = 90
             /\ Len(s) >= 6 => DataLen(s) \in 1..MaxDataLen

Complete(s) == Len(s) >= 6 /\ Len(s) = DataLen(s) + 8

\* The checksummed part: type, command, length and data.
Body(s) == [i \in 1..(DataLen(s) + 4) |-> s[i + 2]]

Checksum(s) == s[Len(s) - 1] * 256 + s[Len(s)]

Init == buf = << >> /\ event = 0

Reject(s) == /\ ~Viable(s)
             /\ buf' = << >>
             /\ UNCHANGED event

Extend(s) == /\ Viable(s)
             /\ ~Complete(s)
             /\ buf' = s
             /\ UNCHANGED event

Finish(s) == /\ Viable(s)
             /\ Complete(s)
             /\ buf' = << >>
             /\ event' = IF Checksum(s) = CRC16[Body(s)] THEN 1 ELSE event

Receive(data) == LET s == Append(buf, data)
                 IN  Reject(s) \/ Extend(s) \/ Finish(s)

Take == event = 1 /\ event' = 0 /\ UNCHANGED buf

Next == (\E data \in Bytes : Receive(data)) \/ Take

Spec == Init /\ [][Next]_vars
=============================================================================
