--------------------------- MODULE FrameReceiver ---------------------------
(***************************************************************************)
(* recDataProcessing: the byte-by-byte frame parser that the WiFi UART     *)
(* interrupt runs in data mode (User/ch32v30x_it.c), with the single frame *)
(* buffer g_frame_data and the event bit WIFI_EVENT_RECV it hands to the   *)
(* WiFi thread.                                                            *)
(*                                                                         *)
(* A byte is a number 0..255; `Bytes' is the set of values that can arrive *)
(* on the line.  Each case of the switch is one action.  The diagnostic    *)
(* printf calls are left out.                                              *)
(***************************************************************************)
EXTENDS Naturals, Sequences

CONSTANTS Bytes,        \* values the UART may deliver
          MaxDataLen,   \* MAX_DATA_LEN: 1024 in user.h
          CRC16         \* CRC16_Calculate on a sequence of bytes (module Crc16)

ASSUME BytesAssumption == Bytes \subseteq 0..255
ASSUME MaxDataLenAssumption ==
  MaxDataLen \in Nat /\ 1 <= MaxDataLen /\ MaxDataLen <= 65535

VARIABLES recState,      \* static RecvState_t recState
          data_index,    \* static uint16_t data_index
          \* the fields of g_frame_data, shared with the WiFi thread;
          \* total_packets and current_packet are never used by the source
          cmd_type, cmd, data_len, data_buffer, crc_received,
          event          \* gWifiEventGroup.uwEventID, of which one bit is used

g_frame_data == <<cmd_type, cmd, data_len, data_buffer, crc_received>>

vars == <<recState, data_index, g_frame_data, event>>

FRAME_HEADER1 == 165    \* 0xA5
FRAME_HEADER2 == 90     \* 0x5A

WIFI_EVENT_RECV == 1

RecvState_t == {"HEADER1", "HEADER2", "CMD_TYPE", "CMD", "LEN_HIGH",
                "LEN_LOW", "DATA", "CRC_HIGH", "CRC_LOW"}

UINT16 == {n \in Nat : n <= 65535}

Init == /\ recState = "HEADER1"
        /\ data_index = 0
        /\ cmd_type = 0
        /\ cmd = 0
        /\ data_len = 0
        /\ data_buffer = [i \in 0..(MaxDataLen - 1) |-> 0]
        /\ crc_received = 0
        /\ event = 0
-----------------------------------------------------------------------------
\* crc_data: what CRC_LOW checks, taken back out of g_frame_data.
CrcData ==
  [i \in 1..(data_len + 4) |->
     CASE i = 1 -> cmd_type
       [] i = 2 -> cmd
       [] i = 3 -> data_len \div 256
       [] i = 4 -> data_len % 256
       [] OTHER -> data_buffer[i - 5]]

ReceiveHeader1(data) ==
  /\ recState = "HEADER1"
  /\ recState' = IF data = FRAME_HEADER1 THEN "HEADER2" ELSE "HEADER1"
  /\ UNCHANGED <<data_index, g_frame_data, event>>

\* A mismatch does not look at the byte again as a possible FRAME_HEADER1.
ReceiveHeader2(data) ==
  /\ recState = "HEADER2"
  /\ recState' = IF data = FRAME_HEADER2 THEN "CMD_TYPE" ELSE "HEADER1"
  /\ UNCHANGED <<data_index, g_frame_data, event>>

ReceiveCmdType(data) ==
  /\ recState = "CMD_TYPE"
  /\ cmd_type' = data
  /\ recState' = "CMD"
  /\ UNCHANGED <<data_index, cmd, data_len, data_buffer, crc_received, event>>

ReceiveCmd(data) ==
  /\ recState = "CMD"
  /\ cmd' = data
  /\ recState' = "LEN_HIGH"
  /\ UNCHANGED <<data_index, cmd_type, data_len, data_buffer, crc_received, event>>

\* Mutant: the shift by eight is forgotten.
ReceiveLenHighUnshifted(data) ==
  /\ recState = "LEN_HIGH"
  /\ data_len' = data
  /\ recState' = "LEN_LOW"
  /\ UNCHANGED <<data_index, cmd_type, cmd, data_buffer, crc_received, event>>

ReceiveLenHigh(data) ==
  /\ recState = "LEN_HIGH"
  /\ data_len' = data * 256
  /\ recState' = "LEN_LOW"
  /\ UNCHANGED <<data_index, cmd_type, cmd, data_buffer, crc_received, event>>

\* Mutant: the length is not compared with MAX_DATA_LEN.
ReceiveLenLowUnbounded(data) ==
  /\ recState = "LEN_LOW"
  /\ data_len' = data_len + data
  /\ data_index' = 0
  /\ recState' = IF data_len' > 0 THEN "DATA" ELSE "HEADER1"
  /\ UNCHANGED <<cmd_type, cmd, data_buffer, crc_received, event>>

\* A refused length stays in data_len.  `|=' is an addition: the low byte is
\* zero since ReceiveLenHigh.
ReceiveLenLow(data) ==
  /\ recState = "LEN_LOW"
  /\ data_len' = data_len + data
  /\ \/ /\ data_len' > 0 /\ data_len' <= MaxDataLen
        /\ data_index' = 0
        /\ recState' = "DATA"
     \/ /\ ~(data_len' > 0 /\ data_len' <= MaxDataLen)
        /\ recState' = "HEADER1"
        /\ UNCHANGED data_index
  /\ UNCHANGED <<cmd_type, cmd, data_buffer, crc_received, event>>

\* Mutant: the room test is off by one, so the last byte never fits.
ReceiveDataOffByOne(data) ==
  /\ recState = "DATA"
  /\ IF data_index < data_len - 1
     THEN /\ data_buffer' = [data_buffer EXCEPT ![data_index] = data]
          /\ data_index' = data_index + 1
          /\ recState' = IF data_index' >= data_len THEN "CRC_HIGH" ELSE "DATA"
     ELSE UNCHANGED <<recState, data_index, data_buffer>>
  /\ UNCHANGED <<cmd_type, cmd, data_len, crc_received, event>>

\* A byte that finds data_index at data_len is dropped in RECV_STATE_DATA.
ReceiveData(data) ==
  /\ recState = "DATA"
  /\ IF data_index < data_len
     THEN /\ data_buffer' = [data_buffer EXCEPT ![data_index] = data]
          /\ data_index' = data_index + 1
          /\ recState' = IF data_index' >= data_len THEN "CRC_HIGH" ELSE "DATA"
     ELSE UNCHANGED <<recState, data_index, data_buffer>>
  /\ UNCHANGED <<cmd_type, cmd, data_len, crc_received, event>>

ReceiveCrcHigh(data) ==
  /\ recState = "CRC_HIGH"
  /\ crc_received' = data * 256
  /\ recState' = "CRC_LOW"
  /\ UNCHANGED <<data_index, cmd_type, cmd, data_len, data_buffer, event>>

\* Mutant: the event counts frames instead of setting a bit.
ReceiveCrcLowCounting(data) ==
  /\ recState = "CRC_LOW"
  /\ crc_received' = crc_received + data
  /\ event' = IF crc_received' = CRC16[CrcData] THEN event + 1 ELSE event
  /\ data_index' = 0
  /\ recState' = "HEADER1"
  /\ UNCHANGED <<cmd_type, cmd, data_len, data_buffer>>

\* Mutant: the checksum is received and not compared.
ReceiveCrcLowUnchecked(data) ==
  /\ recState = "CRC_LOW"
  /\ crc_received' = crc_received + data
  /\ event' = WIFI_EVENT_RECV
  /\ data_index' = 0
  /\ recState' = "HEADER1"
  /\ UNCHANGED <<cmd_type, cmd, data_len, data_buffer>>

\* LOS_EventWrite sets the bit; a bit already set absorbs the new frame.
ReceiveCrcLow(data) ==
  /\ recState = "CRC_LOW"
  /\ crc_received' = crc_received + data
  /\ event' = IF crc_received' = CRC16[CrcData] THEN WIFI_EVENT_RECV ELSE event
  /\ data_index' = 0
  /\ recState' = "HEADER1"
  /\ UNCHANGED <<cmd_type, cmd, data_len, data_buffer>>

recDataProcessing(data) ==
  \/ ReceiveHeader1(data)  \/ ReceiveHeader2(data)
  \/ ReceiveCmdType(data)  \/ ReceiveCmd(data)
  \/ ReceiveLenHigh(data)  \/ ReceiveLenLow(data)
  \/ ReceiveData(data)
  \/ ReceiveCrcHigh(data)  \/ ReceiveCrcLow(data)

\* The WiFi thread's LOS_EventRead with LOS_WAITMODE_CLR.
TakeEvent == /\ event = WIFI_EVENT_RECV
             /\ event' = 0
             /\ UNCHANGED <<recState, data_index, g_frame_data>>

Interrupt == \E data \in Bytes : recDataProcessing(data)

Next == Interrupt \/ TakeEvent

Spec == Init /\ [][Next]_vars

\* The peer keeps sending: every byte raises the interrupt, which runs to its end.
FairSpec == Spec /\ WF_vars(Interrupt)
-----------------------------------------------------------------------------
\* Every variable holds a value of its C type; an index fits the buffer.
TypeOK == /\ recState \in RecvState_t
          /\ data_index \in 0..MaxDataLen
          /\ cmd_type \in 0..255
          /\ cmd \in 0..255
          /\ data_len \in UINT16
          /\ data_buffer \in [0..(MaxDataLen - 1) -> 0..255]
          /\ crc_received \in UINT16
          /\ event \in {0, WIFI_EVENT_RECV}

\* The number of bytes of the frame in progress read so far.
Held == CASE recState = "HEADER1"  -> 0
          [] recState = "HEADER2"  -> 1
          [] recState = "CMD_TYPE" -> 2
          [] recState = "CMD"      -> 3
          [] recState = "LEN_HIGH" -> 4
          [] recState = "LEN_LOW"  -> 5
          [] recState = "DATA"     -> 6 + data_index
          [] recState = "CRC_HIGH" -> 6 + data_len
          [] recState = "CRC_LOW"  -> 7 + data_len

\* The i-th byte of the frame in progress, read back from g_frame_data.
WireByte(i) == CASE i = 1 -> FRAME_HEADER1
                 [] i = 2 -> FRAME_HEADER2
                 [] i = 3 -> cmd_type
                 [] i = 4 -> cmd
                 [] i = 5 -> data_len \div 256
                 [] i = 6 -> data_len % 256
                 [] i > 6 /\ i <= 6 + data_len
                      -> data_buffer[i - 7]
                 [] OTHER -> crc_received \div 256

\* The refinement mapping: the candidate frame is exactly what the receiver holds.
Buf == [i \in 1..Held |-> WireByte(i)]

Stream == INSTANCE FrameStream WITH buf <- Buf

\* The receiver raises the event for exactly the byte strings the line protocol
\* calls a frame, whatever noise came before: recDataProcessing never accepts a
\* frame with a stale field, a stale length or a checksum over other bytes.
ImplementsFrameStream == Stream!Spec

\* The store of RECV_STATE_DATA never leaves data_buffer, and the state never
\* starts with its buffer already full.
DataInBounds == recState = "DATA" =>
                  /\ data_index < data_len
                  /\ data_len <= MaxDataLen

\* The fields a later state relies on are complete: the length is a legal one
\* until the frame ends, and the low byte that `|=' fills in is still clear.
FieldsReady ==
  /\ recState \in {"DATA", "CRC_HIGH", "CRC_LOW"} =>
       data_len \in 1..MaxDataLen
  /\ recState = "LEN_LOW" => \E h \in 0..255 : data_len = h * 256
  /\ recState = "CRC_LOW" => \E h \in 0..255 : crc_received = h * 256

\* No byte sequence wedges the parser: as long as bytes arrive it is back at
\* RECV_STATE_HEADER1, ready for the next frame, again and again.
AlwaysResyncs == []<>(recState = "HEADER1")
=============================================================================
