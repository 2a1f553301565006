--------------------------- MODULE ImageTransfer ---------------------------
(***************************************************************************)
(* One image on its way from the sender to the e-ink panel.                *)
(*                                                                         *)
(*   sender --bytes--> UART interrupt --g_frame_data, event--> WiFi thread *)
(*          (FrameReceiver)                              --SPI--> panel    *)
(*                                                                         *)
(* The interrupt preempts the thread between any two of its accesses to    *)
(* g_frame_data; no lock protects the frame.  The thread's reads are       *)
(* separate steps, in the order the firmware image makes them (ProcessFrame*)
(* in obj/WCH-CH32V307VCT6-Eink-LiteOS.lst: type, command, length, packet  *)
(* number, packet count).  The panel is the external part: a RAM filled    *)
(* since the last command 0x10, shown by command 0x12, and deaf to         *)
(* everything but a reset while it is in deep sleep.                       *)
(*                                                                         *)
(* The sender does not wait for the thread, and the interrupt does not     *)
(* look whether the thread is through with the frame before it stores into *)
(* it: the history `torn' says that this has gone wrong once.              *)
(***************************************************************************)
EXTENDS Naturals, Sequences

CONSTANTS Image,          \* the image sent, a sequence of bytes
          MaxDataLen,     \* MAX_DATA_LEN
          CRC16,          \* CRC16_Calculate
          MaxLost         \* bytes the line may lose (UART overrun)

ASSUME TransferAssumption == /\ MaxDataLen \in Nat /\ MaxDataLen > 2 /\ MaxDataLen <= 65535
                             /\ MaxLost \in Nat

VARIABLES recState, data_index, cmd_type, cmd, data_len, data_buffer,
          crc_received, event,                  \* the interrupt (FrameReceiver)
          next, wire, lost,                     \* the sender and the line
          pc, packet_num, total_packets, image_data_len, i,  \* the WiFi thread
          awake, ram, shown,                    \* the panel
          torn    \* history: the interrupt stored into a field the thread has yet to read

Receiver == INSTANCE FrameReceiver WITH Bytes <- 0..255

isrVars    == <<recState, data_index, cmd_type, cmd, data_len, data_buffer,
                crc_received, event>>
lineVars   == <<next, wire, lost>>
threadVars == <<pc, packet_num, total_packets, image_data_len, i>>
panelVars  == <<awake, ram, shown>>
vars == <<isrVars, lineVars, threadVars, panelVars, torn>>
-----------------------------------------------------------------------------
(* The sender *)

MAX_IMAGE_DATA_LEN == MaxDataLen - 2
TotalPackets == (Len(Image) + MAX_IMAGE_DATA_LEN - 1) \div MAX_IMAGE_DATA_LEN

Min2(a, b) == IF a < b THEN a ELSE b

\* The slice of the image that packet k carries.
Chunk(k) == SubSeq(Image, (k - 1) * MAX_IMAGE_DATA_LEN + 1,
                          Min2(k * MAX_IMAGE_DATA_LEN, Len(Image)))

\* What the checksum of frame k covers.
Body(k) ==
  <<209, 1, (Len(Chunk(k)) + 2) \div 256, (Len(Chunk(k)) + 2) % 256,
    TotalPackets, k>> \o Chunk(k)

\* create_frame: the checksum covers what follows the two headers.
Frame(k) ==
  <<165, 90>> \o Body(k) \o <<CRC16[Body(k)] \div 256, CRC16[Body(k)] % 256>>

\* The packets are numbered in one byte, and a checksum has two.
ASSUME ImageAssumption ==
  /\ Image \in Seq(0..255) /\ Image # << >>
  /\ TotalPackets <= 255
  /\ \A k \in 1..TotalPackets : CRC16[Body(k)] \in Receiver!UINT16
-----------------------------------------------------------------------------
(* The panel as EPD.c drives it *)

Color_get(color) == CASE color = 0 -> 0     \* EPD_COLOR_BLACK
                      [] color = 1 -> 1     \* EPD_COLOR_WHITE
                      [] color = 2 -> 2     \* EPD_COLOR_YELLOW
                      [] color = 3 -> 3     \* EPD_COLOR_RED
                      [] OTHER -> 1

\* Four two-bit pixels, each translated by Color_get.
PanelByte(b) == Color_get(b \div 64) * 64 + Color_get((b \div 16) % 4) * 16
                + Color_get((b \div 4) % 4) * 4 + Color_get(b % 4)

\* What memory holds behind data_buffer.
BEYOND == 256

EPD_Init_Fast == awake' = TRUE /\ UNCHANGED <<ram, shown>>

StartTransfer == ram' = (IF awake THEN << >> ELSE ram) /\ UNCHANGED <<awake, shown>>

EPD_WriteDATA(b) == ram' = (IF awake THEN Append(ram, b) ELSE ram)
                    /\ UNCHANGED <<awake, shown>>

EPD_Update == shown' = (IF awake THEN Append(shown, ram) ELSE shown)
              /\ UNCHANGED <<awake, ram>>

EPD_Sleep == awake' = FALSE /\ UNCHANGED <<ram, shown>>
-----------------------------------------------------------------------------
Init == /\ Receiver!Init
        /\ next = 1 /\ wire = << >> /\ lost = 0
        /\ pc = "wait" /\ packet_num = 0 /\ total_packets = 0
        /\ image_data_len = 0 /\ i = 0
        /\ awake = FALSE /\ ram = << >> /\ shown = << >>
        /\ torn = FALSE

Idle == pc = "wait" /\ event = 0

\* pack_image_to_frames: the frames go out one after the other, and nobody asks
\* whether the thread is ready for them.
SendFrame == /\ next <= TotalPackets
             /\ wire = << >>
             /\ wire' = Frame(next)
             /\ next' = next + 1
             /\ UNCHANGED <<lost, isrVars, threadVars, panelVars, torn>>

\* What the thread has still to read of the frame it was told of, or is about to
\* be told of: the fields, and the cells of data_buffer.
TypeUnread == event = 1 \/ pc = "type"
CmdUnread  == event = 1 \/ pc \in {"type", "cmd"}
LenUnread  == event = 1 \/ pc \in {"type", "cmd", "len"}
CellUnread(j) ==
  \/ LenUnread
  \/ /\ j < image_data_len + 2
     /\ \/ pc = "packet"
        \/ pc = "total" /\ j # 1
        \/ pc \in {"wake", "start"} /\ j >= 2
        \/ pc = "copy" /\ j >= i + 2

\* The store that recDataProcessing makes in its present state hits such a part.
Tears == \/ recState = "CMD_TYPE" /\ TypeUnread
         \/ recState = "CMD" /\ CmdUnread
         \/ recState \in {"LEN_HIGH", "LEN_LOW"} /\ LenUnread
         \/ recState = "DATA" /\ CellUnread(data_index)

\* A byte arrives: the interrupt runs recDataProcessing to its end.
Deliver == /\ wire # << >>
           /\ Receiver!recDataProcessing(Head(wire))
           /\ wire' = Tail(wire)
           /\ torn' = (torn \/ Tears)
           /\ UNCHANGED <<next, lost, threadVars, panelVars>>

\* A byte is lost: the interrupt was still printing when the next one came.
Lose == /\ wire # << >>
        /\ lost < MaxLost
        /\ lost' = lost + 1
        /\ wire' = Tail(wire)
        /\ UNCHANGED <<next, isrVars, threadVars, panelVars, torn>>

\* LOS_EventRead(WIFI_EVENT_RECV, AND|CLR, FOREVER) returns.
EventRead == /\ pc = "wait"
             /\ Receiver!TakeEvent
             /\ pc' = "type"
             /\ UNCHANGED <<lineVars, packet_num, total_packets, image_data_len,
                            i, panelVars, torn>>

ReadType == /\ pc = "type"
            /\ pc' = IF cmd_type = 209 THEN "cmd" ELSE "wait"
            /\ UNCHANGED <<isrVars, lineVars, packet_num, total_packets,
                           image_data_len, i, panelVars, torn>>

ReadCmd == /\ pc = "cmd"
           /\ pc' = IF cmd = 1 THEN "len" ELSE "wait"
           /\ UNCHANGED <<isrVars, lineVars, packet_num, total_packets,
                          image_data_len, i, panelVars, torn>>

ReadLen == /\ pc = "len"
           /\ IF data_len > 2
              THEN pc' = "packet" /\ image_data_len' = data_len - 2
              ELSE pc' = "wait" /\ UNCHANGED image_data_len
           /\ UNCHANGED <<isrVars, lineVars, packet_num, total_packets, i, panelVars, torn>>

ReadPacketNum == /\ pc = "packet"
                 /\ packet_num' = data_buffer[1]
                 /\ pc' = "total"
                 /\ UNCHANGED <<isrVars, lineVars, total_packets,
                                image_data_len, i, panelVars, torn>>

ReadTotal == /\ pc = "total"
             /\ total_packets' = data_buffer[0]
             /\ pc' = "wake"
             /\ UNCHANGED <<isrVars, lineVars, packet_num,
                            image_data_len, i, panelVars, torn>>

\* ProcessImageData: the first packet wakes the panel.
Wake == /\ pc = "wake"
        /\ IF packet_num = 1 THEN EPD_Init_Fast ELSE UNCHANGED panelVars
        /\ pc' = "start"
        /\ UNCHANGED <<isrVars, lineVars, packet_num, total_packets,
                       image_data_len, i, torn>>

\* Mutant: every packet restarts the transfer to the panel.
StartAlways == /\ pc = "start"
               /\ StartTransfer
               /\ i' = 0
               /\ pc' = "copy"
               /\ UNCHANGED <<isrVars, lineVars, packet_num, total_packets,
                              image_data_len, torn>>

\* EPD_DisplayImage_Paragraph: command 0x10 for the first packet only.
Start == /\ pc = "start"
         /\ IF packet_num = 1 THEN StartTransfer ELSE UNCHANGED panelVars
         /\ i' = 0
         /\ pc' = "copy"
         /\ UNCHANGED <<isrVars, lineVars, packet_num, total_packets, image_data_len, torn>>

Copy == /\ pc = "copy"
        /\ i < image_data_len
        /\ i + 2 < MaxDataLen
        /\ EPD_WriteDATA(PanelByte(data_buffer[2 + i]))
        /\ i' = i + 1
        /\ UNCHANGED <<isrVars, lineVars, pc, packet_num, total_packets,
                       image_data_len, torn>>

\* A refused length stays in data_len; a thread that reads it goes on behind the
\* buffer.  All it finds there is one element, which is no byte.
CopyBeyond == /\ pc = "copy"
              /\ i < image_data_len
              /\ i + 2 >= MaxDataLen
              /\ EPD_WriteDATA(BEYOND)
              /\ i' = image_data_len
              /\ UNCHANGED <<isrVars, lineVars, pc, packet_num, total_packets,
                             image_data_len, torn>>

\* The last packet refreshes the panel; last_packet is written and never read.
EndCopy == /\ pc = "copy"
           /\ i >= image_data_len
           /\ IF packet_num = total_packets
              THEN EPD_Update /\ pc' = "sleep"
              ELSE UNCHANGED panelVars /\ pc' = "wait"
           /\ UNCHANGED <<isrVars, lineVars, packet_num, total_packets,
                          image_data_len, i, torn>>

\* Mutant: the panel is left powered after the refresh.
SleepForgotten == /\ pc = "sleep"
                  /\ pc' = "wait"
                  /\ UNCHANGED <<isrVars, lineVars, packet_num, total_packets,
                                 image_data_len, i, panelVars, torn>>

Sleep == /\ pc = "sleep"
         /\ EPD_Sleep
         /\ pc' = "wait"
         /\ UNCHANGED <<isrVars, lineVars, packet_num, total_packets,
                        image_data_len, i, torn>>

ProcessFrame == \/ ReadType \/ ReadCmd \/ ReadLen \/ ReadPacketNum \/ ReadTotal
                \/ Wake \/ Start \/ Copy \/ CopyBeyond \/ EndCopy \/ Sleep

Thread == EventRead \/ ProcessFrame

\* Everything was sent and processed: the system rests.
Done == next > TotalPackets /\ wire = << >> /\ Idle

Next == SendFrame \/ Deliver \/ Lose \/ Thread \/ (Done /\ UNCHANGED vars)

\* The line delivers what is sent, and the thread runs when the interrupt does
\* not: it has the highest priority of the two application threads.
Fairness == WF_vars(SendFrame) /\ WF_vars(Deliver) /\ WF_vars(Thread)

Spec == Init /\ [][Next]_vars /\ Fairness
-----------------------------------------------------------------------------
(***************************************************************************)
(* Properties.  The code has nothing that keeps the frames apart: what it  *)
(* guarantees, for any sender, is that a store into a part of the frame    *)
(* that is still to be read is the only thing that can go wrong besides    *)
(* the line.  The header bytes, the checksum and all that the thread has   *)
(* read already may arrive under its hands.                                *)
(***************************************************************************)

\* As long as no byte is lost and no frame torn, the panel never refreshes with
\* anything but the image that was sent: no skipped, merged or repeated packet
\* reaches EPD_Update.
ShowsOnlyTheImage == lost = 0 /\ ~torn => \A k \in DOMAIN shown : shown[k] = Image

\* What the thread copies to the panel is a packet of the image, whole and
\* unmixed, whatever the line loses; what is still to be copied is still there,
\* however far the next frame has come, unless it was stored over.
OnlyImagePackets ==
  pc = "copy" /\ ~torn =>
    /\ packet_num \in 1..TotalPackets
    /\ total_packets = TotalPackets
    /\ image_data_len = Len(Chunk(packet_num))
    /\ \A k \in (i + 1)..image_data_len : data_buffer[k + 1] = Chunk(packet_num)[k]

\* When everything that was sent has been processed, the image is on the panel.
ImageDisplayed == Done => shown = <<Image>>

\* A transfer that loses nothing and tears nothing ends with the image on the panel
\* and the panel asleep, also if frames come in while the thread is at work.
EventuallyDisplayed == <>(lost > 0 \/ torn \/ (shown = <<Image>> /\ ~awake))
=============================================================================
