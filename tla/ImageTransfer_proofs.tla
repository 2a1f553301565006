------------------------ MODULE ImageTransfer_proofs ------------------------
(***************************************************************************)
(* Proofs about the transfer of an image, of any size and contents and for *)
(* any checksum, by a sender that waits for nothing: as long as the line   *)
(* loses no byte and the interrupt stores into no part of a frame that the *)
(* thread has yet to read, the panel shows the image and nothing else.     *)
(***************************************************************************)
EXTENDS ImageTransfer, SequenceTheorems, TLAPS

M == MAX_IMAGE_DATA_LEN
Byte == 0..255

\* The length that frame k announces: two packet counters and its packet.
DataLen(k) == Len(Chunk(k)) + 2

\* Where the receiver is after the first p bytes of frame k.
StateAt(k, p) ==
  CASE p \in {0, DataLen(k) + 8} -> "HEADER1"
    [] p = 1 -> "HEADER2"
    [] p = 2 -> "CMD_TYPE"
    [] p = 3 -> "CMD"
    [] p = 4 -> "LEN_HIGH"
    [] p = 5 -> "LEN_LOW"
    [] p \in 6..(DataLen(k) + 5) -> "DATA"
    [] p = DataLen(k) + 6 -> "CRC_HIGH"
    [] p = DataLen(k) + 7 -> "CRC_LOW"

\* What it has by then.
Received(k, p) ==
  /\ recState = StateAt(k, p)
  /\ p >= 3 => cmd_type = Frame(k)[3]
  /\ p >= 4 => cmd = Frame(k)[4]
  /\ p = 5 => data_len = Frame(k)[5] * 256
  /\ p >= 6 => data_len = DataLen(k)
  /\ p \in 6..(DataLen(k) + 5) => data_index = p - 6
  /\ \A j \in 0..(DataLen(k) - 1) : j < p - 6 => data_buffer[j] = Frame(k)[j + 7]
  /\ p = DataLen(k) + 7 => crc_received = Frame(k)[p] * 256

\* How many bytes of the last frame sent have arrived.
Position == Len(Frame(next - 1)) - Len(wire)

LineInv ==
  /\ next \in 1..(TotalPackets + 1)
  /\ wire \in Seq(Byte)
  /\ data_buffer \in [0..(MaxDataLen - 1) -> Byte]
  /\ next = 1 => wire = << >> /\ recState = "HEADER1"
  /\ next > 1 => /\ Len(wire) <= Len(Frame(next - 1))
                 /\ \A j \in 1..Len(wire) : wire[j] = Frame(next - 1)[Position + j]
                 /\ Received(next - 1, Position)

\* The frames whose last byte has arrived, and of them those that the thread was
\* told of.
Completed == IF wire = << >> THEN next - 1 ELSE next - 2
Taken == Completed - event

\* The thread is at work on a packet.
Before == {"type", "cmd", "len", "packet", "total", "wake", "start", "copy"}

ThreadInv ==
  /\ event \in {0, 1}
  /\ pc \in {"wait", "sleep"} \cup Before
  /\ event = 1 => Completed >= 1
  /\ pc # "wait" => Taken >= 1
  /\ pc \in {"packet", "total", "wake", "start", "copy"} =>
       image_data_len = Len(Chunk(Taken))
  /\ pc \in {"total", "wake", "start", "copy", "sleep"} => packet_num = Taken
  /\ pc \in {"wake", "start", "copy", "sleep"} => total_packets = TotalPackets

\* g_frame_data holds frame k.
Whole(k) ==
  /\ cmd_type = 209 /\ cmd = 1 /\ data_len = DataLen(k)
  /\ \A j \in 0..(DataLen(k) - 1) : data_buffer[j] = Frame(k)[j + 7]

\* The cells of data_buffer that the thread has yet to read.
Unread(j) == \/ pc \in {"type", "cmd", "len", "packet"}
             \/ pc = "total" /\ j # 1
             \/ pc \in {"wake", "start"} /\ j >= 2
             \/ pc = "copy" /\ j >= i + 2

\* While its event is pending a frame is whole, and the next has got no further than
\* its header; of the frame at work all that is unread is there.
FrameInv ==
  /\ event = 1 => Whole(Completed) /\ (wire = << >> \/ Position <= 2)
  /\ pc = "type" => cmd_type = 209
  /\ pc \in {"type", "cmd"} => cmd = 1
  /\ pc \in {"type", "cmd", "len"} => data_len = DataLen(Taken)
  /\ pc \in Before =>
       \A j \in 0..(DataLen(Taken) - 1) : Unread(j) => data_buffer[j] = Frame(Taken)[j + 7]

\* The packets that the panel has.
Copied == IF pc \in Before THEN Taken - 1 ELSE Taken

PanelInv ==
  /\ shown = IF Copied = TotalPackets THEN <<Image>> ELSE << >>
  /\ Copied \in 1..(TotalPackets - 1) =>
       awake /\ (pc # "copy" => ram = SubSeq(Image, 1, Copied * M))
  /\ pc \in {"start", "copy"} => awake
  /\ pc = "copy" => /\ i \in 0..Len(Chunk(Taken))
                    /\ ram = SubSeq(Image, 1, (Taken - 1) * M + i)
  /\ pc = "sleep" => Copied = TotalPackets

Working == LineInv /\ ThreadInv /\ FrameInv /\ PanelInv

TransferInv ==
  /\ lost \in Nat
  /\ lost = 0 /\ ~torn => Working

-----------------------------------------------------------------------------
(* The frames *)

\* The sequence r has the m elements of s and then the n elements of t.
Joined(r, s, m, t, n) ==
  /\ r \in Seq(Byte) /\ Len(r) = m + n
  /\ \A j \in 1..(m + n) : r[j] = IF j <= m THEN s[j] ELSE t[j - m]

LEMMA ConcatAt ==
  ASSUME NEW s \in Seq(Byte), NEW t \in Seq(Byte)
  PROVE  Joined(s \o t, s, Len(s), t, Len(t))
<1>1. /\ s \o t \in Seq(Byte) /\ Len(s \o t) = Len(s) + Len(t)
      /\ \A j \in 1..(Len(s) + Len(t)) :
           (s \o t)[j] = IF j <= Len(s) THEN s[j] ELSE t[j - Len(s)]
  BY ConcatProperties
<1> QED
  BY <1>1 DEF Joined

LEMMA Sizes ==
  /\ M \in Nat \ {0} /\ M = MaxDataLen - 2 /\ MaxDataLen \in Nat /\ MaxDataLen > 2 /\ MaxDataLen <= 65535
  /\ Len(Image) \in Nat \ {0} /\ Image \in Seq(Byte)
<1>1. MaxDataLen \in Nat /\ MaxDataLen > 2 /\ MaxDataLen <= 65535
  BY TransferAssumption
<1>2. M = MaxDataLen - 2
  BY DEF M, MAX_IMAGE_DATA_LEN
<1>3. Image \in Seq(Byte) /\ Image # << >>
  BY ImageAssumption DEF Byte
<1>4. Len(Image) \in Nat \ {0}
  BY <1>3
<1> QED
  BY <1>1, <1>2, <1>3, <1>4

\* A product of a whole number of packets.
LEMMA Products ==
  ASSUME NEW a \in Int
  PROVE  a * M \in Int /\ (a - 1) * M = a * M - M
BY Sizes

\* The last packet reaches the end of the image, the others do not.
LEMMA PacketCount ==
  /\ TotalPackets \in 1..255
  /\ TotalPackets * M >= Len(Image)
  /\ \A k \in 1..TotalPackets : (k - 1) * M < Len(Image)
  /\ \A k \in 1..(TotalPackets - 1) : k * M < Len(Image)
<1> DEFINE n == Len(Image)
           q == (n + M - 1) \div M
<1>1. n \in Nat \ {0} /\ M \in Nat \ {0}
  BY Sizes
<1>2. TotalPackets = q
  BY DEF TotalPackets, M
<1>3. \A a \in Nat, m \in Nat \ {0} :
        /\ a \div m \in Nat
        /\ m * (a \div m) <= a /\ a < m * (a \div m) + m
  OBVIOUS
<1>4. n + M - 1 \in Nat
  BY <1>1
<1>5. q \in Nat /\ M * q <= n + M - 1 /\ n + M - 1 < M * q + M
  BY <1>1, <1>3, <1>4
<1> HIDE DEF n, q
<1>6. M * q = q * M /\ q * M \in Nat
  BY <1>1, <1>5
<1>7. q * M >= n /\ (q - 1) * M < n
  BY <1>1, <1>5, <1>6, Products
<1>8. q # 0
  BY <1>1, <1>7
<1>9. q <= 255
  BY <1>2, ImageAssumption, Zenon
<1>10. ASSUME NEW k \in 1..q PROVE (k - 1) * M <= (q - 1) * M
  BY <1>1, <1>5
<1>11. ASSUME NEW k \in 1..(q - 1) PROVE k * M <= (q - 1) * M
  BY <1>1, <1>5
<1>12. \A k \in Int : k * M \in Int /\ (k - 1) * M \in Int
  BY <1>1
<1>13. \A k \in 1..q : (k - 1) * M < n
  BY <1>1, <1>5, <1>7, <1>10, <1>12
<1>14. \A k \in 1..(q - 1) : k * M < n
  BY <1>1, <1>5, <1>7, <1>11, <1>12
<1> QED
  BY <1>2, <1>5, <1>7, <1>8, <1>9, <1>13, <1>14 DEF n

\* A packet is a piece of the image, full unless it is the last.
LEMMA ChunkIs ==
  ASSUME NEW k \in 1..TotalPackets
  PROVE  /\ Chunk(k) \in Seq(Byte)
         /\ Len(Chunk(k)) \in 1..M
         /\ \A j \in 1..Len(Chunk(k)) : /\ (k - 1) * M + j \in 1..Len(Image)
                                        /\ Chunk(k)[j] = Image[(k - 1) * M + j]
         /\ k < TotalPackets => (k - 1) * M + Len(Chunk(k)) = k * M
         /\ k = TotalPackets => (k - 1) * M + Len(Chunk(k)) = Len(Image)
<1> DEFINE a == (k - 1) * M
           b == k * M
           n == Len(Image)
           e == Min2(b, n)
<1>1. /\ n \in Nat \ {0} /\ M \in Nat \ {0} /\ k \in Nat \ {0} /\ TotalPackets \in Nat
      /\ Image \in Seq(Byte)
  BY Sizes, PacketCount
<1>2. a \in Nat /\ b \in Nat /\ b = a + M
  BY <1>1
<1>3. /\ a < n
      /\ k < TotalPackets => b < n
      /\ k = TotalPackets => b >= n
  <2>1. /\ TotalPackets * M >= n
        /\ \A l \in 1..TotalPackets : (l - 1) * M < n
        /\ \A l \in 1..(TotalPackets - 1) : l * M < n
    BY PacketCount
  <2>2. k < TotalPackets => k \in 1..(TotalPackets - 1)
    BY <1>1
  <2> QED
    BY <2>1, <2>2
<1>4. Chunk(k) = SubSeq(Image, a + 1, e)
  BY DEF Chunk, M
<1> HIDE DEF a, b, n
<1>5. /\ e \in Nat /\ e >= a + 1 /\ e <= n /\ e <= a + M
      /\ k < TotalPackets => e = b
      /\ k = TotalPackets => e = n
  BY <1>1, <1>2, <1>3 DEF Min2
<1> HIDE DEF e
<1>6. \A j \in (a + 1)..e : Image[j] \in Byte
  <2>1. \A j \in (a + 1)..e : j \in 1..n
    BY <1>1, <1>2, <1>5
  <2>2. \A j \in 1..n : Image[j] \in Byte
    BY <1>1, ElementOfSeq DEF n
  <2> QED
    BY <2>1, <2>2
<1>7. /\ SubSeq(Image, a + 1, e) \in Seq(Byte)
      /\ Len(SubSeq(Image, a + 1, e)) = e - a
      /\ \A j \in 1..(e - a) : SubSeq(Image, a + 1, e)[j] = Image[a + j]
  <2>1. a + 1 \in Int /\ e \in Int /\ e - (a + 1) + 1 = e - a
    BY <1>2, <1>5
  <2>2. \A j \in (a + 1)..e : Image[j] \in Byte
    BY <1>6
  <2>3. /\ SubSeq(Image, a + 1, e) \in Seq(Byte)
        /\ Len(SubSeq(Image, a + 1, e)) = IF a + 1 <= e THEN e - (a + 1) + 1 ELSE 0
        /\ \A j \in 1..(e - (a + 1) + 1) : SubSeq(Image, a + 1, e)[j] = Image[(a + 1) + j - 1]
    BY <2>1, <2>2, SubSeqProperties
  <2>4. \A j \in 1..(e - a) : (a + 1) + j - 1 = a + j
    BY <1>2, <1>5
  <2> QED
    BY <2>1, <2>3, <2>4, <1>5
<1>8. Len(Chunk(k)) = e - a /\ e - a \in 1..M
  BY <1>1, <1>2, <1>4, <1>5, <1>7
<1>9. \A j \in 1..(e - a) : a + j \in 1..n
  BY <1>1, <1>2, <1>5
<1>10. a + (e - a) = e
  BY <1>2, <1>5
<1> QED
  BY <1>4, <1>5, <1>7, <1>8, <1>9, <1>10 DEF a, b, n

(***************************************************************************)
(* The bytes of a frame: headers, command, length, counters, packet and    *)
(* checksum.                                                               *)
(***************************************************************************)
LEMMA FrameIs ==
  ASSUME NEW k \in 1..TotalPackets
  PROVE  /\ DataLen(k) \in 3..MaxDataLen
         /\ Frame(k) \in Seq(Byte) /\ Len(Frame(k)) = DataLen(k) + 8
         /\ Frame(k)[1] = 165 /\ Frame(k)[2] = 90
         /\ Frame(k)[3] = 209 /\ Frame(k)[4] = 1
         /\ Frame(k)[5] = DataLen(k) \div 256 /\ Frame(k)[6] = DataLen(k) % 256
         /\ Frame(k)[7] = TotalPackets /\ Frame(k)[8] = k
         /\ \A j \in 1..Len(Chunk(k)) : Frame(k)[j + 8] = Chunk(k)[j]
         /\ Body(k) \in Seq(Byte) /\ Len(Body(k)) = DataLen(k) + 4
         /\ \A j \in 1..(DataLen(k) + 4) : Body(k)[j] = Frame(k)[j + 2]
         /\ Frame(k)[DataLen(k) + 7] = CRC16[Body(k)] \div 256
         /\ Frame(k)[DataLen(k) + 8] = CRC16[Body(k)] % 256
<1> DEFINE n == Len(Chunk(k))
           d == DataLen(k)
           front == <<209, 1, d \div 256, d % 256, TotalPackets, k>>
           crc == CRC16[Body(k)]
           start == <<165, 90>>
           end == <<crc \div 256, crc % 256>>
<1>1. Chunk(k) \in Seq(Byte) /\ n \in 1..M
  BY ChunkIs
<1>2. d = n + 2 /\ n \in Nat /\ d \in Nat /\ d \in 3..MaxDataLen
  BY <1>1, Sizes DEF DataLen
<1>3. Body(k) = front \o Chunk(k) /\ Frame(k) = start \o Body(k) \o end
  BY DEF Body, Frame, DataLen
<1>4. d \div 256 \in Byte /\ d % 256 \in Byte
  <2>1. d \in Nat /\ d <= 65535
    BY <1>2, Sizes
  <2> HIDE DEF d
  <2> QED
    BY <2>1 DEF Byte
<1>5. TotalPackets \in Byte /\ k \in Byte
  BY PacketCount DEF Byte
<1>5a. 209 \in Byte /\ 1 \in Byte /\ 165 \in Byte /\ 90 \in Byte
  BY DEF Byte
<1>6. /\ front \in Seq(Byte) /\ Len(front) = 6
      /\ front[1] = 209 /\ front[2] = 1 /\ front[3] = d \div 256 /\ front[4] = d % 256
      /\ front[5] = TotalPackets /\ front[6] = k
  <2> HIDE DEF d
  <2> QED
    BY <1>4, <1>5, <1>5a
<1> HIDE DEF front, d, n
<1>7. /\ Body(k) \in Seq(Byte) /\ Len(Body(k)) = d + 4
      /\ \A j \in 1..(6 + n) : Body(k)[j] = IF j <= 6 THEN front[j] ELSE Chunk(k)[j - 6]
  <2>1. Chunk(k) \in Seq(Byte) /\ Len(Chunk(k)) = n
    BY <1>1 DEF n
  <2>2. Joined(front \o Chunk(k), front, 6, Chunk(k), n)
    <3>1. Joined(front \o Chunk(k), front, Len(front), Chunk(k), Len(Chunk(k)))
      BY <2>1, <1>6, ConcatAt
    <3> QED
      BY <3>1, <2>1, <1>6
  <2> QED
    BY <2>2, <1>2, <1>3 DEF Joined
<1>8. crc \in Nat /\ crc <= 65535
  <2>1. crc \in Receiver!UINT16
    BY ImageAssumption, Zenon
  <2> QED
    BY <2>1 DEF Receiver!UINT16
<1>9. crc \div 256 \in Byte /\ crc % 256 \in Byte
  <2>1. \A w \in Nat : w <= 65535 => w \div 256 \in Byte /\ w % 256 \in Byte
    BY DEF Byte
  <2> HIDE DEF crc
  <2> QED
    BY <1>8, <2>1
<1>10. /\ end \in Seq(Byte) /\ Len(end) = 2 /\ end[1] = crc \div 256 /\ end[2] = crc % 256
       /\ start \in Seq(Byte) /\ Len(start) = 2 /\ start[1] = 165 /\ start[2] = 90
  <2> HIDE DEF crc
  <2> QED
    BY <1>9, <1>5a
<1> HIDE DEF start, end, crc
<1>11. /\ start \o Body(k) \in Seq(Byte) /\ Len(start \o Body(k)) = d + 6
       /\ \A j \in 1..(d + 6) :
            (start \o Body(k))[j] = IF j <= 2 THEN start[j] ELSE Body(k)[j - 2]
  <2>1. Joined(start \o Body(k), start, 2, Body(k), d + 4)
    <3>1. Joined(start \o Body(k), start, Len(start), Body(k), Len(Body(k)))
      BY <1>7, <1>10, ConcatAt
    <3> QED
      BY <3>1, <1>7, <1>10
  <2>2. 2 + (d + 4) = d + 6
    BY <1>2
  <2> QED
    BY <2>1, <2>2 DEF Joined
<1>12. /\ Frame(k) \in Seq(Byte) /\ Len(Frame(k)) = d + 8
       /\ \A j \in 1..(d + 8) :
            Frame(k)[j] = IF j <= d + 6 THEN (start \o Body(k))[j] ELSE end[j - (d + 6)]
  <2>1. Joined((start \o Body(k)) \o end, start \o Body(k), d + 6, end, 2)
    <3>1. Joined((start \o Body(k)) \o end, start \o Body(k), Len(start \o Body(k)), end, Len(end))
      BY <1>10, <1>11, ConcatAt
    <3> QED
      BY <3>1, <1>10, <1>11
  <2>2. (d + 6) + 2 = d + 8
    BY <1>2
  <2> QED
    BY <2>1, <2>2, <1>3 DEF Joined
<1>13. \A j \in 1..(d + 6) : Frame(k)[j] = IF j <= 2 THEN start[j] ELSE Body(k)[j - 2]
  <2> SUFFICES ASSUME NEW j \in 1..(d + 6)
               PROVE  Frame(k)[j] = IF j <= 2 THEN start[j] ELSE Body(k)[j - 2]
    OBVIOUS
  <2>1. j \in 1..(d + 8) /\ j <= d + 6
    BY <1>2
  <2>2. Frame(k)[j] = (start \o Body(k))[j]
    BY <2>1, <1>12
  <2> QED
    BY <2>2, <1>11
<1>14. ASSUME NEW j \in 1..(d + 4) PROVE Body(k)[j] = Frame(k)[j + 2]
  <2>1. j + 2 \in 1..(d + 6) /\ ~(j + 2 <= 2) /\ (j + 2) - 2 = j
    BY <1>2
  <2> QED
    BY <2>1, <1>13
<1>15. \A j \in 1..6 : j \in 1..(6 + n) /\ j \in 1..(d + 4) /\ Body(k)[j] = front[j]
  BY <1>2, <1>7
<1>16. /\ Frame(k)[3] = 209 /\ Frame(k)[4] = 1
       /\ Frame(k)[5] = d \div 256 /\ Frame(k)[6] = d % 256
       /\ Frame(k)[7] = TotalPackets /\ Frame(k)[8] = k
  BY <1>6, <1>14, <1>15
<1>17. ASSUME NEW j \in 1..n PROVE Frame(k)[j + 8] = Chunk(k)[j]
  <2>1. j + 6 \in 1..(6 + n) /\ j + 6 \in 1..(d + 4) /\ ~(j + 6 <= 6) /\ (j + 6) - 6 = j
        /\ (j + 6) + 2 = j + 8
    BY <1>2
  <2> QED
    BY <2>1, <1>7, <1>14
<1>18. Frame(k)[1] = 165 /\ Frame(k)[2] = 90
  BY <1>2, <1>10, <1>13
<1>19. Frame(k)[d + 7] = crc \div 256 /\ Frame(k)[d + 8] = crc % 256
  <2>1. /\ d + 7 \in 1..(d + 8) /\ ~(d + 7 <= d + 6) /\ (d + 7) - (d + 6) = 1
        /\ d + 8 \in 1..(d + 8) /\ ~(d + 8 <= d + 6) /\ (d + 8) - (d + 6) = 2
    BY <1>2
  <2> QED
    BY <2>1, <1>10, <1>12
<1> QED
  BY <1>2, <1>7, <1>12, <1>14, <1>16, <1>17, <1>18, <1>19 DEF d, n, crc

\* EPD_WriteDATA gets the bytes of the packet: Color_get knows all colours.
LEMMA PanelByteIs ==
  ASSUME NEW b \in Byte
  PROVE  PanelByte(b) = b
<1>1. \A c \in 0..3 : Color_get(c) = c
  BY DEF Color_get
<1>2. /\ b \div 64 \in 0..3 /\ (b \div 16) % 4 \in 0..3 /\ (b \div 4) % 4 \in 0..3 /\ b % 4 \in 0..3
  BY DEF Byte
<1>3. PICK q \in 0..63 : b \in (4 * q)..(4 * q + 3)
  <2>1. b \div 4 \in 0..63 /\ b \in (4 * (b \div 4))..(4 * (b \div 4) + 3)
    BY DEF Byte
  <2> QED
    BY <2>1
<1>4. ((b \div 64) * 64) + (((b \div 16) % 4) * 16) + (((b \div 4) % 4) * 4) + (b % 4) = b
  BY DEF Byte
<1> QED
  BY <1>1, <1>2, <1>4 DEF PanelByte

\* One more byte of the image.
LEMMA PrefixGrows ==
  ASSUME NEW m \in 0..(Len(Image) - 1)
  PROVE  /\ Append(SubSeq(Image, 1, m), Image[m + 1]) = SubSeq(Image, 1, m + 1)
         /\ SubSeq(Image, 1, m) \in Seq(Byte)
<1>1. Len(Image) \in Nat /\ Image \in Seq(Byte)
  BY Sizes
<1>2. /\ 1 \in 1..Len(Image) /\ m + 1 \in 1..Len(Image) /\ (m + 1) - 1 = m
      /\ m \in Int
  BY <1>1
<1>3. \A j \in 1..m : Image[j] \in Byte
  <2>1. \A j \in 1..m : j \in 1..Len(Image)
    BY <1>1
  <2>2. \A j \in 1..Len(Image) : Image[j] \in Byte
    BY <1>1, ElementOfSeq
  <2> QED
    BY <2>1, <2>2
<1>4. SubSeq(Image, 1, m) \in Seq(Byte)
  BY <1>2, <1>3, SubSeqProperties
<1>5. Image[m + 1] \in Byte
  BY <1>1, <1>2, ElementOfSeq
<1>6. SubSeq(Image, 1, m + 1) = SubSeq(Image, 1, (m + 1) - 1) \o <<Image[m + 1]>>
  BY <1>1, <1>2, SubSeqRecursiveSecond
<1> QED
  BY <1>2, <1>4, <1>5, <1>6, AppendIsConcat

-----------------------------------------------------------------------------
(* The interrupt *)

\* Where the receiver is in a frame, position by position.
LEMMA StateAtIs ==
  ASSUME NEW k, DataLen(k) \in Nat, DataLen(k) >= 3
  PROVE  /\ StateAt(k, 0) = "HEADER1"  /\ StateAt(k, 1) = "HEADER2"
         /\ StateAt(k, 2) = "CMD_TYPE" /\ StateAt(k, 3) = "CMD"
         /\ StateAt(k, 4) = "LEN_HIGH" /\ StateAt(k, 5) = "LEN_LOW"
         /\ \A p \in 6..(DataLen(k) + 5) : StateAt(k, p) = "DATA"
         /\ StateAt(k, DataLen(k) + 6) = "CRC_HIGH"
         /\ StateAt(k, DataLen(k) + 7) = "CRC_LOW"
         /\ StateAt(k, DataLen(k) + 8) = "HEADER1"
BY DEF StateAt

\* Of the nine cases of the switch, recState selects one.
LEMMA OneCase ==
  ASSUME NEW data, Receiver!recDataProcessing(data)
  PROVE  /\ recState = "HEADER1"  => Receiver!ReceiveHeader1(data)
         /\ recState = "HEADER2"  => Receiver!ReceiveHeader2(data)
         /\ recState = "CMD_TYPE" => Receiver!ReceiveCmdType(data)
         /\ recState = "CMD"      => Receiver!ReceiveCmd(data)
         /\ recState = "LEN_HIGH" => Receiver!ReceiveLenHigh(data)
         /\ recState = "LEN_LOW"  => Receiver!ReceiveLenLow(data)
         /\ recState = "DATA"     => Receiver!ReceiveData(data)
         /\ recState = "CRC_HIGH" => Receiver!ReceiveCrcHigh(data)
         /\ recState = "CRC_LOW"  => Receiver!ReceiveCrcLow(data)
BY DEF Receiver!recDataProcessing, Receiver!ReceiveHeader1, Receiver!ReceiveHeader2,
       Receiver!ReceiveCmdType, Receiver!ReceiveCmd, Receiver!ReceiveLenHigh,
       Receiver!ReceiveLenLow, Receiver!ReceiveData, Receiver!ReceiveCrcHigh,
       Receiver!ReceiveCrcLow

\* The checksum is taken of the bytes that the sender took it of.
LEMMA CrcDataIs ==
  ASSUME NEW k \in 1..TotalPackets, Received(k, DataLen(k) + 7)
  PROVE  Receiver!CrcData = Body(k)
<1> DEFINE d == DataLen(k)
           F == Frame(k)
           B == Body(k)
<1>1. /\ d \in 3..MaxDataLen /\ d \in Nat /\ d <= 65535
      /\ F[3] = 209 /\ F[4] = 1 /\ F[5] = d \div 256 /\ F[6] = d % 256
      /\ B \in Seq(Byte) /\ Len(B) = d + 4
      /\ \A j \in 1..(d + 4) : B[j] = F[j + 2]
  <2>1. d \in 3..MaxDataLen
    BY FrameIs
  <2>2. d \in Nat /\ d <= 65535
    <3> HIDE DEF d
    <3> QED
      BY <2>1, Sizes
  <2> QED
    BY <2>1, <2>2, FrameIs
<1>2. /\ cmd_type = F[3] /\ cmd = F[4] /\ data_len = d
      /\ \A j \in 0..(d - 1) : data_buffer[j] = F[j + 7]
  <2>1. d + 7 >= 6 /\ \A j \in 0..(d - 1) : j < (d + 7) - 6
    BY <1>1
  <2> QED
    BY <2>1, <1>1 DEF Received
<1> HIDE DEF d, F, B
<1>3. DOMAIN B = 1..(d + 4) /\ B = [j \in 1..(d + 4) |-> B[j]]
  BY <1>1, LenProperties
<1>4. ASSUME NEW j \in 1..(d + 4)
      PROVE  B[j] = CASE j = 1 -> cmd_type
                      [] j = 2 -> cmd
                      [] j = 3 -> data_len \div 256
                      [] j = 4 -> data_len % 256
                      [] OTHER -> data_buffer[j - 5]
  <2>1. B[j] = F[j + 2]
    BY <1>1
  <2>2. CASE j \in {1, 2, 3, 4}
    BY <2>1, <2>2, <1>1, <1>2
  <2>3. CASE j \notin {1, 2, 3, 4}
    <3>1. j - 5 \in 0..(d - 1) /\ (j - 5) + 7 = j + 2
      BY <2>3, <1>1
    <3> QED
      BY <3>1, <2>1, <2>3, <1>2
  <2> QED
    BY <2>2, <2>3
<1>5. Receiver!CrcData = [j \in 1..(d + 4) |->
         CASE j = 1 -> cmd_type
           [] j = 2 -> cmd
           [] j = 3 -> data_len \div 256
           [] j = 4 -> data_len % 256
           [] OTHER -> data_buffer[j - 5]]
  BY <1>2 DEF Receiver!CrcData
<1>6. Receiver!CrcData = B
  BY <1>3, <1>4, <1>5
<1> QED
  BY <1>6 DEF B

(***************************************************************************)
(* The next byte of the frame takes the receiver one position further, and *)
(* the last one raises the event.                                          *)
(***************************************************************************)
LEMMA ReceivesByte ==
  ASSUME NEW k \in 1..TotalPackets, NEW p \in 0..(DataLen(k) + 7), Received(k, p),
         data_buffer \in [0..(MaxDataLen - 1) -> Byte],
         Receiver!recDataProcessing(Frame(k)[p + 1])
  PROVE  /\ Received(k, p + 1)'
         /\ data_buffer' \in [0..(MaxDataLen - 1) -> Byte]
         /\ event' = IF p = DataLen(k) + 7 THEN 1 ELSE event
<1> DEFINE d == DataLen(k)
           F == Frame(k)
           data == F[p + 1]
<1>1. /\ d \in 3..MaxDataLen /\ d \in Nat /\ d >= 3 /\ d <= 65535
      /\ F \in Seq(Byte) /\ Len(F) = d + 8
      /\ F[1] = 165 /\ F[2] = 90 /\ F[5] = d \div 256 /\ F[6] = d % 256
      /\ F[d + 7] = CRC16[Body(k)] \div 256 /\ F[d + 8] = CRC16[Body(k)] % 256
  <2>1. d \in 3..MaxDataLen
    BY FrameIs
  <2>2. d \in Nat /\ d >= 3 /\ d <= 65535
    <3> HIDE DEF d
    <3> QED
      BY <2>1, Sizes
  <2> QED
    BY <2>1, <2>2, FrameIs
<1>2. /\ recState = StateAt(k, p)
      /\ p >= 3 => cmd_type = F[3]
      /\ p >= 4 => cmd = F[4]
      /\ p = 5 => data_len = F[5] * 256
      /\ p >= 6 => data_len = d
      /\ p \in 6..(d + 5) => data_index = p - 6
      /\ \A j \in 0..(d - 1) : j < p - 6 => data_buffer[j] = F[j + 7]
      /\ p = d + 7 => crc_received = F[p] * 256
  BY DEF Received
<1>3. /\ StateAt(k, 0) = "HEADER1"  /\ StateAt(k, 1) = "HEADER2"
      /\ StateAt(k, 2) = "CMD_TYPE" /\ StateAt(k, 3) = "CMD"
      /\ StateAt(k, 4) = "LEN_HIGH" /\ StateAt(k, 5) = "LEN_LOW"
      /\ \A q \in 6..(d + 5) : StateAt(k, q) = "DATA"
      /\ StateAt(k, d + 6) = "CRC_HIGH"
      /\ StateAt(k, d + 7) = "CRC_LOW"
      /\ StateAt(k, d + 8) = "HEADER1"
  BY <1>1, StateAtIs
<1>4. /\ recState = "HEADER1"  => Receiver!ReceiveHeader1(data)
      /\ recState = "HEADER2"  => Receiver!ReceiveHeader2(data)
      /\ recState = "CMD_TYPE" => Receiver!ReceiveCmdType(data)
      /\ recState = "CMD"      => Receiver!ReceiveCmd(data)
      /\ recState = "LEN_HIGH" => Receiver!ReceiveLenHigh(data)
      /\ recState = "LEN_LOW"  => Receiver!ReceiveLenLow(data)
      /\ recState = "DATA"     => Receiver!ReceiveData(data)
      /\ recState = "CRC_HIGH" => Receiver!ReceiveCrcHigh(data)
      /\ recState = "CRC_LOW"  => Receiver!ReceiveCrcLow(data)
  BY OneCase
<1>5. d \div 256 \in Nat /\ d % 256 \in Nat /\ (d \div 256) * 256 + (d % 256) = d
  <2> HIDE DEF d
  <2> QED
    BY <1>1
\* What the position that follows asks for.
<1> DEFINE Goal ==
      /\ recState' = StateAt(k, p + 1)
      /\ p + 1 >= 3 => cmd_type' = F[3]
      /\ p + 1 >= 4 => cmd' = F[4]
      /\ p + 1 = 5 => data_len' = F[5] * 256
      /\ p + 1 >= 6 => data_len' = d
      /\ p + 1 \in 6..(d + 5) => data_index' = (p + 1) - 6
      /\ \A j \in 0..(d - 1) : j < (p + 1) - 6 => data_buffer'[j] = F[j + 7]
      /\ p + 1 = d + 7 => crc_received' = F[p + 1] * 256
      /\ data_buffer' \in [0..(MaxDataLen - 1) -> Byte]
      /\ event' = IF p = d + 7 THEN 1 ELSE event
<1>6. Goal => /\ Received(k, p + 1)'
              /\ data_buffer' \in [0..(MaxDataLen - 1) -> Byte]
              /\ event' = IF p = DataLen(k) + 7 THEN 1 ELSE event
  BY DEF Received
<1> HIDE DEF d, F
<1>7. CASE p = 0
  <2>1. recState' = "HEADER2" /\ UNCHANGED <<data_index, cmd_type, cmd, data_len, data_buffer, crc_received, event>>
    BY <1>7, <1>1, <1>2, <1>3, <1>4 DEF Receiver!ReceiveHeader1, Receiver!g_frame_data, Receiver!FRAME_HEADER1
  <2> QED
    BY <2>1, <1>1, <1>3, <1>6, <1>7
<1>8. CASE p = 1
  <2>1. recState' = "CMD_TYPE" /\ UNCHANGED <<data_index, cmd_type, cmd, data_len, data_buffer, crc_received, event>>
    BY <1>8, <1>1, <1>2, <1>3, <1>4 DEF Receiver!ReceiveHeader2, Receiver!g_frame_data, Receiver!FRAME_HEADER2
  <2> QED
    BY <2>1, <1>1, <1>3, <1>6, <1>8
<1>9. CASE p = 2
  <2>1. /\ recState' = "CMD" /\ cmd_type' = data
        /\ UNCHANGED <<data_index, cmd, data_len, data_buffer, crc_received, event>>
    BY <1>9, <1>2, <1>3, <1>4 DEF Receiver!ReceiveCmdType
  <2> QED
    BY <2>1, <1>1, <1>3, <1>6, <1>9
<1>10. CASE p = 3
  <2>1. /\ recState' = "LEN_HIGH" /\ cmd' = data
        /\ UNCHANGED <<data_index, cmd_type, data_len, data_buffer, crc_received, event>>
    BY <1>10, <1>2, <1>3, <1>4 DEF Receiver!ReceiveCmd
  <2> QED
    BY <2>1, <1>1, <1>2, <1>3, <1>6, <1>10
<1>11. CASE p = 4
  <2>1. /\ recState' = "LEN_LOW" /\ data_len' = data * 256
        /\ UNCHANGED <<data_index, cmd_type, cmd, data_buffer, crc_received, event>>
    BY <1>11, <1>2, <1>3, <1>4 DEF Receiver!ReceiveLenHigh
  <2> QED
    BY <2>1, <1>1, <1>2, <1>3, <1>6, <1>11
<1>12. CASE p = 5
  <2>1. Receiver!ReceiveLenLow(data) /\ data = d % 256 /\ data_len = (d \div 256) * 256
    BY <1>12, <1>1, <1>2, <1>3, <1>4
  <2>2. data_len' = d
    BY <2>1, <1>5 DEF Receiver!ReceiveLenLow
  <2>3. data_len' > 0 /\ data_len' <= MaxDataLen
    BY <2>2, <1>1, Sizes
  <2>4. /\ data_index' = 0 /\ recState' = "DATA"
        /\ UNCHANGED <<cmd_type, cmd, data_buffer, crc_received, event>>
    BY <2>1, <2>3 DEF Receiver!ReceiveLenLow
  <2>5. StateAt(k, 6) = "DATA"
    BY <1>1, <1>3
  <2> QED
    BY <2>2, <2>4, <2>5, <1>1, <1>2, <1>6, <1>12
<1>13. CASE p \in 6..(d + 5)
  <2>1. /\ Receiver!ReceiveData(data) /\ data_len = d /\ data_index = p - 6
        /\ data_index < data_len
    BY <1>13, <1>1, <1>2, <1>3, <1>4
  <2>2. /\ data_buffer' = [data_buffer EXCEPT ![p - 6] = data] /\ data_index' = p - 5
        /\ recState' = IF data_index' >= data_len THEN "CRC_HIGH" ELSE "DATA"
        /\ UNCHANGED <<cmd_type, cmd, data_len, crc_received, event>>
    BY <2>1, <1>13, <1>1 DEF Receiver!ReceiveData
  <2>3. p - 6 \in 0..(MaxDataLen - 1) /\ p - 6 \in 0..(d - 1) /\ p + 1 = (p - 6) + 7
    BY <1>13, <1>1, Sizes
  <2>4. data \in Byte
    <3>1. p + 1 \in 1..Len(F)
      BY <1>13, <1>1
    <3> QED
      BY <3>1, <1>1, ElementOfSeq
  <2>5. data_buffer' \in [0..(MaxDataLen - 1) -> Byte]
    BY <2>2, <2>4
  <2>6. \A j \in 0..(d - 1) : j < (p + 1) - 6 => data_buffer'[j] = F[j + 7]
    <3> SUFFICES ASSUME NEW j \in 0..(d - 1), j < (p + 1) - 6
                 PROVE  data_buffer'[j] = F[j + 7]
      OBVIOUS
    <3>1. j \in 0..(MaxDataLen - 1) /\ (j = p - 6 \/ j < p - 6)
      BY <1>13, <1>1, Sizes
    <3>2. CASE j = p - 6
      BY <3>1, <3>2, <2>2, <2>3
    <3>3. CASE j # p - 6
      BY <3>1, <3>3, <2>2, <1>2
    <3> QED
      BY <3>2, <3>3
  <2>7. recState' = StateAt(k, p + 1)
    <3>1. CASE p = d + 5
      <4>1. p + 1 = d + 6 /\ data_index' >= data_len
        BY <3>1, <2>1, <2>2, <1>1
      <4> QED
        BY <4>1, <2>2, <1>3
    <3>2. CASE p # d + 5
      <4>1. p + 1 \in 6..(d + 5) /\ ~(data_index' >= data_len)
        BY <3>2, <2>1, <2>2, <1>1, <1>13
      <4> QED
        BY <4>1, <2>2, <1>3
    <3> QED
      BY <3>1, <3>2
  <2>8. /\ cmd_type' = F[3] /\ cmd' = F[4] /\ data_len' = d /\ event' = event
        /\ data_index' = (p + 1) - 6 /\ p # d + 7 /\ p + 1 # d + 7 /\ p + 1 # 5
    BY <2>1, <2>2, <1>1, <1>2, <1>13
  <2> QED
    BY <2>5, <2>6, <2>7, <2>8, <1>6
<1>14. CASE p = d + 6
  <2>1. Receiver!ReceiveCrcHigh(data)
    BY <1>14, <1>2, <1>3, <1>4
  <2>2. /\ crc_received' = data * 256 /\ recState' = "CRC_LOW"
        /\ UNCHANGED <<data_index, cmd_type, cmd, data_len, data_buffer, event>>
    BY <2>1 DEF Receiver!ReceiveCrcHigh
  <2>3. p + 1 = d + 7 /\ p >= 6 /\ p # d + 7 /\ p + 1 # 5 /\ ~(p + 1 \in 6..(d + 5))
    BY <1>14, <1>1
  <2>4. \A j \in 0..(d - 1) : j < p - 6
    BY <1>14, <1>1
  <2>5. p >= 3 /\ p >= 4
    BY <1>14, <1>1
  <2>6. recState' = StateAt(k, p + 1)
    BY <2>2, <2>3, <1>3
  <2>7. cmd_type' = F[3] /\ cmd' = F[4] /\ data_len' = d
    BY <2>2, <2>3, <2>5, <1>2
  <2>8. \A j \in 0..(d - 1) : data_buffer'[j] = F[j + 7]
    BY <2>2, <2>4, <1>2
  <2> QED
    BY <2>2, <2>3, <2>6, <2>7, <2>8, <1>6
<1>15. CASE p = d + 7
  <2>1. Receiver!ReceiveCrcLow(data)
    BY <1>15, <1>2, <1>3, <1>4
  <2>2. Receiver!CrcData = Body(k)
    BY <1>15, CrcDataIs DEF d
  <2>3. CRC16[Body(k)] \in Nat
    BY ImageAssumption DEF Receiver!UINT16
  <2>4. crc_received = (CRC16[Body(k)] \div 256) * 256 /\ data = CRC16[Body(k)] % 256
    <3>1. (d + 7) + 1 = d + 8
      BY <1>1
    <3> QED
      BY <3>1, <1>1, <1>2, <1>15
  <2>5. \A w \in Nat : (w \div 256) * 256 + (w % 256) = w
    OBVIOUS
  <2>6. crc_received + data = CRC16[Body(k)]
    BY <2>3, <2>4, <2>5
  <2>7. /\ event' = 1 /\ recState' = "HEADER1"
        /\ UNCHANGED <<cmd_type, cmd, data_len, data_buffer>>
    BY <2>1, <2>2, <2>6 DEF Receiver!ReceiveCrcLow, Receiver!WIFI_EVENT_RECV
  <2>8. /\ p + 1 = d + 8 /\ p >= 6 /\ p + 1 # 5 /\ ~(p + 1 \in 6..(d + 5)) /\ p + 1 # d + 7
        /\ p >= 3 /\ p >= 4
    BY <1>15, <1>1
  <2>9. \A j \in 0..(d - 1) : j < p - 6
    BY <1>15, <1>1
  <2>10. recState' = StateAt(k, p + 1)
    BY <2>7, <2>8, <1>3
  <2>11. cmd_type' = F[3] /\ cmd' = F[4] /\ data_len' = d
    BY <2>7, <2>8, <1>2
  <2>12. \A j \in 0..(d - 1) : data_buffer'[j] = F[j + 7]
    BY <2>7, <2>9, <1>2
  <2> QED
    BY <2>7, <2>8, <2>10, <2>11, <2>12, <1>6, <1>15
<1>16. p \in 0..5 \/ p \in 6..(d + 5) \/ p = d + 6 \/ p = d + 7
  <2>1. p \in 0..(d + 7)
    BY DEF d
  <2> QED
    BY <2>1, <1>1
<1>17. p \in 0..5 => p = 0 \/ p = 1 \/ p = 2 \/ p = 3 \/ p = 4 \/ p = 5
  OBVIOUS
<1> QED
  BY <1>7, <1>8, <1>9, <1>10, <1>11, <1>12, <1>13, <1>14, <1>15, <1>16, <1>17

-----------------------------------------------------------------------------
(* The steps *)

\* The sizes of frame k and what it says.
LEMMA FrameHas ==
  ASSUME NEW k \in 1..TotalPackets
  PROVE  /\ DataLen(k) \in Nat /\ DataLen(k) >= 3 /\ DataLen(k) <= MaxDataLen
         /\ DataLen(k) = Len(Chunk(k)) + 2
         /\ Len(Chunk(k)) \in Nat /\ Len(Chunk(k)) >= 1 /\ Len(Chunk(k)) <= MaxDataLen - 2
         /\ Frame(k) \in Seq(Byte) /\ Len(Frame(k)) = DataLen(k) + 8
         /\ Frame(k)[3] = 209 /\ Frame(k)[4] = 1
         /\ Frame(k)[7] = TotalPackets /\ Frame(k)[8] = k
         /\ \A j \in 1..Len(Chunk(k)) : Frame(k)[j + 8] = Chunk(k)[j]
<1>1. \A l \in 1..M : l \in Nat /\ l >= 1 /\ l <= MaxDataLen - 2
  BY Sizes
<1>2. \A d \in 3..MaxDataLen : d \in Nat /\ d >= 3 /\ d <= MaxDataLen
  BY Sizes
<1>3. Len(Chunk(k)) \in 1..M /\ DataLen(k) \in 3..MaxDataLen
  BY ChunkIs, FrameIs
<1>4. DataLen(k) = Len(Chunk(k)) + 2
  BY DEF DataLen
<1>5. /\ DataLen(k) \in Nat /\ DataLen(k) >= 3 /\ DataLen(k) <= MaxDataLen
      /\ Len(Chunk(k)) \in Nat /\ Len(Chunk(k)) >= 1 /\ Len(Chunk(k)) <= MaxDataLen - 2
  BY <1>1, <1>2, <1>3
<1>6. /\ Frame(k) \in Seq(Byte) /\ Len(Frame(k)) = DataLen(k) + 8
      /\ Frame(k)[3] = 209 /\ Frame(k)[4] = 1
      /\ Frame(k)[7] = TotalPackets /\ Frame(k)[8] = k
      /\ \A j \in 1..Len(Chunk(k)) : Frame(k)[j + 8] = Chunk(k)[j]
  BY FrameIs
<1> QED
  BY <1>4, <1>5, <1>6

\* The numbers of the packets that are sent, complete and taken.
LEMMA Numbers ==
  ASSUME LineInv, ThreadInv
  PROVE  /\ TotalPackets \in Nat /\ TotalPackets >= 1
         /\ next \in Nat /\ next >= 1 /\ next <= TotalPackets + 1
         /\ Completed \in Nat /\ Completed <= next - 1 /\ event \in {0, 1}
         /\ Taken \in Nat /\ Taken = Completed - event
         /\ wire # << >> => next > 1
         /\ event = 1 => Completed \in 1..TotalPackets
         /\ pc # "wait" => Taken \in 1..TotalPackets
<1>1. TotalPackets \in 1..255 /\ next \in 1..(TotalPackets + 1) /\ (next = 1 => wire = << >>)
  BY PacketCount DEF LineInv
<1>2. event \in {0, 1} /\ (event = 1 => Completed >= 1) /\ (pc # "wait" => Taken >= 1)
  BY DEF ThreadInv
<1>3. Completed \in Nat /\ Completed <= next - 1
  BY <1>1 DEF Completed
<1>4. Taken = Completed - event
  BY DEF Taken
<1> QED
  BY <1>1, <1>2, <1>3, <1>4

LEMMA InitHolds ==
  Init => TransferInv
<1> SUFFICES ASSUME Init PROVE TransferInv
  OBVIOUS
<1>1. /\ next = 1 /\ wire = << >> /\ lost = 0 /\ torn = FALSE /\ pc = "wait"
      /\ shown = << >> /\ recState = "HEADER1" /\ event = 0
      /\ data_buffer = [j \in 0..(MaxDataLen - 1) |-> 0]
  BY DEF Init, Receiver!Init
<1>2. TotalPackets \in Nat /\ TotalPackets >= 1
  <2>1. TotalPackets \in 1..255
    BY PacketCount
  <2> QED
    BY <2>1
<1>3. 0 \in Byte
  BY DEF Byte
<1>4. LineInv
  BY <1>1, <1>2, <1>3 DEF LineInv
<1>5. Completed = 0 /\ Taken = 0 /\ Copied = 0
  BY <1>1 DEF Completed, Taken, Copied, Before
<1>6. ThreadInv /\ FrameInv
  BY <1>1 DEF ThreadInv, FrameInv, Unread, Before
<1>7. PanelInv
  BY <1>1, <1>2, <1>5 DEF PanelInv
<1> QED
  BY <1>1, <1>4, <1>6, <1>7 DEF TransferInv, Working

\* When the line is quiet the receiver waits for a header.
LEMMA WireDone ==
  ASSUME LineInv, next > 1, wire = << >>
  PROVE  recState = "HEADER1"
<1>1. PICK k \in 1..TotalPackets : k = next - 1
  <2>1. TotalPackets \in 1..255 /\ next \in 1..(TotalPackets + 1)
    BY PacketCount DEF LineInv
  <2> QED
    BY <2>1
<1>2. Position = DataLen(k) + 8
  <2>1. Len(wire) = 0
    OBVIOUS
  <2> QED
    BY <1>1, <2>1, FrameHas DEF Position
<1>3. recState = StateAt(k, DataLen(k) + 8)
  BY <1>1, <1>2 DEF LineInv, Received
<1> QED
  BY <1>1, <1>3, FrameHas, StateAtIs

\* Steps of the thread do not touch the line and the receiver.
LEMMA LineKept ==
  ASSUME LineInv, UNCHANGED <<next, wire, recState, data_index, cmd_type, cmd,
                              data_len, data_buffer, crc_received>>
  PROVE  LineInv'
BY DEF LineInv, Position, Received

LEMMA ReceivedNext ==
  ASSUME NEW k, NEW p, next' - 1 = k, Position' = p, Received(k, p)'
  PROVE  Received(next - 1, Position)'
BY DEF Received

\* What the sender and the interrupt leave to the thread and the panel.
LEMMA PanelKept ==
  ASSUME PanelInv, Taken' = Taken, UNCHANGED <<pc, i, awake, ram, shown>>
  PROVE  PanelInv'
BY DEF PanelInv, Copied

LEMMA SendKeeps ==
  ASSUME Working, SendFrame
  PROVE  Working'
<1>1. LineInv /\ ThreadInv /\ FrameInv /\ PanelInv
  BY DEF Working
<1>2. /\ next <= TotalPackets /\ wire = << >>
      /\ wire' = Frame(next) /\ next' = next + 1
      /\ UNCHANGED <<recState, data_index, cmd_type, cmd, data_len, data_buffer, crc_received,
                     event, pc, packet_num, total_packets, image_data_len, i, awake, ram, shown>>
  BY DEF SendFrame, isrVars, threadVars, panelVars
<1>3. /\ TotalPackets \in Nat /\ next \in Nat /\ next >= 1
  BY <1>1, Numbers
<1>4. PICK k \in 1..TotalPackets : k = next
  BY <1>2, <1>3
<1>5. /\ Frame(k) \in Seq(Byte) /\ Len(Frame(k)) = DataLen(k) + 8
      /\ DataLen(k) \in Nat /\ DataLen(k) >= 3
  BY FrameHas
<1>6. recState = "HEADER1"
  <2>1. next = 1 => recState = "HEADER1"
    BY <1>1 DEF LineInv
  <2>2. next > 1 => recState = "HEADER1"
    BY <1>1, <1>2, WireDone
  <2> QED
    BY <2>1, <2>2, <1>3
<1>7. /\ next' - 1 = k /\ next' > 1 /\ next' = k + 1 /\ wire' = Frame(k)
      /\ next' \in 1..(TotalPackets + 1)
  BY <1>2, <1>3, <1>4
<1>8. Received(k, 0)'
  <2>1. recState' = StateAt(k, 0)
    BY <1>2, <1>5, <1>6, StateAtIs
  <2>2. 0 # DataLen(k) + 7
    BY <1>5
  <2>3. \A j \in 0..(DataLen(k) - 1) : ~(j < 0 - 6)
    BY <1>5
  <2> QED
    BY <2>1, <2>2, <2>3 DEF Received
<1>9. Position' = 0
  BY <1>5, <1>7 DEF Position
<1>10. Received(next - 1, Position)'
  BY <1>7, <1>8, <1>9, ReceivedNext
<1>11. LineInv'
  <2>1. wire' \in Seq(Byte) /\ data_buffer' \in [0..(MaxDataLen - 1) -> Byte]
    BY <1>1, <1>2, <1>5, <1>7 DEF LineInv
  <2>2. Len(wire') <= Len(Frame(next' - 1))
    BY <1>5, <1>7
  <2>3. \A j \in 1..Len(wire') : wire'[j] = Frame(next' - 1)[Position' + j]
    BY <1>5, <1>7, <1>9
  <2> QED
    BY <2>1, <2>2, <2>3, <1>7, <1>10 DEF LineInv
<1>12. Completed' = Completed /\ Taken' = Taken
  <2>1. wire' # << >>
    BY <1>5, <1>7
  <2> QED
    BY <2>1, <1>2, <1>3, <1>7 DEF Completed, Taken
<1>13. ThreadInv' /\ FrameInv'
  BY <1>1, <1>2, <1>9, <1>12 DEF ThreadInv, FrameInv, Whole, Unread, Before
<1>14. PanelInv'
  BY <1>1, <1>2, <1>12, PanelKept
<1> QED
  BY <1>11, <1>13, <1>14 DEF Working

\* Each field of the frame has a state, or two, in which it is stored.
LEMMA Stores ==
  ASSUME NEW b, Receiver!recDataProcessing(b)
  PROVE  /\ recState # "CMD_TYPE" => cmd_type' = cmd_type
         /\ recState # "CMD" => cmd' = cmd
         /\ recState \notin {"LEN_HIGH", "LEN_LOW"} => data_len' = data_len
         /\ recState # "DATA" => data_buffer' = data_buffer
         /\ \/ data_buffer' = data_buffer
            \/ data_buffer' = [data_buffer EXCEPT ![data_index] = b]
BY DEF Receiver!recDataProcessing, Receiver!ReceiveHeader1, Receiver!ReceiveHeader2,
       Receiver!ReceiveCmdType, Receiver!ReceiveCmd, Receiver!ReceiveLenHigh,
       Receiver!ReceiveLenLow, Receiver!ReceiveData, Receiver!ReceiveCrcHigh,
       Receiver!ReceiveCrcLow, Receiver!g_frame_data

\* A store that does not tear the frame leaves what the thread has yet to read of it.
LEMMA UnreadKept ==
  ASSUME LineInv, ThreadInv, FrameInv, NEW b, Receiver!recDataProcessing(b), ~Tears,
         UNCHANGED <<pc, i>>
  PROVE  /\ pc = "type" => cmd_type' = 209
         /\ pc \in {"type", "cmd"} => cmd' = 1
         /\ pc \in {"type", "cmd", "len"} => data_len' = DataLen(Taken)
         /\ \A j \in 0..(DataLen(Taken) - 1) :
              Unread(j) => data_buffer'[j] = Frame(Taken)[j + 7]
         /\ event = 1 => UNCHANGED <<cmd_type, cmd, data_len, data_buffer>>
<1>1. /\ recState = "CMD_TYPE" => ~TypeUnread
      /\ recState = "CMD" => ~CmdUnread
      /\ recState \in {"LEN_HIGH", "LEN_LOW"} => ~LenUnread
      /\ recState = "DATA" => ~CellUnread(data_index)
  BY DEF Tears
<1>2. pc = "type" => cmd_type' = 209
  BY <1>1, Stores DEF FrameInv, TypeUnread
<1>3. pc \in {"type", "cmd"} => cmd' = 1
  BY <1>1, Stores DEF FrameInv, CmdUnread
<1>4. pc \in {"type", "cmd", "len"} => data_len' = DataLen(Taken)
  BY <1>1, Stores DEF FrameInv, LenUnread
<1>5. ASSUME NEW j \in 0..(DataLen(Taken) - 1), Unread(j)
      PROVE  data_buffer'[j] = Frame(Taken)[j + 7]
  <2>1. data_buffer[j] = Frame(Taken)[j + 7]
    BY <1>5 DEF FrameInv, Unread, Before
  <2>2. CellUnread(j)
    <3>1. CASE pc \in {"type", "cmd", "len"}
      BY <3>1 DEF CellUnread, LenUnread
    <3>2. CASE pc \notin {"type", "cmd", "len"}
      <4>1. pc \in {"packet", "total", "wake", "start", "copy"}
        BY <1>5, <3>2 DEF Unread
      <4>2. image_data_len = Len(Chunk(Taken)) /\ Taken \in 1..TotalPackets
        BY <4>1, Numbers DEF ThreadInv
      <4>3. j < image_data_len + 2
        BY <4>2, FrameHas
      <4> QED
        BY <1>5, <3>2, <4>3 DEF Unread, CellUnread
    <3> QED
      BY <3>1, <3>2
  <2>3. j \in 0..(MaxDataLen - 1)
    <3>1. Taken \in 1..TotalPackets
      BY <1>5, Numbers DEF Unread
    <3> QED
      BY <3>1, FrameHas, Sizes
  <2>4. data_buffer'[j] = data_buffer[j]
    <3>1. CASE data_buffer' = data_buffer
      BY <3>1
    <3>2. CASE data_buffer' # data_buffer
      <4>1. recState = "DATA" /\ data_buffer' = [data_buffer EXCEPT ![data_index] = b]
        BY <3>2, Stores
      <4>2. data_index # j
        BY <1>1, <2>2, <4>1
      <4> QED
        BY <2>3, <4>1, <4>2 DEF LineInv
    <3> QED
      BY <3>1, <3>2
  <2> QED
    BY <2>1, <2>4
<1>6. event = 1 => UNCHANGED <<cmd_type, cmd, data_len, data_buffer>>
  BY <1>1, Stores DEF TypeUnread, CmdUnread, LenUnread, CellUnread
<1> QED
  BY <1>2, <1>3, <1>4, <1>5, <1>6

LEMMA DeliverKeeps ==
  ASSUME Working, Deliver, ~torn'
  PROVE  Working'
<1>1. LineInv /\ ThreadInv /\ FrameInv /\ PanelInv
  BY DEF Working
<1>2. /\ wire # << >> /\ Receiver!recDataProcessing(Head(wire)) /\ ~Tears
      /\ wire' = Tail(wire) /\ next' = next
      /\ UNCHANGED <<pc, packet_num, total_packets, image_data_len, i, awake, ram, shown>>
  BY DEF Deliver, threadVars, panelVars
<1>3. /\ next \in 1..(TotalPackets + 1) /\ next > 1 /\ next \in Nat /\ event \in {0, 1}
      /\ wire \in Seq(Byte) /\ data_buffer \in [0..(MaxDataLen - 1) -> Byte]
      /\ Len(wire) <= Len(Frame(next - 1))
      /\ \A j \in 1..Len(wire) : wire[j] = Frame(next - 1)[Position + j]
      /\ Received(next - 1, Position)
  BY <1>1, <1>2, Numbers DEF LineInv
<1>4. PICK k \in 1..TotalPackets : k = next - 1
  BY <1>1, <1>3, Numbers
<1>5. /\ Frame(k) \in Seq(Byte) /\ Len(Frame(k)) = DataLen(k) + 8
      /\ DataLen(k) \in Nat /\ DataLen(k) >= 3
  BY FrameHas
<1>6. /\ Len(wire) \in Nat /\ Len(wire) >= 1 /\ Head(wire) = wire[1]
      /\ wire' \in Seq(Byte) /\ Len(wire') = Len(wire) - 1
      /\ \A j \in 1..(Len(wire) - 1) : wire'[j] = wire[j + 1]
  BY <1>2, <1>3
<1>7. PICK p \in 0..(DataLen(k) + 7) : p = Position
  BY <1>3, <1>4, <1>5, <1>6 DEF Position
<1>8. Head(wire) = Frame(k)[p + 1]
  <2>1. 1 \in 1..Len(wire)
    BY <1>6
  <2> QED
    BY <2>1, <1>3, <1>4, <1>6, <1>7
<1>9. Received(k, p)
  BY <1>3, <1>4, <1>7
<1>10. /\ Received(k, p + 1)'
       /\ data_buffer' \in [0..(MaxDataLen - 1) -> Byte]
       /\ event' = IF p = DataLen(k) + 7 THEN 1 ELSE event
  <2>1. Receiver!recDataProcessing(Frame(k)[p + 1])
    BY <1>2, <1>8
  <2> QED
    BY <2>1, <1>3, <1>9, ReceivesByte
<1>11. Position' = p + 1 /\ next' - 1 = k
  BY <1>2, <1>3, <1>4, <1>5, <1>6, <1>7 DEF Position
<1>12. Received(next - 1, Position)'
  BY <1>10, <1>11, ReceivedNext
<1>13. LineInv'
  <2>1. Len(wire') <= Len(Frame(next' - 1))
    BY <1>3, <1>4, <1>5, <1>6, <1>11
  <2>2. ASSUME NEW j \in 1..Len(wire') PROVE wire'[j] = Frame(next' - 1)[Position' + j]
    <3>1. j + 1 \in 1..Len(wire) /\ j \in 1..(Len(wire) - 1) /\ Position + (j + 1) = (p + 1) + j
      BY <1>6, <1>7
    <3> QED
      BY <3>1, <1>3, <1>4, <1>6, <1>11
  <2> QED
    BY <2>1, <2>2, <1>2, <1>3, <1>6, <1>10, <1>12 DEF LineInv
<1>14. p = DataLen(k) + 7 <=> wire' = << >>
  <2>1. p = DataLen(k) + 7 <=> Len(wire') = 0
    <3>1. p = (DataLen(k) + 8) - Len(wire)
      BY <1>4, <1>5, <1>7 DEF Position
    <3>2. Len(wire) \in Nat /\ Len(wire') = Len(wire) - 1
      BY <1>6
    <3>3. \A d, w, v \in Nat : p = (d + 8) - w /\ v = w - 1 => (p = d + 7 <=> v = 0)
      OBVIOUS
    <3>4. Len(wire') \in Nat
      BY <1>6, LenProperties
    <3> QED
      BY <3>1, <3>2, <3>3, <3>4, <1>5
  <2>2. Len(wire') = 0 <=> wire' = << >>
    <3>1. \A s \in Seq(Byte) : Len(s) = 0 <=> s = << >>
      BY EmptySeq
    <3> QED
      BY <3>1, <1>6
  <2> QED
    BY <2>1, <2>2
\* A byte that follows on a pending event is one of the two of the header.
<1>15. event = 1 => p <= 1
  <2> SUFFICES ASSUME event = 1 PROVE p <= 1
    OBVIOUS
  <2>1. p <= 2
    BY <1>1, <1>2, <1>7 DEF FrameInv
  <2>2. p # 2
    <3>1. p = 2 => recState = "CMD_TYPE"
      BY <1>5, <1>9, StateAtIs DEF Received
    <3> QED
      BY <3>1, <1>2 DEF Tears, TypeUnread
  <2> QED
    BY <2>1, <2>2
<1>16. event' \in {0, 1} /\ Taken' = Taken /\ (event = 1 => event' = 1 /\ Completed' = Completed)
  <2>1. CASE p = DataLen(k) + 7
    <3>1. event = 0 /\ event' = 1 /\ wire' = << >>
      BY <2>1, <1>3, <1>5, <1>10, <1>14, <1>15
    <3> QED
      BY <3>1, <1>2, <1>3 DEF Taken, Completed
  <2>2. CASE p # DataLen(k) + 7
    <3>1. event' = event /\ wire' # << >>
      BY <2>2, <1>10, <1>14
    <3> QED
      BY <3>1, <1>2, <1>3 DEF Taken, Completed
  <2> QED
    BY <2>1, <2>2
<1>17. event' = 1 => /\ Completed' >= 1 /\ Whole(Completed)'
                     /\ wire' = << >> \/ Position' <= 2
  <2> SUFFICES ASSUME event' = 1
               PROVE  /\ Completed' >= 1 /\ Whole(Completed)'
                      /\ wire' = << >> \/ Position' <= 2
    OBVIOUS
  <2>1. CASE p = DataLen(k) + 7
    <3>1. Completed' = k /\ wire' = << >> /\ k >= 1
      BY <2>1, <1>11, <1>14 DEF Completed
    <3>2. Received(k, DataLen(k) + 8)'
      <4>1. p + 1 = DataLen(k) + 8
        BY <2>1, <1>5
      <4> QED
        BY <4>1, <1>10
    <3>3. /\ DataLen(k) + 8 >= 3 /\ DataLen(k) + 8 >= 4 /\ DataLen(k) + 8 >= 6
          /\ \A j \in 0..(DataLen(k) - 1) : j < (DataLen(k) + 8) - 6
      BY <1>5
    <3>4. Whole(k)'
      BY <3>2, <3>3, FrameHas DEF Received, Whole
    <3> QED
      BY <3>1, <3>4 DEF Whole
  <2>2. CASE p # DataLen(k) + 7
    <3>1. event = 1
      BY <2>2, <1>10
    <3>2. Completed' = Completed /\ Completed >= 1 /\ Whole(Completed)
      BY <3>1, <1>1, <1>16 DEF ThreadInv, FrameInv
    <3>3. UNCHANGED <<cmd_type, cmd, data_len, data_buffer>>
      BY <3>1, <1>1, <1>2, UnreadKept
    <3>4. Position' <= 2
      BY <3>1, <1>11, <1>15
    <3> QED
      BY <3>2, <3>3, <3>4 DEF Whole
  <2> QED
    BY <2>1, <2>2
<1>18. ThreadInv'
  BY <1>1, <1>2, <1>16, <1>17 DEF ThreadInv
<1>19. FrameInv'
  <2>1. /\ pc = "type" => cmd_type' = 209
        /\ pc \in {"type", "cmd"} => cmd' = 1
        /\ pc \in {"type", "cmd", "len"} => data_len' = DataLen(Taken)
        /\ \A j \in 0..(DataLen(Taken) - 1) :
             Unread(j) => data_buffer'[j] = Frame(Taken)[j + 7]
    BY <1>1, <1>2, UnreadKept
  <2> QED
    BY <2>1, <1>2, <1>16, <1>17 DEF FrameInv, Unread
<1>20. PanelInv'
  BY <1>1, <1>2, <1>16, PanelKept
<1> QED
  BY <1>13, <1>18, <1>19, <1>20 DEF Working

\* While the thread is at work it has one of the packets, and those before it are
\* on the panel.
Busy ==
  /\ TotalPackets \in Nat /\ Taken \in 1..TotalPackets
  /\ DataLen(Taken) = Len(Chunk(Taken)) + 2
  /\ Len(Chunk(Taken)) \in Nat /\ Len(Chunk(Taken)) >= 1
  /\ Len(Chunk(Taken)) <= MaxDataLen - 2
  /\ Frame(Taken)[7] = TotalPackets /\ Frame(Taken)[8] = Taken
  /\ \A j \in 1..Len(Chunk(Taken)) : Frame(Taken)[j + 8] = Chunk(Taken)[j]
  /\ pc \in Before => Copied = Taken - 1

LEMMA BusyHolds ==
  ASSUME Working, pc # "wait"
  PROVE  Busy
<1>1. TotalPackets \in Nat /\ Taken \in 1..TotalPackets
  BY Numbers DEF Working
<1> QED
  BY <1>1, FrameHas DEF Busy, Copied

\* A step of the thread that leaves line, interrupt and event alone.
LEMMA EventKept ==
  ASSUME Working, UNCHANGED <<next, wire, recState, data_index, cmd_type, cmd, data_len,
                              data_buffer, crc_received, event>>
  PROVE  /\ LineInv' /\ Taken' = Taken /\ Completed' = Completed
         /\ event' = 1 => Whole(Completed)' /\ (wire' = << >> \/ Position' <= 2)
<1>1. LineInv' /\ Taken' = Taken /\ Completed' = Completed /\ Position' = Position
  BY LineKept DEF Working, Taken, Completed, Position
<1>2. event' = 1 => Whole(Completed)' /\ (wire' = << >> \/ Position' <= 2)
  BY <1>1 DEF Working, FrameInv, Whole
<1> QED
  BY <1>1, <1>2

\* The thread takes the event of a frame.
LEMMA EventReadKeeps ==
  ASSUME Working, EventRead
  PROVE  Working'
<1>1. LineInv /\ ThreadInv /\ FrameInv /\ PanelInv
  BY DEF Working
<1>2. /\ pc = "wait" /\ pc' = "type" /\ event = 1 /\ event' = 0
      /\ UNCHANGED <<next, wire, recState, data_index, cmd_type, cmd, data_len,
                     data_buffer, crc_received, packet_num, total_packets,
                     image_data_len, i, awake, ram, shown>>
  <2>1. event \in {0, 1}
    BY <1>1 DEF ThreadInv
  <2> QED
    BY <2>1 DEF EventRead, Receiver!TakeEvent, Receiver!g_frame_data,
                Receiver!WIFI_EVENT_RECV, lineVars, panelVars
<1>3. LineInv'
  BY <1>1, <1>2, LineKept
<1>4. /\ Completed \in Nat /\ Completed >= 1 /\ Whole(Completed)
      /\ Completed' = Completed /\ Taken' = Completed /\ Taken = Completed - 1
  BY <1>1, <1>2, Numbers DEF ThreadInv, FrameInv, Completed, Taken
<1>5. ThreadInv'
  BY <1>1, <1>2, <1>4 DEF ThreadInv, Before
<1>6. FrameInv'
  BY <1>2, <1>4 DEF FrameInv, Whole
<1>7. Copied' = Copied
  BY <1>2, <1>4 DEF Copied, Before
<1>8. PanelInv'
  BY <1>1, <1>2, <1>7 DEF PanelInv
<1> QED
  BY <1>3, <1>5, <1>6, <1>8 DEF Working

\* The thread reads the frame: nothing changes but its own variables.
LEMMA ReadKeeps ==
  ASSUME Working, ReadType \/ ReadCmd \/ ReadLen \/ ReadPacketNum \/ ReadTotal
  PROVE  Working'
<1>1. LineInv /\ ThreadInv /\ FrameInv /\ PanelInv
  BY DEF Working
<1>2. /\ pc \in {"type", "cmd", "len", "packet", "total"}
      /\ UNCHANGED <<next, wire, recState, data_index, cmd_type, cmd, data_len,
                     data_buffer, crc_received, event, i, awake, ram, shown>>
  BY DEF ReadType, ReadCmd, ReadLen, ReadPacketNum, ReadTotal, isrVars, lineVars, panelVars
<1>3. Busy
  BY <1>2, BusyHolds
<1>4. /\ LineInv' /\ Taken' = Taken /\ Completed' = Completed
      /\ event' = 1 => Whole(Completed)' /\ (wire' = << >> \/ Position' <= 2)
  BY <1>2, EventKept
<1>5. pc \in Before
  BY <1>2 DEF Before
<1>6. pc' \in {"cmd", "len", "packet", "total", "wake"} /\ ThreadInv' /\ FrameInv'
  <2>1. CASE ReadType
    <3>1. pc' = "cmd" /\ pc = "type" /\ UNCHANGED <<packet_num, total_packets, image_data_len>>
      BY <2>1, <1>1 DEF FrameInv, ReadType
    <3>2. \A j : Unread(j)' => Unread(j)
      BY <3>1 DEF Unread
    <3> QED
      BY <3>1, <3>2, <1>1, <1>2, <1>4, <1>5 DEF ThreadInv, FrameInv, Before
  <2>2. CASE ReadCmd
    <3>1. pc' = "len" /\ pc = "cmd" /\ UNCHANGED <<packet_num, total_packets, image_data_len>>
      BY <2>2, <1>1 DEF FrameInv, ReadCmd
    <3>2. \A j : Unread(j)' => Unread(j)
      BY <3>1 DEF Unread
    <3> QED
      BY <3>1, <3>2, <1>1, <1>2, <1>4, <1>5 DEF ThreadInv, FrameInv, Before
  <2>3. CASE ReadLen
    <3>1. /\ pc' = "packet" /\ pc = "len" /\ image_data_len' = Len(Chunk(Taken))
          /\ UNCHANGED <<packet_num, total_packets>>
      <4>1. pc = "len" /\ data_len > 2 /\ data_len - 2 = Len(Chunk(Taken))
        BY <2>3, <1>1, <1>3 DEF Busy, ReadLen, FrameInv
      <4> QED
        BY <2>3, <4>1 DEF ReadLen
    <3>2. \A j : Unread(j)' => Unread(j)
      BY <3>1 DEF Unread
    <3> QED
      BY <3>1, <3>2, <1>1, <1>2, <1>4, <1>5 DEF ThreadInv, FrameInv, Before
  <2>4. CASE ReadPacketNum
    <3>1. /\ pc' = "total" /\ pc = "packet" /\ packet_num' = Taken
          /\ UNCHANGED <<total_packets, image_data_len>>
      <4>1. pc = "packet" /\ 1 \in 0..(DataLen(Taken) - 1) /\ 1 + 7 = 8
        BY <2>4, <1>3 DEF Busy, ReadPacketNum
      <4>2. data_buffer[1] = Frame(Taken)[1 + 7]
        BY <4>1, <1>1, <1>5 DEF FrameInv, Unread
      <4> QED
        BY <2>4, <4>1, <4>2, <1>3 DEF Busy, ReadPacketNum
    <3>2. \A j : Unread(j)' => Unread(j)
      BY <3>1 DEF Unread
    <3> QED
      BY <3>1, <3>2, <1>1, <1>2, <1>4, <1>5 DEF ThreadInv, FrameInv, Before
  <2>5. CASE ReadTotal
    <3>1. /\ pc' = "wake" /\ pc = "total" /\ total_packets' = TotalPackets
          /\ UNCHANGED <<packet_num, image_data_len>>
      <4>1. pc = "total" /\ 0 \in 0..(DataLen(Taken) - 1) /\ 0 + 7 = 7
        BY <2>5, <1>3 DEF Busy, ReadTotal
      <4>2. data_buffer[0] = Frame(Taken)[0 + 7]
        BY <4>1, <1>1, <1>5 DEF FrameInv, Unread
      <4> QED
        BY <2>5, <4>1, <4>2, <1>3 DEF Busy, ReadTotal
    <3>2. \A j \in 0..(DataLen(Taken) - 1) : Unread(j)' => Unread(j)
      BY <3>1, <1>3 DEF Unread, Busy
    <3> QED
      BY <3>1, <3>2, <1>1, <1>2, <1>4, <1>5 DEF ThreadInv, FrameInv, Before
  <2> QED
    BY <2>1, <2>2, <2>3, <2>4, <2>5, <1>2
<1>7. Copied' = Copied
  BY <1>2, <1>4, <1>6 DEF Copied, Before
<1>8. PanelInv'
  BY <1>1, <1>2, <1>6, <1>7 DEF PanelInv
<1> QED
  BY <1>4, <1>6, <1>8 DEF Working

\* The first packet wakes the panel; it is awake for the others.
LEMMA WakeKeeps ==
  ASSUME Working, Wake
  PROVE  Working'
<1>1. LineInv /\ ThreadInv /\ FrameInv /\ PanelInv
  BY DEF Working
<1>2. /\ pc = "wake" /\ pc' = "start"
      /\ UNCHANGED <<next, wire, recState, data_index, cmd_type, cmd, data_len,
                     data_buffer, crc_received, event, packet_num, total_packets,
                     image_data_len, i, ram, shown>>
      /\ IF packet_num = 1 THEN awake' = TRUE ELSE awake' = awake
  BY DEF Wake, EPD_Init_Fast, isrVars, lineVars, panelVars
<1>3. Busy
  BY <1>2, BusyHolds
<1>4. /\ LineInv' /\ Taken' = Taken /\ Completed' = Completed
      /\ event' = 1 => Whole(Completed)' /\ (wire' = << >> \/ Position' <= 2)
  BY <1>2, EventKept
<1>5. ThreadInv' /\ FrameInv'
  <2>1. \A j : Unread(j)' <=> Unread(j)
    BY <1>2 DEF Unread
  <2> QED
    BY <2>1, <1>1, <1>2, <1>4 DEF ThreadInv, FrameInv, Before
<1>6. Copied = Taken - 1 /\ Copied' = Copied /\ packet_num = Taken
  <2>1. pc \in Before /\ pc' \in Before
    BY <1>2 DEF Before
  <2>2. Copied' = Copied
    BY <1>4, <2>1 DEF Copied
  <2> QED
    BY <2>1, <2>2, <1>1, <1>2, <1>3 DEF Busy, ThreadInv
<1>7. awake'
  <2>1. packet_num # 1 => Copied \in 1..(TotalPackets - 1)
    BY <1>3, <1>6 DEF Busy
  <2> QED
    BY <2>1, <1>1, <1>2 DEF PanelInv
<1>8. PanelInv'
  BY <1>1, <1>2, <1>6, <1>7 DEF PanelInv
<1> QED
  BY <1>4, <1>5, <1>8 DEF Working

\* The first packet empties the RAM of the panel, the others follow what it has.
LEMMA StartKeeps ==
  ASSUME Working, Start
  PROVE  Working'
<1>1. LineInv /\ ThreadInv /\ FrameInv /\ PanelInv
  BY DEF Working
<1>2. /\ pc = "start" /\ pc' = "copy" /\ i' = 0
      /\ UNCHANGED <<next, wire, recState, data_index, cmd_type, cmd, data_len,
                     data_buffer, crc_received, event, packet_num, total_packets,
                     image_data_len, awake, shown>>
      /\ IF packet_num = 1 THEN ram' = (IF awake THEN << >> ELSE ram) ELSE ram' = ram
  BY DEF Start, StartTransfer, isrVars, lineVars, panelVars
<1>3. Busy
  BY <1>2, BusyHolds
<1>4. /\ LineInv' /\ Taken' = Taken /\ Completed' = Completed
      /\ event' = 1 => Whole(Completed)' /\ (wire' = << >> \/ Position' <= 2)
  BY <1>2, EventKept
<1>5. ThreadInv' /\ FrameInv'
  <2>1. \A j \in 0..(DataLen(Taken) - 1) : Unread(j)' => Unread(j)
    BY <1>2, <1>3 DEF Unread, Busy
  <2> QED
    BY <2>1, <1>1, <1>2, <1>4 DEF ThreadInv, FrameInv, Before
<1>6. Copied = Taken - 1 /\ Copied' = Copied /\ packet_num = Taken /\ awake
  <2>1. pc \in Before /\ pc' \in Before
    BY <1>2 DEF Before
  <2>2. Copied' = Copied
    BY <1>4, <2>1 DEF Copied
  <2>3. packet_num = Taken /\ awake
    BY <1>1, <1>2 DEF ThreadInv, PanelInv
  <2> QED
    BY <2>1, <2>2, <2>3, <1>3 DEF Busy
<1>7. ram' = SubSeq(Image, 1, (Taken - 1) * M + 0)
  <2>1. CASE packet_num = 1
    <3>1. Taken - 1 = 0 /\ ram' = << >>
      BY <2>1, <1>2, <1>3, <1>6 DEF Busy
    <3>2. 0 * M + 0 = 0
      BY Sizes
    <3>3. SubSeq(Image, 1, 0) = << >>
      OBVIOUS
    <3> QED
      BY <3>1, <3>2, <3>3
  <2>2. CASE packet_num # 1
    <3>1. Copied \in 1..(TotalPackets - 1)
      BY <2>2, <1>3, <1>6 DEF Busy
    <3>2. ram = SubSeq(Image, 1, Copied * M)
      BY <3>1, <1>1, <1>2 DEF PanelInv
    <3>3. (Taken - 1) * M + 0 = (Taken - 1) * M
      <4>1. Taken - 1 \in Int
        BY <1>3 DEF Busy
      <4>2. (Taken - 1) * M \in Int
        BY <4>1, Products
      <4> QED
        BY <4>2
    <3> QED
      BY <2>2, <3>2, <3>3, <1>2, <1>6
  <2> QED
    BY <2>1, <2>2
<1>8. i' \in 0..Len(Chunk(Taken))
  BY <1>2, <1>3 DEF Busy
<1>9. PanelInv'
  BY <1>1, <1>2, <1>4, <1>6, <1>7, <1>8 DEF PanelInv
<1> QED
  BY <1>4, <1>5, <1>9 DEF Working

\* One byte more of the image reaches the panel.
LEMMA CopyKeeps ==
  ASSUME Working, Copy
  PROVE  Working'
<1>1. LineInv /\ ThreadInv /\ FrameInv /\ PanelInv
  BY DEF Working
<1>2. /\ pc = "copy" /\ pc' = "copy" /\ i < image_data_len /\ i' = i + 1
      /\ UNCHANGED <<next, wire, recState, data_index, cmd_type, cmd, data_len,
                     data_buffer, crc_received, event, packet_num, total_packets,
                     image_data_len, awake, shown>>
      /\ ram' = (IF awake THEN Append(ram, PanelByte(data_buffer[2 + i])) ELSE ram)
  BY DEF Copy, EPD_WriteDATA, isrVars, lineVars
<1>3. Busy
  BY <1>2, BusyHolds
<1>4. /\ LineInv' /\ Taken' = Taken /\ Completed' = Completed
      /\ event' = 1 => Whole(Completed)' /\ (wire' = << >> \/ Position' <= 2)
  BY <1>2, EventKept
<1>5. ThreadInv' /\ FrameInv'
  <2>1. i \in Nat
    BY <1>1, <1>2, <1>3 DEF PanelInv, Busy
  <2>2. \A j \in 0..(DataLen(Taken) - 1) : Unread(j)' => Unread(j)
    BY <2>1, <1>2, <1>3 DEF Unread, Busy
  <2> QED
    BY <2>2, <1>1, <1>2, <1>4 DEF ThreadInv, FrameInv, Before
<1>6. Copied' = Copied /\ awake /\ image_data_len = Len(Chunk(Taken))
  BY <1>1, <1>2, <1>4 DEF Copied, PanelInv, ThreadInv, Before
<1>7. PICK k \in 1..TotalPackets : k = Taken
  BY <1>3 DEF Busy
<1>8. PICK n \in Nat : n = Len(Chunk(k))
  BY <1>3, <1>7 DEF Busy
<1>9. /\ i \in Nat /\ i < n /\ i + 1 \in 1..n /\ i' \in 0..n
      /\ (i + 1) + 1 = 2 + i
  <2>1. i \in 0..Len(Chunk(Taken))
    BY <1>1, <1>2 DEF PanelInv
  <2> QED
    BY <2>1, <1>2, <1>6, <1>7, <1>8
<1> DEFINE a == (k - 1) * M
           m == a + i
<1>10. a \in Int /\ Taken - 1 = k - 1
  BY <1>7, Products
<1> HIDE DEF a
<1>11. data_buffer[2 + i] = Chunk(k)[i + 1]
  <2>1. DataLen(Taken) = n + 2 /\ Frame(Taken)[(i + 1) + 8] = Chunk(k)[i + 1]
    BY <1>3, <1>7, <1>8, <1>9 DEF Busy
  <2>2. 2 + i \in 0..(DataLen(Taken) - 1) /\ (2 + i) + 7 = (i + 1) + 8 /\ 2 + i >= i + 2
    BY <2>1, <1>8, <1>9
  <2>3. data_buffer[2 + i] = Frame(Taken)[(2 + i) + 7]
    BY <2>2, <1>1, <1>2 DEF FrameInv, Unread, Before
  <2> QED
    BY <2>1, <2>2, <2>3
<1>12. a + (i + 1) \in 1..Len(Image) /\ Chunk(k)[i + 1] = Image[a + (i + 1)]
  BY <1>8, <1>9, ChunkIs DEF a
<1>13. m \in Int /\ a + (i + 1) = m + 1
  BY <1>9, <1>10
<1> HIDE DEF m
<1>14. Image[m + 1] \in Byte
  BY <1>12, <1>13, Sizes, ElementOfSeq
<1>15. PanelByte(data_buffer[2 + i]) = Image[m + 1]
  BY <1>11, <1>12, <1>13, <1>14, PanelByteIs
<1>16. ram = SubSeq(Image, 1, m)
  BY <1>1, <1>2, <1>10 DEF PanelInv, m, a
<1>17. ram' = SubSeq(Image, 1, m + 1)
  <2>1. m + 1 \in 1..Len(Image) \/ ~(m >= 0)
    BY <1>12, <1>13
  <2>2. m >= 0
    <3>1. a + (i + 1) >= 1
      BY <1>12, Sizes
    <3> QED
      BY <3>1, <1>13
  <2>3. m \in 0..(Len(Image) - 1)
    BY <2>1, <2>2, <1>13, Sizes
  <2> QED
    BY <2>3, <1>2, <1>6, <1>15, <1>16, PrefixGrows
<1>18. ram' = SubSeq(Image, 1, (Taken' - 1) * M + i')
  BY <1>2, <1>4, <1>7, <1>13, <1>17 DEF a
<1>19. i' \in 0..Len(Chunk(Taken'))
  BY <1>4, <1>7, <1>8, <1>9
<1>20. PanelInv'
  BY <1>1, <1>2, <1>4, <1>6, <1>18, <1>19 DEF PanelInv
<1> QED
  BY <1>4, <1>5, <1>20 DEF Working

\* A packet ends inside the buffer.
LEMMA NeverBeyond ==
  ASSUME Working, CopyBeyond
  PROVE  FALSE
<1>1. /\ pc = "copy" /\ i < image_data_len /\ i + 2 >= MaxDataLen
      /\ i \in 0..Len(Chunk(Taken)) /\ image_data_len = Len(Chunk(Taken))
  BY DEF CopyBeyond, Working, PanelInv, ThreadInv
<1>2. Busy
  BY <1>1, BusyHolds
<1> QED
  BY <1>1, <1>2, Sizes DEF Busy

\* After the last packet the RAM of the panel holds the image, and shows it.
LEMMA EndCopyKeeps ==
  ASSUME Working, EndCopy
  PROVE  Working'
<1>1. LineInv /\ ThreadInv /\ FrameInv /\ PanelInv
  BY DEF Working
<1>2. /\ pc = "copy" /\ i >= image_data_len
      /\ UNCHANGED <<next, wire, recState, data_index, cmd_type, cmd, data_len,
                     data_buffer, crc_received, event, packet_num, total_packets,
                     image_data_len, i, awake, ram>>
      /\ IF packet_num = total_packets
         THEN pc' = "sleep" /\ shown' = (IF awake THEN Append(shown, ram) ELSE shown)
         ELSE pc' = "wait" /\ shown' = shown
  BY DEF EndCopy, EPD_Update, isrVars, lineVars, panelVars
<1>3. Busy
  BY <1>2, BusyHolds
<1>4. /\ LineInv' /\ Taken' = Taken /\ Completed' = Completed
      /\ event' = 1 => Whole(Completed)' /\ (wire' = << >> \/ Position' <= 2)
  BY <1>2, EventKept
<1>5. ThreadInv' /\ FrameInv'
  BY <1>1, <1>2, <1>4 DEF ThreadInv, FrameInv, Before
<1>6. /\ awake /\ image_data_len = Len(Chunk(Taken))
      /\ packet_num = Taken /\ total_packets = TotalPackets
      /\ ram = SubSeq(Image, 1, (Taken - 1) * M + i)
      /\ i \in 0..Len(Chunk(Taken))
      /\ shown = IF Copied = TotalPackets THEN <<Image>> ELSE << >>
  BY <1>1, <1>2 DEF PanelInv, ThreadInv
<1>7. PICK k \in 1..TotalPackets : k = Taken
  BY <1>3 DEF Busy
<1>8. PICK n \in Nat : n = Len(Chunk(k))
  BY <1>3, <1>7 DEF Busy
<1>9. i = n
  BY <1>2, <1>6, <1>7, <1>8
<1>10. Taken - 1 = k - 1 /\ k \in Nat /\ TotalPackets \in Nat
  BY <1>3, <1>7 DEF Busy
<1>11. Copied = k - 1 /\ Copied' = k /\ shown = << >>
  <2>1. Copied = k - 1
    BY <1>2, <1>3, <1>7 DEF Busy, Before
  <2>2. Copied' = Taken'
    BY <1>2 DEF Before, Copied
  <2> QED
    BY <2>1, <2>2, <1>4, <1>6, <1>7, <1>10
<1>12. ram = SubSeq(Image, 1, (k - 1) * M + n)
  BY <1>6, <1>9, <1>10
<1>13. CASE k = TotalPackets
  <2>1. ram = Image
    <3>1. (k - 1) * M + n = Len(Image)
      BY <1>8, <1>13, ChunkIs
    <3>2. SubSeq(Image, 1, Len(Image)) = Image
      BY Sizes, SubSeqFull
    <3> QED
      BY <3>1, <3>2, <1>12
  <2>2. pc' = "sleep" /\ shown' = <<Image>>
    BY <2>1, <1>2, <1>6, <1>7, <1>11, <1>13
  <2>3. ~(Copied' \in 1..(TotalPackets - 1))
    BY <1>10, <1>11, <1>13
  <2>4. PanelInv'
    BY <2>2, <2>3, <1>11, <1>13 DEF PanelInv
  <2> QED
    BY <2>4, <1>4, <1>5 DEF Working
<1>14. CASE k # TotalPackets
  <2>1. pc' = "wait" /\ shown' = << >>
    BY <1>2, <1>6, <1>7, <1>11, <1>14
  <2>2. ram' = SubSeq(Image, 1, Copied' * M)
    <3>1. k < TotalPackets
      BY <1>7, <1>10, <1>14
    <3>2. (k - 1) * M + n = k * M
      BY <3>1, <1>8, ChunkIs
    <3> QED
      BY <3>2, <1>2, <1>11, <1>12
  <2>3. PanelInv'
    BY <2>1, <2>2, <1>2, <1>6, <1>11, <1>14 DEF PanelInv
  <2> QED
    BY <2>3, <1>4, <1>5 DEF Working
<1> QED
  BY <1>13, <1>14

\* The panel sleeps when it shows the image.
LEMMA SleepKeeps ==
  ASSUME Working, Sleep
  PROVE  Working'
<1>1. LineInv /\ ThreadInv /\ FrameInv /\ PanelInv
  BY DEF Working
<1>2. /\ pc = "sleep" /\ pc' = "wait"
      /\ UNCHANGED <<next, wire, recState, data_index, cmd_type, cmd, data_len,
                     data_buffer, crc_received, event, packet_num, total_packets,
                     image_data_len, i, ram, shown>>
  BY DEF Sleep, EPD_Sleep, isrVars, lineVars
<1>3. Busy
  BY <1>2, BusyHolds
<1>4. /\ LineInv' /\ Taken' = Taken /\ Completed' = Completed
      /\ event' = 1 => Whole(Completed)' /\ (wire' = << >> \/ Position' <= 2)
  BY <1>2, EventKept
<1>5. ThreadInv' /\ FrameInv'
  BY <1>1, <1>2, <1>4 DEF ThreadInv, FrameInv, Before
<1>6. Copied' = Copied /\ Copied = TotalPackets
  BY <1>1, <1>2, <1>4 DEF Copied, PanelInv, Before
<1>7. PanelInv'
  <2>1. ~(Copied \in 1..(TotalPackets - 1))
    BY <1>3, <1>6 DEF Busy
  <2> QED
    BY <2>1, <1>1, <1>2, <1>6 DEF PanelInv
<1> QED
  BY <1>4, <1>5, <1>7 DEF Working

LEMMA NextHolds ==
  ASSUME TransferInv, [Next]_vars
  PROVE  TransferInv'
<1>1. lost \in Nat
  BY DEF TransferInv
<1>2. /\ lost' = lost \/ lost' = lost + 1
      /\ torn' = torn \/ torn' = (torn \/ Tears)
  BY DEF Next, SendFrame, Deliver, Lose, Thread, ProcessFrame, EventRead, ReadType, ReadCmd,
         ReadLen, ReadPacketNum, ReadTotal, Wake, Start, Copy, CopyBeyond, EndCopy, Sleep,
         vars, lineVars
<1>3. lost' \in Nat /\ (lost' = 0 => lost = 0 /\ lost' = lost)
  BY <1>1, <1>2
<1>4. ~torn' => ~torn
  BY <1>2, Zenon
<1>5. ASSUME lost' = 0, ~torn' PROVE Working'
  <2>1. lost = 0 /\ lost' = lost /\ Working
    BY <1>3, <1>4, <1>5 DEF TransferInv
  <2>2. CASE SendFrame
    BY <2>1, <2>2, SendKeeps
  <2>3. CASE Deliver
    BY <2>1, <2>3, <1>5, DeliverKeeps
  <2>4. CASE Lose
    BY <1>1, <2>1, <2>4 DEF Lose
  <2>5. CASE EventRead
    BY <2>1, <2>5, EventReadKeeps
  <2>6. CASE ReadType \/ ReadCmd \/ ReadLen \/ ReadPacketNum \/ ReadTotal
    BY <2>1, <2>6, ReadKeeps
  <2>7. CASE Wake
    BY <2>1, <2>7, WakeKeeps
  <2>8. CASE Start
    BY <2>1, <2>8, StartKeeps
  <2>9. CASE Copy
    BY <2>1, <2>9, CopyKeeps
  <2>10. CASE CopyBeyond
    BY <2>1, <2>10, NeverBeyond
  <2>11. CASE EndCopy
    BY <2>1, <2>11, EndCopyKeeps
  <2>12. CASE Sleep
    BY <2>1, <2>12, SleepKeeps
  <2>13. CASE UNCHANGED vars
    <3>1. UNCHANGED <<next, wire, recState, data_index, cmd_type, cmd, data_len, data_buffer,
                      crc_received, event, pc, packet_num, total_packets, image_data_len, i,
                      awake, ram, shown>>
      BY <2>13 DEF vars, isrVars, lineVars, threadVars, panelVars
    <3>2. LineInv' /\ Taken' = Taken /\ Completed' = Completed /\ Position' = Position
      BY <2>1, <3>1, LineKept DEF Working, Taken, Completed, Position
    <3>3. ThreadInv' /\ FrameInv'
      BY <2>1, <3>1, <3>2 DEF Working, ThreadInv, FrameInv, Whole, Unread
    <3>4. PanelInv'
      BY <2>1, <3>1, <3>2, PanelKept DEF Working
    <3> QED
      BY <3>2, <3>3, <3>4 DEF Working
  <2> QED
    BY <2>2, <2>3, <2>4, <2>5, <2>6, <2>7, <2>8, <2>9, <2>10, <2>11, <2>12, <2>13
       DEF Next, Thread, ProcessFrame
<1> QED
  BY <1>3, <1>4, <1>5 DEF TransferInv

LEMMA TransferInvariant == Spec => []TransferInv
<1>1. Init => TransferInv
  BY InitHolds
<1>2. TransferInv /\ [Next]_vars => TransferInv'
  BY NextHolds
<1> QED
  BY <1>1, <1>2, PTL DEF Spec

-----------------------------------------------------------------------------
(***************************************************************************)
(* What EPD_Update shows is the image that was sent, byte for byte and once*)
(* per transfer, whatever the image, the packet size, the checksum and the *)
(* pace of the sender: a packet is skipped, repeated, merged or cut only   *)
(* where a byte is lost, or after the interrupt has stored into a part of  *)
(* g_frame_data that the thread had yet to read.                           *)
(***************************************************************************)
THEOREM PanelShowsTheImage == Spec => []ShowsOnlyTheImage
<1>1. TransferInv => ShowsOnlyTheImage
  <2> SUFFICES ASSUME TransferInv, lost = 0, ~torn PROVE \A k \in DOMAIN shown : shown[k] = Image
    BY DEF ShowsOnlyTheImage
  <2>1. shown = <<Image>> \/ shown = << >>
    BY DEF TransferInv, Working, PanelInv
  <2>2. CASE shown = <<Image>>
    <3>1. DOMAIN shown = 1..1 /\ shown[1] = Image
      BY <2>2
    <3> QED
      BY <3>1
  <2>3. CASE shown = << >>
    <3>1. DOMAIN shown = {}
      BY <2>3
    <3> QED
      BY <3>1
  <2> QED
    BY <2>1, <2>2, <2>3
<1> QED
  BY <1>1, TransferInvariant, PTL

(***************************************************************************)
(* On a line that loses nothing the rest of the packet that the thread is  *)
(* copying stays what was sent while the next frame comes in behind it,    *)
(* and the length it took over is that of the packet.                      *)
(***************************************************************************)
THEOREM FrameIsStable == Spec => [](lost = 0 => OnlyImagePackets)
<1>1. TransferInv => (lost = 0 => OnlyImagePackets)
  <2> SUFFICES ASSUME TransferInv, lost = 0, pc = "copy", ~torn
               PROVE  /\ packet_num \in 1..TotalPackets
                      /\ total_packets = TotalPackets
                      /\ image_data_len = Len(Chunk(packet_num))
                      /\ \A k \in (i + 1)..image_data_len :
                            data_buffer[k + 1] = Chunk(packet_num)[k]
    BY DEF OnlyImagePackets
  <2>1. Working
    BY DEF TransferInv
  <2>2. Busy
    BY <2>1, BusyHolds
  <2>3. /\ packet_num = Taken /\ total_packets = TotalPackets
        /\ image_data_len = Len(Chunk(Taken)) /\ i \in 0..Len(Chunk(Taken))
    BY <2>1 DEF Working, ThreadInv, PanelInv
  <2>4. ASSUME NEW k \in (i + 1)..Len(Chunk(Taken))
        PROVE  data_buffer[k + 1] = Chunk(Taken)[k]
    <3>1. PICK n \in Nat : n = Len(Chunk(Taken)) /\ DataLen(Taken) = n + 2
      BY <2>2 DEF Busy
    <3>2. /\ k \in 1..n /\ k + 1 \in 0..(DataLen(Taken) - 1) /\ k + 1 >= i + 2
          /\ (k + 1) + 7 = k + 8
      BY <2>3, <3>1
    <3>3. data_buffer[k + 1] = Frame(Taken)[(k + 1) + 7]
      BY <2>1, <3>2 DEF Working, FrameInv, Unread, Before
    <3> QED
      BY <2>2, <3>1, <3>2, <3>3 DEF Busy
  <2> QED
    BY <2>2, <2>3, <2>4 DEF Busy
<1> QED
  BY <1>1, TransferInvariant, PTL

(***************************************************************************)
(* When everything that was sent has been processed, the panel has shown   *)
(* the image, exactly once, unless a byte was lost or a frame torn: these  *)
(* two are the only causes of a transfer that fails.                       *)
(***************************************************************************)
THEOREM TransferIsComplete == Spec => [](lost = 0 /\ ~torn => ImageDisplayed)
<1>1. TransferInv => (lost = 0 /\ ~torn => ImageDisplayed)
  <2> SUFFICES ASSUME TransferInv, lost = 0, ~torn, Done PROVE shown = <<Image>>
    BY DEF ImageDisplayed
  <2>1. next > TotalPackets /\ wire = << >> /\ pc = "wait" /\ event = 0
    BY DEF Done, Idle
  <2>2. TotalPackets \in Nat /\ next = TotalPackets + 1
    BY <2>1, Numbers DEF TransferInv, Working
  <2>3. Copied = TotalPackets
    BY <2>1, <2>2 DEF Copied, Taken, Completed, Before
  <2> QED
    BY <2>3 DEF TransferInv, Working, PanelInv
<1> QED
  BY <1>1, TransferInvariant, PTL

=============================================================================
