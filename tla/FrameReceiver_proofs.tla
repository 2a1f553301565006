------------------------ MODULE FrameReceiver_proofs ------------------------
(***************************************************************************)
(* Proofs about FrameReceiver, for every set of byte values on the line,   *)
(* every MaxDataLen and every checksum function.                           *)
(***************************************************************************)
EXTENDS FrameReceiver, SequenceTheorems, TLAPS

\* TypeOK and DataInBounds are not inductive by themselves: the bound on the
\* length field must survive until the checksum, and the `|=' of the two low
\* bytes must find a clear low byte.
IInv == TypeOK /\ DataInBounds /\ FieldsReady

\* The state the program starts in satisfies the inductive invariant.
LEMMA InitIInv == Init => IInv
  BY MaxDataLenAssumption
     DEF Init, IInv, TypeOK, DataInBounds, FieldsReady, 
         RecvState_t, UINT16, g_frame_data, WIFI_EVENT_RECV

\* A byte fits into the clear low byte of a 16-bit word.
LEMMA OrLowByte ==
  ASSUME NEW h \in 0..255, NEW d \in 0..255
  PROVE  /\ h * 256 + d \in UINT16
         /\ (h * 256 + d) \div 256 = h
         /\ (h * 256 + d) % 256 = d
  BY DEF UINT16

\* Storing a byte keeps the buffer an array of bytes.
LEMMA StoreByte ==
  ASSUME NEW S, NEW T, NEW f \in [S -> T], NEW i, NEW v \in T
  PROVE  [f EXCEPT ![i] = v] \in [S -> T]
  OBVIOUS

\* Every byte, whatever its value, and the thread's read of the event preserve
\* the inductive invariant.
LEMMA NextIInv == IInv /\ [Next]_vars => IInv'
<1> SUFFICES ASSUME IInv, [Next]_vars PROVE IInv'
  OBVIOUS
<1>t. TypeOK /\ DataInBounds /\ FieldsReady
  BY DEF IInv
<1>1. CASE UNCHANGED vars
  BY <1>1 DEF vars, g_frame_data, IInv, TypeOK, DataInBounds, FieldsReady
<1>2. CASE TakeEvent
  BY <1>2 DEF TakeEvent, g_frame_data, WIFI_EVENT_RECV,
              IInv, TypeOK, DataInBounds, FieldsReady
<1>3. ASSUME NEW data \in Bytes, recDataProcessing(data) PROVE IInv'
  <2>0. data \in 0..255
    BY BytesAssumption
  <2>1. CASE ReceiveHeader1(data)
    BY <2>1 DEF ReceiveHeader1, g_frame_data,
                IInv, TypeOK, DataInBounds, FieldsReady, RecvState_t
  <2>2. CASE ReceiveHeader2(data)
    BY <2>2 DEF ReceiveHeader2, g_frame_data,
                IInv, TypeOK, DataInBounds, FieldsReady, RecvState_t
  <2>3. CASE ReceiveCmdType(data)
    BY <2>0, <2>3 DEF ReceiveCmdType,
                IInv, TypeOK, DataInBounds, FieldsReady, RecvState_t
  <2>4. CASE ReceiveCmd(data)
    BY <2>0, <2>4 DEF ReceiveCmd,
                IInv, TypeOK, DataInBounds, FieldsReady, RecvState_t
  <2>5. CASE ReceiveLenHigh(data)
    <3>1. data * 256 \in UINT16
      BY <2>0 DEF UINT16
    <3> QED
      BY <2>0, <2>5, <3>1 DEF ReceiveLenHigh,
                IInv, TypeOK, DataInBounds, FieldsReady, RecvState_t
  <2>6. CASE ReceiveLenLow(data)
    <3>1. PICK h \in 0..255 : data_len = h * 256
      BY <1>t, <2>6 DEF ReceiveLenLow, FieldsReady
    <3>2. data_len' = h * 256 + data
      BY <2>6, <3>1 DEF ReceiveLenLow
    <3>3. data_len' \in UINT16
      BY <2>0, <3>2, OrLowByte
    <3>4. data_len' \in Nat
      BY <3>3 DEF UINT16
    <3> QED
      BY <2>6, <3>3, <3>4, MaxDataLenAssumption DEF ReceiveLenLow,
                IInv, TypeOK, DataInBounds, FieldsReady, RecvState_t
  <2>7. CASE ReceiveData(data)
    <3>1. /\ data_index \in Nat /\ data_len \in Nat
          /\ data_index < data_len /\ data_len <= MaxDataLen
      BY <1>t, <2>7, MaxDataLenAssumption
         DEF ReceiveData, TypeOK, DataInBounds, FieldsReady, UINT16
    <3>2. data_index' = data_index + 1 /\ data_index' \in 0..MaxDataLen
      BY <2>7, <3>1, MaxDataLenAssumption DEF ReceiveData
    <3>3. data_buffer' = [data_buffer EXCEPT ![data_index] = data]
      BY <2>7, <3>1 DEF ReceiveData
    <3>4. data_buffer' \in [0..(MaxDataLen - 1) -> 0..255]
      BY <1>t, <2>0, <3>3, StoreByte DEF TypeOK
    <3>5. recState' = IF data_index' >= data_len THEN "CRC_HIGH" ELSE "DATA"
      BY <2>7, <3>1 DEF ReceiveData
    <3>6. UNCHANGED <<cmd_type, cmd, data_len, crc_received, event>>
      BY <2>7 DEF ReceiveData
    <3>7. TypeOK'
      BY <1>t, <3>2, <3>4, <3>5, <3>6 DEF TypeOK, RecvState_t
    <3>8. DataInBounds' /\ FieldsReady'
      BY <3>1, <3>2, <3>5, <3>6 DEF DataInBounds, FieldsReady
    <3> QED
      BY <3>7, <3>8 DEF IInv
  <2>8. CASE ReceiveCrcHigh(data)
    <3>1. data * 256 \in UINT16
      BY <2>0 DEF UINT16
    <3> QED
      BY <2>0, <2>8, <3>1 DEF ReceiveCrcHigh,
                IInv, TypeOK, DataInBounds, FieldsReady, RecvState_t
  <2>9. CASE ReceiveCrcLow(data)
    <3>1. PICK h \in 0..255 : crc_received = h * 256
      BY <1>t, <2>9 DEF ReceiveCrcLow, FieldsReady
    <3>2. crc_received' = h * 256 + data
      BY <2>9, <3>1 DEF ReceiveCrcLow
    <3>3. crc_received' \in UINT16
      BY <2>0, <3>2, OrLowByte
    <3>4. event' \in {0, WIFI_EVENT_RECV}
      BY <1>t, <2>9 DEF ReceiveCrcLow, TypeOK
    <3> QED
      BY <2>9, <3>3, <3>4, MaxDataLenAssumption DEF ReceiveCrcLow,
                IInv, TypeOK, DataInBounds, FieldsReady, RecvState_t
  <2> QED
    BY <1>3, <2>1, <2>2, <2>3, <2>4, <2>5, <2>6, <2>7, <2>8, <2>9
       DEF recDataProcessing
<1> QED
  BY <1>1, <1>2, <1>3 DEF Next, Interrupt

\* Every reachable state satisfies the inductive invariant.
THEOREM Invariance == Spec => []IInv
  BY InitIInv, NextIInv, PTL DEF Spec

\* Every variable keeps its C type and data_index stays within data_buffer,
\* whatever bytes arrive: the type invariant of recDataProcessing.
THEOREM TypeCorrect == Spec => []TypeOK
  BY Invariance, PTL DEF IInv

\* The store of RECV_STATE_DATA never leaves data_buffer and never starts with a
\* full one, whatever lengths and bytes arrive.
THEOREM BufferSafe == Spec => []DataInBounds
  BY Invariance, PTL DEF IInv

\* What the later states of recDataProcessing take from the earlier ones is there:
\* a legal length from RECV_STATE_DATA on, and a clear low byte where `|=' fills
\* one in, whatever was left of the frame before.
THEOREM FieldsAlwaysReady == Spec => []FieldsReady
  BY Invariance, PTL DEF IInv
-----------------------------------------------------------------------------
\* A 16-bit word is its two bytes.
LEMMA TwoBytes ==
  ASSUME NEW w \in UINT16
  PROVE  /\ w \div 256 \in 0..255
         /\ w % 256 \in 0..255
         /\ ((w \div 256) * 256) + (w % 256) = w
<1>1. w \in Nat /\ w <= 65535
  BY DEF UINT16
<1> HIDE DEF UINT16
<1>2. w \div 256 \in 0..255 /\ w % 256 \in 0..255
  BY ONLY <1>1
<1>3. ((w \div 256) * 256) + (w % 256) = w
  BY ONLY <1>1
<1> QED
  BY <1>2, <1>3

\* A function on 1..n is a sequence, and appending a byte to it changes no
\* byte it already has.
LEMMA AppendByte ==
  ASSUME NEW n \in Nat, NEW s \in [1..n -> 0..255], NEW d \in 0..255
  PROVE  /\ Append(s, d) \in Seq(0..255)
         /\ Len(Append(s, d)) = n + 1
         /\ \A i \in 1..n : Append(s, d)[i] = s[i]
         /\ Append(s, d)[n + 1] = d
<1>1. s \in Seq(0..255) /\ Len(s) = n
  BY SeqDef
<1> QED
  BY <1>1, AppendProperties

\* A function on 1..n that agrees with a sequence of length n is that sequence.
LEMMA SameBytes ==
  ASSUME NEW n \in Nat, NEW s \in [1..n -> 0..255], NEW t \in Seq(0..255),
         Len(t) = n, \A i \in 1..n : s[i] = t[i]
  PROVE  s = t
<1>1. s \in Seq(0..255) /\ Len(s) = n
  BY SeqDef
<1> QED
  BY <1>1, SeqEqual

\* What the receiver holds in each state.
LEMMA HeldValue ==
  /\ recState = "HEADER1"  => Held = 0
  /\ recState = "HEADER2"  => Held = 1
  /\ recState = "CMD_TYPE" => Held = 2
  /\ recState = "CMD"      => Held = 3
  /\ recState = "LEN_HIGH" => Held = 4
  /\ recState = "LEN_LOW"  => Held = 5
  /\ recState = "DATA"     => Held = 6 + data_index
  /\ recState = "CRC_HIGH" => Held = 6 + data_len
  /\ recState = "CRC_LOW"  => Held = 7 + data_len
  BY DEF Held

\* The header, command and length bytes of the frame in progress, read back from
\* g_frame_data.
LEMMA WireByteValue ==
  /\ WireByte(1) = 165
  /\ WireByte(2) = 90
  /\ WireByte(3) = cmd_type
  /\ WireByte(4) = cmd
  /\ WireByte(5) = data_len \div 256
  /\ WireByte(6) = data_len % 256
  BY DEF WireByte, FRAME_HEADER1, FRAME_HEADER2

\* A data byte of the frame in progress is the cell of data_buffer it was stored in.
LEMMA WireByteData ==
  ASSUME data_len \in Nat, NEW i \in Nat, i > 6
  PROVE  /\ i <= 6 + data_len => WireByte(i) = data_buffer[i - 7]
         /\ i > 6 + data_len => WireByte(i) = crc_received \div 256
  BY DEF WireByte

\* The mapped candidate frame is a sequence of bytes, as long as Held.
LEMMA BufType ==
  ASSUME IInv
  PROVE  /\ Held \in Nat
         /\ Buf \in [1..Held -> 0..255]
         /\ \A i \in 1..Held : Buf[i] = WireByte(i)
<1>t. TypeOK /\ DataInBounds /\ FieldsReady
  BY DEF IInv
<1>n. data_len \in Nat /\ data_index \in Nat
  BY <1>t, MaxDataLenAssumption DEF TypeOK, UINT16
<1>1. recState \in RecvState_t
  BY <1>t DEF TypeOK
<1>2. Held \in Nat
  BY <1>1, <1>n, HeldValue DEF RecvState_t
<1>3. ASSUME NEW i \in 1..Held PROVE WireByte(i) \in 0..255
  <2>1. CASE i <= 6
    <3>1. i \in {1, 2, 3, 4, 5, 6}
      BY <1>2, <2>1
    <3>2. /\ cmd_type \in 0..255 /\ cmd \in 0..255
          /\ data_len \div 256 \in 0..255 /\ data_len % 256 \in 0..255
      BY <1>t, TwoBytes DEF TypeOK
    <3> QED
      BY <3>1, <3>2, WireByteValue
  <2>2. CASE i > 6 /\ i <= 6 + data_len
    <3>1. recState \in {"DATA", "CRC_HIGH", "CRC_LOW"}
      BY <1>1, <1>2, <2>2, HeldValue DEF RecvState_t
    <3>2. data_len <= MaxDataLen
      BY <1>t, <3>1, MaxDataLenAssumption DEF FieldsReady
    <3>3. i - 7 \in 0..(MaxDataLen - 1)
      BY <1>2, <1>n, <2>2, <3>2, MaxDataLenAssumption
    <3>4. data_buffer[i - 7] \in 0..255
      BY <1>t, <3>3 DEF TypeOK
    <3> QED
      BY <1>2, <1>n, <2>2, <3>4, WireByteData
  <2>3. CASE i > 6 + data_len
    <3>1. crc_received \div 256 \in 0..255
      BY <1>t, TwoBytes DEF TypeOK
    <3>2. i \in Nat /\ i > 6
      BY <1>2, <1>n, <2>3
    <3> QED
      BY <1>n, <2>3, <3>1, <3>2, WireByteData
  <2> QED
    BY <1>2, <1>n, <2>1, <2>2, <2>3
<1>4. Buf \in [1..Held -> 0..255]
  BY <1>3 DEF Buf
<1>5. \A i \in 1..Held : Buf[i] = WireByte(i)
  BY DEF Buf
<1> QED
  BY <1>2, <1>4, <1>5

\* A step that adds one byte to what is held, and leaves the rest alone,
\* appends that byte to the mapped candidate frame.
LEMMA BufExtend ==
  ASSUME IInv, NEW data \in 0..255, NEW n \in Nat,
         Held = n, Held' = n + 1,
         \A i \in 1..n : WireByte(i)' = WireByte(i),
         WireByte(n + 1)' = data
  PROVE  Buf' = Append(Buf, data)
<1>1. /\ Buf \in [1..n -> 0..255]
      /\ \A i \in 1..n : Buf[i] = WireByte(i)
  BY BufType
<1> DEFINE S == Append(Buf, data)
<1>2. /\ S \in Seq(0..255)
      /\ Len(S) = n + 1
      /\ \A i \in 1..n : S[i] = Buf[i]
      /\ S[n + 1] = data
  BY ONLY <1>1, n \in Nat, data \in 0..255, AppendByte, Zenon
<1> HIDE DEF S
<1>3. ASSUME NEW i \in 1..(n + 1) PROVE WireByte(i)' = S[i]
  <2>1. CASE i \in 1..n
    BY <1>1, <1>2, <2>1
  <2>2. CASE i = n + 1
    BY <1>2, <2>2
  <2> QED
    BY <2>1, <2>2
<1>4. ASSUME NEW i \in 1..(n + 1) PROVE WireByte(i)' \in 0..255
  <2>1. i \in 1..Len(S)
    BY <1>2
  <2>2. S[i] \in 0..255
    BY <1>2, <2>1, ElementOfSeq, Zenon
  <2> QED
    BY <1>3, <2>2
<1>5. Buf' = [i \in 1..(n + 1) |-> WireByte(i)']
  BY DEF Buf
<1>6. Buf' \in [1..(n + 1) -> 0..255] /\ \A i \in 1..(n + 1) : Buf'[i] = S[i]
  BY <1>3, <1>4, <1>5
<1> QED
  BY <1>2, <1>6, SameBytes DEF S

\* The candidate frame, and the byte that follows it.
LEMMA NextCandidate ==
  ASSUME IInv, NEW data \in 0..255
  PROVE  /\ Held \in Nat
         /\ Append(Buf, data) \in Seq(0..255)
         /\ Len(Append(Buf, data)) = Held + 1
         /\ \A i \in 1..Held : Append(Buf, data)[i] = WireByte(i)
         /\ Append(Buf, data)[Held + 1] = data
<1>1. /\ Held \in Nat
      /\ Buf \in [1..Held -> 0..255]
      /\ \A i \in 1..Held : Buf[i] = WireByte(i)
  BY BufType
<1> DEFINE S == Append(Buf, data)
<1>2. /\ S \in Seq(0..255)
      /\ Len(S) = Held + 1
      /\ \A i \in 1..Held : S[i] = Buf[i]
      /\ S[Held + 1] = data
  BY ONLY <1>1, data \in 0..255, AppendByte, Zenon
<1> HIDE DEF S
<1>3. \A i \in 1..Held : S[i] = WireByte(i)
  BY <1>1, <1>2
<1> QED
  BY <1>1, <1>2, <1>3 DEF S

\* A receiver back in RECV_STATE_HEADER1 holds nothing.
LEMMA BufEmpty == recState = "HEADER1" => Buf = << >>
<1> SUFFICES ASSUME recState = "HEADER1" PROVE Buf = << >>
  OBVIOUS
<1>1. Held = 0
  BY HeldValue
<1>2. Buf = [i \in 1..0 |-> WireByte(i)]
  BY <1>1 DEF Buf
<1> QED
  BY <1>2

\* In the first six states the candidate is short, so only its headers count.
LEMMA ShortCandidate ==
  ASSUME NEW S \in Seq(0..255), Len(S) <= 5,
         S[1] = 165, Len(S) >= 2 => S[2] = 90
  PROVE  Stream!Viable(S) /\ ~Stream!Complete(S)
<1>1. ~(Len(S) >= 6)
  OBVIOUS
<1> QED
  BY <1>1, Zenon DEF Stream!Viable, Stream!Complete

\* RECV_STATE_HEADER1: the first header byte starts a candidate, any other byte is
\* rejected.
LEMMA SimHeader1 ==
  ASSUME IInv, NEW data \in 0..255, ReceiveHeader1(data)
  PROVE  Stream!Receive(data)
<1> DEFINE S == Append(Buf, data)
<1>s. /\ S \in Seq(0..255) /\ Len(S) = Held + 1
      /\ \A i \in 1..Held : S[i] = WireByte(i)
      /\ S[Held + 1] = data
  BY NextCandidate
<1> HIDE DEF S
<1>1. recState = "HEADER1" /\ Held = 0 /\ event' = event
  BY HeldValue DEF ReceiveHeader1
<1>2. Len(S) = 1 /\ S[1] = data
  BY <1>1, <1>s
<1>3. CASE data = 165
  <2>1. recState' = "HEADER2" /\ Held' = 1
    BY <1>3 DEF ReceiveHeader1, FRAME_HEADER1, Held
  <2>2. WireByte(1)' = 165
    BY DEF WireByte, FRAME_HEADER1
  <2>3. Buf' = S
    BY <1>1, <1>3, <2>1, <2>2, BufExtend DEF S
  <2>4. Stream!Viable(S) /\ ~Stream!Complete(S)
    BY <1>2, <1>3, <1>s, ShortCandidate
  <2> QED
    BY <1>1, <2>3, <2>4 DEF Stream!Receive, Stream!Extend, S
<1>4. CASE data # 165
  <2>1. recState' = "HEADER1"
    BY <1>4 DEF ReceiveHeader1, FRAME_HEADER1
  <2>2. Held' = 0
    BY <2>1 DEF Held
  <2>3. Buf' = << >>
    BY <2>2 DEF Buf
  <2>4. ~Stream!Viable(S)
    BY <1>2, <1>4 DEF Stream!Viable
  <2> QED
    BY <1>1, <2>3, <2>4 DEF Stream!Receive, Stream!Reject, S
<1> QED
  BY <1>3, <1>4

\* RECV_STATE_HEADER2: the second header byte extends the candidate, any other byte
\* (0xA5 too) rejects it.
LEMMA SimHeader2 ==
  ASSUME IInv, NEW data \in 0..255, ReceiveHeader2(data)
  PROVE  Stream!Receive(data)
<1> DEFINE S == Append(Buf, data)
<1>s. /\ S \in Seq(0..255) /\ Len(S) = Held + 1
      /\ \A i \in 1..Held : S[i] = WireByte(i)
      /\ S[Held + 1] = data
  BY NextCandidate
<1> HIDE DEF S
<1>1. recState = "HEADER2" /\ Held = 1 /\ event' = event
  BY HeldValue DEF ReceiveHeader2
<1>2. Len(S) = 2 /\ S[1] = 165 /\ S[2] = data
  BY <1>1, <1>s, WireByteValue
<1>3. CASE data = 90
  <2>1. recState' = "CMD_TYPE" /\ Held' = 2
    BY <1>3 DEF ReceiveHeader2, FRAME_HEADER2, Held
  <2>n. PICK n \in Nat : n = 1
    OBVIOUS
  <2>2. (\A i \in 1..n : WireByte(i)' = WireByte(i)) /\ WireByte(n + 1)' = 90
    BY <2>n DEF WireByte, FRAME_HEADER1, FRAME_HEADER2
  <2>3. Held = n /\ Held' = n + 1
    BY <1>1, <2>n, <2>1
  <2>4. Buf' = S
    BY <1>3, <2>2, <2>3, BufExtend DEF S
  <2>5. Stream!Viable(S) /\ ~Stream!Complete(S)
    BY <1>2, <1>3, <1>s, ShortCandidate
  <2> QED
    BY <1>1, <2>4, <2>5 DEF Stream!Receive, Stream!Extend, S
<1>4. CASE data # 90
  <2>1. recState' = "HEADER1"
    BY <1>4 DEF ReceiveHeader2, FRAME_HEADER2
  <2>2. Held' = 0
    BY <2>1 DEF Held
  <2>3. Buf' = << >>
    BY <2>2 DEF Buf
  <2>4. ~Stream!Viable(S)
    BY <1>2, <1>4 DEF Stream!Viable
  <2> QED
    BY <1>1, <2>3, <2>4 DEF Stream!Receive, Stream!Reject, S
<1> QED
  BY <1>3, <1>4

\* RECV_STATE_CMD_TYPE extends the candidate with the type byte.
LEMMA SimCmdType ==
  ASSUME IInv, NEW data \in 0..255, ReceiveCmdType(data)
  PROVE  Stream!Receive(data)
<1> DEFINE S == Append(Buf, data)
<1>s. /\ S \in Seq(0..255) /\ Len(S) = Held + 1
      /\ \A i \in 1..Held : S[i] = WireByte(i)
      /\ S[Held + 1] = data
  BY NextCandidate
<1> HIDE DEF S
<1>1. recState = "CMD_TYPE" /\ Held = 2 /\ event' = event
  BY HeldValue DEF ReceiveCmdType
<1>2. Len(S) = 3 /\ S[1] = 165 /\ S[2] = 90
  BY <1>1, <1>s, WireByteValue
<1>3. recState' = "CMD" /\ Held' = 3 /\ cmd_type' = data
  BY DEF ReceiveCmdType, Held
<1>n. PICK n \in Nat : n = 2
  OBVIOUS
<1>4. (\A i \in 1..n : WireByte(i)' = WireByte(i)) /\ WireByte(n + 1)' = data
  BY <1>n, <1>3 DEF WireByte
<1>5. Held = n /\ Held' = n + 1
  BY <1>n, <1>1, <1>3
<1>6. Buf' = S
  BY <1>4, <1>5, BufExtend DEF S
<1>7. Stream!Viable(S) /\ ~Stream!Complete(S)
  BY <1>2, <1>s, ShortCandidate
<1> QED
  BY <1>1, <1>6, <1>7 DEF Stream!Receive, Stream!Extend, S

\* RECV_STATE_CMD extends the candidate with the command byte.
LEMMA SimCmd ==
  ASSUME IInv, NEW data \in 0..255, ReceiveCmd(data)
  PROVE  Stream!Receive(data)
<1> DEFINE S == Append(Buf, data)
<1>s. /\ S \in Seq(0..255) /\ Len(S) = Held + 1
      /\ \A i \in 1..Held : S[i] = WireByte(i)
      /\ S[Held + 1] = data
  BY NextCandidate
<1> HIDE DEF S
<1>1. recState = "CMD" /\ Held = 3 /\ event' = event
  BY HeldValue DEF ReceiveCmd
<1>2. Len(S) = 4 /\ S[1] = 165 /\ S[2] = 90
  BY <1>1, <1>s, WireByteValue
<1>3. recState' = "LEN_HIGH" /\ Held' = 4 /\ cmd' = data /\ cmd_type' = cmd_type
  BY DEF ReceiveCmd, Held
<1>n. PICK n \in Nat : n = 3
  OBVIOUS
<1>4. (\A i \in 1..n : WireByte(i)' = WireByte(i)) /\ WireByte(n + 1)' = data
  BY <1>n, <1>3 DEF WireByte
<1>5. Held = n /\ Held' = n + 1
  BY <1>n, <1>1, <1>3
<1>6. Buf' = S
  BY <1>4, <1>5, BufExtend DEF S
<1>7. Stream!Viable(S) /\ ~Stream!Complete(S)
  BY <1>2, <1>s, ShortCandidate
<1> QED
  BY <1>1, <1>6, <1>7 DEF Stream!Receive, Stream!Extend, S

\* RECV_STATE_LEN_HIGH extends the candidate with the high length byte.
LEMMA SimLenHigh ==
  ASSUME IInv, NEW data \in 0..255, ReceiveLenHigh(data)
  PROVE  Stream!Receive(data)
<1> DEFINE S == Append(Buf, data)
<1>s. /\ S \in Seq(0..255) /\ Len(S) = Held + 1
      /\ \A i \in 1..Held : S[i] = WireByte(i)
      /\ S[Held + 1] = data
  BY NextCandidate
<1> HIDE DEF S
<1>1. recState = "LEN_HIGH" /\ Held = 4 /\ event' = event
  BY HeldValue DEF ReceiveLenHigh
<1>2. Len(S) = 5 /\ S[1] = 165 /\ S[2] = 90
  BY <1>1, <1>s, WireByteValue
<1>3. /\ recState' = "LEN_LOW" /\ Held' = 5
      /\ data_len' = data * 256 /\ cmd' = cmd /\ cmd_type' = cmd_type
  BY DEF ReceiveLenHigh, Held
<1>n. PICK n \in Nat : n = 4
  OBVIOUS
<1>4. \A i \in 1..n : WireByte(i)' = WireByte(i)
  BY <1>n, <1>3 DEF WireByte
<1>5. WireByte(n + 1)' = data
  <2>1. WireByte(n + 1)' = data_len' \div 256
    BY <1>n DEF WireByte
  <2>2. (data * 256) \div 256 = data
    OBVIOUS
  <2> QED
    BY <1>3, <2>1, <2>2
<1>6. Held = n /\ Held' = n + 1
  BY <1>n, <1>1, <1>3
<1>7. Buf' = S
  BY <1>4, <1>5, <1>6, BufExtend DEF S
<1>8. Stream!Viable(S) /\ ~Stream!Complete(S)
  BY <1>2, <1>s, ShortCandidate
<1> QED
  BY <1>1, <1>7, <1>8 DEF Stream!Receive, Stream!Extend, S

\* RECV_STATE_LEN_LOW extends the candidate if the length is legal and rejects it
\* otherwise.
LEMMA SimLenLow ==
  ASSUME IInv, NEW data \in 0..255, ReceiveLenLow(data)
  PROVE  Stream!Receive(data)
<1> DEFINE S == Append(Buf, data)
<1>s. /\ S \in Seq(0..255) /\ Len(S) = Held + 1
      /\ \A i \in 1..Held : S[i] = WireByte(i)
      /\ S[Held + 1] = data
  BY NextCandidate
<1> HIDE DEF S
<1>1. recState = "LEN_LOW" /\ Held = 5 /\ event' = event
  BY HeldValue DEF ReceiveLenLow
<1>h. PICK h \in 0..255 : data_len = h * 256
  BY <1>1 DEF IInv, FieldsReady
<1>d. data_len' = h * 256 + data
  BY <1>h DEF ReceiveLenLow
<1>e. data_len' \div 256 = h /\ data_len' % 256 = data /\ data_len \div 256 = h
  BY <1>h, <1>d, OrLowByte
<1>2. Len(S) = 6 /\ S[1] = 165 /\ S[2] = 90 /\ S[5] = h /\ S[6] = data
  BY <1>1, <1>e, <1>s, WireByteValue
<1>3. Stream!DataLen(S) = data_len'
  BY <1>2, <1>d DEF Stream!DataLen
<1>4. CASE data_len' > 0 /\ data_len' <= MaxDataLen
  <2>1. recState' = "DATA" /\ data_index' = 0 /\ cmd' = cmd /\ cmd_type' = cmd_type
    BY <1>4 DEF ReceiveLenLow
  <2>2. Held' = 6
    BY <2>1 DEF Held
  <2>n. PICK n \in Nat : n = 5
    OBVIOUS
  <2>3. Held = n /\ Held' = n + 1
    BY <1>1, <2>2, <2>n
  <2>4. (\A i \in 1..n : WireByte(i)' = WireByte(i)) /\ WireByte(n + 1)' = data
    BY <1>e, <2>1, <2>n DEF WireByte
  <2>5. Buf' = S
    BY <2>3, <2>4, BufExtend DEF S
  <2>6. data_len' \in Nat
    BY <1>d
  <2>7. Stream!Viable(S)
    BY <1>2, <1>3, <1>4, <2>6, MaxDataLenAssumption DEF Stream!Viable
  <2>8. ~Stream!Complete(S)
    <3>1. \A d \in Nat : 6 # d + 8
      OBVIOUS
    <3>2. 6 # data_len' + 8
      BY <2>6, <3>1, Zenon
    <3> QED
      BY <1>2, <1>3, <3>2, Zenon DEF Stream!Complete
  <2> QED
    BY <1>1, <2>5, <2>7, <2>8 DEF Stream!Receive, Stream!Extend, S
<1>5. CASE ~(data_len' > 0 /\ data_len' <= MaxDataLen)
  <2>1. recState' = "HEADER1"
    BY <1>5 DEF ReceiveLenLow
  <2>2. Held' = 0
    BY <2>1 DEF Held
  <2>3. Buf' = << >>
    BY <2>2 DEF Buf
  <2>4. ~(data_len' \in 1..MaxDataLen)
    BY <1>5, MaxDataLenAssumption
  <2>5. ~Stream!Viable(S)
    BY <1>2, <1>3, <2>4 DEF Stream!Viable
  <2> QED
    BY <1>1, <2>3, <2>5 DEF Stream!Receive, Stream!Reject, S
<1> QED
  BY <1>4, <1>5

\* From the length on, the candidate's length field is the receiver's.
LEMMA LongCandidate ==
  ASSUME IInv, recState \in {"DATA", "CRC_HIGH", "CRC_LOW"},
         NEW data \in 0..255
  PROVE  /\ data_len \in Nat /\ data_index \in Nat /\ data_len \in UINT16
         /\ data_len >= 1 /\ data_len <= MaxDataLen
         /\ Stream!DataLen(Append(Buf, data)) = data_len
         /\ Stream!Viable(Append(Buf, data))
<1> DEFINE S == Append(Buf, data)
<1>s. /\ S \in Seq(0..255) /\ Len(S) = Held + 1
      /\ \A i \in 1..Held : S[i] = WireByte(i)
  BY NextCandidate
<1> HIDE DEF S
<1>1. /\ data_len \in Nat /\ data_index \in Nat /\ data_len \in UINT16
      /\ data_len >= 1 /\ data_len <= MaxDataLen
  BY MaxDataLenAssumption DEF IInv, TypeOK, FieldsReady, UINT16
<1>2. Held \in Nat /\ Held >= 6
  BY <1>1, HeldValue
<1>3. /\ S[1] = 165 /\ S[2] = 90
      /\ S[5] = data_len \div 256 /\ S[6] = data_len % 256
  BY <1>2, <1>s, WireByteValue
<1>4. Stream!DataLen(S) = data_len
  BY <1>1, <1>3, TwoBytes DEF Stream!DataLen
<1>5. Stream!Viable(S)
  BY <1>1, <1>3, <1>4, MaxDataLenAssumption DEF Stream!Viable
<1> QED
  BY <1>1, <1>4, <1>5 DEF S

\* RECV_STATE_DATA extends the candidate with a data byte, and leaves the state
\* with the last one.
LEMMA SimData ==
  ASSUME IInv, NEW data \in 0..255, ReceiveData(data)
  PROVE  Stream!Receive(data)
<1> DEFINE S == Append(Buf, data)
<1>s. S \in Seq(0..255) /\ Len(S) = Held + 1
  BY NextCandidate
<1>1. recState = "DATA" /\ Held = 6 + data_index /\ event' = event
  BY HeldValue DEF ReceiveData
<1>2. /\ data_len \in Nat /\ data_index \in Nat /\ data_len <= MaxDataLen
      /\ Stream!DataLen(S) = data_len
      /\ Stream!Viable(S)
  BY <1>1, LongCandidate
<1>3. data_index < data_len
  BY <1>1 DEF IInv, DataInBounds
<1>4. /\ data_buffer' = [data_buffer EXCEPT ![data_index] = data]
      /\ data_index' = data_index + 1
      /\ recState' = IF data_index' >= data_len THEN "CRC_HIGH" ELSE "DATA"
      /\ UNCHANGED <<cmd_type, cmd, data_len>>
  BY <1>3 DEF ReceiveData
<1>n. PICK n \in Nat : n = 6 + data_index
  BY <1>2
<1>5. Held' = n + 1
  <2>1. CASE data_index' >= data_len
    BY <1>2, <1>3, <1>4, <1>n, <2>1 DEF Held
  <2>2. CASE ~(data_index' >= data_len)
    BY <1>2, <1>3, <1>4, <1>n, <2>2 DEF Held
  <2> QED
    BY <2>1, <2>2
<1>b. data_buffer \in [0..(MaxDataLen - 1) -> 0..255]
  BY DEF IInv, TypeOK
<1>6. ASSUME NEW i \in 1..n PROVE WireByte(i)' = WireByte(i)
  <2>1. CASE i <= 6
    BY <1>4, <2>1 DEF WireByte
  <2>2. CASE i > 6
    <3>1. i - 7 \in 0..(MaxDataLen - 1) /\ i - 7 # data_index /\ i <= 6 + data_len
      BY <1>2, <1>3, <1>n, <2>2, MaxDataLenAssumption
    <3>2. data_buffer'[i - 7] = data_buffer[i - 7]
      BY <1>b, <1>4, <3>1
    <3> QED
      BY <1>2, <1>4, <2>2, <3>1, <3>2 DEF WireByte
  <2> QED
    BY <2>1, <2>2
<1>7. WireByte(n + 1)' = data
  <2>1. data_index \in 0..(MaxDataLen - 1)
    BY <1>2, <1>3, MaxDataLenAssumption
  <2>2. data_buffer'[data_index] = data
    BY <1>b, <1>4, <2>1
  <2>3. n + 1 > 6 /\ n + 1 <= 6 + data_len /\ (n + 1) - 7 = data_index
    BY <1>2, <1>3, <1>n
  <2> QED
    BY <1>2, <1>4, <1>n, <2>2, <2>3 DEF WireByte
<1>8. Buf' = S
  BY <1>1, <1>n, <1>5, <1>6, <1>7, BufExtend
<1>9. ~Stream!Complete(S)
  <2>1. Len(S) = 7 + data_index
    BY <1>s, <1>1, <1>2
  <2> HIDE DEF S
  <2> QED
    BY <1>2, <1>3, <2>1 DEF Stream!Complete
<1> QED
  BY <1>1, <1>2, <1>8, <1>9 DEF Stream!Receive, Stream!Extend

\* RECV_STATE_CRC_HIGH extends the candidate with the high checksum byte.
LEMMA SimCrcHigh ==
  ASSUME IInv, NEW data \in 0..255, ReceiveCrcHigh(data)
  PROVE  Stream!Receive(data)
<1> DEFINE S == Append(Buf, data)
<1>s. S \in Seq(0..255) /\ Len(S) = Held + 1
  BY NextCandidate
<1>1. recState = "CRC_HIGH" /\ Held = 6 + data_len /\ event' = event
  BY HeldValue DEF ReceiveCrcHigh
<1>2. /\ data_len \in Nat /\ data_index \in Nat
      /\ Stream!DataLen(S) = data_len
      /\ Stream!Viable(S)
  BY <1>1, LongCandidate
<1>3. /\ recState' = "CRC_LOW" /\ crc_received' = data * 256
      /\ UNCHANGED <<cmd_type, cmd, data_len, data_buffer>>
  BY DEF ReceiveCrcHigh
<1>n. PICK n \in Nat : n = 6 + data_len
  BY <1>2
<1>4. Held' = n + 1
  BY <1>2, <1>3, <1>n DEF Held
<1>5. ASSUME NEW i \in 1..n PROVE WireByte(i)' = WireByte(i)
  BY <1>2, <1>3, <1>n DEF WireByte
<1>6. WireByte(n + 1)' = data
  <2>1. WireByte(n + 1)' = crc_received' \div 256
    BY <1>2, <1>3, <1>n DEF WireByte
  <2>2. (data * 256) \div 256 = data
    OBVIOUS
  <2> QED
    BY <1>3, <2>1, <2>2
<1>7. Buf' = S
  BY <1>1, <1>n, <1>4, <1>5, <1>6, BufExtend
<1>8. ~Stream!Complete(S)
  <2>1. Len(S) = 7 + data_len
    BY <1>s, <1>1, <1>2
  <2> HIDE DEF S
  <2> QED
    BY <1>2, <2>1 DEF Stream!Complete
<1> QED
  BY <1>1, <1>2, <1>7, <1>8 DEF Stream!Receive, Stream!Extend

\* RECV_STATE_CRC_LOW finishes the candidate: the checksum is computed over exactly
\* the bytes that came off the line.
LEMMA SimCrcLow ==
  ASSUME IInv, NEW data \in 0..255, ReceiveCrcLow(data)
  PROVE  Stream!Receive(data)
<1> DEFINE S == Append(Buf, data)
<1>s. /\ S \in Seq(0..255) /\ Len(S) = Held + 1
      /\ \A i \in 1..Held : S[i] = WireByte(i)
      /\ S[Held + 1] = data
  BY NextCandidate
<1>1. recState = "CRC_LOW" /\ Held = 7 + data_len
  BY HeldValue DEF ReceiveCrcLow
<1>2. /\ data_len \in Nat
      /\ Stream!DataLen(S) = data_len
      /\ Stream!Viable(S)
  BY <1>1, LongCandidate
<1> HIDE DEF S
<1>3. Len(S) = 8 + data_len
  BY <1>s, <1>1, <1>2
<1>4. Stream!Complete(S)
  BY <1>2, <1>3 DEF Stream!Complete
<1>5. Buf' = << >>
  <2>1. recState' = "HEADER1"
    BY DEF ReceiveCrcLow
  <2>2. Held' = 0
    BY <2>1 DEF Held
  <2> QED
    BY <2>2 DEF Buf
<1>6. Stream!Checksum(S) = crc_received'
  <2>1. PICK h \in 0..255 : crc_received = h * 256
    BY <1>1 DEF IInv, FieldsReady
  <2>2. crc_received \div 256 = h /\ crc_received' = h * 256 + data
    BY <2>1 DEF ReceiveCrcLow
  <2>3. S[8 + data_len] = data
    BY <1>s, <1>1, <1>2
  <2>4. S[7 + data_len] = WireByte(7 + data_len)
    BY <1>s, <1>1, <1>2
  <2>5. WireByte(7 + data_len) = h
    BY <1>2, <2>2, WireByteData
  <2>6. (8 + data_len) - 1 = 7 + data_len
    BY <1>2
  <2> QED
    BY <1>3, <2>2, <2>3, <2>4, <2>5, <2>6 DEF Stream!Checksum
<1>7. Stream!Body(S) = CrcData
  <2>1. ASSUME NEW i \in 1..(data_len + 4)
        PROVE  S[i + 2] = CASE i = 1 -> cmd_type
                            [] i = 2 -> cmd
                            [] i = 3 -> data_len \div 256
                            [] i = 4 -> data_len % 256
                            [] OTHER -> data_buffer[i - 5]
    <3>1. S[i + 2] = WireByte(i + 2)
      BY <1>s, <1>1, <1>2
    <3>2. CASE i <= 4
      BY <3>1, <3>2, WireByteValue
    <3>3. CASE i > 4
      <4>1. (i + 2) - 7 = i - 5 /\ i + 2 > 6 /\ i + 2 <= 6 + data_len /\ i + 2 \in Nat
        BY <1>2, <3>3
      <4>2. WireByte(i + 2) = data_buffer[i - 5]
        BY <1>2, <4>1, WireByteData
      <4> QED
        BY <3>1, <3>3, <4>2
    <3> QED
      BY <3>2, <3>3
  <2> QED
    BY <1>2, <2>1 DEF Stream!Body, CrcData
<1>8. event' = IF Stream!Checksum(S) = CRC16[Stream!Body(S)] THEN 1 ELSE event
  BY <1>6, <1>7 DEF ReceiveCrcLow, WIFI_EVENT_RECV
<1> QED
  BY <1>2, <1>4, <1>5, <1>8 DEF Stream!Receive, Stream!Finish, S

\* The receiver implements the line protocol stated by FrameStream.
THEOREM Refinement == Spec => ImplementsFrameStream
<1>1. Init => Stream!Init
  BY BufEmpty DEF Init, Stream!Init
<1>2. IInv /\ [Next]_vars => [Stream!Next]_(Stream!vars)
  <2> SUFFICES ASSUME IInv, [Next]_vars
               PROVE  Stream!Next \/ UNCHANGED Stream!vars
    OBVIOUS
  <2>1. CASE UNCHANGED vars
    BY <2>1 DEF vars, g_frame_data, Stream!vars, Buf, Held, WireByte
  <2>2. CASE TakeEvent
    <3>1. Buf' = Buf
      BY <2>2 DEF TakeEvent, g_frame_data, Buf, Held, WireByte
    <3> QED
      BY <2>2, <3>1 DEF TakeEvent, WIFI_EVENT_RECV, Stream!Next, Stream!Take
  <2>3. ASSUME NEW data \in Bytes, recDataProcessing(data)
        PROVE  Stream!Receive(data)
    <3>0. data \in 0..255
      BY BytesAssumption
    <3> QED
      BY <2>3, <3>0, SimHeader1, SimHeader2, SimCmdType, SimCmd, SimLenHigh,
         SimLenLow, SimData, SimCrcHigh, SimCrcLow DEF recDataProcessing
  <2> QED
    BY <2>1, <2>2, <2>3 DEF Next, Interrupt, Stream!Next
<1> QED
  BY <1>1, <1>2, Invariance, PTL DEF Spec, ImplementsFrameStream, Stream!Spec
=============================================================================
