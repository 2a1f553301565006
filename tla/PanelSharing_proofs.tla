------------------------- MODULE PanelSharing_proofs -------------------------
(***************************************************************************)
(* Proofs about the panel and its two threads, for a panel of any size and *)
(* any image, with packets and presses at any time.  What holds of a       *)
(* picture holds while the thread that began it is alone with the panel;   *)
(* it holds again from the next reset on, whatever was mixed before.       *)
(***************************************************************************)
EXTENDS PanelSharing, Integers, SequenceTheorems, TLAPS

N == ImageSize
LEMMA SizeIs == N \in Nat /\ N >= 1 /\ ImageSize = N
  BY PanelAssumption DEF N

-----------------------------------------------------------------------------
(* The programs by positions *)

\* The program of a thread that shows the picture f, and the program of the start.
Before == <<RST_CLR, RST_SET, EPD_CheckBusy, Cmd("E0"), Data("02"), Cmd("04"), EPD_CheckBusy,
            Cmd("10")>>
After == <<Cmd("12"), Data("00"), EPD_CheckBusy,
           Cmd("02"), Data("00"), EPD_CheckBusy, Cmd("07"), Data("A5")>>
Draw(f) == [n \in 1..N + 16 |-> IF n <= 8 THEN Before[n]
                                ELSE IF n <= N + 8 THEN Data(f[n - 8])
                                ELSE After[n - (N + 8)]]

Boot == EPD_Init \o EPD_Sleep

\* What program p does after its first a operations, up to its operation b.
Part(p, a, b) == [k \in 1..(b - a) |-> p[a + k]]

LEMMA DrawIs ==
  ASSUME NEW f
  PROVE  /\ \A n \in 1..8 : Draw(f)[n] = Before[n]
         /\ \A n \in 9..N + 8 : Draw(f)[n] = Data(f[n - 8])
         /\ \A n \in N + 9..N + 16 : Draw(f)[n] = After[n - (N + 8)]
  BY SizeIs DEF Draw

\* Nothing depends on what operations are: a program is a sequence of its own.
Ops(p) == {p[n] : n \in DOMAIN p}

LEMMA DrawType ==
  ASSUME NEW f
  PROVE  Draw(f) \in Seq(Ops(Draw(f))) /\ Len(Draw(f)) = N + 16
<1>1. DOMAIN Draw(f) = 1..N + 16 /\ Draw(f) = [n \in 1..N + 16 |-> Draw(f)[n]]
  BY DEF Draw
<1> DEFINE d == Draw(f)
<1> HIDE DEF d
<1>2. d \in [1..N + 16 -> Ops(d)]
  BY <1>1 DEF Ops, d
<1>3. N + 16 \in Nat
  BY SizeIs
<1> QED
  BY <1>2, <1>3 DEF d

LEMMA BootIs ==
  /\ \E T : Boot \in Seq(T)
  /\ Len(Boot) = 12
  /\ \A n \in 1..7 : Boot[n] = EPD_Init[n]
  /\ \A n \in 8..12 : Boot[n] = EPD_Sleep[n - 7]
<1> DEFINE T == {EPD_Init[n] : n \in 1..7} \cup {EPD_Sleep[n] : n \in 1..5}
<1>1. EPD_Init = [n \in 1..7 |-> EPD_Init[n]] /\ Len(EPD_Init) = 7
  BY DEF EPD_Init
<1>2. EPD_Sleep = [n \in 1..5 |-> EPD_Sleep[n]] /\ Len(EPD_Sleep) = 5
  BY DEF EPD_Sleep
<1>3. EPD_Init \in [1..7 -> T] /\ EPD_Sleep \in [1..5 -> T]
  BY <1>1, <1>2
<1> HIDE DEF T
<1>4. EPD_Init \in Seq(T) /\ EPD_Sleep \in Seq(T)
  <2>1. \A n \in Nat : \A s \in [1..n -> T] : s \in Seq(T)
    OBVIOUS
  <2> QED
    BY <1>3, <2>1
<1>5. /\ Boot \in Seq(T) /\ Len(Boot) = Len(EPD_Init) + Len(EPD_Sleep)
      /\ \A n \in 1..Len(EPD_Init) + Len(EPD_Sleep) :
           Boot[n] = IF n <= Len(EPD_Init) THEN EPD_Init[n] ELSE EPD_Sleep[n - Len(EPD_Init)]
  BY <1>4, ConcatProperties DEF Boot
<1>6. Len(Boot) = 12
  BY <1>1, <1>2, <1>5
<1>7. \A n \in 1..12 : Boot[n] = IF n <= 7 THEN EPD_Init[n] ELSE EPD_Sleep[n - 7]
  <2>1. 7 + 5 = 12
    OBVIOUS
  <2>2. \A n \in 1..7 + 5 : Boot[n] = IF n <= 7 THEN EPD_Init[n] ELSE EPD_Sleep[n - 7]
    BY <1>1, <1>2, <1>5
  <2> QED
    BY <2>1, <2>2
<1>8. /\ \A n \in 1..7 : n \in 1..12 /\ n <= 7
      /\ \A n \in 8..12 : n \in 1..12 /\ ~(n <= 7)
  OBVIOUS
<1> QED
  BY <1>5, <1>6, <1>7, <1>8

LEMMA PartType ==
  ASSUME NEW T, NEW p \in Seq(T), NEW a \in Nat, NEW b \in Nat, a <= b, b <= Len(p)
  PROVE  /\ Part(p, a, b) \in Seq(T) /\ Len(Part(p, a, b)) = b - a
         /\ \A k \in 1..(b - a) : Part(p, a, b)[k] = p[a + k]
<1>1. b - a \in Nat /\ \A k \in 1..(b - a) : a + k \in 1..Len(p)
  OBVIOUS
<1>2. \A k \in 1..(b - a) : p[a + k] \in T
  BY <1>1, ElementOfSeq
<1>3. Part(p, a, b) \in Seq(T)
  BY <1>1, <1>2 DEF Part
<1>4. Len(Part(p, a, b)) = b - a
  BY <1>1, <1>3, LenProperties DEF Part
<1> QED
  BY <1>3, <1>4 DEF Part

LEMMA PartEmpty ==
  ASSUME NEW p, NEW a \in Nat
  PROVE  Part(p, a, a) = << >>
<1>1. a - a = 0 /\ 1..0 = {}
  OBVIOUS
<1>2. Part(p, a, a) = [k \in {} |-> p[a + k]]
  BY <1>1 DEF Part
<1> QED
  BY <1>2

LEMMA PartTail ==
  ASSUME NEW T, NEW p \in Seq(T), NEW a \in Nat, NEW b \in Nat, a < b, b <= Len(p)
  PROVE  /\ Part(p, a, b) # << >>
         /\ Head(Part(p, a, b)) = p[a + 1]
         /\ Tail(Part(p, a, b)) = Part(p, a + 1, b)
<1> DEFINE r == Part(p, a, b)
<1>0. /\ r \in Seq(T) /\ Len(r) = b - a /\ \A k \in 1..(b - a) : r[k] = p[a + k]
  <2>1. a <= b
    OBVIOUS
  <2> QED
    BY <2>1, PartType
<1>1. /\ r \in Seq(T) /\ Len(r) = b - a /\ r # << >>
      /\ \A k \in 1..(b - a) : r[k] = p[a + k]
  BY <1>0
<1>2. /\ Part(p, a + 1, b) \in Seq(T) /\ Len(Part(p, a + 1, b)) = b - (a + 1)
      /\ \A k \in 1..(b - (a + 1)) : Part(p, a + 1, b)[k] = p[(a + 1) + k]
  <2>1. a + 1 \in Nat /\ a + 1 <= b
    OBVIOUS
  <2> QED
    BY <2>1, PartType
<1>3. /\ Tail(r) \in Seq(T) /\ Len(Tail(r)) = (b - a) - 1
      /\ \A k \in 1..((b - a) - 1) : Tail(r)[k] = r[k + 1]
  BY <1>1, HeadTailProperties
<1>4. \A k \in 1..(b - (a + 1)) : Tail(r)[k] = Part(p, a + 1, b)[k]
  BY <1>1, <1>2, <1>3
<1>5. Tail(r) = Part(p, a + 1, b)
  BY <1>2, <1>3, <1>4, SeqEqual
<1>6. Head(r) = p[a + 1]
  BY <1>1
<1> QED
  BY <1>1, <1>5, <1>6

LEMMA PartsJoin ==
  ASSUME NEW T, NEW p \in Seq(T), NEW a \in Nat, NEW b \in Nat, NEW c \in Nat,
         a <= b, b <= c, c <= Len(p)
  PROVE  Part(p, a, b) \o Part(p, b, c) = Part(p, a, c)
<1> DEFINE s == Part(p, a, b)
           t == Part(p, b, c)
           r == Part(p, a, c)
<1>1. /\ s \in Seq(T) /\ Len(s) = b - a /\ \A k \in 1..(b - a) : s[k] = p[a + k]
      /\ t \in Seq(T) /\ Len(t) = c - b /\ \A k \in 1..(c - b) : t[k] = p[b + k]
      /\ r \in Seq(T) /\ Len(r) = c - a /\ \A k \in 1..(c - a) : r[k] = p[a + k]
  <2>1. Len(p) \in Nat
    BY LenProperties
  <2>2. b <= Len(p) /\ a <= c
    BY <2>1
  <2>3. /\ s \in Seq(T) /\ Len(s) = b - a /\ \A k \in 1..(b - a) : s[k] = p[a + k]
    BY <2>2, PartType
  <2>4. /\ t \in Seq(T) /\ Len(t) = c - b /\ \A k \in 1..(c - b) : t[k] = p[b + k]
    BY PartType
  <2>5. /\ r \in Seq(T) /\ Len(r) = c - a /\ \A k \in 1..(c - a) : r[k] = p[a + k]
    BY <2>2, PartType
  <2> QED
    BY <2>3, <2>4, <2>5
<1> HIDE DEF s, t, r
<1>2. /\ s \o t \in Seq(T) /\ Len(s \o t) = Len(s) + Len(t)
      /\ \A i \in 1..Len(s) + Len(t) :
           (s \o t)[i] = IF i <= Len(s) THEN s[i] ELSE t[i - Len(s)]
  BY <1>1, ConcatProperties
<1>3. ASSUME NEW k \in 1..(c - a) PROVE (s \o t)[k] = r[k]
  <2>1. CASE k <= b - a
    BY <2>1, <1>1, <1>2
  <2>2. CASE k > b - a
    <3>1. k - (b - a) \in 1..(c - b) /\ b + (k - (b - a)) = a + k
      BY <2>2
    <3> QED
      BY <2>2, <3>1, <1>1, <1>2
  <2>3. k <= b - a \/ k > b - a
    OBVIOUS
  <2> QED
    BY <2>1, <2>2, <2>3
<1>4. Len(s \o t) = Len(r)
  BY <1>1, <1>2
<1>5. s \o t = r
  BY <1>1, <1>2, <1>3, <1>4, SeqEqual
<1> QED
  BY <1>5 DEF s, t, r

-----------------------------------------------------------------------------
(* The code's programs are parts of these *)

\* The pieces that EPD.c's functions send.
LEMMA Pieces ==
  ASSUME NEW f
  PROVE  /\ Part(Draw(f), 0, 7) = EPD_Init_Fast
         /\ Part(Draw(f), 7, 8) = <<Cmd("10")>>
         /\ Part(Draw(f), N + 8, N + 11) = EPD_Update
         /\ Part(Draw(f), N + 11, N + 16) = EPD_Sleep
<1> DEFINE d == Draw(f)
<1>1. \A n \in 1..8 : d[n] = Before[n]
  BY DrawIs
<1>2. \A n \in N + 9..N + 16 : d[n] = After[n - (N + 8)]
  BY DrawIs
<1> HIDE DEF d
<1>3. Part(d, 0, 7) = EPD_Init_Fast
  <2>1. Part(d, 0, 7) = [k \in 1..7 |-> Before[k]]
    BY <1>1 DEF Part
  <2> QED
    BY <2>1 DEF Before, EPD_Init_Fast
<1>4. Part(d, 7, 8) = <<Cmd("10")>>
  <2>1. Part(d, 7, 8) = [k \in 1..1 |-> Before[7 + k]]
    BY <1>1 DEF Part
  <2> QED
    BY <2>1 DEF Before
<1>5. Part(d, N + 8, N + 11) = EPD_Update
  <2>1. /\ (N + 11) - (N + 8) = 3
        /\ \A k \in 1..3 : (N + 8) + k \in N + 9..N + 16 /\ ((N + 8) + k) - (N + 8) = k
    BY SizeIs
  <2>2. Part(d, N + 8, N + 11) = [k \in 1..3 |-> After[k]]
    BY <1>2, <2>1 DEF Part
  <2> QED
    BY <2>2 DEF After, EPD_Update
<1>6. Part(d, N + 11, N + 16) = EPD_Sleep
  <2>1. /\ (N + 16) - (N + 11) = 5
        /\ \A k \in 1..5 : (N + 11) + k \in N + 9..N + 16 /\ ((N + 11) + k) - (N + 8) = 3 + k
    BY SizeIs
  <2>2. Part(d, N + 11, N + 16) = [k \in 1..5 |-> After[3 + k]]
    BY <1>2, <2>1 DEF Part
  <2> QED
    BY <2>2 DEF After, EPD_Sleep
<1> QED
  BY <1>3, <1>4, <1>5, <1>6 DEF d

\* And the cells of the picture, all of them or one.
LEMMA CellPieces ==
  ASSUME NEW f
  PROVE  /\ Part(Draw(f), 8, N + 8) = [k \in 1..N |-> Data(f[k])]
         /\ \A k \in 1..N : Part(Draw(f), k + 7, k + 8) = <<Data(f[k])>>
<1> DEFINE d == Draw(f)
<1>1. \A n \in 9..N + 8 : d[n] = Data(f[n - 8])
  BY DrawIs
<1> HIDE DEF d
<1>2. (N + 8) - 8 = N /\ \A k \in 1..N : 8 + k \in 9..N + 8 /\ (8 + k) - 8 = k
  BY SizeIs
<1>3. Part(d, 8, N + 8) = [k \in 1..N |-> Data(f[k])]
  BY <1>1, <1>2 DEF Part
<1>4. ASSUME NEW k \in 1..N PROVE Part(d, k + 7, k + 8) = <<Data(f[k])>>
  <2>1. (k + 8) - (k + 7) = 1 /\ (k + 7) + 1 = 8 + k
    BY SizeIs
  <2>2. Part(d, k + 7, k + 8) = [j \in 1..1 |-> d[(k + 7) + j]]
    BY <2>1 DEF Part
  <2>3. Part(d, k + 7, k + 8) = [j \in 1..1 |-> Data(f[k])]
    BY <2>1, <2>2, <1>1, <1>2
  <2> QED
    BY <2>3
<1> QED
  BY <1>3, <1>4 DEF d

\* A button's picture.
LEMMA EinkProgram ==
  ASSUME NEW source
  PROVE  EPD_Init_Fast \o EPD_DisplayImage(source) \o EPD_Sleep
           = Part(Draw(Whole(source)), 0, N + 16)
<1> DEFINE d == Draw(Whole(source))
<1>1. PICK T : d \in Seq(T) /\ Len(d) = N + 16
  BY DrawType
<1>2. /\ Part(d, 0, 7) = EPD_Init_Fast
      /\ Part(d, 7, 8) = <<Cmd("10")>>
      /\ Part(d, N + 8, N + 11) = EPD_Update
      /\ Part(d, N + 11, N + 16) = EPD_Sleep
  BY Pieces
<1>3. Part(d, 8, N + 8) = [k \in 1..ImageSize |-> Data(source)]
  <2>1. Part(d, 8, N + 8) = [k \in 1..N |-> Data(Whole(source)[k])]
    BY CellPieces
  <2>2. \A k \in 1..N : Whole(source)[k] = source
    BY SizeIs DEF Whole
  <2> QED
    BY <2>1, <2>2, SizeIs
<1> HIDE DEF d
<1>4. /\ 0 \in Nat /\ 7 \in Nat /\ 8 \in Nat /\ N + 8 \in Nat /\ N + 11 \in Nat /\ N + 16 \in Nat
      /\ 0 <= 7 /\ 7 <= 8 /\ 8 <= N + 8 /\ N + 8 <= N + 11 /\ N + 11 <= N + 16
      /\ N + 8 <= Len(d) /\ N + 11 <= Len(d) /\ N + 16 <= Len(d) /\ 7 <= N + 11 /\ 0 <= N + 11
      /\ 7 <= N + 8
  BY SizeIs, <1>1
<1>5. Part(d, 7, 8) \o Part(d, 8, N + 8) = Part(d, 7, N + 8)
  BY <1>1, <1>4, PartsJoin
<1>6. Part(d, 7, N + 8) \o Part(d, N + 8, N + 11) = Part(d, 7, N + 11)
  BY <1>1, <1>4, PartsJoin
<1>7. EPD_DisplayImage(source) = Part(d, 7, N + 11)
  BY <1>2, <1>3, <1>5, <1>6 DEF EPD_DisplayImage
<1>8. Part(d, 0, 7) \o Part(d, 7, N + 11) = Part(d, 0, N + 11)
  BY <1>1, <1>4, PartsJoin
<1>9. Part(d, 0, N + 11) \o Part(d, N + 11, N + 16) = Part(d, 0, N + 16)
  BY <1>1, <1>4, PartsJoin
<1> QED
  BY <1>2, <1>7, <1>8, <1>9 DEF d

\* Where the program of a packet begins and ends in that of the image.
First(k) == IF k = 1 THEN 0 ELSE k + 7
Last(k) == IF k = N THEN N + 16 ELSE k + 8

LEMMA WifiProgram ==
  ASSUME NEW k \in 1..N
  PROVE  ProcessImageData(k) = Part(Draw(WifiImage), First(k), Last(k))
<1> DEFINE d == Draw(WifiImage)
<1>1. PICK T : d \in Seq(T) /\ Len(d) = N + 16
  BY DrawType
<1>2. /\ Part(d, 0, 7) = EPD_Init_Fast
      /\ Part(d, 7, 8) = <<Cmd("10")>>
      /\ Part(d, N + 8, N + 11) = EPD_Update
      /\ Part(d, N + 11, N + 16) = EPD_Sleep
      /\ Part(d, k + 7, k + 8) = <<Data(WifiImage[k])>>
  BY Pieces, CellPieces
<1> HIDE DEF d
<1>4. /\ 0 \in Nat /\ 7 \in Nat /\ 8 \in Nat /\ k + 7 \in Nat /\ k + 8 \in Nat
      /\ N + 8 \in Nat /\ N + 11 \in Nat /\ N + 16 \in Nat
      /\ 0 <= 7 /\ 7 <= 8 /\ 8 <= k + 7 /\ k + 7 <= k + 8
      /\ N + 8 <= N + 11 /\ N + 11 <= N + 16
      /\ 8 <= Len(d) /\ k + 7 <= Len(d) /\ k + 8 <= Len(d)
      /\ N + 8 <= Len(d) /\ N + 11 <= Len(d) /\ N + 16 <= Len(d)
      /\ k + 7 <= N + 8
  BY SizeIs, <1>1
<1>5. (IF k = 1 THEN EPD_Init_Fast \o <<Cmd("10")>> ELSE << >>) = Part(d, First(k), k + 7)
  <2>1. CASE k = 1
    <3>1. Part(d, 0, 7) \o Part(d, 7, 8) = Part(d, 0, 8)
      BY <1>1, <1>4, PartsJoin
    <3>2. First(k) = 0 /\ k + 7 = 8
      BY <2>1 DEF First
    <3> QED
      BY <2>1, <3>1, <3>2, <1>2
  <2>2. CASE k # 1
    <3>1. Part(d, k + 7, k + 7) = << >>
      BY <1>4, PartEmpty
    <3> QED
      BY <2>2, <3>1 DEF First
  <2> QED
    BY <2>1, <2>2
<1>6. Part(d, First(k), k + 7) \o Part(d, k + 7, k + 8) = Part(d, First(k), k + 8)
  <2> DEFINE a == First(k)
             b == k + 7
             c == k + 8
  <2>1. a \in Nat /\ b \in Nat /\ c \in Nat /\ a <= b /\ b <= c /\ c <= Len(d)
    BY <1>4 DEF First
  <2> HIDE DEF a, b, c
  <2>2. Part(d, a, b) \o Part(d, b, c) = Part(d, a, c)
    BY <1>1, <2>1, PartsJoin
  <2> QED
    BY <2>2 DEF a, b, c
<1>7. (IF k = N THEN EPD_Update \o EPD_Sleep ELSE << >>) = Part(d, k + 8, Last(k))
  <2>1. CASE k = N
    <3> DEFINE a == N + 8
               b == N + 11
               c == N + 16
    <3>1. a \in Nat /\ b \in Nat /\ c \in Nat /\ a <= b /\ b <= c /\ c <= Len(d)
      BY <1>4
    <3> HIDE DEF a, b, c
    <3>2. Part(d, a, b) \o Part(d, b, c) = Part(d, a, c)
      BY <1>1, <3>1, PartsJoin
    <3>3. k + 8 = a /\ Last(k) = c
      BY <2>1 DEF Last, a, c
    <3> QED
      BY <2>1, <3>2, <3>3, <1>2 DEF a, b, c
  <2>2. CASE k # N
    <3>1. Part(d, k + 8, k + 8) = << >>
      BY <1>4, PartEmpty
    <3> QED
      BY <2>2, <3>1 DEF Last
  <2> QED
    BY <2>1, <2>2
<1>8. Part(d, First(k), k + 8) \o Part(d, k + 8, Last(k)) = Part(d, First(k), Last(k))
  <2> DEFINE a == First(k)
             b == k + 8
             c == Last(k)
  <2>1. a \in Nat /\ b \in Nat /\ a <= b
    BY <1>4 DEF First
  <2>2. c \in Nat /\ b <= c /\ c <= Len(d)
    BY <1>4, <1>1, SizeIs DEF Last
  <2> HIDE DEF a, b, c
  <2>3. Part(d, a, b) \o Part(d, b, c) = Part(d, a, c)
    BY <1>1, <2>1, <2>2, PartsJoin
  <2> QED
    BY <2>3 DEF a, b, c
<1> QED
  BY <1>2, <1>5, <1>6, <1>7, <1>8, SizeIs DEF ProcessImageData, d

LEMMA BootProgram == EPD_Init \o EPD_Sleep = Part(Boot, 0, 12)
<1>1. PICK T : Boot \in Seq(T)
  BY BootIs
<1>2. Boot = [n \in 1..12 |-> Boot[n]]
  BY <1>1, BootIs
<1>3. 12 - 0 = 12 /\ \A k \in 1..12 : 0 + k = k
  OBVIOUS
<1>4. Part(Boot, 0, 12) = [k \in 1..12 |-> Boot[k]]
  BY <1>3 DEF Part
<1> QED
  BY <1>2, <1>4 DEF Boot

-----------------------------------------------------------------------------
(* One operation of a program *)

Threads == {"eink", "wifi"}
Kinds == {"cmd", "data"}

\* Thread t reset the panel and the other has not used it since.
Alone(t) == owner = t /\ ~mixed

\* Thread t has done n operations of program p, of the b it was given.
Line(t, p, n, b) ==
  /\ todo[t] = Part(p, n, b)
  /\ selected[t] = 1 => n < b /\ p[n + 1][1] \in Kinds

\* Between the two halves of the write op the pins are as t set them.
Pins(t, op) == selected[t] = 1 => cs = 0 /\ dc = IF op[1] = "cmd" THEN 0 ELSE 1

\* What an operation does to the panel.
Effect(op) ==
  \/ op[1] = "cmd" /\ PanelCommand(op[2])
  \/ op[1] = "data" /\ PanelData(op[2])
  \/ op[1] = "rst" /\ PanelReset(op[2])
  \/ op = EPD_CheckBusy /\ busy = 0 /\ UNCHANGED panelVars

ThreadsInv ==
  /\ todo = [t \in Threads |-> todo[t]]
  /\ selected \in [Threads -> {0, 1}]
  /\ owner \in Threads

LEMMA CheckBusyIs == EPD_CheckBusy[1] = "busy"
  BY DEF EPD_CheckBusy

\* What a thread's step means for the history: to be alone with the panel after it,
\* the thread resets it, or was alone before.
LEMMA UseIs ==
  ASSUME NEW t \in Threads, NEW op, Use(t, op), owner \in Threads
  PROVE  /\ owner' \in Threads
         /\ Alone(t)' => op = RST_CLR \/ Alone(t)
         /\ ~mixed' => Alone(t)' \/ op = EPD_CheckBusy
         /\ \A u \in Threads \ {t} : Alone(u)' => Alone(u) /\ op = EPD_CheckBusy
<1>1. CASE op = RST_CLR
  <2>1. owner' = t /\ ~mixed'
    BY <1>1 DEF Use
  <2> QED
    BY <2>1, <1>1 DEF Alone
<1>2. CASE op # RST_CLR
  <2>1. owner' = owner
    BY <1>2 DEF Use
  <2>2. ~mixed' => ~mixed /\ (owner = t \/ op = EPD_CheckBusy)
    BY <1>2 DEF Use
  <2> QED
    BY <2>1, <2>2, Zenon DEF Alone
<1> QED
  BY <1>1, <1>2

\* The thread that takes a step does its next operation, or the first half of it; if
\* it is alone with the panel afterwards, the operation had its effect.
LEMMA DriveStep ==
  ASSUME ThreadsInv, NEW t \in Threads, Drive(t),
         NEW T, NEW p \in Seq(T), NEW n \in Nat, NEW b \in Nat, n < b, b <= Len(p),
         Line(t, p, n, b), Alone(t) => Pins(t, p[n + 1])
  PROVE  /\ ThreadsInv'
         /\ UNCHANGED <<buttonVars, epc, packet>>
         /\ ~mixed' => Alone(t)' \/ UNCHANGED panelVars
         /\ \/ /\ Line(t, p, n, b)' /\ UNCHANGED panelVars
               /\ Alone(t)' => Alone(t) /\ Pins(t, p[n + 1])'
            \/ /\ Line(t, p, n + 1, b)' /\ selected'[t] = 0
               /\ Alone(t)' => (p[n + 1] = RST_CLR \/ Alone(t)) /\ Effect(p[n + 1])
<1> DEFINE op == p[n + 1]
<1>1. /\ todo[t] # << >> /\ Head(todo[t]) = op /\ Tail(todo[t]) = Part(p, n + 1, b)
  BY PartTail DEF Line
<1>2. /\ todo[t] = Part(p, n, b)
      /\ selected[t] = 1 => op[1] \in Kinds
      /\ Alone(t) => Pins(t, op)
  BY DEF Line
<1>0. op = p[n + 1]
  OBVIOUS
<1> HIDE DEF op
<1>3. /\ UNCHANGED <<buttonVars, epc, packet>> /\ Use(t, op)
      /\ Select(t) \/ Shift(t) \/ ResetPin(t) \/ CheckBusy(t)
  BY <1>1 DEF Drive
<1>4. /\ todo = [u \in Threads |-> todo[u]] /\ selected \in [Threads -> {0, 1}]
      /\ owner \in Threads
  BY DEF ThreadsInv
<1>5. /\ owner' \in Threads
      /\ Alone(t)' => op = RST_CLR \/ Alone(t)
      /\ ~mixed' => Alone(t)' \/ op = EPD_CheckBusy
  BY <1>3, <1>4, UseIs
<1>6. op = EPD_CheckBusy => UNCHANGED panelVars
  <2>1. op = EPD_CheckBusy => op[1] = "busy"
    BY CheckBusyIs
  <2> QED
    BY <2>1, <1>1, <1>3 DEF Select, Shift, ResetPin, CheckBusy
<1>7. CASE Select(t)
  <2>1. /\ selected' = [selected EXCEPT ![t] = 1] /\ todo' = todo /\ UNCHANGED panelVars
        /\ op[1] \in Kinds /\ cs' = 0 /\ dc' = IF op[1] = "cmd" THEN 0 ELSE 1
    BY <1>1, <1>7 DEF Select, Kinds
  <2>2. ThreadsInv'
    BY <2>1, <1>4, <1>5 DEF ThreadsInv
  <2>3. Line(t, p, n, b)'
    BY <2>1, <1>0, <1>2 DEF Line
  <2>4. Pins(t, op)'
    BY <2>1 DEF Pins
  <2>5. op # RST_CLR
    BY <2>1 DEF Kinds, RST_CLR
  <2> QED
    BY <2>1, <2>2, <2>3, <2>4, <2>5, <1>0, <1>3, <1>5, <1>6
\* The other three end the operation.
<1>8. ASSUME todo' = [todo EXCEPT ![t] = Tail(@)], selected' = [selected EXCEPT ![t] = 0],
             Alone(t)' => Effect(op)
      PROVE  /\ ThreadsInv' /\ Line(t, p, n + 1, b)' /\ selected'[t] = 0
  <2>1. todo' = [todo EXCEPT ![t] = Part(p, n + 1, b)]
    BY <1>1, <1>4, <1>8
  <2>2. ThreadsInv' /\ selected'[t] = 0 /\ todo'[t] = Part(p, n + 1, b)
    BY <2>1, <1>4, <1>5, <1>8 DEF ThreadsInv
  <2> QED
    BY <2>2 DEF Line
<1>9. CASE Shift(t)
  <2>1. /\ op[1] \in Kinds /\ selected[t] = 1
        /\ selected' = [selected EXCEPT ![t] = 0] /\ todo' = [todo EXCEPT ![t] = Tail(@)]
        /\ cs = 0 /\ dc = 0 => PanelCommand(op[2])
        /\ cs = 0 /\ dc = 1 => PanelData(op[2])
    BY <1>1, <1>9 DEF Shift, Kinds
  <2>2. op # RST_CLR
    BY <2>1 DEF Kinds, RST_CLR
  <2>3. Alone(t)' => Effect(op)
    BY <2>1, <2>2, <1>2, <1>5 DEF Pins, Effect, Kinds
  <2> QED
    BY <2>1, <2>3, <1>0, <1>3, <1>5, <1>6, <1>8
<1>10. ASSUME selected' = selected, op[1] \notin Kinds
       PROVE  selected' = [selected EXCEPT ![t] = 0]
  <2>1. selected[t] = 0
    BY <1>2, <1>4, <1>10
  <2> QED
    BY <2>1, <1>4, <1>10
<1>11. CASE ResetPin(t)
  <2>1. /\ op[1] = "rst" /\ PanelReset(op[2]) /\ selected' = selected
        /\ todo' = [todo EXCEPT ![t] = Tail(@)]
    BY <1>1, <1>11 DEF ResetPin
  <2>2. Effect(op) /\ op[1] \notin Kinds
    BY <2>1 DEF Effect, Kinds
  <2> QED
    BY <2>1, <2>2, <1>0, <1>3, <1>5, <1>6, <1>8, <1>10
<1>12. CASE CheckBusy(t)
  <2>1. /\ op = EPD_CheckBusy /\ busy = 0 /\ UNCHANGED panelVars /\ selected' = selected
        /\ todo' = [todo EXCEPT ![t] = Tail(@)]
    BY <1>1, <1>12 DEF CheckBusy
  <2>2. Effect(op) /\ op[1] \notin Kinds
    BY <2>1 DEF Effect, Kinds, EPD_CheckBusy
  <2> QED
    BY <2>1, <2>2, <1>0, <1>3, <1>5, <1>6, <1>8, <1>10
<1> QED
  BY <1>3, <1>7, <1>9, <1>11, <1>12

\* A thread that is alone with the panel after a step of the other finds it as it was.
LEMMA OtherDrives ==
  ASSUME ThreadsInv, NEW t \in Threads, NEW u \in Threads \ {t}, Drive(t)
  PROVE  /\ todo'[u] = todo[u] /\ selected'[u] = selected[u]
         /\ Alone(u)' => Alone(u) /\ UNCHANGED <<panelVars, pinVars>>
<1> DEFINE op == Head(todo[t])
<1>1. Use(t, op) /\ (Select(t) \/ Shift(t) \/ ResetPin(t) \/ CheckBusy(t))
  BY DEF Drive
<1>2. Alone(u)' => Alone(u) /\ op = EPD_CheckBusy
  BY <1>1, UseIs DEF ThreadsInv
<1>3. op = EPD_CheckBusy => UNCHANGED <<panelVars, pinVars>>
  <2>1. op = EPD_CheckBusy => op[1] = "busy"
    BY CheckBusyIs
  <2> QED
    BY <2>1, <1>1 DEF Select, Shift, ResetPin, CheckBusy
<1>4. todo'[u] = todo[u] /\ selected'[u] = selected[u]
  <2>1. todo' = todo \/ todo' = [todo EXCEPT ![t] = Tail(@)]
    BY <1>1 DEF Select, Shift, ResetPin, CheckBusy
  <2>2. selected' = selected \/ \E v : selected' = [selected EXCEPT ![t] = v]
    BY <1>1 DEF Select, Shift, ResetPin, CheckBusy
  <2>3. todo = [v \in Threads |-> todo[v]] /\ selected = [v \in Threads |-> selected[v]]
    BY DEF ThreadsInv
  <2> QED
    BY <2>1, <2>2, <2>3
<1> QED
  BY <1>2, <1>3, <1>4

-----------------------------------------------------------------------------
(* The panel at each position of a program *)

Sources == {"image_test", "Image_Asuka"}
Pictures == {WifiImage} \cup {Whole(source) : source \in Sources}

\* The first j cells of the picture f.
Prefix(f, j) == [k \in 1..j |-> f[k]]

\* The panel when n operations of Draw(f) are done.
At(f, n) ==
  /\ n = 1 => power = "reset"
  /\ n \in 2..5 => power = "off"
  /\ n \in 6..N + 12 => power = "on"
  /\ n \in N + 13..N + 15 => power = "off"
  /\ n = N + 16 => power = "sleep"
  /\ n \in (1..5) \cup (7..N + 9) \cup {N + 11, N + 12, N + 14, N + 15} => busy = 0
  /\ n = 4 => cur = "E0"
  /\ n \in 8..N + 8 => cur = "10" /\ ram = Prefix(f, n - 8)
  /\ n = N + 9 => cur = "12" /\ ram = f
  /\ n = N + 12 => cur = "02"
  /\ n = N + 15 => cur = "07"

\* The panel when n operations of the start are done.
BootAt(n) ==
  /\ n = 0 => power = "off"
  /\ n = 1 => power = "reset"
  /\ n \in 2..5 => power = "off"
  /\ n \in 6..8 => power = "on"
  /\ n \in 9..11 => power = "off"
  /\ n = 12 => power = "sleep"
  /\ n \in (0..5) \cup {7, 8, 10, 11} => busy = 0
  /\ n = 4 => cur = "E9"
  /\ n = 8 => cur = "02"
  /\ n = 11 => cur = "07"

LEMMA PictureIs ==
  ASSUME NEW f \in Pictures
  PROVE  f = [k \in 1..N |-> f[k]]
<1>1. WifiImage \in [1..N -> STRING]
  BY PanelAssumption DEF N
<1>2. \A source : Whole(source) = [k \in 1..N |-> Whole(source)[k]]
  BY DEF Whole, N
<1> QED
  BY <1>1, <1>2 DEF Pictures

LEMMA PrefixGrows ==
  ASSUME NEW f \in Pictures, NEW j \in 0..N - 1
  PROVE  /\ Len(Prefix(f, j)) = j
         /\ Append(Prefix(f, j), f[j + 1]) = Prefix(f, j + 1)
<1> DEFINE T == {f[k] : k \in 1..N}
           s == Prefix(f, j)
           r == Prefix(f, j + 1)
<1>1. j \in Nat /\ j + 1 \in Nat /\ j + 1 \in 1..N /\ \A k \in 1..j + 1 : k \in 1..N
  BY SizeIs
<1>2. s \in [1..j -> T] /\ r \in [1..j + 1 -> T] /\ f[j + 1] \in T
  BY <1>1 DEF Prefix
<1>3. /\ \A k \in 1..j : s[k] = f[k]
      /\ \A k \in 1..j + 1 : r[k] = f[k]
  BY DEF Prefix
<1> HIDE DEF T, s, r
<1>4. \A n \in Nat : \A q \in [1..n -> T] : q \in Seq(T) /\ Len(q) = n
  OBVIOUS
<1>5. s \in Seq(T) /\ Len(s) = j /\ r \in Seq(T) /\ Len(r) = j + 1
  BY <1>1, <1>2, <1>4
<1>6. /\ Append(s, f[j + 1]) \in Seq(T) /\ Len(Append(s, f[j + 1])) = j + 1
      /\ \A k \in 1..j : Append(s, f[j + 1])[k] = s[k]
      /\ Append(s, f[j + 1])[j + 1] = f[j + 1]
  BY <1>2, <1>5, AppendProperties
<1>7. \A k \in 1..j + 1 : Append(s, f[j + 1])[k] = r[k]
  <2>1. \A k \in 1..j + 1 : k \in 1..j \/ k = j + 1
    BY <1>1
  <2>2. r[j + 1] = f[j + 1] /\ \A k \in 1..j : r[k] = f[k]
    BY <1>1, <1>3
  <2> QED
    BY <2>1, <2>2, <1>3, <1>6
<1>8. Append(s, f[j + 1]) = r
  BY <1>5, <1>6, <1>7, SeqEqual
<1> QED
  BY <1>5, <1>8 DEF s, r

LEMMA PrefixEnds ==
  /\ \A f : Prefix(f, 0) = << >>
  /\ \A f \in Pictures : Prefix(f, N) = f
<1>1. ASSUME NEW f PROVE Prefix(f, 0) = << >>
  BY DEF Prefix
<1>2. ASSUME NEW f \in Pictures PROVE Prefix(f, N) = f
  BY PictureIs DEF Prefix
<1> QED
  BY <1>1, <1>2

\* What the operations do to a panel that listens.
LEMMA CommandDone ==
  ASSUME NEW c, Effect(Cmd(c)), busy = 0, power \notin {"sleep", "reset"}
  PROVE  /\ cur' = c /\ shown' = shown
         /\ ram' = IF c = "10" THEN << >> ELSE ram
         /\ power' = IF c = "04" THEN "on" ELSE power
         /\ busy' = IF c = "04" THEN 1 ELSE 0
<1>1. PanelCommand(c)
  BY DEF Effect, Cmd, EPD_CheckBusy
<1> QED
  BY <1>1 DEF PanelCommand, Deaf

LEMMA DataDone ==
  ASSUME NEW d, Effect(Data(d)), busy = 0, power \notin {"sleep", "reset"}
  PROVE  /\ cur' = cur
         /\ ram' = IF cur = "10" /\ Len(ram) < N THEN Append(ram, d) ELSE ram
         /\ shown' = IF cur = "12" /\ power = "on" THEN ram ELSE shown
         /\ cur = "02" => power' = "off"
         /\ cur = "07" /\ d = "A5" => power' = "sleep"
         /\ cur \notin {"02", "07"} => power' = power
         /\ busy' = IF cur \in {"02", "12"} THEN 1 ELSE 0
<1>1. PanelData(d)
  BY DEF Effect, Data, EPD_CheckBusy
<1> QED
  BY <1>1 DEF PanelData, Deaf, N

LEMMA ResetDone ==
  /\ Effect(RST_CLR) => power' = "reset" /\ busy' = 0 /\ cur' = "none" /\ UNCHANGED <<ram, shown>>
  /\ Effect(RST_SET) /\ power = "reset" => /\ power' = "off" /\ busy' = busy
                                           /\ UNCHANGED <<ram, shown>>
<1>1. Effect(RST_CLR) => PanelReset("low")
  BY DEF Effect, RST_CLR, EPD_CheckBusy
<1>2. Effect(RST_SET) => PanelReset("high")
  BY DEF Effect, RST_SET, EPD_CheckBusy
<1> QED
  BY <1>1, <1>2 DEF PanelReset

LEMMA BusyDone == Effect(EPD_CheckBusy) => busy = 0 /\ UNCHANGED panelVars
  BY DEF Effect, EPD_CheckBusy

\* An operation of a picture's program takes the panel to the next position, and shows
\* that picture or nothing new.
LEMMA DrawStep ==
  ASSUME NEW f \in Pictures, NEW n \in 0..N + 15, At(f, n), Effect(Draw(f)[n + 1])
  PROVE  At(f, n + 1)' /\ shown' \in {shown, f}
<1> USE SizeIs
<1>0. Before[1] = RST_CLR /\ Before[2] = RST_SET /\ Before[3] = EPD_CheckBusy
      /\ Before[4] = Cmd("E0") /\ Before[5] = Data("02") /\ Before[6] = Cmd("04")
      /\ Before[7] = EPD_CheckBusy /\ Before[8] = Cmd("10")
      /\ After[1] = Cmd("12") /\ After[2] = Data("00") /\ After[3] = EPD_CheckBusy
      /\ After[4] = Cmd("02") /\ After[5] = Data("00") /\ After[6] = EPD_CheckBusy
      /\ After[7] = Cmd("07") /\ After[8] = Data("A5")
  BY DEF Before, After
<1>a. CASE n \in 0..7
  <2>0. n + 1 \in 1..8 /\ Draw(f)[n + 1] = Before[n + 1]
    BY <1>a, DrawIs
  <2>1. CASE n = 0
    <3>1. power' = "reset" /\ busy' = 0 /\ UNCHANGED <<ram, shown>>
      BY <2>0, <2>1, <1>0, ResetDone
    <3> QED
      BY <3>1, <2>1 DEF At
  <2>2. CASE n = 1
    <3>1. power = "reset" /\ busy = 0
      BY <2>2 DEF At
    <3>2. power' = "off" /\ busy' = 0 /\ UNCHANGED <<ram, shown>>
      BY <3>1, <2>0, <2>2, <1>0, ResetDone
    <3> QED
      BY <3>2, <2>2 DEF At
  <2>3. CASE n = 2
    <3>1. power = "off" /\ busy = 0
      BY <2>3 DEF At
    <3>2. UNCHANGED panelVars
      BY <2>0, <2>3, <1>0, BusyDone
    <3> QED
      BY <3>1, <3>2, <2>3 DEF At, panelVars
  <2>4. CASE n = 3
    <3>1. power = "off" /\ busy = 0
      BY <2>4 DEF At
    <3>2. cur' = "E0" /\ shown' = shown /\ power' = power /\ busy' = 0
      BY <3>1, <2>0, <2>4, <1>0, CommandDone
    <3> QED
      BY <3>1, <3>2, <2>4 DEF At
  <2>5. CASE n = 4
    <3>1. power = "off" /\ busy = 0 /\ cur = "E0"
      BY <2>5 DEF At
    <3>2. shown' = shown /\ power' = power /\ busy' = 0
      BY <3>1, <2>0, <2>5, <1>0, DataDone
    <3> QED
      BY <3>1, <3>2, <2>5 DEF At
  <2>6. CASE n = 5
    <3>1. power = "off" /\ busy = 0
      BY <2>6 DEF At
    <3>2. shown' = shown /\ power' = "on" /\ busy' = 1
      BY <3>1, <2>0, <2>6, <1>0, CommandDone
    <3> QED
      BY <3>2, <2>6 DEF At
  <2>7. CASE n = 6
    <3>1. power = "on"
      BY <2>7 DEF At
    <3>2. UNCHANGED panelVars /\ busy = 0
      BY <2>0, <2>7, <1>0, BusyDone
    <3> QED
      BY <3>1, <3>2, <2>7 DEF At, panelVars
  <2>8. CASE n = 7
    <3>1. power = "on" /\ busy = 0
      BY <2>8 DEF At
    <3>2. cur' = "10" /\ shown' = shown /\ power' = power /\ busy' = 0 /\ ram' = << >>
      BY <3>1, <2>0, <2>8, <1>0, CommandDone
    <3>3. (n + 1) - 8 = 0
      BY <2>8
    <3> QED
      BY <3>1, <3>2, <3>3, <2>8, PrefixEnds DEF At
  <2> QED
    BY <1>a, <2>1, <2>2, <2>3, <2>4, <2>5, <2>6, <2>7, <2>8
<1>b. CASE n \in 8..N + 7
  <2> DEFINE j == n - 8
  <2>1. /\ j \in 0..N - 1 /\ (n + 1) - 8 = j + 1 /\ n + 1 \in 9..N + 8 /\ n \in 8..N + 8
        /\ n \in 6..N + 12 /\ n \in 7..N + 9
    BY <1>b
  <2>2. Draw(f)[n + 1] = Data(f[j + 1])
    BY <2>1, DrawIs
  <2>3. power = "on" /\ busy = 0 /\ cur = "10" /\ ram = Prefix(f, j)
    BY <2>1 DEF At
  <2>4. Len(ram) < N /\ Append(ram, f[j + 1]) = Prefix(f, j + 1)
    BY <2>1, <2>3, PrefixGrows
  <2> HIDE DEF j
  <2>5. /\ cur' = "10" /\ shown' = shown /\ power' = power /\ busy' = 0
        /\ ram' = Prefix(f, j + 1)
    BY <2>2, <2>3, <2>4, DataDone
  <2> QED
    BY <2>1, <2>3, <2>5 DEF At
<1>c. CASE n \in N + 8..N + 15
  <2>0. /\ n + 1 \in N + 9..N + 16 /\ Draw(f)[n + 1] = After[(n + 1) - (N + 8)]
        /\ (N + 8 + 1) - (N + 8) = 1 /\ (N + 9 + 1) - (N + 8) = 2 /\ (N + 10 + 1) - (N + 8) = 3
        /\ (N + 11 + 1) - (N + 8) = 4 /\ (N + 12 + 1) - (N + 8) = 5 /\ (N + 13 + 1) - (N + 8) = 6
        /\ (N + 14 + 1) - (N + 8) = 7 /\ (N + 15 + 1) - (N + 8) = 8
    BY <1>c, DrawIs
  <2>1. CASE n = N + 8
    <3>1. power = "on" /\ busy = 0 /\ cur = "10" /\ ram = Prefix(f, N)
      BY <2>1 DEF At
    <3>2. cur' = "12" /\ shown' = shown /\ power' = power /\ busy' = 0 /\ ram' = f
      BY <3>1, <2>0, <2>1, <1>0, CommandDone, PrefixEnds
    <3> QED
      BY <3>1, <3>2, <2>1 DEF At
  <2>2. CASE n = N + 9
    <3>1. power = "on" /\ busy = 0 /\ cur = "12" /\ ram = f
      BY <2>2 DEF At
    <3>2. shown' = f /\ power' = power /\ busy' = 1
      BY <3>1, <2>0, <2>2, <1>0, DataDone
    <3>3. power' = "on"
      BY <3>1, <3>2
    <3> QED
      BY <3>2, <3>3, <2>2 DEF At
  <2>3. CASE n = N + 10
    <3>1. power = "on"
      BY <2>3 DEF At
    <3>2. UNCHANGED panelVars /\ busy = 0
      BY <2>0, <2>3, <1>0, BusyDone
    <3> QED
      BY <3>1, <3>2, <2>3 DEF At, panelVars
  <2>4. CASE n = N + 11
    <3>1. power = "on" /\ busy = 0
      BY <2>4 DEF At
    <3>2. cur' = "02" /\ shown' = shown /\ power' = power /\ busy' = 0
      BY <3>1, <2>0, <2>4, <1>0, CommandDone
    <3> QED
      BY <3>1, <3>2, <2>4 DEF At
  <2>5. CASE n = N + 12
    <3>1. power = "on" /\ busy = 0 /\ cur = "02"
      BY <2>5 DEF At
    <3>2. shown' = shown /\ power' = "off" /\ busy' = 1
      BY <3>1, <2>0, <2>5, <1>0, DataDone
    <3> QED
      BY <3>2, <2>5 DEF At
  <2>6. CASE n = N + 13
    <3>1. power = "off"
      BY <2>6 DEF At
    <3>2. UNCHANGED panelVars /\ busy = 0
      BY <2>0, <2>6, <1>0, BusyDone
    <3> QED
      BY <3>1, <3>2, <2>6 DEF At, panelVars
  <2>7. CASE n = N + 14
    <3>1. power = "off" /\ busy = 0
      BY <2>7 DEF At
    <3>2. cur' = "07" /\ shown' = shown /\ power' = power /\ busy' = 0
      BY <3>1, <2>0, <2>7, <1>0, CommandDone
    <3> QED
      BY <3>1, <3>2, <2>7 DEF At
  <2>8. CASE n = N + 15
    <3>1. power = "off" /\ busy = 0 /\ cur = "07"
      BY <2>8 DEF At
    <3>2. shown' = shown /\ power' = "sleep" /\ busy' = 0
      BY <3>1, <2>0, <2>8, <1>0, DataDone
    <3> QED
      BY <3>2, <2>8 DEF At
  <2>9. \/ n = N + 8 \/ n = N + 9 \/ n = N + 10 \/ n = N + 11
        \/ n = N + 12 \/ n = N + 13 \/ n = N + 14 \/ n = N + 15
    BY <1>c
  <2> QED
    BY <2>1, <2>2, <2>3, <2>4, <2>5, <2>6, <2>7, <2>8, <2>9
<1> QED
  BY <1>a, <1>b, <1>c

\* An operation of the start likewise; it shows nothing.
LEMMA BootStep ==
  ASSUME NEW n \in 0..11, BootAt(n), Effect(Boot[n + 1])
  PROVE  BootAt(n + 1)' /\ shown' = shown
<1>0. /\ Boot[1] = RST_CLR /\ Boot[2] = RST_SET /\ Boot[3] = EPD_CheckBusy
      /\ Boot[4] = Cmd("E9") /\ Boot[5] = Data("01") /\ Boot[6] = Cmd("04")
      /\ Boot[7] = EPD_CheckBusy
      /\ Boot[8] = Cmd("02") /\ Boot[9] = Data("00") /\ Boot[10] = EPD_CheckBusy
      /\ Boot[11] = Cmd("07") /\ Boot[12] = Data("A5")
  <2>1. /\ Boot[8] = EPD_Sleep[1] /\ Boot[9] = EPD_Sleep[2] /\ Boot[10] = EPD_Sleep[3]
        /\ Boot[11] = EPD_Sleep[4] /\ Boot[12] = EPD_Sleep[5]
    BY BootIs
  <2>2. \A k \in 1..7 : Boot[k] = EPD_Init[k]
    BY BootIs
  <2> QED
    BY <2>1, <2>2 DEF EPD_Init, EPD_Sleep
<1>1. CASE n = 0
  <2>1. power' = "reset" /\ busy' = 0 /\ UNCHANGED <<ram, shown>>
    BY <1>0, <1>1, ResetDone
  <2> QED
    BY <2>1, <1>1 DEF BootAt
<1>2. CASE n = 1
  <2>1. power = "reset" /\ busy = 0
    BY <1>2 DEF BootAt
  <2>2. power' = "off" /\ busy' = 0 /\ UNCHANGED <<ram, shown>>
    BY <2>1, <1>0, <1>2, ResetDone
  <2> QED
    BY <2>2, <1>2 DEF BootAt
<1>3. CASE n = 2
  <2>1. power = "off"
    BY <1>3 DEF BootAt
  <2>2. UNCHANGED panelVars /\ busy = 0
    BY <1>0, <1>3, BusyDone
  <2> QED
    BY <2>1, <2>2, <1>3 DEF BootAt, panelVars
<1>4. CASE n = 3
  <2>1. power = "off" /\ busy = 0
    BY <1>4 DEF BootAt
  <2>2. cur' = "E9" /\ shown' = shown /\ power' = power /\ busy' = 0
    BY <2>1, <1>0, <1>4, CommandDone
  <2> QED
    BY <2>1, <2>2, <1>4 DEF BootAt
<1>5. CASE n = 4
  <2>1. power = "off" /\ busy = 0 /\ cur = "E9"
    BY <1>5 DEF BootAt
  <2>2. shown' = shown /\ power' = power /\ busy' = 0
    BY <2>1, <1>0, <1>5, DataDone
  <2> QED
    BY <2>1, <2>2, <1>5 DEF BootAt
<1>6. CASE n = 5
  <2>1. power = "off" /\ busy = 0
    BY <1>6 DEF BootAt
  <2>2. shown' = shown /\ power' = "on" /\ busy' = 1
    BY <2>1, <1>0, <1>6, CommandDone
  <2> QED
    BY <2>2, <1>6 DEF BootAt
<1>7. CASE n = 6
  <2>1. power = "on"
    BY <1>7 DEF BootAt
  <2>2. UNCHANGED panelVars /\ busy = 0
    BY <1>0, <1>7, BusyDone
  <2> QED
    BY <2>1, <2>2, <1>7 DEF BootAt, panelVars
<1>8. CASE n = 7
  <2>1. power = "on" /\ busy = 0
    BY <1>8 DEF BootAt
  <2>2. cur' = "02" /\ shown' = shown /\ power' = power /\ busy' = 0
    BY <2>1, <1>0, <1>8, CommandDone
  <2> QED
    BY <2>1, <2>2, <1>8 DEF BootAt
<1>9. CASE n = 8
  <2>1. power = "on" /\ busy = 0 /\ cur = "02"
    BY <1>9 DEF BootAt
  <2>2. shown' = shown /\ power' = "off" /\ busy' = 1
    BY <2>1, <1>0, <1>9, DataDone
  <2> QED
    BY <2>2, <1>9 DEF BootAt
<1>10. CASE n = 9
  <2>1. power = "off"
    BY <1>10 DEF BootAt
  <2>2. UNCHANGED panelVars /\ busy = 0
    BY <1>0, <1>10, BusyDone
  <2> QED
    BY <2>1, <2>2, <1>10 DEF BootAt, panelVars
<1>11. CASE n = 10
  <2>1. power = "off" /\ busy = 0
    BY <1>11 DEF BootAt
  <2>2. cur' = "07" /\ shown' = shown /\ power' = power /\ busy' = 0
    BY <2>1, <1>0, <1>11, CommandDone
  <2> QED
    BY <2>1, <2>2, <1>11 DEF BootAt
<1>12. CASE n = 11
  <2>1. power = "off" /\ busy = 0 /\ cur = "07"
    BY <1>12 DEF BootAt
  <2>2. shown' = shown /\ power' = "sleep" /\ busy' = 0
    BY <2>1, <1>0, <1>12, DataDone
  <2> QED
    BY <2>2, <1>12 DEF BootAt
<1> QED
  BY <1>1, <1>2, <1>3, <1>4, <1>5, <1>6, <1>7, <1>8, <1>9, <1>10, <1>11, <1>12

\* Only the first operation of a program resets the panel.
LEMMA OnlyFirstResets ==
  /\ \A f : \A n \in 1..N + 15 : Draw(f)[n + 1] # RST_CLR
  /\ \A n \in 1..11 : Boot[n + 1] # RST_CLR
<1> USE SizeIs
<1>0. /\ RST_SET # RST_CLR /\ EPD_CheckBusy # RST_CLR
      /\ \A x : Cmd(x) # RST_CLR
      /\ \A x : Data(x) # RST_CLR
  BY DEF RST_CLR, RST_SET, EPD_CheckBusy, Cmd, Data
<1>1. \A k \in 2..8 : Before[k] # RST_CLR
  <2>1. /\ Before[2] = RST_SET /\ Before[3] = EPD_CheckBusy /\ Before[4] = Cmd("E0")
        /\ Before[5] = Data("02") /\ Before[6] = Cmd("04") /\ Before[7] = EPD_CheckBusy
        /\ Before[8] = Cmd("10")
    BY DEF Before
  <2>2. \A k \in 2..8 : k = 2 \/ k = 3 \/ k = 4 \/ k = 5 \/ k = 6 \/ k = 7 \/ k = 8
    OBVIOUS
  <2> QED
    BY <1>0, <2>1, <2>2
<1>2. \A k \in 1..8 : After[k] # RST_CLR
  <2>1. /\ After[1] = Cmd("12") /\ After[2] = Data("00") /\ After[3] = EPD_CheckBusy
        /\ After[4] = Cmd("02") /\ After[5] = Data("00") /\ After[6] = EPD_CheckBusy
        /\ After[7] = Cmd("07") /\ After[8] = Data("A5")
    BY DEF After
  <2>2. \A k \in 1..8 : k = 1 \/ k = 2 \/ k = 3 \/ k = 4 \/ k = 5 \/ k = 6 \/ k = 7 \/ k = 8
    OBVIOUS
  <2> QED
    BY <1>0, <2>1, <2>2
<1>4. ASSUME NEW f, NEW n \in 1..N + 15 PROVE Draw(f)[n + 1] # RST_CLR
  <2>1. CASE n \in 1..7
    <3>1. n + 1 \in 2..8 /\ n + 1 \in 1..8
      BY <2>1
    <3> QED
      BY <3>1, <1>1, DrawIs
  <2>2. CASE n \in 8..N + 7
    <3>1. n + 1 \in 9..N + 8
      BY <2>2
    <3> QED
      BY <3>1, <1>0, DrawIs
  <2>3. CASE n \in N + 8..N + 15
    <3>1. n + 1 \in N + 9..N + 16 /\ (n + 1) - (N + 8) \in 1..8
      BY <2>3
    <3> QED
      BY <3>1, <1>2, DrawIs
  <2> QED
    BY <2>1, <2>2, <2>3
<1>5. ASSUME NEW n \in 1..11 PROVE Boot[n + 1] # RST_CLR
  <2>1. \A k \in 2..7 : EPD_Init[k] # RST_CLR
    <3>1. /\ EPD_Init[2] = RST_SET /\ EPD_Init[3] = EPD_CheckBusy /\ EPD_Init[4] = Cmd("E9")
          /\ EPD_Init[5] = Data("01") /\ EPD_Init[6] = Cmd("04") /\ EPD_Init[7] = EPD_CheckBusy
      BY DEF EPD_Init
    <3>2. \A k \in 2..7 : k = 2 \/ k = 3 \/ k = 4 \/ k = 5 \/ k = 6 \/ k = 7
      OBVIOUS
    <3> QED
      BY <1>0, <3>1, <3>2
  <2>2. \A k \in 1..5 : EPD_Sleep[k] # RST_CLR
    <3>1. /\ EPD_Sleep[1] = Cmd("02") /\ EPD_Sleep[2] = Data("00")
          /\ EPD_Sleep[3] = EPD_CheckBusy /\ EPD_Sleep[4] = Cmd("07") /\ EPD_Sleep[5] = Data("A5")
      BY DEF EPD_Sleep
    <3>2. \A k \in 1..5 : k = 1 \/ k = 2 \/ k = 3 \/ k = 4 \/ k = 5
      OBVIOUS
    <3> QED
      BY <1>0, <3>1, <3>2
  <2>3. CASE n \in 1..6
    <3>1. n + 1 \in 2..7 /\ n + 1 \in 1..7
      BY <2>3
    <3> QED
      BY <3>1, <2>1, BootIs
  <2>4. CASE n \in 7..11
    <3>1. n + 1 \in 8..12 /\ (n + 1) - 7 \in 1..5
      BY <2>4
    <3> QED
      BY <3>1, <2>2, BootIs
  <2> QED
    BY <2>3, <2>4
<1> QED
  BY <1>4, <1>5

\* A panel that gets ready stays where it is.
LEMMA ReadyKeeps ==
  ASSUME PanelReady
  PROVE  /\ \A f, n : At(f, n) => At(f, n)'
         /\ \A n : BootAt(n) => BootAt(n)'
<1>1. busy' = 0 /\ power' = power /\ cur' = cur /\ ram' = ram
  BY DEF PanelReady
<1> QED
  BY <1>1 DEF At, BootAt

\* So does a panel that nobody touches.
LEMMA PanelKept ==
  ASSUME UNCHANGED panelVars
  PROVE  /\ \A f, n : At(f, n) => At(f, n)'
         /\ \A n : BootAt(n) => BootAt(n)'
  BY DEF At, BootAt, panelVars

-----------------------------------------------------------------------------
(* The invariant *)

\* Thread t has done n operations of the program that draws f, of the b it was given;
\* if it is alone with the panel, the panel is where these leave it.  Before the
\* first operation, which resets the panel, it may be anywhere.
Drawing(t, f, n, b) ==
  /\ Line(t, Draw(f), n, b)
  /\ Alone(t) => At(f, n) /\ Pins(t, Draw(f)[n + 1])

\* The Eink thread starts the panel.
Booting(n) ==
  /\ Line("eink", Boot, n, 12)
  /\ Alone("eink") => BootAt(n) /\ Pins("eink", Boot[n + 1])

EinkInv ==
  IF epc = 0 THEN \E n \in 0..12 : Booting(n)
  ELSE \E source \in Sources, n \in 0..N + 16 : Drawing("eink", Whole(source), n, N + 16)

\* The WiFi thread is at packet k of the image, or done with it.
WifiInv ==
  \E k \in 1..N :
    /\ packet = (k % N) + 1
    /\ \E n \in First(k)..Last(k) : Drawing("wifi", WifiImage, n, Last(k))

PanelInv == ThreadsInv /\ EinkInv /\ WifiInv

-----------------------------------------------------------------------------
(* The buttons *)

\* The samples of a button tell where its automaton is.
ButtonInv ==
  /\ state \in [Buttons -> {"IDLE", "PRESSED", "WAIT_RELEASE"}]
  /\ debounce_counter \in [Buttons -> {0, 1}]
  /\ recent = [b \in Buttons |-> recent[b]]
  /\ armed \in [Buttons -> {0, 1}]
  /\ \A b \in Buttons :
       /\ recent[b] \in Seq({0, 1}) /\ Len(recent[b]) = 3
       /\ state[b] = "IDLE" => armed[b] = 1 /\ recent[b][3] = 1
       /\ state[b] = "PRESSED" =>
            /\ armed[b] = 1 /\ recent[b][3] = 0
            /\ debounce_counter[b] = 0 <=> recent[b][2] = 1
       /\ state[b] = "WAIT_RELEASE" =>
            /\ armed[b] = 0
            /\ debounce_counter[b] = 1 <=> recent[b][3] = 1

LEMMA Shifted ==
  ASSUME NEW S, NEW s \in Seq(S), NEW level, level \in S, s # << >>, Len(s) - 1 = 2
  PROVE  /\ Append(Tail(s), level) \in Seq(S) /\ Len(Append(Tail(s), level)) = 3
         /\ Append(Tail(s), level)[1] = s[2] /\ Append(Tail(s), level)[2] = s[3]
         /\ Append(Tail(s), level)[3] = level
<1>1. PICK q : q = Tail(s)
  OBVIOUS
<1>2. /\ q \in Seq(S) /\ Len(q) = Len(s) - 1
      /\ \A i \in 1..Len(q) : q[i] = s[i + 1]
  BY <1>1, HeadTailProperties
<1>3. Len(q) = 2 /\ q[1] = s[2] /\ q[2] = s[3]
  BY <1>2
<1>4. /\ Append(q, level) \in Seq(S) /\ Len(Append(q, level)) = Len(q) + 1
      /\ \A i \in 1..Len(q) : Append(q, level)[i] = q[i]
      /\ Append(q, level)[Len(q) + 1] = level
  BY <1>2, AppendProperties
<1>5. Append(q, level)[1] = s[2] /\ Append(q, level)[2] = s[3]
  BY <1>3, <1>4
<1>6. Len(Append(q, level)) = 3 /\ Append(q, level)[3] = level
  <2>1. Len(q) + 1 = 3
    BY <1>3
  <2> QED
    BY <2>1, <1>4
<1> QED
  BY <1>1, <1>4, <1>5, <1>6

LEMMA Sampled ==
  ASSUME NEW s \in Seq({0, 1}), NEW level \in {0, 1}, Len(s) = 3
  PROVE  LET r == Append(Tail(s), level) IN
         /\ r \in Seq({0, 1}) /\ Len(r) = 3
         /\ r[1] = s[2] /\ r[2] = s[3] /\ r[3] = level
         /\ r = <<0, 0, 0>> <=> s[2] = 0 /\ s[3] = 0 /\ level = 0
<1> DEFINE r == Append(Tail(s), level)
<1>1. r \in Seq({0, 1}) /\ Len(r) = 3 /\ r[1] = s[2] /\ r[2] = s[3] /\ r[3] = level
  <2>1. s # << >> /\ Len(s) - 1 = 2
    OBVIOUS
  <2> QED
    BY <2>1, Shifted
<1> HIDE DEF r
<1>2. r = <<0, 0, 0>> <=> r[1] = 0 /\ r[2] = 0 /\ r[3] = 0
  <2>1. r = <<0, 0, 0>> => r[1] = 0 /\ r[2] = 0 /\ r[3] = 0
    OBVIOUS
  <2>2. ASSUME r[1] = 0, r[2] = 0, r[3] = 0 PROVE r = <<0, 0, 0>>
    <3>1. <<0, 0, 0>> \in Seq({0, 1}) /\ Len(<<0, 0, 0>>) = 3
      OBVIOUS
    <3>2. \A i \in 1..3 : r[i] = <<0, 0, 0>>[i]
      BY <2>2
    <3> QED
      BY <3>1, <3>2, <1>1, SeqEqual
  <2> QED
    BY <2>1, <2>2
<1>3. /\ r \in Seq({0, 1}) /\ Len(r) = 3
      /\ r[1] = s[2] /\ r[2] = s[3] /\ r[3] = level
      /\ r = <<0, 0, 0>> <=> s[2] = 0 /\ s[3] = 0 /\ level = 0
  BY <1>1, <1>2
<1> QED
  BY <1>3 DEF r

\* A sample keeps the invariant, and it triggers exactly at the third low one in a
\* row of a button that was released.
LEMMA ScanStep ==
  ASSUME ButtonInv, NEW b \in Buttons, NEW level \in {0, 1}, Button_Scan(b, level)
  PROVE  /\ ButtonInv'
         /\ Triggered(b) <=> armed[b] = 1 /\ recent'[b] = <<0, 0, 0>>
         /\ Triggered(b) => level = 0
<1> DEFINE r == Append(Tail(recent[b]), level)
<1>1. /\ recent[b] \in Seq({0, 1}) /\ Len(recent[b]) = 3
  BY DEF ButtonInv
<1>2. /\ r \in Seq({0, 1}) /\ Len(r) = 3
      /\ r[2] = recent[b][3] /\ r[3] = level
      /\ r = <<0, 0, 0>> <=> recent[b][2] = 0 /\ recent[b][3] = 0 /\ level = 0
  BY <1>1, Sampled
<1>3. /\ recent' = [recent EXCEPT ![b] = r]
      /\ armed' = [armed EXCEPT ![b] = IF Triggered(b) THEN 0
                                       ELSE IF level = 1 /\ recent[b][3] = 1 THEN 1 ELSE @]
  BY DEF Button_Scan, Remember
<1> HIDE DEF r
<1>4. /\ state \in [Buttons -> {"IDLE", "PRESSED", "WAIT_RELEASE"}]
      /\ debounce_counter \in [Buttons -> {0, 1}]
      /\ recent = [c \in Buttons |-> recent[c]]
      /\ armed \in [Buttons -> {0, 1}]
  BY DEF ButtonInv
<1>5. recent[b][2] \in {0, 1} /\ recent[b][3] \in {0, 1}
  <2>1. 2 \in 1..Len(recent[b]) /\ 3 \in 1..Len(recent[b])
    BY <1>1
  <2> QED
    BY <1>1, <2>1, ElementOfSeq
<1>6. /\ recent' = [c \in Buttons |-> recent'[c]] /\ recent'[b] = r
      /\ \A c \in Buttons \ {b} : recent'[c] = recent[c]
  BY <1>3, <1>4
<1>7. /\ armed' \in [Buttons -> {0, 1}]
      /\ armed'[b] = IF Triggered(b) THEN 0
                     ELSE IF level = 1 /\ recent[b][3] = 1 THEN 1 ELSE armed[b]
      /\ \A c \in Buttons \ {b} : armed'[c] = armed[c]
  BY <1>3, <1>4
<1>8. /\ state[b] = "IDLE" => armed[b] = 1 /\ recent[b][3] = 1
      /\ state[b] = "PRESSED" => /\ armed[b] = 1 /\ recent[b][3] = 0
                                 /\ debounce_counter[b] = 0 <=> recent[b][2] = 1
      /\ state[b] = "WAIT_RELEASE" => /\ armed[b] = 0
                                      /\ debounce_counter[b] = 1 <=> recent[b][3] = 1
  BY DEF ButtonInv
<1>9. /\ state' \in [Buttons -> {"IDLE", "PRESSED", "WAIT_RELEASE"}]
      /\ debounce_counter' \in [Buttons -> {0, 1}]
      /\ \A c \in Buttons \ {b} : state'[c] = state[c] /\ debounce_counter'[c] = debounce_counter[c]
      /\ \/ /\ state[b] = "IDLE"
            /\ state'[b] = IF level = 0 THEN "PRESSED" ELSE "IDLE"
            /\ level = 0 => debounce_counter'[b] = 0
         \/ /\ state[b] = "PRESSED" /\ level = 0 /\ debounce_counter[b] = 0
            /\ state'[b] = "PRESSED" /\ debounce_counter'[b] = 1
         \/ /\ state[b] = "PRESSED" /\ level = 0 /\ debounce_counter[b] = 1
            /\ state'[b] = "WAIT_RELEASE" /\ debounce_counter'[b] = 0
         \/ /\ state[b] = "PRESSED" /\ level = 1 /\ state'[b] = "IDLE"
         \/ /\ state[b] = "WAIT_RELEASE" /\ level = 0
            /\ state'[b] = "WAIT_RELEASE" /\ debounce_counter'[b] = 0
         \/ /\ state[b] = "WAIT_RELEASE" /\ level = 1 /\ debounce_counter[b] = 0
            /\ state'[b] = "WAIT_RELEASE" /\ debounce_counter'[b] = 1
         \/ /\ state[b] = "WAIT_RELEASE" /\ level = 1 /\ debounce_counter[b] = 1
            /\ state'[b] = "IDLE"
  BY <1>4 DEF Button_Scan, Debounce
<1>10. Triggered(b) <=> state[b] = "PRESSED" /\ level = 0 /\ debounce_counter[b] = 1
  BY <1>9 DEF Triggered
<1>11. debounce_counter[b] \in {0, 1} /\ armed[b] \in {0, 1}
  BY <1>4
<1>12. Triggered(b) <=> armed[b] = 1 /\ recent'[b] = <<0, 0, 0>>
  BY <1>2, <1>4, <1>5, <1>6, <1>8, <1>10, <1>11
<1>13. /\ state'[b] = "IDLE" => armed'[b] = 1 /\ r[3] = 1
       /\ state'[b] = "PRESSED" => /\ armed'[b] = 1 /\ r[3] = 0
                                   /\ debounce_counter'[b] = 0 <=> r[2] = 1
       /\ state'[b] = "WAIT_RELEASE" => /\ armed'[b] = 0
                                        /\ debounce_counter'[b] = 1 <=> r[3] = 1
  BY <1>2, <1>5, <1>7, <1>8, <1>9, <1>10, <1>11
<1>14. ButtonInv'
  <2>1. \A c \in Buttons :
          /\ recent'[c] \in Seq({0, 1}) /\ Len(recent'[c]) = 3
          /\ state'[c] = "IDLE" => armed'[c] = 1 /\ recent'[c][3] = 1
          /\ state'[c] = "PRESSED" =>
               /\ armed'[c] = 1 /\ recent'[c][3] = 0
               /\ debounce_counter'[c] = 0 <=> recent'[c][2] = 1
          /\ state'[c] = "WAIT_RELEASE" =>
               /\ armed'[c] = 0
               /\ debounce_counter'[c] = 1 <=> recent'[c][3] = 1
    <3> TAKE c \in Buttons
    <3>1. CASE c = b
      BY <3>1, <1>2, <1>6, <1>13
    <3>2. CASE c # b
      BY <3>2, <1>6, <1>7, <1>9 DEF ButtonInv
    <3> QED
      BY <3>1, <3>2
  <2> QED
    BY <2>1, <1>6, <1>7, <1>9 DEF ButtonInv
<1> QED
  BY <1>10, <1>12, <1>14

LEMMA ButtonsInit == Init => ButtonInv
<1> SUFFICES ASSUME Init PROVE ButtonInv
  OBVIOUS
<1>1. <<1, 1, 1>> \in Seq({0, 1}) /\ Len(<<1, 1, 1>>) = 3 /\ <<1, 1, 1>>[3] = 1
  OBVIOUS
<1> QED
  BY <1>1 DEF Init, ButtonInv

LEMMA ButtonsStep ==
  ASSUME ButtonInv, [Next]_vars
  PROVE  /\ ButtonInv'
         /\ \A b \in Buttons : epc = b /\ epc' # epc =>
              (Triggered(b) <=> armed[b] = 1 /\ recent'[b] = <<0, 0, 0>>)
<1>1. CASE UNCHANGED buttonVars /\ (epc' = epc \/ epc \notin Buttons)
  BY <1>1 DEF ButtonInv, buttonVars
<1>2. ASSUME NEW b \in Buttons, ScanButton(b)
      PROVE  /\ ButtonInv'
             /\ \A c \in Buttons : epc = c /\ epc' # epc =>
                  (Triggered(c) <=> armed[c] = 1 /\ recent'[c] = <<0, 0, 0>>)
  <2>1. PICK level \in {0, 1} : Button_Scan(b, level)
    BY <1>2 DEF ScanButton
  <2>2. epc = b
    BY <1>2 DEF ScanButton
  <2> QED
    BY <2>1, <2>2, ScanStep
<1>3. CASE (\E t \in {"eink", "wifi"} : Drive(t)) \/ PanelReady \/ PacketArrives \/ UNCHANGED vars
  <2>1. UNCHANGED buttonVars /\ epc' = epc
    BY <1>3 DEF Drive, PanelReady, PacketArrives, vars
  <2> QED
    BY <2>1, <1>1
<1>4. CASE StartLoop \/ LoopDelay
  <2>1. UNCHANGED buttonVars /\ epc \notin Buttons
    BY <1>4 DEF StartLoop, LoopDelay, Buttons
  <2> QED
    BY <2>1, <1>1
<1> QED
  BY <1>2, <1>3, <1>4 DEF Next, WifiStep, EinkStep

-----------------------------------------------------------------------------
(* Every step keeps the invariant of the panel *)

LEMMA PanelInit == Init => PanelInv
<1> SUFFICES ASSUME Init PROVE PanelInv
  OBVIOUS
<1>1. /\ todo = [t \in Threads |-> IF t = "eink" THEN EPD_Init \o EPD_Sleep ELSE << >>]
      /\ selected = [t \in Threads |-> 0] /\ epc = 0 /\ packet = 1 /\ owner = "eink"
  BY DEF Init, Threads
<1>2. todo["eink"] = Part(Boot, 0, 12) /\ todo["wifi"] = << >>
  BY <1>1, BootProgram DEF Threads
<1>3. ThreadsInv
  BY <1>1 DEF ThreadsInv, Threads
<1>4. Booting(0)
  <2>1. BootAt(0)
    BY DEF BootAt, Init
  <2>2. selected["eink"] = 0
    BY <1>1 DEF Threads
  <2> QED
    BY <2>1, <2>2, <1>2 DEF Booting, Line, Pins
<1>5. WifiInv
  <2>1. N \in 1..N /\ packet = (N % N) + 1
    <3>1. N % N = 0
      BY SizeIs
    <3> QED
      BY <3>1, <1>1, SizeIs
  <2>2. Last(N) \in First(N)..Last(N) /\ Last(N) \in Nat
    BY SizeIs DEF First, Last
  <2>3. Drawing("wifi", WifiImage, Last(N), Last(N))
    <3>1. todo["wifi"] = Part(Draw(WifiImage), Last(N), Last(N))
      BY <1>2, <2>2, PartEmpty
    <3>2. selected["wifi"] = 0 /\ ~Alone("wifi")
      BY <1>1 DEF Threads, Alone
    <3> QED
      BY <3>1, <3>2 DEF Drawing, Line
  <2> QED
    BY <2>1, <2>2, <2>3 DEF WifiInv
<1> QED
  BY <1>1, <1>3, <1>4, <1>5 DEF PanelInv, EinkInv

\* Where there is nothing left of a program, it is done.
LEMMA PartDone ==
  ASSUME NEW T, NEW p \in Seq(T), NEW b \in Nat, b <= Len(p), NEW a \in 0..b
  PROVE  Part(p, a, b) = << >> <=> a = b
<1>1. CASE a = b
  BY <1>1, PartEmpty
<1>2. CASE a # b
  <2>1. a \in Nat /\ a < b
    BY <1>2
  <2> QED
    BY <1>2, <2>1, PartTail
<1> QED
  BY <1>1, <1>2

\* A thread whose program, whose writes and whose panel nobody touches.
Untouched(t) ==
  /\ todo'[t] = todo[t] /\ selected'[t] = selected[t]
  /\ Alone(t)' => Alone(t) /\ UNCHANGED pinVars /\ (UNCHANGED panelVars \/ PanelReady)

LEMMA UntouchedKeeps ==
  ASSUME NEW t, Untouched(t)
  PROVE  /\ \A f, n, b : Drawing(t, f, n, b) => Drawing(t, f, n, b)'
         /\ t = "eink" => \A n : Booting(n) => Booting(n)'
<1>1. \A p, n, b : Line(t, p, n, b) => Line(t, p, n, b)'
  BY DEF Untouched, Line
<1>2. Alone(t)' => /\ Alone(t)
                   /\ \A f, n : At(f, n) => At(f, n)'
                   /\ \A n : BootAt(n) => BootAt(n)'
                   /\ \A op : Pins(t, op) => Pins(t, op)'
  <2>1. ASSUME Alone(t)'
        PROVE  /\ Alone(t)
               /\ \A f, n : At(f, n) => At(f, n)'
               /\ \A n : BootAt(n) => BootAt(n)'
    BY <2>1, PanelKept, ReadyKeeps DEF Untouched
  <2>2. ASSUME Alone(t)' PROVE \A op : Pins(t, op) => Pins(t, op)'
    BY <2>2 DEF Untouched, Pins, pinVars
  <2> QED
    BY <2>1, <2>2
<1>3. ASSUME NEW f, NEW n, NEW b, Drawing(t, f, n, b) PROVE Drawing(t, f, n, b)'
  BY <1>1, <1>2, <1>3 DEF Drawing
<1>4. ASSUME t = "eink", NEW n, Booting(n) PROVE Booting(n)'
  BY <1>1, <1>2, <1>4 DEF Booting
<1> QED
  BY <1>3, <1>4

LEMMA EinkUntouched ==
  ASSUME EinkInv, Untouched("eink"), epc' = epc \/ (epc # 0 /\ epc' # 0)
  PROVE  EinkInv'
<1>1. CASE epc = 0
  <2>1. PICK n \in 0..12 : Booting(n)
    BY <1>1 DEF EinkInv
  <2>2. Booting(n)'
    BY <2>1, UntouchedKeeps
  <2> QED
    BY <2>2, <1>1 DEF EinkInv
<1>2. CASE epc # 0
  <2>1. PICK source \in Sources, n \in 0..N + 16 : Drawing("eink", Whole(source), n, N + 16)
    BY <1>2 DEF EinkInv
  <2>2. Drawing("eink", Whole(source), n, N + 16)'
    BY <2>1, UntouchedKeeps
  <2> QED
    BY <2>2, <1>2 DEF EinkInv
<1> QED
  BY <1>1, <1>2

LEMMA WifiUntouched ==
  ASSUME WifiInv, Untouched("wifi"), packet' = packet
  PROVE  WifiInv'
<1>1. PICK k \in 1..N :
        /\ packet = (k % N) + 1
        /\ \E n \in First(k)..Last(k) : Drawing("wifi", WifiImage, n, Last(k))
  BY DEF WifiInv
<1>2. PICK n \in First(k)..Last(k) : Drawing("wifi", WifiImage, n, Last(k))
  BY <1>1
<1>3. Drawing("wifi", WifiImage, n, Last(k))'
  BY <1>2, UntouchedKeeps
<1> QED
  BY <1>1, <1>3 DEF WifiInv

\* The program of a thread that has one is not done yet.
LEMMA Unfinished ==
  ASSUME NEW t, NEW p, NEW n \in Nat, NEW b \in Nat, n <= b, Line(t, p, n, b), todo[t] # << >>
  PROVE  n < b
<1>1. n # b
  BY PartEmpty DEF Line
<1> QED
  BY <1>1

\* A step of a thread that draws f: the picture goes on, and if the panel shows
\* something new and was not mixed, it is f and the thread's own.
LEMMA DrawingDrives ==
  ASSUME ThreadsInv, NEW t \in Threads, NEW f \in Pictures, NEW b \in Nat, b <= N + 16,
         NEW n \in Nat, n < b, Drawing(t, f, n, b), Drive(t)
  PROVE  /\ ThreadsInv' /\ UNCHANGED <<buttonVars, epc, packet>>
         /\ Drawing(t, f, n, b)' \/ Drawing(t, f, n + 1, b)'
         /\ shown' # shown /\ ~mixed' => owner = t /\ shown' = f
<1> DEFINE d == Draw(f)
<1>1. PICK T : d \in Seq(T) /\ Len(d) = N + 16
  BY DrawType
<1>2. /\ Line(t, d, n, b)
      /\ Alone(t) => At(f, n) /\ Pins(t, d[n + 1])
      /\ d = Draw(f) /\ n \in 0..N + 15
  BY SizeIs DEF Drawing
<1> HIDE DEF d
<1>3. /\ ThreadsInv'
      /\ UNCHANGED <<buttonVars, epc, packet>>
      /\ ~mixed' => Alone(t)' \/ UNCHANGED panelVars
      /\ \/ /\ Line(t, d, n, b)' /\ UNCHANGED panelVars
            /\ Alone(t)' => Alone(t) /\ Pins(t, d[n + 1])'
         \/ /\ Line(t, d, n + 1, b)' /\ selected'[t] = 0
            /\ Alone(t)' => (d[n + 1] = RST_CLR \/ Alone(t)) /\ Effect(d[n + 1])
  BY <1>1, <1>2, DriveStep
<1>4. CASE /\ Line(t, d, n, b)' /\ UNCHANGED panelVars
           /\ Alone(t)' => Alone(t) /\ Pins(t, d[n + 1])'
  <2>1. Alone(t)' => At(f, n)'
    BY <1>2, <1>4, PanelKept
  <2>2. Drawing(t, f, n, b)'
    BY <2>1, <1>2, <1>4 DEF Drawing
  <2>3. shown' = shown
    BY <1>4 DEF panelVars
  <2> QED
    BY <2>2, <2>3, <1>3
<1>5. CASE /\ Line(t, d, n + 1, b)' /\ selected'[t] = 0
           /\ Alone(t)' => (d[n + 1] = RST_CLR \/ Alone(t)) /\ Effect(d[n + 1])
  <2>1. ASSUME Alone(t)' PROVE At(f, n) /\ (n = 0 \/ Alone(t))
    <3>1. CASE n = 0
      BY <3>1, SizeIs DEF At
    <3>2. CASE n # 0
      <4>1. n \in 1..N + 15
        BY <3>2, <1>2
      <4>2. Alone(t)
        BY <4>1, <2>1, <1>2, <1>5, OnlyFirstResets
      <4> QED
        BY <4>2, <1>2
    <3> QED
      BY <3>1, <3>2
  <2>2. ASSUME Alone(t)' PROVE At(f, n + 1)' /\ shown' \in {shown, f}
    BY <2>1, <2>2, <1>2, <1>5, DrawStep
  <2>3. Drawing(t, f, n + 1, b)'
    BY <2>2, <1>2, <1>5 DEF Drawing, Pins
  <2>4. ASSUME shown' # shown, ~mixed' PROVE owner = t /\ shown' = f
    <3>1. Alone(t)'
      BY <2>4, <1>3 DEF panelVars
    <3>2. n # 0
      <4> SUFFICES ASSUME n = 0 PROVE FALSE
        OBVIOUS
      <4>1. d[n + 1] = RST_CLR
        <5>1. n + 1 = 1 /\ d[1] = Before[1]
          BY <1>2, DrawIs
        <5> QED
          BY <5>1 DEF Before
      <4>2. shown' = shown
        BY <4>1, <3>1, <1>5, ResetDone
      <4> QED
        BY <4>2, <2>4
    <3> QED
      BY <3>1, <3>2, <2>1, <2>2, <2>4 DEF Alone
  <2> QED
    BY <2>3, <2>4, <1>3
<1> QED
  BY <1>3, <1>4, <1>5

\* The same for the start, which shows nothing.
LEMMA BootingDrives ==
  ASSUME ThreadsInv, NEW n \in 0..11, Booting(n), Drive("eink")
  PROVE  /\ ThreadsInv' /\ UNCHANGED <<buttonVars, epc, packet>>
         /\ Booting(n)' \/ Booting(n + 1)'
         /\ ~mixed' => shown' = shown
<1>1. PICK T : Boot \in Seq(T)
  BY BootIs
<1>2. /\ Line("eink", Boot, n, 12)
      /\ Alone("eink") => BootAt(n) /\ Pins("eink", Boot[n + 1])
  BY DEF Booting
<1>3. /\ ThreadsInv'
      /\ UNCHANGED <<buttonVars, epc, packet>>
      /\ ~mixed' => Alone("eink")' \/ UNCHANGED panelVars
      /\ \/ /\ Line("eink", Boot, n, 12)' /\ UNCHANGED panelVars
            /\ Alone("eink")' => Alone("eink") /\ Pins("eink", Boot[n + 1])'
         \/ /\ Line("eink", Boot, n + 1, 12)' /\ selected'["eink"] = 0
            /\ Alone("eink")' =>
                 (Boot[n + 1] = RST_CLR \/ Alone("eink")) /\ Effect(Boot[n + 1])
  <2>1. /\ n \in Nat /\ n < 12 /\ 12 \in Nat /\ 12 <= Len(Boot) /\ "eink" \in Threads
    BY BootIs DEF Threads
  <2> QED
    BY <1>1, <1>2, <2>1, DriveStep
<1>4. CASE /\ Line("eink", Boot, n, 12)' /\ UNCHANGED panelVars
           /\ Alone("eink")' => Alone("eink") /\ Pins("eink", Boot[n + 1])'
  <2>1. Alone("eink")' => BootAt(n)'
    BY <1>2, <1>4, PanelKept
  <2>2. Booting(n)'
    BY <2>1, <1>4 DEF Booting
  <2>3. shown' = shown
    BY <1>4 DEF panelVars
  <2> QED
    BY <2>2, <2>3, <1>3
<1>5. CASE /\ Line("eink", Boot, n + 1, 12)' /\ selected'["eink"] = 0
           /\ Alone("eink")' =>
                (Boot[n + 1] = RST_CLR \/ Alone("eink")) /\ Effect(Boot[n + 1])
  <2>1. ASSUME Alone("eink")' PROVE BootAt(n + 1)' /\ shown' = shown
    <3>1. CASE n = 0
      <4>1. Boot[n + 1] = RST_CLR
        <5>1. Boot[1] = EPD_Init[1]
          BY BootIs
        <5> QED
          BY <5>1, <3>1 DEF EPD_Init
      <4>2. power' = "reset" /\ busy' = 0 /\ shown' = shown
        BY <4>1, <2>1, <1>5, ResetDone
      <4> QED
        BY <4>2, <3>1 DEF BootAt
    <3>2. CASE n # 0
      <4>1. n \in 1..11
        BY <3>2
      <4>2. Alone("eink")
        BY <4>1, <2>1, <1>5, OnlyFirstResets
      <4> QED
        BY <4>2, <2>1, <1>2, <1>5, BootStep
    <3> QED
      BY <3>1, <3>2
  <2>2. Booting(n + 1)'
    BY <2>1, <1>5 DEF Booting, Pins
  <2>3. ~mixed' => shown' = shown
    BY <2>1, <1>3 DEF panelVars
  <2> QED
    BY <2>2, <2>3, <1>3
<1> QED
  BY <1>3, <1>4, <1>5

LEMMA EinkDrives ==
  ASSUME PanelInv, Drive("eink")
  PROVE  /\ PanelInv'
         /\ shown' # shown /\ ~mixed' =>
              owner = "eink" /\ \E source \in Sources : shown' = Whole(source)
<1>1. todo["eink"] # << >>
  BY DEF Drive
<1>2. /\ ThreadsInv' /\ UNCHANGED <<buttonVars, epc, packet>> /\ EinkInv'
      /\ shown' # shown /\ ~mixed' =>
           owner = "eink" /\ \E source \in Sources : shown' = Whole(source)
  <2>1. CASE epc = 0
    <3>1. PICK n \in 0..12 : Booting(n)
      BY <2>1 DEF PanelInv, EinkInv
    <3>2. n \in 0..11
      <4>1. n \in Nat /\ 12 \in Nat /\ n <= 12 /\ Line("eink", Boot, n, 12)
        BY <3>1 DEF Booting
      <4>2. n < 12
        BY <4>1, <1>1, Unfinished
      <4> QED
        BY <4>2
    <3>3. /\ ThreadsInv' /\ UNCHANGED <<buttonVars, epc, packet>>
          /\ Booting(n)' \/ Booting(n + 1)'
          /\ ~mixed' => shown' = shown
      BY <3>1, <3>2, BootingDrives DEF PanelInv
    <3>4. n + 1 \in 0..12
      BY <3>2
    <3> QED
      BY <3>3, <3>4, <2>1 DEF EinkInv
  <2>2. CASE epc # 0
    <3>1. PICK source \in Sources, n \in 0..N + 16 :
            Drawing("eink", Whole(source), n, N + 16)
      BY <2>2 DEF PanelInv, EinkInv
    <3>2. PICK f : f = Whole(source)
      OBVIOUS
    <3>3. f \in Pictures /\ Drawing("eink", f, n, N + 16)
      BY <3>1, <3>2 DEF Pictures
    <3>4. n \in Nat /\ n < N + 16 /\ N + 16 \in Nat /\ N + 16 <= N + 16 /\ n + 1 \in 0..N + 16
      <4>1. n \in Nat /\ N + 16 \in Nat /\ n <= N + 16
        BY SizeIs
      <4>2. n < N + 16
        BY <4>1, <3>3, <1>1, Unfinished DEF Drawing
      <4> QED
        BY <4>1, <4>2
    <3>5. /\ ThreadsInv' /\ UNCHANGED <<buttonVars, epc, packet>>
          /\ Drawing("eink", f, n, N + 16)' \/ Drawing("eink", f, n + 1, N + 16)'
          /\ shown' # shown /\ ~mixed' => owner = "eink" /\ shown' = f
      BY <3>3, <3>4, DrawingDrives DEF PanelInv, Threads
    <3> QED
      BY <3>2, <3>4, <3>5, <2>2 DEF EinkInv
  <2> QED
    BY <2>1, <2>2
<1>3. Untouched("wifi")
  BY OtherDrives DEF PanelInv, Threads, Untouched
<1> QED
  BY <1>2, <1>3, WifiUntouched DEF PanelInv

LEMMA WifiDrives ==
  ASSUME PanelInv, Drive("wifi")
  PROVE  /\ PanelInv'
         /\ shown' # shown /\ ~mixed' => owner = "wifi" /\ shown' = WifiImage
<1>1. todo["wifi"] # << >> /\ WifiImage \in Pictures
  BY DEF Drive, Pictures
<1>2. PICK k \in 1..N :
        /\ packet = (k % N) + 1
        /\ \E n \in First(k)..Last(k) : Drawing("wifi", WifiImage, n, Last(k))
  BY DEF PanelInv, WifiInv
<1>3. PICK n \in First(k)..Last(k) : Drawing("wifi", WifiImage, n, Last(k))
  BY <1>2
<1>4. First(k) \in Nat /\ Last(k) \in Nat /\ Last(k) <= N + 16
  BY SizeIs DEF First, Last
<1>5. n \in Nat /\ n < Last(k) /\ n + 1 \in First(k)..Last(k)
  <2>1. n \in Nat /\ n <= Last(k)
    BY <1>4
  <2>2. n < Last(k)
    BY <2>1, <1>1, <1>3, <1>4, Unfinished DEF Drawing
  <2> QED
    BY <2>1, <2>2, <1>4
<1>6. /\ ThreadsInv' /\ UNCHANGED <<buttonVars, epc, packet>>
      /\ Drawing("wifi", WifiImage, n, Last(k))' \/ Drawing("wifi", WifiImage, n + 1, Last(k))'
      /\ shown' # shown /\ ~mixed' => owner = "wifi" /\ shown' = WifiImage
  BY <1>1, <1>3, <1>4, <1>5, DrawingDrives DEF PanelInv, Threads
<1>7. WifiInv'
  BY <1>2, <1>5, <1>6 DEF WifiInv
<1>8. Untouched("eink")
  BY OtherDrives DEF PanelInv, Threads, Untouched
<1> QED
  BY <1>6, <1>7, <1>8, EinkUntouched DEF PanelInv

\* A thread without a program has done the last one.
LEMMA NoProgram ==
  ASSUME NEW t, NEW f, NEW b \in Nat, b <= N + 16, NEW n \in 0..b, Drawing(t, f, n, b),
         todo[t] = << >>
  PROVE  n = b /\ (Alone(t) => At(f, b))
<1>1. PICK T : Draw(f) \in Seq(T) /\ Len(Draw(f)) = N + 16
  BY DrawType
<1>2. n = b
  BY <1>1, PartDone DEF Drawing, Line
<1> QED
  BY <1>2 DEF Drawing

\* A thread that begins with the program of f may find the panel anywhere.
LEMMA Begins ==
  ASSUME NEW t \in Threads, NEW f, NEW b, todo'[t] = Part(Draw(f), 0, b), selected'[t] = 0
  PROVE  Drawing(t, f, 0, b)'
<1>1. At(f, 0)'
  BY SizeIs DEF At
<1> QED
  BY <1>1 DEF Drawing, Line, Pins

\* A thread without a program is not in the middle of a write.
LEMMA NoWrite ==
  ASSUME ThreadsInv, NEW t \in Threads, NEW p, NEW n \in Int, Line(t, p, n, n)
  PROVE  selected[t] = 0
  BY DEF ThreadsInv, Line

LEMMA ArrivalKeeps ==
  ASSUME PanelInv, PacketArrives
  PROVE  PanelInv'
<1>1. /\ todo["wifi"] = << >>
      /\ todo' = [todo EXCEPT !["wifi"] = ProcessImageData(packet)]
      /\ packet' = (packet % N) + 1
      /\ UNCHANGED <<epc, selected, pinVars, panelVars, useVars>>
  BY DEF PacketArrives, N
<1>2. PICK k \in 1..N :
        /\ packet = (k % N) + 1
        /\ \E n \in First(k)..Last(k) : Drawing("wifi", WifiImage, n, Last(k))
  BY DEF PanelInv, WifiInv
<1>3. PICK n \in First(k)..Last(k) : Drawing("wifi", WifiImage, n, Last(k))
  BY <1>2
<1>4. First(k) \in Nat /\ Last(k) \in Nat /\ Last(k) <= N + 16 /\ n \in 0..Last(k)
  <2>1. First(k) \in Nat /\ Last(k) \in Nat /\ Last(k) <= N + 16
    BY SizeIs DEF First, Last
  <2> QED
    BY <2>1
<1>5. n = Last(k) /\ (Alone("wifi") => At(WifiImage, Last(k)))
  BY <1>1, <1>3, <1>4, NoProgram
<1>6. selected["wifi"] = 0
  BY <1>3, <1>4, <1>5, NoWrite DEF PanelInv, Threads, Drawing
<1>7. PICK m : m = packet
  OBVIOUS
<1>8. m \in 1..N /\ (m # 1 => k # N /\ m = k + 1)
  <2>1. CASE k = N
    <3>1. k % N = 0
      BY <2>1, SizeIs
    <3> QED
      BY <3>1, <1>2, <1>7, SizeIs
  <2>2. CASE k # N
    <3>1. k % N = k
      BY <2>2, SizeIs
    <3> QED
      BY <3>1, <2>2, <1>2, <1>7, SizeIs
  <2> QED
    BY <2>1, <2>2
<1>9. /\ todo' = [t \in Threads |-> todo'[t]]
      /\ todo'["eink"] = todo["eink"]
      /\ todo'["wifi"] = Part(Draw(WifiImage), First(m), Last(m))
      /\ selected' = selected /\ owner' = owner
  <2>1. ProcessImageData(packet) = Part(Draw(WifiImage), First(m), Last(m))
    BY <1>7, <1>8, WifiProgram
  <2> QED
    BY <2>1, <1>1 DEF PanelInv, ThreadsInv, Threads, useVars
<1>10. Drawing("wifi", WifiImage, First(m), Last(m))'
  <2>1. CASE m = 1
    BY <2>1, <1>6, <1>9, Begins DEF First, Threads
\* The program of a later packet begins where the one before it ended.
  <2>2. CASE m # 1
    <3>1. First(m) = Last(k)
      BY <2>2, <1>8, SizeIs DEF First, Last
    <3>2. Alone("wifi")' => At(WifiImage, First(m))'
      <4>1. Alone("wifi")' => Alone("wifi")
        BY <1>1 DEF Alone, useVars
      <4> QED
        BY <4>1, <3>1, <1>1, <1>5, PanelKept
    <3> QED
      BY <3>2, <1>6, <1>9 DEF Drawing, Line, Pins
  <2> QED
    BY <2>1, <2>2
<1>11. First(m) \in First(m)..Last(m)
  BY <1>8, SizeIs DEF First, Last
<1>12. packet' = (m % N) + 1
  BY <1>1, <1>7
<1>13. WifiInv'
  BY <1>8, <1>10, <1>11, <1>12 DEF WifiInv
<1>14. Untouched("eink")
  BY <1>1, <1>9 DEF Untouched, Alone, useVars
<1>15. EinkInv'
  BY <1>1, <1>14, EinkUntouched DEF PanelInv
<1> QED
  BY <1>9, <1>13, <1>15 DEF PanelInv, ThreadsInv

LEMMA StartLoopKeeps ==
  ASSUME PanelInv, StartLoop
  PROVE  PanelInv'
<1>1. /\ todo["eink"] = << >> /\ epc = 0 /\ epc' = 1
      /\ UNCHANGED <<packet, todo, selected, pinVars, panelVars, useVars>>
  BY DEF StartLoop
<1>2. PICK n \in 0..12 : Booting(n)
  BY <1>1 DEF PanelInv, EinkInv
<1>3. PICK T : Boot \in Seq(T) /\ Len(Boot) = 12
  BY BootIs
<1>4. n = 12
  <2>1. PICK last : last = 12
    OBVIOUS
  <2>2. last \in Nat /\ last <= Len(Boot) /\ n \in 0..last
    BY <2>1, <1>3
  <2>3. Part(Boot, n, last) = << >>
    BY <2>1, <1>1, <1>2 DEF Booting, Line
  <2> QED
    BY <2>1, <2>2, <2>3, <1>3, PartDone
<1>5. /\ selected["eink"] # 1
      /\ Alone("eink") => power = "sleep"
  <2>1. ~(12 < 12)
    OBVIOUS
  <2> QED
    BY <2>1, <1>2, <1>4 DEF Booting, BootAt, Line
<1>6. PICK source : source \in Sources
  BY DEF Sources
<1>7. PICK b : b = N + 16
  OBVIOUS
<1>8. Drawing("eink", Whole(source), b, b)'
  <2>1. b \in Nat
    BY <1>7, SizeIs
  <2>2. todo'["eink"] = Part(Draw(Whole(source)), b, b)
    BY <2>1, <1>1, PartEmpty
  <2>3. Alone("eink")' => At(Whole(source), b)'
    <3>1. Alone("eink")' => power' = "sleep"
      BY <1>1, <1>5 DEF Alone, useVars, panelVars
    <3> QED
      BY <3>1, <1>7, SizeIs DEF At
  <2>4. selected'["eink"] # 1
    BY <1>1, <1>5
  <2> QED
    BY <2>2, <2>3, <2>4 DEF Drawing, Line, Pins
<1>9. EinkInv'
  <2>1. b \in 0..N + 16 /\ epc' # 0
    BY <1>1, <1>7, SizeIs
  <2> QED
    BY <2>1, <1>6, <1>7, <1>8 DEF EinkInv
<1>10. Untouched("wifi")
  BY <1>1 DEF Untouched, Alone, useVars
<1> QED
  BY <1>1, <1>9, <1>10, WifiUntouched DEF PanelInv, ThreadsInv, useVars

\* A step that leaves programs, pins and the panel's condition alone.
LEMMA NothingMoves ==
  ASSUME PanelInv, UNCHANGED <<packet, todo, selected, pinVars, useVars>>,
         epc' = epc \/ (epc # 0 /\ epc' # 0),
         UNCHANGED panelVars \/ PanelReady
  PROVE  PanelInv'
<1>1. \A t : Untouched(t)
  BY DEF Untouched, Alone, useVars
<1> QED
  BY <1>1, EinkUntouched, WifiUntouched DEF PanelInv, ThreadsInv, useVars

LEMMA ScanKeeps ==
  ASSUME PanelInv, NEW b \in Buttons, ScanButton(b)
  PROVE  PanelInv'
<1>1. /\ todo["eink"] = << >> /\ epc = b /\ epc' = b + 1
      /\ todo' = [todo EXCEPT !["eink"] =
                    IF Triggered(b)
                    THEN EPD_Init_Fast \o EPD_DisplayImage(Picture(b)) \o EPD_Sleep
                    ELSE << >>]
      /\ UNCHANGED <<packet, selected, pinVars, panelVars, useVars>>
  BY DEF ScanButton
<1>2. epc # 0 /\ epc' # 0
  BY <1>1 DEF Buttons
<1>3. CASE ~Triggered(b)
  <2>1. todo' = todo
    BY <1>1, <1>3 DEF PanelInv, ThreadsInv
  <2> QED
    BY <2>1, <1>1, <1>2, NothingMoves
<1>4. CASE Triggered(b)
  <2> DEFINE source == Picture(b)
  <2>1. source \in Sources
    BY DEF Picture, Sources
  <2>2. EPD_Init_Fast \o EPD_DisplayImage(source) \o EPD_Sleep
          = Part(Draw(Whole(source)), 0, N + 16)
    BY EinkProgram
  <2>3. todo' = [todo EXCEPT !["eink"] = Part(Draw(Whole(source)), 0, N + 16)]
    BY <1>1, <1>4, <2>2
  <2> HIDE DEF source
  <2>4. /\ ThreadsInv' /\ todo'["wifi"] = todo["wifi"]
        /\ todo'["eink"] = Part(Draw(Whole(source)), 0, N + 16)
    BY <2>3, <1>1 DEF PanelInv, ThreadsInv, Threads, useVars
\* The program before it was at its end.
  <2>5. selected["eink"] = 0
    <3>1. PICK old \in Sources, n \in 0..N + 16 : Drawing("eink", Whole(old), n, N + 16)
      BY <1>2 DEF PanelInv, EinkInv
    <3>2. PICK e : e = N + 16
      OBVIOUS
    <3>3. e \in Nat /\ e <= N + 16 /\ n \in 0..e /\ Drawing("eink", Whole(old), n, e)
      BY <3>1, <3>2, SizeIs
    <3>4. n = e
      BY <3>3, <1>1, NoProgram
    <3> QED
      BY <3>3, <3>4, NoWrite DEF PanelInv, Threads, Drawing
  <2>6. Drawing("eink", Whole(source), 0, N + 16)'
    <3>1. selected'["eink"] = 0 /\ "eink" \in Threads
      BY <2>5, <1>1 DEF Threads
    <3> QED
      BY <3>1, <2>4, Begins
  <2>7. EinkInv'
    <3>1. 0 \in 0..N + 16
      BY SizeIs
    <3> QED
      BY <3>1, <2>1, <2>6, <1>2 DEF EinkInv
  <2>8. Untouched("wifi")
    BY <2>4, <1>1 DEF Untouched, Alone, useVars
  <2> QED
    BY <2>4, <2>7, <2>8, <1>1, WifiUntouched DEF PanelInv
<1> QED
  BY <1>3, <1>4

\* The panel shows something new only by a thread's operation; whatever else happens,
\* it stays as it is or gets ready.
LEMMA PanelStep ==
  ASSUME PanelInv, [Next]_vars
  PROVE  /\ PanelInv'
         /\ shown' # shown /\ ~mixed' =>
              \/ owner = "wifi" /\ shown' = WifiImage
              \/ owner = "eink" /\ \E source \in Sources : shown' = Whole(source)
<1>1. CASE PacketArrives
  <2>1. shown' = shown
    BY <1>1 DEF PacketArrives, panelVars
  <2> QED
    BY <2>1, <1>1, ArrivalKeeps
<1>2. CASE WifiStep
  BY <1>2, WifiDrives DEF WifiStep
<1>3. CASE EinkStep
  <2>1. CASE Drive("eink")
    BY <2>1, EinkDrives
  <2>2. CASE StartLoop
    <3>1. shown' = shown
      BY <2>2 DEF StartLoop, panelVars
    <3> QED
      BY <3>1, <2>2, StartLoopKeeps
  <2>3. ASSUME NEW b \in Buttons, ScanButton(b) PROVE PanelInv' /\ shown' = shown
    <3>1. shown' = shown
      BY <2>3 DEF ScanButton, panelVars
    <3> QED
      BY <3>1, <2>3, ScanKeeps
  <2>4. CASE LoopDelay
    <3>1. /\ epc # 0 /\ epc' # 0
          /\ UNCHANGED <<packet, todo, selected, pinVars, panelVars, useVars>>
      BY <2>4 DEF LoopDelay
    <3>2. shown' = shown
      BY <3>1 DEF panelVars
    <3> QED
      BY <3>1, <3>2, NothingMoves
  <2> QED
    BY <1>3, <2>1, <2>2, <2>3, <2>4 DEF EinkStep
<1>4. CASE PanelReady
  <2>1. epc' = epc /\ UNCHANGED <<packet, todo, selected, pinVars, useVars, shown>>
    BY <1>4 DEF PanelReady
  <2> QED
    BY <2>1, <1>4, NothingMoves
<1>5. CASE UNCHANGED vars
  <2>1. epc' = epc /\ UNCHANGED <<packet, todo, selected, pinVars, panelVars, useVars>>
    BY <1>5 DEF vars
  <2>2. shown' = shown
    BY <2>1 DEF panelVars
  <2> QED
    BY <2>1, <2>2, NothingMoves
<1> QED
  BY <1>1, <1>2, <1>3, <1>4, <1>5 DEF Next

-----------------------------------------------------------------------------
(* The theorems *)

LEMMA PanelAlways == Spec => []PanelInv
<1>1. PanelInv /\ [Next]_vars => PanelInv'
  BY PanelStep
<1> QED
  BY <1>1, PanelInit, PTL DEF Spec

\* Presses and packets come whenever they like: what EPD_Update then shows, unless both
\* threads used the panel since its reset, is the picture of the thread that reset it,
\* whole: whatever EPD_DisplayImage and EPD_DisplayImage_Paragraph left in its memory
\* before, they never show a part of one or cells of another.
THEOREM PicturesAreWhole == Spec => WholePicture
<1>1. PanelInv /\ [Next]_vars =>
        [shown' # shown /\ ~mixed' =>
           IF owner = "wifi" THEN shown' = WifiImage
                             ELSE shown' \in {Whole("image_test"), Whole("Image_Asuka")}]_vars
  BY PanelStep DEF Sources
<1> QED
  BY <1>1, PanelAlways, PTL DEF Spec, WholePicture

\* Every picture ends with EPD_Sleep, however the one before it ended: the panel is in
\* deep sleep when the thread that reset it is through, unless the other used it since.
THEOREM PanelRestsAsleep == Spec => []SleepsAtRest
<1>1. PanelInv => SleepsAtRest
  <2> SUFFICES ASSUME PanelInv, ~mixed, Through(owner)
               PROVE  power = "sleep"
    BY DEF SleepsAtRest
  <2>1. CASE owner = "eink" /\ epc = 0
    <3>1. PICK n \in 0..12 : Booting(n)
      BY <2>1 DEF PanelInv, EinkInv
    <3>2. PICK T : Boot \in Seq(T) /\ Len(Boot) = 12
      BY BootIs
    <3>3. n = 12
      <4>1. PICK last : last = 12
        OBVIOUS
      <4>2. last \in Nat /\ last <= Len(Boot) /\ n \in 0..last
        BY <4>1, <3>2
      <4>3. Part(Boot, n, last) = << >>
        BY <4>1, <2>1, <3>1 DEF Booting, Line, Through
      <4> QED
        BY <4>1, <4>2, <4>3, <3>2, PartDone
    <3> QED
      BY <3>1, <3>3, <2>1 DEF Booting, BootAt, Alone
  <2>2. CASE owner = "eink" /\ epc # 0
    <3>1. PICK source \in Sources, n \in 0..N + 16 :
            Drawing("eink", Whole(source), n, N + 16)
      BY <2>2 DEF PanelInv, EinkInv
    <3>2. PICK e : e = N + 16
      OBVIOUS
    <3>3. e \in Nat /\ e <= N + 16 /\ n \in 0..e /\ Drawing("eink", Whole(source), n, e)
      BY <3>1, <3>2, SizeIs
    <3>4. At(Whole(source), e)
      BY <3>3, <2>2, NoProgram DEF Alone, Through
    <3> QED
      BY <3>2, <3>4 DEF At
  <2>3. CASE owner = "wifi"
    <3>1. PICK k \in 1..N :
            /\ packet = (k % N) + 1
            /\ \E n \in First(k)..Last(k) : Drawing("wifi", WifiImage, n, Last(k))
      BY DEF PanelInv, WifiInv
    <3>2. PICK n \in First(k)..Last(k) : Drawing("wifi", WifiImage, n, Last(k))
      BY <3>1
    <3>3. k = N /\ Last(k) = N + 16
      <4>1. packet = 1
        BY <2>3 DEF Through
      <4>2. k # N => k % N = k
        BY SizeIs
      <4> QED
        BY <4>1, <4>2, <3>1, SizeIs DEF Last
    <3>4. First(k) \in Nat /\ Last(k) \in Nat /\ Last(k) <= N + 16
      BY SizeIs DEF First, Last
    <3>5. At(WifiImage, Last(k))
      <4>1. n \in 0..Last(k)
        BY <3>4
      <4> QED
        BY <4>1, <3>2, <3>4, <2>3, NoProgram DEF Alone, Through
    <3> QED
      BY <3>3, <3>5 DEF At
  <2> QED
    BY <2>1, <2>2, <2>3 DEF PanelInv, ThreadsInv, Threads
<1> QED
  BY <1>1, PanelAlways, PTL

\* Button_Scan fires for a press, three low samples in a row after a release, and only
\* then, whatever the contacts do and whatever the WiFi thread does meanwhile.
THEOREM PressFiresOnce == Spec => FiresOncePerPress
<1>1. Init => ButtonInv
  BY ButtonsInit
<1>2. ButtonInv /\ [Next]_vars => ButtonInv'
  BY ButtonsStep
<1>3. ButtonInv /\ [Next]_vars =>
        [\A b \in Buttons :
           epc = b /\ epc' # epc =>
             (Triggered(b) <=> armed[b] = 1 /\ recent'[b] = <<0, 0, 0>>)]_vars
  BY ButtonsStep
<1> QED
  BY <1>1, <1>2, <1>3, PTL DEF Spec, FiresOncePerPress

=============================================================================
