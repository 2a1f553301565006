---------------------------- MODULE PanelSharing ----------------------------
(***************************************************************************)
(* The e-ink panel and the two threads that drive it: the Eink thread      *)
(* (buttons, priority 6) and the WiFi thread (received packets, priority   *)
(* 5, the stronger).  Nothing locks the panel.                             *)
(*                                                                         *)
(* A thread's work on the panel is a program: the sequence of operations   *)
(* that EPD.c issues, kept in todo[t].  EPD_WriteCMD and EPD_WriteDATA are *)
(* two steps each, the setting of CS and DC and the shifting of the byte,  *)
(* since the other thread may come in between; a byte is shifted in one    *)
(* step.  The WiFi thread runs whenever it has something to do, and        *)
(* EPD_CheckBusy polls without giving up the processor, so the Eink thread *)
(* only runs while the WiFi thread waits for its event.  Packets and       *)
(* presses come whenever they like, also while the other thread draws or   *)
(* between two packets of an image.                                        *)
(*                                                                         *)
(* Picture data are named by where they come from.  The panel controller   *)
(* is external: it is modelled from the commands EPD.c sends it.           *)
(***************************************************************************)
EXTENDS Naturals, Sequences

CONSTANTS ImageSize,    \* EPD_BUFFER_SIZE: 8000 bytes in the source, here in
                        \*   cells of a packet's length
          WifiImage     \* the image sent, by cells

ASSUME PanelAssumption == /\ ImageSize \in Nat \ {0}
                          /\ WifiImage \in [1..ImageSize -> STRING]

Buttons == {1, 2}

VARIABLES state, debounce_counter,       \* Button_t of button1 and button2
          epc,                           \* where the Eink thread is in its loop
          packet,                        \* the number of the next packet
          todo,                          \* what is left of each thread's program
          selected,                      \* the thread did the first half of a write
          cs, dc,                        \* pin levels
          power, busy, cur, ram, shown,  \* the panel controller
          recent, armed,                 \* history of each button's samples
          owner,                         \* history: the thread that reset the panel last
          mixed                          \* history: the other has used it since

buttonVars  == <<state, debounce_counter, recent, armed>>
pinVars     == <<cs, dc>>
panelVars   == <<power, busy, cur, ram, shown>>
useVars     == <<owner, mixed>>
vars == <<buttonVars, epc, packet, todo, selected, pinVars, panelVars, useVars>>
-----------------------------------------------------------------------------
(* EPD.c as programs *)

Cmd(c)  == <<"cmd", c>>
Data(d) == <<"data", d>>
RST_CLR == <<"rst", "low">>
RST_SET == <<"rst", "high">>
EPD_CheckBusy == <<"busy", "">>

EPD_Init == <<RST_CLR, RST_SET, EPD_CheckBusy, Cmd("E9"), Data("01"), Cmd("04"),
              EPD_CheckBusy>>

EPD_Init_Fast == <<RST_CLR, RST_SET, EPD_CheckBusy, Cmd("E0"), Data("02"),
                   Cmd("04"), EPD_CheckBusy>>

\* Mutant: only the power is switched off.
EPD_SleepUnpowered == <<Cmd("02"), Data("00"), EPD_CheckBusy>>

EPD_Sleep == <<Cmd("02"), Data("00"), EPD_CheckBusy, Cmd("07"), Data("A5")>>

EPD_Update == <<Cmd("12"), Data("00"), EPD_CheckBusy>>

Whole(source) == [k \in 1..ImageSize |-> source]

\* Mutant: the data are sent and not shown.
EPD_DisplayImageUnseen(source) ==
  <<Cmd("10")>> \o [k \in 1..ImageSize |-> Data(source)]

EPD_DisplayImage(source) ==
  <<Cmd("10")>> \o [k \in 1..ImageSize |-> Data(source)] \o EPD_Update

\* Mutant: every packet restarts the transfer.
ProcessImageDataRestarting(packet_num) ==
  (IF packet_num = 1 THEN EPD_Init_Fast ELSE << >>)
  \o <<Cmd("10"), Data(WifiImage[packet_num])>>
  \o (IF packet_num = ImageSize THEN EPD_Update \o EPD_Sleep ELSE << >>)

\* Mutant: the last packet puts the panel to sleep without a refresh.
ProcessImageDataUnseen(packet_num) ==
  (IF packet_num = 1 THEN EPD_Init_Fast \o <<Cmd("10")>> ELSE << >>)
  \o <<Data(WifiImage[packet_num])>>
  \o (IF packet_num = ImageSize THEN EPD_Sleep ELSE << >>)

\* ProcessImageData with EPD_DisplayImage_Paragraph; a packet brings one cell.
ProcessImageData(packet_num) ==
  (IF packet_num = 1 THEN EPD_Init_Fast \o <<Cmd("10")>> ELSE << >>)
  \o <<Data(WifiImage[packet_num])>>
  \o (IF packet_num = ImageSize THEN EPD_Update \o EPD_Sleep ELSE << >>)
-----------------------------------------------------------------------------
(* The panel controller *)

\* A controller that is busy, in reset or in deep sleep takes nothing.
Deaf == busy = 1 \/ power \in {"sleep", "reset"}

PanelCommand(c) ==
  IF Deaf THEN UNCHANGED panelVars
  ELSE /\ cur' = c
       /\ ram' = IF c = "10" THEN << >> ELSE ram
       /\ power' = IF c = "04" THEN "on" ELSE power
       /\ busy' = IF c = "04" THEN 1 ELSE 0
       /\ UNCHANGED shown

PanelData(d) ==
  IF Deaf THEN UNCHANGED panelVars
  ELSE /\ ram' = IF cur = "10" /\ Len(ram) < ImageSize THEN Append(ram, d) ELSE ram
       /\ shown' = IF cur = "12" /\ power = "on" THEN ram ELSE shown
       /\ power' = CASE cur = "02" -> "off"
                     [] cur = "07" /\ d = "A5" -> "sleep"
                     [] OTHER -> power
       /\ busy' = IF cur \in {"02", "12"} THEN 1 ELSE 0
       /\ UNCHANGED cur

PanelReset(level) ==
  /\ power' = IF level = "low" THEN "reset"
              ELSE IF power = "reset" THEN "off" ELSE power
  /\ busy' = IF level = "low" THEN 0 ELSE busy
  /\ cur' = IF level = "low" THEN "none" ELSE cur
  /\ UNCHANGED <<ram, shown>>

\* The controller ends what it was doing and raises BUSY.
PanelReady == /\ busy = 1
              /\ busy' = 0
              /\ UNCHANGED <<buttonVars, epc, packet, todo, selected, pinVars,
                             power, cur, ram, shown, useVars>>
-----------------------------------------------------------------------------
(* One step of a thread's program *)

\* First half of EPD_WriteCMD and EPD_WriteDATA.
Select(t) == /\ Head(todo[t])[1] \in {"cmd", "data"}
             /\ selected[t] = 0
             /\ cs' = 0
             /\ dc' = IF Head(todo[t])[1] = "cmd" THEN 0 ELSE 1
             /\ selected' = [selected EXCEPT ![t] = 1]
             /\ UNCHANGED <<todo, panelVars>>

\* Second half: the controller takes the byte as DC says, if it is selected.
Shift(t) == /\ Head(todo[t])[1] \in {"cmd", "data"}
            /\ selected[t] = 1
            /\ \/ cs = 1 /\ UNCHANGED panelVars
               \/ cs = 0 /\ dc = 0 /\ PanelCommand(Head(todo[t])[2])
               \/ cs = 0 /\ dc = 1 /\ PanelData(Head(todo[t])[2])
            /\ cs' = 1
            /\ selected' = [selected EXCEPT ![t] = 0]
            /\ todo' = [todo EXCEPT ![t] = Tail(@)]
            /\ UNCHANGED dc

ResetPin(t) == /\ Head(todo[t])[1] = "rst"
               /\ PanelReset(Head(todo[t])[2])
               /\ todo' = [todo EXCEPT ![t] = Tail(@)]
               /\ UNCHANGED <<selected, pinVars>>

CheckBusy(t) == /\ Head(todo[t]) = EPD_CheckBusy
                /\ busy = 0
                /\ todo' = [todo EXCEPT ![t] = Tail(@)]
                /\ UNCHANGED <<selected, pinVars, panelVars>>

\* History: RST_CLR takes the panel; all else but a look at BUSY uses it.
Use(t, op) ==
  /\ owner' = IF op = RST_CLR THEN t ELSE owner
  /\ mixed' = IF op = RST_CLR THEN FALSE
              ELSE mixed \/ (owner # t /\ op # EPD_CheckBusy)

Drive(t) == /\ todo[t] # << >>
            /\ Select(t) \/ Shift(t) \/ ResetPin(t) \/ CheckBusy(t)
            /\ Use(t, Head(todo[t]))
            /\ UNCHANGED <<buttonVars, epc, packet>>
-----------------------------------------------------------------------------
(* The WiFi thread *)

\* A frame's event wakes the thread; ProcessFrame found an image packet.  The
\* Eink thread is past its start by then: before it reads frames, the WiFi
\* thread sleeps for two seconds and boots its module.
PacketArrives ==
  /\ epc # 0
  /\ todo["wifi"] = << >>
  /\ todo' = [todo EXCEPT !["wifi"] = ProcessImageData(packet)]
  /\ packet' = (packet % ImageSize) + 1
  /\ UNCHANGED <<buttonVars, epc, selected, pinVars, panelVars, useVars>>

WifiStep == Drive("wifi")
-----------------------------------------------------------------------------
(* The Eink thread *)

EinkMayRun == todo["wifi"] = << >>

\* Mutant: a low sample during the release does not restart the count.
DebounceLax(b, level) ==
  \/ /\ state[b] = "IDLE"
     /\ state' = [state EXCEPT ![b] = IF level = 0 THEN "PRESSED" ELSE "IDLE"]
     /\ debounce_counter' = [debounce_counter EXCEPT ![b] = IF level = 0 THEN 0 ELSE @]
  \/ /\ state[b] = "PRESSED"
     /\ IF level = 0
        THEN /\ debounce_counter' = [debounce_counter EXCEPT ![b] = (@ + 1) % 2]
             /\ state' = [state EXCEPT ![b] = IF debounce_counter[b] + 1 >= 2
                                              THEN "WAIT_RELEASE" ELSE "PRESSED"]
        ELSE /\ state' = [state EXCEPT ![b] = "IDLE"]
             /\ UNCHANGED debounce_counter
  \/ /\ state[b] = "WAIT_RELEASE"
     /\ debounce_counter' = [debounce_counter EXCEPT
                              ![b] = IF level = 1 THEN (@ + 1) % 2 ELSE @]
     /\ state' = [state EXCEPT ![b] = IF level = 1 /\ debounce_counter[b] + 1 >= 2
                                      THEN "IDLE" ELSE "WAIT_RELEASE"]

\* The switch of Button_Scan on one sample of the pin; 0 is pressed.  Both
\* counters wrap to 0 where the source sets them to 0.
Debounce(b, level) ==
  \/ /\ state[b] = "IDLE"
     /\ state' = [state EXCEPT ![b] = IF level = 0 THEN "PRESSED" ELSE "IDLE"]
     /\ debounce_counter' = [debounce_counter EXCEPT ![b] = IF level = 0 THEN 0 ELSE @]
  \/ /\ state[b] = "PRESSED"
     /\ IF level = 0
        THEN /\ debounce_counter' = [debounce_counter EXCEPT ![b] = (@ + 1) % 2]
             /\ state' = [state EXCEPT ![b] = IF debounce_counter[b] + 1 >= 2
                                              THEN "WAIT_RELEASE" ELSE "PRESSED"]
        ELSE /\ state' = [state EXCEPT ![b] = "IDLE"]
             /\ UNCHANGED debounce_counter
  \/ /\ state[b] = "WAIT_RELEASE"
     /\ debounce_counter' = [debounce_counter EXCEPT
                              ![b] = IF level = 1 THEN (@ + 1) % 2 ELSE 0]
     /\ state' = [state EXCEPT ![b] = IF level = 1 /\ debounce_counter[b] + 1 >= 2
                                      THEN "IDLE" ELSE "WAIT_RELEASE"]

Triggered(b) == state[b] = "PRESSED" /\ state'[b] = "WAIT_RELEASE"

\* History: the last three samples, and whether a release was seen since the
\* last trigger.
Remember(b, level) ==
  /\ recent' = [recent EXCEPT ![b] = Append(Tail(@), level)]
  /\ armed' = [armed EXCEPT ![b] = IF Triggered(b) THEN 0
                                   ELSE IF level = 1 /\ recent[b][3] = 1 THEN 1 ELSE @]

Button_Scan(b, level) == Debounce(b, level) /\ Remember(b, level)

Picture(b) == IF b = 1 THEN "image_test" ELSE "Image_Asuka"

\* thread_Eink_Start enters its loop.
StartLoop == /\ todo["eink"] = << >>
             /\ epc = 0
             /\ epc' = 1
             /\ UNCHANGED <<buttonVars, packet, todo, selected, pinVars, panelVars, useVars>>

\* One of the two if statements of the loop of thread_Eink_Start.
ScanButton(b) ==
  /\ EinkMayRun
  /\ todo["eink"] = << >>
  /\ epc = b
  /\ \E level \in {0, 1} :
       /\ Button_Scan(b, level)
       /\ todo' = [todo EXCEPT !["eink"] =
                     IF Triggered(b)
                     THEN EPD_Init_Fast \o EPD_DisplayImage(Picture(b)) \o EPD_Sleep
                     ELSE << >>]
  /\ epc' = b + 1
  /\ UNCHANGED <<packet, selected, pinVars, panelVars, useVars>>

\* LOS_TaskDelay(10).
LoopDelay == /\ EinkMayRun
             /\ todo["eink"] = << >>
             /\ epc = 3
             /\ epc' = 1
             /\ UNCHANGED <<buttonVars, packet, todo, selected, pinVars, panelVars, useVars>>

EinkStep == \/ EinkMayRun /\ Drive("eink")
            \/ StartLoop
            \/ \E b \in Buttons : ScanButton(b)
            \/ LoopDelay
-----------------------------------------------------------------------------
\* thread_Eink_Start before its loop only initialises the panel and puts it to
\* sleep: the call that would show the first image is commented out.
Init == /\ state = [b \in Buttons |-> "IDLE"]
        /\ debounce_counter = [b \in Buttons |-> 0]
        /\ epc = 0
        /\ packet = 1
        /\ todo = [t \in {"eink", "wifi"} |->
                     IF t = "eink" THEN EPD_Init \o EPD_Sleep ELSE << >>]
        /\ selected = [t \in {"eink", "wifi"} |-> 0]
        /\ cs = 1 /\ dc = 0
        /\ power = "off" /\ busy = 0 /\ cur = "none" /\ ram = << >> /\ shown = << >>
        /\ recent = [b \in Buttons |-> <<1, 1, 1>>]
        /\ armed = [b \in Buttons |-> 1]
        /\ owner = "eink" /\ mixed = FALSE

Next == PacketArrives \/ WifiStep \/ EinkStep \/ PanelReady

\* Both threads keep running when nothing stronger does, and a busy controller
\* gets ready.  Packets and presses may stop at any time.
Spec == /\ Init /\ [][Next]_vars
        /\ WF_vars(WifiStep) /\ WF_vars(EinkStep) /\ WF_vars(PanelReady)
-----------------------------------------------------------------------------
(***************************************************************************)
(* Properties.  Nothing keeps the threads from mixing their operations,    *)
(* and nothing can be said of a panel on which they do.  But every picture *)
(* begins with a reset: whatever was mixed before, and whatever the other  *)
(* thread left selected or half done, does not reach what follows it.      *)
(***************************************************************************)

\* A refresh shows the picture, whole, of the thread that reset the panel: never a
\* part of it, packets out of order, or cells that were there before; unless the
\* other thread used the panel since that reset.
WholePicture ==
  [][shown' # shown /\ ~mixed' =>
       IF owner = "wifi" THEN shown' = WifiImage
                         ELSE shown' \in {Whole("image_test"), Whole("Image_Asuka")}]_vars

\* When the thread that reset the panel is through, the panel is in deep sleep: it
\* is never left powered until the next picture, also if the other thread is about
\* to begin or was interrupted in the middle.
Through(t) == todo[t] = << >> /\ (t = "wifi" => packet = 1)
SleepsAtRest == ~mixed /\ Through(owner) => power = "sleep"

\* Button_Scan fires exactly for a press: three low samples in a row, once, and
\* not again until two high samples in a row were seen.
FiresOncePerPress ==
  [][\A b \in Buttons :
       epc = b /\ epc' # epc =>
         (Triggered(b) <=> armed[b] = 1 /\ recent'[b] = <<0, 0, 0>>)]_vars

\* A press of the second button leads to its picture on the panel, whatever a
\* transfer left of the panel before, unless a packet comes in between.
PressShown ==
  (/\ epc = 3 /\ todo["eink"] # << >>
   /\ Head(todo["eink"]) = RST_CLR \/ (owner = "eink" /\ ~mixed))
    ~> (shown = Whole("Image_Asuka") \/ todo["wifi"] # << >>)

\* `After the last packet the screen is refreshed': the last packet of an image
\* leads to that image on the panel, if the Eink thread kept off it since the first.
WifiShown ==
  (packet = 1 /\ todo["wifi"] # << >> /\ owner = "wifi" /\ ~mixed) ~> (shown = WifiImage)
=============================================================================
