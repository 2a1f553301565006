----------------------------- MODULE AtCommand -----------------------------
(***************************************************************************)
(* The AT command exchange: WIFI_SendCMD polling WIFI_CMD_FLAG in the WiFi *)
(* thread, the command branch of the UART interrupt that raises the flag,  *)
(* and the sequence of commands the thread issues before it waits for      *)
(* frames.                                                                 *)
(*                                                                         *)
(* The line from the module carries tokens: "OK", "ERR" (an ERROR or FAIL  *)
(* text), "NL" (the newline) and "TXT" (any other character); each takes   *)
(* one cell of WIFI_CMD.  The thread can be interrupted before each of its *)
(* accesses to WIFI_CMD_FLAG and WIFI_RECVSTOP, so those are steps of      *)
(* their own.  One unit of waitTime is CHECK_INTERVAL_MS.                  *)
(*                                                                         *)
(* The WiFi module is external.  It works on one command at a time, drops  *)
(* the ones that come while it is busy, and answers each with one line.    *)
(* Any module may answer late, refuse or keep silent; a prompt one answers *)
(* every command with OK before the thread's last poll.                    *)
(***************************************************************************)
EXTENDS Naturals, Sequences

CONSTANTS MAX_RETRY,    \* 3 in the source
          TIMEOUT,      \* TIMEOUT_MS / CHECK_INTERVAL_MS: 2000 in the source
          CmdSize,      \* sizeof(WIFI_CMD): 128 in the source
          Kinds,        \* the WiFi modules considered
          MaxText       \* bound on the unsolicited characters it sends

ASSUME RetryAssumption   == MAX_RETRY \in Nat /\ MAX_RETRY >= 1
ASSUME TimeoutAssumption == TIMEOUT \in Nat /\ TIMEOUT >= 1
ASSUME SizeAssumption    == CmdSize \in Nat /\ CmdSize >= 2
ASSUME ModuleAssumption  == /\ Kinds \subseteq {"any", "prompt"}
                            /\ MaxText \in Nat

VARIABLES WIFI_RECVSTOP, WIFI_CMD_FLAG,      \* shared with the interrupt
          WIFI_AP_STATE, WIFI_CONNECT_STATE,
          WIFI_CMD,                          \* the line so far; Len is cmd_index
          step, pc, retryCount, waitTime, result,  \* the WiFi thread
          kind, job, line, text,             \* the module and its line to us
          executed,    \* history: the module executed the command under way
          heard        \* history: what it was heard to say of that command

sharedVars == <<WIFI_RECVSTOP, WIFI_CMD_FLAG>>
stateVars  == <<WIFI_AP_STATE, WIFI_CONNECT_STATE>>
threadVars == <<step, pc, retryCount, waitTime, result>>
moduleVars == <<kind, job, line, text>>
auxVars    == <<executed, heard>>
vars == <<sharedVars, stateVars, WIFI_CMD, threadVars, moduleVars, auxVars>>

WIFI_RECV_DATA == 0
WIFI_RECV_CMD  == 1
WIFI_RECV_IGNORE == 3     \* the literal 3 of WIFI_Init

WIFI_OK == 0
WIFI_ERROR == 1
WIFI_NORESPONSE == 2

\* The commands of WIFI_Init, WIFI_LinkSSID, WIFI_TCPConnect and WIFI_SetTxMode,
\* in the order thread_WIFI_Start issues them.  Nothing depends on their results.
Script == <<"ATE0", "CWMODE", "CWAUTOCONN", "CWJAP", "CIPSTART", "CIPMODE",
            "CIPSEND">>

Tokens == {"OK", "ERR", "TXT", "NL"}
-----------------------------------------------------------------------------
Init == /\ WIFI_RECVSTOP = WIFI_RECV_DATA /\ WIFI_CMD_FLAG = 0
        /\ WIFI_AP_STATE = 0 /\ WIFI_CONNECT_STATE = 0
        /\ WIFI_CMD = << >>
        /\ step = 1 /\ pc = "escape" /\ retryCount = 0 /\ waitTime = 0
        /\ result = WIFI_OK
        /\ kind \in Kinds /\ job = "none" /\ line = << >> /\ text = 0
        /\ executed = 0 /\ heard = {}

\* WIFI_Init: nothing is received while "+++" leaves the transparent mode.
Escape == /\ pc = "escape"
          /\ WIFI_RECVSTOP' = WIFI_RECV_IGNORE
          /\ pc' = "listen"
          /\ UNCHANGED <<WIFI_CMD_FLAG, stateVars, WIFI_CMD, step, retryCount,
                         waitTime, result, moduleVars, auxVars>>

Listen == /\ pc = "listen"
          /\ WIFI_RECVSTOP' = WIFI_RECV_DATA
          /\ pc' = "call"
          /\ UNCHANGED <<WIFI_CMD_FLAG, stateVars, WIFI_CMD, step, retryCount,
                         waitTime, result, moduleVars, auxVars>>

\* Mutant: the flag of the former command is kept.
ClearFlagForgotten == /\ pc = "call"
                      /\ retryCount' = 0
                      /\ heard' = {}
                      /\ pc' = "mode"
                      /\ UNCHANGED <<sharedVars, stateVars, WIFI_CMD, step,
                                     waitTime, result, moduleVars, executed>>

\* WIFI_SendCMD, line by line.
ClearFlag == /\ pc = "call"
             /\ WIFI_CMD_FLAG' = 0
             /\ retryCount' = 0
             /\ heard' = {}
             /\ pc' = "mode"
             /\ UNCHANGED <<WIFI_RECVSTOP, stateVars, WIFI_CMD, step, waitTime,
                            result, moduleVars, executed>>

\* Mutant: the interrupt is not switched to command answers.
EnterCmdModeForgotten == /\ pc = "mode"
                         /\ pc' = "send"
                         /\ UNCHANGED <<sharedVars, stateVars, WIFI_CMD, step,
                                        retryCount, waitTime, result, moduleVars,
                                        auxVars>>

EnterCmdMode == /\ pc = "mode"
                /\ WIFI_RECVSTOP' = WIFI_RECV_CMD
                /\ pc' = "send"
                /\ UNCHANGED <<WIFI_CMD_FLAG, stateVars, WIFI_CMD, step,
                               retryCount, waitTime, result, moduleVars, auxVars>>

\* Mutant: one attempt too many.
SendOnceMore == /\ pc = "send"
                /\ retryCount <= MAX_RETRY
                /\ waitTime' = 0
                /\ job' = IF job = "none" THEN Script[step] ELSE job
                /\ pc' = "wait"
                /\ UNCHANGED <<sharedVars, stateVars, WIFI_CMD, step, retryCount,
                               result, kind, line, text, auxVars>>

\* WIFI_CMD_FLAG keeps what the former attempt left in it.
Send == /\ pc = "send"
        /\ retryCount < MAX_RETRY
        /\ waitTime' = 0
        /\ job' = IF job = "none" THEN Script[step] ELSE job
        /\ pc' = "wait"
        /\ UNCHANGED <<sharedVars, stateVars, WIFI_CMD, step, retryCount,
                       result, kind, line, text, auxVars>>

\* The head of the polling loop: one load of the flag serves both tests.
Poll == /\ pc = "wait"
        /\ waitTime < TIMEOUT
        /\ pc' = CASE WIFI_CMD_FLAG = 1 -> "succeeded"
                   [] WIFI_CMD_FLAG = 2 -> "retry"
                   [] OTHER -> "delay"
        /\ UNCHANGED <<sharedVars, stateVars, WIFI_CMD, step, retryCount,
                       waitTime, result, moduleVars, auxVars>>

\* A prompt module's answer is in before the last look at the flag.
Delay == /\ pc = "delay"
         /\ \/ kind = "any"
            \/ waitTime + 1 < TIMEOUT - 1
            \/ job = "none" /\ line = << >>
         /\ waitTime' = waitTime + 1
         /\ pc' = "wait"
         /\ UNCHANGED <<sharedVars, stateVars, WIFI_CMD, step, retryCount,
                        result, moduleVars, auxVars>>

\* Mutant: the flag is not read again after the loop.
TimedOutUnread == /\ pc = "wait"
                  /\ waitTime >= TIMEOUT
                  /\ pc' = "silent"
                  /\ UNCHANGED <<sharedVars, stateVars, WIFI_CMD, step,
                                 retryCount, waitTime, result, moduleVars,
                                 auxVars>>

\* After the loop the flag is read again; an answer that came with the last
\* interval counts as a failed attempt, whatever it says.
TimedOut == /\ pc = "wait"
            /\ waitTime >= TIMEOUT
            /\ pc' = IF WIFI_CMD_FLAG = 0 THEN "silent" ELSE "retry"
            /\ UNCHANGED <<sharedVars, stateVars, WIFI_CMD, step, retryCount,
                           waitTime, result, moduleVars, auxVars>>

\* Mutant: the attempts are not counted.
RetryUncounted == /\ pc = "retry"
                  /\ pc' = "send"
                  /\ UNCHANGED <<sharedVars, stateVars, WIFI_CMD, step,
                                 retryCount, waitTime, result, moduleVars,
                                 auxVars>>

Retry == /\ pc = "retry"
         /\ retryCount' = retryCount + 1
         /\ pc' = "send"
         /\ UNCHANGED <<sharedVars, stateVars, WIFI_CMD, step, waitTime, result,
                        moduleVars, auxVars>>

\* The three ways out of WIFI_SendCMD.  Each of them restores the data mode for
\* itself; the interrupt may come in before it does.
ReturnOk == /\ pc = "succeeded"
            /\ WIFI_RECVSTOP' = WIFI_RECV_DATA
            /\ result' = WIFI_OK
            /\ pc' = "returned"
            /\ UNCHANGED <<WIFI_CMD_FLAG, stateVars, WIFI_CMD, step, retryCount,
                           waitTime, moduleVars, auxVars>>

\* Mutant: the way out without an answer forgets the mode.
ReturnNoResponseKeepsMode ==
  /\ pc = "silent"
  /\ result' = WIFI_NORESPONSE
  /\ pc' = "returned"
  /\ UNCHANGED <<sharedVars, stateVars, WIFI_CMD, step, retryCount, waitTime,
                 moduleVars, auxVars>>

ReturnNoResponse ==
  /\ pc = "silent"
  /\ WIFI_RECVSTOP' = WIFI_RECV_DATA
  /\ result' = WIFI_NORESPONSE
  /\ pc' = "returned"
  /\ UNCHANGED <<WIFI_CMD_FLAG, stateVars, WIFI_CMD, step, retryCount, waitTime,
                 moduleVars, auxVars>>

ReturnError == /\ pc = "send"
               /\ retryCount >= MAX_RETRY
               /\ WIFI_RECVSTOP' = WIFI_RECV_DATA
               /\ result' = WIFI_ERROR
               /\ pc' = "returned"
               /\ UNCHANGED <<WIFI_CMD_FLAG, stateVars, WIFI_CMD, step,
                              retryCount, waitTime, moduleVars, auxVars>>

\* The caller records success, whatever the mode is by then, and the thread goes
\* on to the next command; the locals of WIFI_SendCMD are gone.
CallerRecords ==
  /\ pc = "returned"
  /\ WIFI_AP_STATE' = IF Script[step] = "CWJAP" /\ result = WIFI_OK
                      THEN 1 ELSE WIFI_AP_STATE
  /\ WIFI_CONNECT_STATE' = IF Script[step] = "CIPSTART" /\ result = WIFI_OK
                           THEN 1 ELSE WIFI_CONNECT_STATE
  /\ IF step = Len(Script)
     THEN pc' = "done" /\ UNCHANGED step
     ELSE pc' = "call" /\ step' = step + 1
  /\ retryCount' = 0 /\ waitTime' = 0 /\ result' = WIFI_OK
  /\ executed' = 0
  /\ UNCHANGED <<sharedVars, WIFI_CMD, moduleVars, heard>>

SendCMD == \/ ClearFlag \/ EnterCmdMode \/ Send \/ Poll \/ Delay \/ TimedOut
           \/ Retry \/ ReturnOk \/ ReturnNoResponse \/ ReturnError

Thread == Escape \/ Listen \/ SendCMD \/ CallerRecords

\* The lines of WIFI_SendCMD where the thread will look at the flag again.
Looking == pc \in {"send", "wait", "delay", "retry"}
-----------------------------------------------------------------------------
(* The UART interrupt *)

Has(s, t) == \E k \in DOMAIN s : s[k] = t

\* The value WIFI_CMD_ReturnCheck leaves in the flag.
WIFI_CMD_ReturnCheck(s) == IF Has(s, "OK") THEN 1
                           ELSE IF Has(s, "ERR") THEN 2
                           ELSE WIFI_CMD_FLAG

StoreCell(t) == Append(WIFI_CMD, t)

\* History: the verdict on the command that ends with this character, if any.
Verdict(t) == IF WIFI_RECVSTOP # WIFI_RECV_CMD THEN {}
              ELSE IF Len(WIFI_CMD) >= CmdSize - 1 THEN {2}
              ELSE IF t # "NL" THEN {}
              ELSE IF Has(WIFI_CMD, "OK") THEN {1}
              ELSE IF Has(WIFI_CMD, "ERR") THEN {2}
              ELSE {}

\* Mutant: the cell for the terminating NUL is not kept free.
ReceiveCellNoNul(t) ==
  /\ WIFI_RECVSTOP = WIFI_RECV_CMD
  /\ Len(WIFI_CMD) < CmdSize
  /\ IF t = "NL"
     THEN /\ WIFI_CMD_FLAG' = WIFI_CMD_ReturnCheck(StoreCell(t))
          /\ WIFI_CMD' = << >>
     ELSE /\ WIFI_CMD' = StoreCell(t)
          /\ UNCHANGED WIFI_CMD_FLAG

\* WIFI_RECV_CMD with room in WIFI_CMD: a newline ends the line.
ReceiveCell(t) ==
  /\ WIFI_RECVSTOP = WIFI_RECV_CMD
  /\ Len(WIFI_CMD) < CmdSize - 1
  /\ IF t = "NL"
     THEN /\ WIFI_CMD_FLAG' = WIFI_CMD_ReturnCheck(StoreCell(t))
          /\ WIFI_CMD' = << >>
     ELSE /\ WIFI_CMD' = StoreCell(t)
          /\ UNCHANGED WIFI_CMD_FLAG

\* WIFI_RECV_CMD with WIFI_CMD full: the line and this character are dropped,
\* and the command counts as failed.
Overflow(t) ==
  /\ WIFI_RECVSTOP = WIFI_RECV_CMD
  /\ Len(WIFI_CMD) >= CmdSize - 1
  /\ WIFI_CMD' = << >>
  /\ WIFI_CMD_FLAG' = 2

\* In data mode the character goes to recDataProcessing; cmd_index is kept.
OtherMode(t) ==
  /\ WIFI_RECVSTOP # WIFI_RECV_CMD
  /\ WIFI_CMD' = IF WIFI_RECVSTOP = WIFI_RECV_DATA THEN WIFI_CMD ELSE << >>
  /\ UNCHANGED WIFI_CMD_FLAG

WIFI_USART_IRQHandler ==
  /\ line # << >>
  /\ ReceiveCell(Head(line)) \/ Overflow(Head(line)) \/ OtherMode(Head(line))
  /\ line' = Tail(line)
  /\ heard' = heard \cup (IF Looking THEN Verdict(Head(line)) ELSE {})
  /\ UNCHANGED <<WIFI_RECVSTOP, stateVars, threadVars, kind, job, text,
                 executed>>
-----------------------------------------------------------------------------
(* The WiFi module *)

\* It ends the command it works on and answers with one line, or not at all.
Answer == /\ job # "none"
          /\ line = << >>
          /\ \E a \in IF kind = "prompt" THEN {"OK"} ELSE {"OK", "ERR", "silent"} :
               /\ line' = IF a = "silent" THEN << >> ELSE <<"TXT", a, "NL">>
               /\ executed' = IF a = "OK" /\ job = Script[step] THEN 1
                              ELSE executed
          /\ job' = "none"
          /\ UNCHANGED <<sharedVars, stateVars, WIFI_CMD, threadVars, kind, text,
                         heard>>

\* An unsolicited character: boot messages, WIFI CONNECTED, the prompt `>'.
Chatter == /\ text < MaxText
           /\ line = << >>
           /\ line' = <<"TXT">>
           /\ text' = text + 1
           /\ UNCHANGED <<sharedVars, stateVars, WIFI_CMD, threadVars, kind, job,
                          auxVars>>

Done == pc = "done" /\ job = "none" /\ line = << >>

Next == \/ Thread \/ WIFI_USART_IRQHandler \/ Answer \/ Chatter
        \/ (Done /\ UNCHANGED vars)

\* The thread polls on; characters that were sent arrive.
Fairness == WF_vars(Thread) /\ WF_vars(WIFI_USART_IRQHandler)

\* Nothing obliges the module to answer, unless it is prompt.
Spec == /\ Init /\ [][Next]_vars /\ Fairness
        /\ WF_vars(kind = "prompt" /\ Answer)
-----------------------------------------------------------------------------
\* WIFI_SendCMD has switched the mode and not yet left.
InSendCMD == Looking \/ pc \in {"succeeded", "silent"}

TypeOK == /\ WIFI_RECVSTOP \in {WIFI_RECV_DATA, WIFI_RECV_CMD, WIFI_RECV_IGNORE}
          /\ WIFI_CMD_FLAG \in {0, 1, 2}
          /\ WIFI_AP_STATE \in {0, 1} /\ WIFI_CONNECT_STATE \in {0, 1}
          /\ WIFI_CMD \in Seq(Tokens)
          /\ step \in 1..Len(Script)
          /\ pc \in {"escape", "listen", "call", "mode", "done"} \cup
                    {"send", "wait", "delay", "retry"} \cup
                    {"succeeded", "silent", "returned"}
          /\ retryCount \in 0..MAX_RETRY /\ waitTime \in 0..TIMEOUT
          /\ result \in {WIFI_OK, WIFI_ERROR, WIFI_NORESPONSE}
          /\ kind \in Kinds /\ job \in {"none"} \cup {Script[k] : k \in 1..Len(Script)}
          /\ line \in Seq(Tokens) /\ text \in 0..MaxText
          /\ executed \in {0, 1} /\ heard \subseteq {1, 2}

\* The line and the NUL that ends it fit WIFI_CMD, whatever the module sends
\* and however the thread switches modes in the middle of a line.
LineFits == Len(WIFI_CMD) <= CmdSize - 1

\* Command characters are taken for command answers exactly while a command is
\* under way: every way out of WIFI_SendCMD gives the line back to the frame
\* receiver.
CmdModeOnlyInCommand == (WIFI_RECVSTOP = WIFI_RECV_CMD) <=> InSendCMD

\* The result is what the interrupt heard of this command: success means an OK
\* since the flag was cleared, an error that something was said, and only where
\* nothing was heard in all the waiting does WIFI_SendCMD report silence.  The
\* flag is not cleared between attempts; it can make the later ones go out too
\* early, but never turn one result into another.
ResultAsHeard == pc = "returned" =>
                   /\ result = WIFI_OK => 1 \in heard
                   /\ result = WIFI_ERROR => heard # {}
                   /\ result = WIFI_NORESPONSE => heard = {}

\* Whatever the module does, thread_WIFI_Start reaches its frame loop.
BootEnds == <>(pc = "done")

\* The unsolicited text so far left room for an answer line in WIFI_CMD.
LineHasRoom == text <= CmdSize - 4

\* If the module is prompt and its lines fit, WIFI_SendCMD reports success for a
\* command only if the module executed that command: the OK it saw is never that
\* of the command before, nor left over in WIFI_CMD or WIFI_CMD_FLAG.
OkIsOursIfPrompt ==
  kind = "prompt" /\ LineHasRoom =>
    (pc = "returned" /\ result = WIFI_OK => executed = 1)

\* With a prompt module whose lines fit the thread ends up connected and in
\* transparent mode.
BootConnects ==
  kind = "prompt" => <>[](\/ ~LineHasRoom
                          \/ /\ pc = "done"
                             /\ WIFI_AP_STATE = 1 /\ WIFI_CONNECT_STATE = 1
                             /\ WIFI_RECVSTOP = WIFI_RECV_DATA)
=============================================================================
