-------------------------- MODULE AtCommand_proofs --------------------------
(***************************************************************************)
(* Proofs about AtCommand, for every number of attempts, every time-out    *)
(* and every size of WIFI_CMD.                                             *)
(***************************************************************************)
EXTENDS AtCommand, SequenceTheorems, TLAPS

\* What the loops of WIFI_SendCMD know at each of their lines: an attempt is
\* under way only while attempts are left, the wait goes on only while time is
\* left, and the counter of a call starts at 0.
LoopsBounded ==
  /\ pc \in {"wait", "delay", "retry"} => retryCount < MAX_RETRY
  /\ pc = "delay" => waitTime < TIMEOUT
  /\ pc \in {"escape", "listen", "call", "mode"} => retryCount = 0

\* While the thread is going to look at the flag again, the flag holds a verdict
\* of this command or none; what the thread saw when it stopped looking stays
\* true of what was heard until then.
FlagAsHeard ==
  /\ pc = "mode" => WIFI_CMD_FLAG = 0 /\ heard = {}
  /\ Looking => IF WIFI_CMD_FLAG = 0 THEN heard = {} ELSE WIFI_CMD_FLAG \in heard
  /\ pc = "retry" => heard # {}
  /\ Looking /\ retryCount > 0 => heard # {}
  /\ pc = "succeeded" => 1 \in heard
  /\ pc = "silent" => heard = {}

IInv == /\ TypeOK /\ LineFits /\ CmdModeOnlyInCommand /\ LoopsBounded
        /\ FlagAsHeard /\ ResultAsHeard
-----------------------------------------------------------------------------
(* The answers of a prompt module *)

\* No answer is on the way: what is on the line, if anything, is one unsolicited
\* character.
Quiet == /\ line \in {<< >>, <<"TXT">>}
         /\ Len(WIFI_CMD) + Len(line) <= text

\* The answer is on the way, and WIFI_CMD has the part of it that came.
Coming == /\ \/ line = <<"TXT", "OK", "NL">>
             \/ line = <<"OK", "NL">>
             \/ line = <<"NL">> /\ Has(WIFI_CMD, "OK")
          /\ Len(WIFI_CMD) + Len(line) <= text + 3

\* The three stages of a command: the module works on it, its answer is on the
\* way, the answer has been taken.
Working   == job = Script[step] /\ Quiet /\ WIFI_CMD_FLAG = 0
Answering == job = "none" /\ Coming /\ WIFI_CMD_FLAG = 0 /\ executed = 1
Answered  == job = "none" /\ Quiet /\ WIFI_CMD_FLAG = 1 /\ executed = 1

\* A prompt module whose lines fit is never asked twice, and between two
\* commands it owes nothing.
InStep ==
  /\ retryCount = 0
  /\ pc \in {"escape", "listen", "call", "mode", "send", "done"} =>
       job = "none" /\ Quiet
  /\ pc \in {"mode", "send"} => WIFI_CMD_FLAG = 0
  /\ pc \in {"wait", "delay"} => Working \/ Answering \/ Answered
  /\ pc = "wait" /\ waitTime >= TIMEOUT - 1 => Answered
  /\ pc = "wait" => waitTime < TIMEOUT
  /\ pc = "delay" => waitTime < TIMEOUT - 1
  /\ pc \notin {"retry", "silent"}
  /\ pc \in {"succeeded", "returned"} => Answered

PromptInv == kind = "prompt" /\ LineHasRoom => InStep
-----------------------------------------------------------------------------
\* The commands and how many there are.
LEMMA ScriptLength == /\ Len(Script) = 7
                      /\ \A k \in 1..7 : Script[k] # "none"
  BY DEF Script

LEMMA InitIInv == Init => IInv
<1> SUFFICES ASSUME Init PROVE IInv
  OBVIOUS
<1>1. TypeOK
  BY RetryAssumption, TimeoutAssumption, ModuleAssumption, ScriptLength
     DEF Init, TypeOK, WIFI_RECV_DATA, WIFI_OK
<1>2. /\ LineFits /\ CmdModeOnlyInCommand /\ LoopsBounded
      /\ FlagAsHeard /\ ResultAsHeard
  BY SizeAssumption, RetryAssumption
     DEF Init, LineFits, CmdModeOnlyInCommand, LoopsBounded, FlagAsHeard,
         ResultAsHeard, InSendCMD, Looking, WIFI_RECV_DATA, WIFI_RECV_CMD
<1> QED
  BY <1>1, <1>2 DEF IInv

\* The thread's own steps leave the line, WIFI_CMD and the module alone; only
\* the lines of WIFI_SendCMD that do so touch the flag and the counters.
LEMMA ThreadType ==
  ASSUME IInv, Thread
  PROVE  TypeOK'
<1> USE RetryAssumption, TimeoutAssumption, ScriptLength
        DEF sharedVars, stateVars, moduleVars, auxVars, WIFI_RECV_DATA,
            WIFI_RECV_CMD, WIFI_RECV_IGNORE, WIFI_OK, WIFI_ERROR, WIFI_NORESPONSE
<1>t. TypeOK /\ LoopsBounded
  BY DEF IInv
<1>1. CASE Escape
  BY <1>t, <1>1 DEF Escape, TypeOK
<1>2. CASE Listen
  BY <1>t, <1>2 DEF Listen, TypeOK
<1>3. CASE ClearFlag
  BY <1>t, <1>3 DEF ClearFlag, TypeOK
<1>4. CASE EnterCmdMode
  BY <1>t, <1>4 DEF EnterCmdMode, TypeOK
<1>5. CASE Send
  BY <1>t, <1>5 DEF Send, TypeOK
<1>6. CASE Poll
  BY <1>t, <1>6 DEF Poll, TypeOK
<1>7. CASE Delay
  BY <1>t, <1>7 DEF Delay, TypeOK, LoopsBounded
<1>8. CASE TimedOut
  BY <1>t, <1>8 DEF TimedOut, TypeOK
<1>9. CASE Retry
  BY <1>t, <1>9 DEF Retry, TypeOK, LoopsBounded
<1>10. CASE ReturnOk
  BY <1>t, <1>10 DEF ReturnOk, TypeOK
<1>11. CASE ReturnNoResponse
  BY <1>t, <1>11 DEF ReturnNoResponse, TypeOK
<1>12. CASE ReturnError
  BY <1>t, <1>12 DEF ReturnError, TypeOK
<1>13. CASE CallerRecords
  BY <1>t, <1>13 DEF CallerRecords, TypeOK
<1> QED
  BY <1>1, <1>2, <1>3, <1>4, <1>5, <1>6, <1>7, <1>8, <1>9, <1>10, <1>11, <1>12,
     <1>13 DEF Thread, SendCMD

\* The thread's steps keep what the loops know, and the mode of the interrupt
\* follows the thread in and out of WIFI_SendCMD, on each of its ways out.
LEMMA ThreadControl ==
  ASSUME IInv, Thread
  PROVE  LineFits' /\ CmdModeOnlyInCommand' /\ LoopsBounded'
<1> USE RetryAssumption, TimeoutAssumption
        DEF sharedVars, stateVars, moduleVars, auxVars, WIFI_RECV_DATA, WIFI_RECV_CMD,
            WIFI_RECV_IGNORE, LineFits, CmdModeOnlyInCommand,
            LoopsBounded, InSendCMD, Looking
<1>t. /\ LineFits /\ CmdModeOnlyInCommand /\ LoopsBounded
      /\ retryCount \in Nat /\ waitTime \in Nat /\ WIFI_CMD_FLAG \in {0, 1, 2}
  BY DEF IInv, TypeOK
<1>1. CASE Escape
  BY <1>t, <1>1 DEF Escape
<1>2. CASE Listen
  BY <1>t, <1>2 DEF Listen
<1>3. CASE ClearFlag
  BY <1>t, <1>3 DEF ClearFlag
<1>4. CASE EnterCmdMode
  BY <1>t, <1>4 DEF EnterCmdMode
<1>5. CASE Send
  BY <1>t, <1>5 DEF Send
<1>6. CASE Poll
  BY <1>t, <1>6 DEF Poll
<1>7. CASE Delay
  BY <1>t, <1>7 DEF Delay
<1>8. CASE TimedOut
  BY <1>t, <1>8 DEF TimedOut
<1>9. CASE Retry
  BY <1>t, <1>9 DEF Retry
<1>10. CASE ReturnOk
  BY <1>t, <1>10 DEF ReturnOk
<1>11. CASE ReturnNoResponse
  BY <1>t, <1>11 DEF ReturnNoResponse
<1>12. CASE ReturnError
  BY <1>t, <1>12 DEF ReturnError
<1>13. CASE CallerRecords
  BY <1>t, <1>13 DEF CallerRecords
<1> QED
  BY <1>1, <1>2, <1>3, <1>4, <1>5, <1>6, <1>7, <1>8, <1>9, <1>10, <1>11, <1>12,
     <1>13 DEF Thread, SendCMD

\* The thread's steps keep what is known of the flag: only ClearFlag changes it,
\* and forgets what was heard with it.
LEMMA ThreadHeard ==
  ASSUME IInv, Thread
  PROVE  FlagAsHeard' /\ ResultAsHeard'
<1> USE RetryAssumption
        DEF sharedVars, stateVars, moduleVars, auxVars, FlagAsHeard, ResultAsHeard,
            Looking, WIFI_OK, WIFI_ERROR, WIFI_NORESPONSE
<1>t. /\ FlagAsHeard /\ ResultAsHeard /\ LoopsBounded
      /\ retryCount \in Nat /\ WIFI_CMD_FLAG \in {0, 1, 2}
      /\ retryCount >= MAX_RETRY => retryCount > 0
  BY DEF IInv, TypeOK
<1>1. CASE Escape
  BY <1>t, <1>1 DEF Escape
<1>2. CASE Listen
  BY <1>t, <1>2 DEF Listen
<1>3. CASE ClearFlag
  BY <1>t, <1>3 DEF ClearFlag
<1>4. CASE EnterCmdMode
  BY <1>t, <1>4 DEF EnterCmdMode, LoopsBounded
<1>5. CASE Send
  BY <1>t, <1>5 DEF Send
<1>6. CASE Poll
  BY <1>t, <1>6 DEF Poll
<1>7. CASE Delay
  BY <1>t, <1>7 DEF Delay
<1>8. CASE TimedOut
  BY <1>t, <1>8 DEF TimedOut
<1>9. CASE Retry
  BY <1>t, <1>9 DEF Retry
<1>10. CASE ReturnOk
  BY <1>t, <1>10 DEF ReturnOk
<1>11. CASE ReturnNoResponse
  BY <1>t, <1>11 DEF ReturnNoResponse
<1>12. CASE ReturnError
  BY <1>t, <1>12 DEF ReturnError
<1>13. CASE CallerRecords
  BY <1>t, <1>13 DEF CallerRecords
<1> QED
  BY <1>1, <1>2, <1>3, <1>4, <1>5, <1>6, <1>7, <1>8, <1>9, <1>10, <1>11, <1>12,
     <1>13 DEF Thread, SendCMD

\* What one interrupt does to WIFI_CMD and to the flag: the line stays within its
\* cells and the flag within its values.
LEMMA InterruptEffect ==
  ASSUME IInv, WIFI_USART_IRQHandler
  PROVE  /\ WIFI_CMD' \in Seq(Tokens) /\ Len(WIFI_CMD') <= CmdSize - 1
         /\ WIFI_CMD_FLAG' \in {0, 1, 2}
         /\ line' \in Seq(Tokens)
<1> USE SizeAssumption
<1>t. /\ WIFI_CMD \in Seq(Tokens) /\ Len(WIFI_CMD) <= CmdSize - 1
      /\ WIFI_CMD_FLAG \in {0, 1, 2}
      /\ line \in Seq(Tokens) /\ line # << >>
  BY DEF IInv, TypeOK, LineFits, WIFI_USART_IRQHandler
<1>h. Head(line) \in Tokens /\ Tail(line) \in Seq(Tokens)
  BY <1>t
<1>a. /\ StoreCell(Head(line)) \in Seq(Tokens)
      /\ Len(StoreCell(Head(line))) = Len(WIFI_CMD) + 1
  BY <1>t, <1>h DEF StoreCell
<1>e. << >> \in Seq(Tokens) /\ Len(<< >>) = 0
  OBVIOUS
<1>l. line' \in Seq(Tokens)
  BY <1>h DEF WIFI_USART_IRQHandler
<1>1. CASE ReceiveCell(Head(line))
  <2>1. WIFI_CMD_ReturnCheck(StoreCell(Head(line))) \in {WIFI_CMD_FLAG, 1, 2}
    BY DEF WIFI_CMD_ReturnCheck
  <2>2. CASE Head(line) = "NL"
    BY <1>1, <1>t, <1>e, <1>l, <2>1, <2>2 DEF ReceiveCell
  <2>3. CASE Head(line) # "NL"
    BY <1>1, <1>t, <1>a, <1>l, <2>3 DEF ReceiveCell
  <2> QED
    BY <2>2, <2>3
<1>2. CASE Overflow(Head(line))
  BY <1>2, <1>t, <1>e, <1>l DEF Overflow
<1>3. CASE OtherMode(Head(line))
  BY <1>3, <1>t, <1>e, <1>l DEF OtherMode
<1> QED
  BY <1>1, <1>2, <1>3 DEF WIFI_USART_IRQHandler

\* The interrupt raises the flag to the verdict it adds to the history, and leaves
\* it alone where there is none.
LEMMA InterruptVerdict ==
  ASSUME IInv, WIFI_USART_IRQHandler
  PROVE  /\ Verdict(Head(line)) = {} => WIFI_CMD_FLAG' = WIFI_CMD_FLAG
         /\ Verdict(Head(line)) # {} => /\ Verdict(Head(line)) = {WIFI_CMD_FLAG'}
                                        /\ WIFI_CMD_FLAG' # 0
<1> USE SizeAssumption DEF Verdict
<1>t. /\ WIFI_CMD \in Seq(Tokens) /\ Len(WIFI_CMD) \in Nat
  BY DEF IInv, TypeOK
<1>h. ASSUME NEW t \in {"OK", "ERR"}
      PROVE  Has(StoreCell("NL"), t) <=> Has(WIFI_CMD, t)
  <2>1. /\ DOMAIN StoreCell("NL") = 1..(Len(WIFI_CMD) + 1)
        /\ DOMAIN WIFI_CMD = 1..Len(WIFI_CMD)
        /\ \A k \in 1..Len(WIFI_CMD) : StoreCell("NL")[k] = WIFI_CMD[k]
        /\ StoreCell("NL")[Len(WIFI_CMD) + 1] = "NL"
    BY <1>t DEF StoreCell, Tokens
  <2>2. \A k \in 1..(Len(WIFI_CMD) + 1) : k \in 1..Len(WIFI_CMD) \/ k = Len(WIFI_CMD) + 1
    BY <1>t
  <2>3. t # "NL"
    BY <1>h
  <2>4. 1..Len(WIFI_CMD) \subseteq 1..(Len(WIFI_CMD) + 1)
    BY <1>t
  <2> QED
    BY <2>1, <2>2, <2>3, <2>4 DEF Has
<1>1. CASE ReceiveCell(Head(line))
  <2>0. /\ WIFI_RECVSTOP = WIFI_RECV_CMD
        /\ ~(Len(WIFI_CMD) >= CmdSize - 1)
    BY <1>t, <1>1 DEF ReceiveCell
  <2>1. CASE Head(line) = "NL"
    <3>1. WIFI_CMD_FLAG' = WIFI_CMD_ReturnCheck(StoreCell("NL"))
      BY <1>1, <2>1 DEF ReceiveCell
    <3>2. /\ Has(StoreCell("NL"), "OK") <=> Has(WIFI_CMD, "OK")
          /\ Has(StoreCell("NL"), "ERR") <=> Has(WIFI_CMD, "ERR")
      BY <1>h
    <3> QED
      BY <2>0, <2>1, <3>1, <3>2 DEF WIFI_CMD_ReturnCheck
  <2>2. CASE Head(line) # "NL"
    BY <1>1, <2>0, <2>2 DEF ReceiveCell
  <2> QED
    BY <2>1, <2>2
<1>2. CASE Overflow(Head(line))
  BY <1>t, <1>2 DEF Overflow
<1>3. CASE OtherMode(Head(line))
  BY <1>3 DEF OtherMode
<1> QED
  BY <1>1, <1>2, <1>3 DEF WIFI_USART_IRQHandler

\* Every step of the thread, of the interrupt and of the module preserves the
\* inductive invariant.
LEMMA NextIInv == IInv /\ [Next]_vars => IInv'
<1> SUFFICES ASSUME IInv, [Next]_vars PROVE IInv'
  OBVIOUS
<1>1. CASE Thread
  BY <1>1, ThreadType, ThreadControl, ThreadHeard DEF IInv
<1>2. CASE WIFI_USART_IRQHandler
  <2>0. heard' \subseteq {1, 2}
    BY <1>2 DEF IInv, TypeOK, WIFI_USART_IRQHandler, Verdict
  <2>1. TypeOK'
    BY <1>2, <2>0, InterruptEffect
       DEF IInv, TypeOK, WIFI_USART_IRQHandler, threadVars, stateVars
  <2>2. LineFits'
    BY <1>2, InterruptEffect DEF LineFits
  <2>3. CmdModeOnlyInCommand' /\ LoopsBounded'
    BY <1>2, InterruptEffect
       DEF IInv, WIFI_USART_IRQHandler, threadVars, CmdModeOnlyInCommand,
           LoopsBounded, InSendCMD, Looking
  <2>4. FlagAsHeard' /\ ResultAsHeard'
    <3>0. /\ FlagAsHeard /\ ResultAsHeard
          /\ UNCHANGED <<pc, retryCount, result, WIFI_RECVSTOP>>
          /\ heard' = heard \cup (IF Looking THEN Verdict(Head(line)) ELSE {})
      BY <1>2 DEF IInv, WIFI_USART_IRQHandler, threadVars
    <3>1. CASE Looking
      BY <1>2, <3>0, <3>1, InterruptVerdict DEF FlagAsHeard, ResultAsHeard, Looking
    <3>2. CASE ~Looking
      <4>1. heard' = heard
        BY <3>0, <3>2
      <4>2. pc = "mode" => WIFI_CMD_FLAG' = WIFI_CMD_FLAG
        <5>1. pc = "mode" => WIFI_RECVSTOP # WIFI_RECV_CMD
          BY DEF IInv, CmdModeOnlyInCommand, InSendCMD, Looking
        <5> QED
          BY <1>2, <5>1 DEF WIFI_USART_IRQHandler, ReceiveCell, Overflow, OtherMode
      <4> QED
        BY <3>0, <3>2, <4>1, <4>2 DEF FlagAsHeard, ResultAsHeard, Looking
    <3> QED
      BY <3>1, <3>2
  <2> QED
    BY <2>1, <2>2, <2>3, <2>4 DEF IInv
<1>3. CASE Answer
  <2>1. TypeOK'
    <3>0. PICK a \in {"OK", "ERR", "silent"} :
            /\ line' = IF a = "silent" THEN << >> ELSE <<"TXT", a, "NL">>
            /\ executed' = IF a = "OK" /\ job = Script[step] THEN 1 ELSE executed
      BY <1>3 DEF Answer
    <3>1. line' \in Seq(Tokens) /\ executed' \in {0, 1} /\ job' = "none"
      <4>1. CASE a = "silent"
        BY <1>3, <3>0, <4>1 DEF Answer, IInv, TypeOK
      <4>2. CASE a # "silent"
        <5>1. a \in Tokens /\ "TXT" \in Tokens /\ "NL" \in Tokens
          BY <4>2 DEF Tokens
        <5>2. <<"TXT", a, "NL">> \in Seq(Tokens)
          BY <5>1
        <5> QED
          BY <1>3, <3>0, <4>2, <5>2 DEF Answer, IInv, TypeOK
      <4> QED
        BY <4>1, <4>2
    <3> QED
      BY <1>3, <3>1 DEF Answer, IInv, TypeOK, sharedVars, stateVars, threadVars
  <2>2. /\ LineFits' /\ CmdModeOnlyInCommand' /\ LoopsBounded'
        /\ FlagAsHeard' /\ ResultAsHeard'
    BY <1>3 DEF Answer, IInv, sharedVars, threadVars, LineFits, FlagAsHeard,
                ResultAsHeard, CmdModeOnlyInCommand, LoopsBounded, InSendCMD,
                Looking
  <2> QED
    BY <2>1, <2>2 DEF IInv
<1>4. CASE Chatter
  <2>1. TypeOK'
    <3>1. line' \in Seq(Tokens) /\ text' \in 0..MaxText
      BY <1>4, ModuleAssumption DEF Chatter, Tokens, IInv, TypeOK
    <3> QED
      BY <1>4, <3>1
         DEF Chatter, IInv, TypeOK, sharedVars, stateVars, threadVars, auxVars
  <2>2. /\ LineFits' /\ CmdModeOnlyInCommand' /\ LoopsBounded'
        /\ FlagAsHeard' /\ ResultAsHeard'
    BY <1>4 DEF Chatter, IInv, sharedVars, threadVars, auxVars, LineFits,
                FlagAsHeard, ResultAsHeard, CmdModeOnlyInCommand, LoopsBounded,
                InSendCMD, Looking
  <2> QED
    BY <2>1, <2>2 DEF IInv
<1>5. CASE UNCHANGED vars
  BY <1>5 DEF vars, sharedVars, stateVars, threadVars, moduleVars, auxVars, IInv,
              TypeOK, LineFits, CmdModeOnlyInCommand, LoopsBounded, FlagAsHeard,
              ResultAsHeard, InSendCMD, Looking
<1> QED
  BY <1>1, <1>2, <1>3, <1>4, <1>5 DEF Next

\* The inductive invariant holds throughout.
LEMMA Invariance == Spec => []IInv
  BY InitIInv, NextIInv, PTL DEF Spec

\* Every variable of the exchange keeps its type: neither counter of
\* WIFI_SendCMD passes its limit.
THEOREM TypeCorrect == Spec => []TypeOK
<1>1. IInv => TypeOK
  BY DEF IInv
<1> QED
  BY <1>1, Invariance, PTL

\* WIFI_CMD never overflows and keeps a cell for its NUL, for every size of the
\* array and whatever the module sends.
THEOREM LineAlwaysFits == Spec => []LineFits
<1>1. IInv => LineFits
  BY DEF IInv
<1> QED
  BY <1>1, Invariance, PTL

\* The interrupt takes characters for command answers exactly while
\* WIFI_SendCMD is between its mode switch and its return: each of the three
\* ways out switches the mode back.
THEOREM ModeFollowsCommand == Spec => []CmdModeOnlyInCommand
<1>1. IInv => CmdModeOnlyInCommand
  BY DEF IInv
<1> QED
  BY <1>1, Invariance, PTL

\* What WIFI_SendCMD reports is what the interrupt heard of this command, for
\* every number of attempts and whatever the module says and when: no verdict of
\* an earlier command is reported, and an answer never counts as silence.
THEOREM ResultIsAsHeard == Spec => []ResultAsHeard
<1>1. IInv => ResultAsHeard
  BY DEF IInv
<1> QED
  BY <1>1, Invariance, PTL
-----------------------------------------------------------------------------
LEMMA InitPrompt ==
  ASSUME TIMEOUT >= 2, Init
  PROVE  PromptInv
<1>1. Len(<< >>) + Len(<< >>) <= 0
  OBVIOUS
<1> QED
  BY <1>1, TimeoutAssumption DEF Init, PromptInv, InStep, Quiet

\* The steps of the thread keep in step with a prompt module: the flag it polls
\* is up before the time is.
LEMMA ThreadPrompt ==
  ASSUME TIMEOUT >= 2, IInv, InStep, kind = "prompt", Thread
  PROVE  InStep'
<1> USE RetryAssumption, TimeoutAssumption
        DEF sharedVars, stateVars, moduleVars, auxVars, InStep
<1>t. /\ TypeOK /\ LoopsBounded
      /\ waitTime \in Nat /\ step \in 1..7 /\ Script[step] # "none"
  BY ScriptLength DEF IInv, TypeOK
<1>q. UNCHANGED <<line, WIFI_CMD, text>> => Quiet' = Quiet /\ Coming' = Coming
  BY DEF Quiet, Coming, Has
<1>u. UNCHANGED <<WIFI_CMD_FLAG, line, WIFI_CMD, text, job, step, executed>> =>
        Working' = Working /\ Answering' = Answering /\ Answered' = Answered
  BY <1>q DEF Working, Answering, Answered
<1>1. CASE Escape
  BY <1>1, <1>q, <1>u DEF Escape
<1>2. CASE Listen
  BY <1>2, <1>q, <1>u DEF Listen
<1>3. CASE ClearFlag
  BY <1>3, <1>q DEF ClearFlag
<1>4. CASE EnterCmdMode
  BY <1>4, <1>q, <1>u DEF EnterCmdMode
<1>5. CASE Send
  <2>1. Working'
    BY <1>5, <1>q DEF Send, Working
  <2> QED
    BY <1>5, <2>1 DEF Send
<1>6. CASE Poll
  <2>1. Working \/ Answering \/ Answered
    BY <1>6 DEF Poll
  <2>2. CASE WIFI_CMD_FLAG = 1
    <3>1. Answered
      BY <2>1, <2>2 DEF Working, Answering
    <3> QED
      BY <1>6, <1>u, <2>2, <3>1 DEF Poll
  <2>3. CASE WIFI_CMD_FLAG = 0
    <3>1. waitTime < TIMEOUT - 1
      BY <1>t, <1>6, <2>3 DEF Poll, Answered
    <3> QED
      BY <1>6, <1>u, <2>1, <2>3, <3>1 DEF Poll
  <2> QED
    BY <2>1, <2>2, <2>3 DEF Working, Answering, Answered
<1>7. CASE Delay
  <2>1. Working \/ Answering \/ Answered
    BY <1>7 DEF Delay
  <2>2. job = "none" /\ line = << >> => Answered
    BY <1>t, <2>1 DEF Working, Answering, Coming
  <2>3. waitTime' >= TIMEOUT - 1 => Answered
    BY <1>t, <1>7, <2>2 DEF Delay
  <2>4. waitTime' < TIMEOUT
    BY <1>t, <1>7 DEF Delay
  <2> QED
    BY <1>7, <1>u, <2>1, <2>3, <2>4 DEF Delay
<1>8. CASE TimedOut
  BY <1>t, <1>8 DEF TimedOut
<1>9. CASE Retry
  BY <1>9 DEF Retry
<1>10. CASE ReturnOk
  BY <1>10, <1>u DEF ReturnOk
<1>11. CASE ReturnNoResponse
  BY <1>11 DEF ReturnNoResponse
<1>12. CASE ReturnError
  BY <1>12 DEF ReturnError
<1>13. CASE CallerRecords
  <2>1. job = "none" /\ Quiet
    BY <1>13 DEF CallerRecords, Answered
  <2> QED
    BY <1>13, <1>q, <2>1 DEF CallerRecords
<1> QED
  BY <1>1, <1>2, <1>3, <1>4, <1>5, <1>6, <1>7, <1>8, <1>9, <1>10, <1>11, <1>12,
     <1>13 DEF Thread, SendCMD

\* A character received in command mode with room left: the newline of the
\* answer raises the flag, any other character only lengthens the line.
LEMMA InterruptPrompt ==
  ASSUME IInv, InStep, LineHasRoom, WIFI_USART_IRQHandler
  PROVE  InStep'
<1> USE DEF InStep
<1>t. /\ WIFI_CMD \in Seq(Tokens) /\ line \in Seq(Tokens) /\ text \in Nat
      /\ Len(WIFI_CMD) \in Nat /\ Len(line) \in Nat
  BY DEF IInv, TypeOK
<1>s. text <= CmdSize - 4 /\ CmdSize \in Nat
  BY SizeAssumption DEF LineHasRoom
<1>u. /\ UNCHANGED <<step, pc, retryCount, waitTime, job, text, executed>>
      /\ line # << >> /\ line' = Tail(line)
  BY DEF WIFI_USART_IRQHandler, threadVars
<1>c. CmdModeOnlyInCommand
  BY DEF IInv
<1>1. ASSUME Quiet
      PROVE  Quiet' /\ WIFI_CMD_FLAG' = WIFI_CMD_FLAG
  <2>1. line = <<"TXT">>
    BY <1>u, <1>1 DEF Quiet
  <2>2. Len(line) = 1 /\ Head(line) = "TXT" /\ Tail(line) = << >> /\ Len(<< >>) = 0
    BY <2>1
  <2>3. Len(WIFI_CMD) + 1 <= text
    BY <1>1, <2>2 DEF Quiet
  <2>4. ~Overflow(Head(line))
    BY <1>t, <1>s, <2>3 DEF Overflow
  <2>5. Len(StoreCell("TXT")) = Len(WIFI_CMD) + 1
    BY <1>t DEF StoreCell
  <2>6. WIFI_CMD_FLAG' = WIFI_CMD_FLAG /\ Len(WIFI_CMD') <= Len(WIFI_CMD) + 1
    <3>1. CASE ReceiveCell(Head(line))
      BY <1>t, <2>2, <2>5, <3>1 DEF ReceiveCell
    <3>2. CASE OtherMode(Head(line))
      BY <1>t, <2>2, <3>2 DEF OtherMode
    <3> QED
      BY <2>4, <3>1, <3>2 DEF WIFI_USART_IRQHandler
  <2>7. Len(WIFI_CMD') \in Nat
    BY InterruptEffect
  <2> QED
    BY <1>t, <1>u, <2>2, <2>3, <2>6, <2>7 DEF Quiet
<1>2. ASSUME pc \in {"wait", "delay"}, Answering
      PROVE  Answering' \/ Answered'
  <2>0. WIFI_RECVSTOP = WIFI_RECV_CMD
    BY <1>c, <1>2 DEF CmdModeOnlyInCommand, InSendCMD, Looking
  <2>a. ASSUME NEW c \in Tokens
        PROVE  /\ Len(StoreCell(c)) = Len(WIFI_CMD) + 1
               /\ StoreCell(c)[Len(WIFI_CMD) + 1] = c
               /\ Len(WIFI_CMD) + 1 \in DOMAIN StoreCell(c)
               /\ \A k \in DOMAIN WIFI_CMD :
                    k \in DOMAIN StoreCell(c) /\ StoreCell(c)[k] = WIFI_CMD[k]
    BY <1>t DEF StoreCell
  <2>1. CASE line = <<"TXT", "OK", "NL">>
    <3>1. /\ Len(line) = 3 /\ Head(line) = "TXT"
          /\ Tail(line) = <<"OK", "NL">> /\ Len(Tail(line)) = 2
      BY <2>1
    <3>2. Len(WIFI_CMD) + 3 <= text + 3
      BY <1>2, <3>1 DEF Answering, Coming
    <3>3. ReceiveCell("TXT")
      BY <1>t, <1>s, <2>0, <3>1, <3>2 DEF WIFI_USART_IRQHandler, Overflow, OtherMode
    <3>4. WIFI_CMD_FLAG' = WIFI_CMD_FLAG /\ WIFI_CMD' = StoreCell("TXT")
      BY <3>3 DEF ReceiveCell
    <3>5. Len(WIFI_CMD') = Len(WIFI_CMD) + 1
      BY <2>a, <3>4 DEF Tokens
    <3>6. Coming'
      BY <1>t, <1>u, <3>1, <3>2, <3>5 DEF Coming
    <3> QED
      BY <1>2, <1>u, <3>4, <3>6 DEF Answering
  <2>2. CASE line = <<"OK", "NL">>
    <3>1. /\ Len(line) = 2 /\ Head(line) = "OK"
          /\ Tail(line) = <<"NL">> /\ Len(Tail(line)) = 1
      BY <2>2
    <3>2. Len(WIFI_CMD) + 2 <= text + 3
      BY <1>2, <3>1 DEF Answering, Coming
    <3>3. ReceiveCell("OK")
      BY <1>t, <1>s, <2>0, <3>1, <3>2 DEF WIFI_USART_IRQHandler, Overflow, OtherMode
    <3>4. WIFI_CMD_FLAG' = WIFI_CMD_FLAG /\ WIFI_CMD' = StoreCell("OK")
      BY <3>3 DEF ReceiveCell
    <3>5. Len(WIFI_CMD') = Len(WIFI_CMD) + 1 /\ Has(WIFI_CMD', "OK")
      BY <2>a, <3>4 DEF Tokens, Has
    <3>6. Coming'
      BY <1>t, <1>u, <3>1, <3>2, <3>5 DEF Coming, Has
    <3> QED
      BY <1>2, <1>u, <3>4, <3>6 DEF Answering
  <2>3. CASE line = <<"NL">> /\ Has(WIFI_CMD, "OK")
    <3>1. /\ Len(line) = 1 /\ Head(line) = "NL" /\ Tail(line) = << >> /\ Len(<< >>) = 0
      BY <2>3
    <3>2. Len(WIFI_CMD) + 1 <= text + 3
      BY <1>2, <3>1 DEF Answering, Coming
    <3>3. ReceiveCell("NL")
      BY <1>t, <1>s, <2>0, <3>1, <3>2 DEF WIFI_USART_IRQHandler, Overflow, OtherMode
    <3>4. Has(StoreCell("NL"), "OK")
      BY <2>3, <2>a DEF Has, Tokens
    <3>5. WIFI_CMD_FLAG' = 1 /\ WIFI_CMD' = << >>
      BY <3>3, <3>4 DEF ReceiveCell, WIFI_CMD_ReturnCheck
    <3>6. Quiet'
      BY <1>t, <1>u, <3>1, <3>5 DEF Quiet
    <3> QED
      BY <1>2, <1>u, <3>5, <3>6 DEF Answering, Answered
  <2> QED
    BY <1>2, <2>1, <2>2, <2>3 DEF Answering, Coming
<1>3. Working => Working'
  BY <1>1, <1>u DEF Working
<1>4. Answered => Answered'
  BY <1>1, <1>u DEF Answered
<1> QED
  BY <1>1, <1>2, <1>3, <1>4, <1>u

\* A prompt module answers only the command under way.
LEMMA AnswerPrompt ==
  ASSUME IInv, InStep, kind = "prompt", Answer
  PROVE  InStep'
<1> USE DEF InStep, sharedVars, threadVars, auxVars
<1>t. /\ WIFI_CMD \in Seq(Tokens) /\ Len(WIFI_CMD) \in Nat /\ text \in Nat
      /\ pc \in {"escape", "listen", "call", "mode", "done"} \cup
                {"send", "wait", "delay", "retry"} \cup
                {"succeeded", "silent", "returned"}
  BY DEF IInv, TypeOK
<1>1. pc \in {"wait", "delay"} /\ Working
  BY <1>t DEF Answer, Answering, Answered
<1>2. line' = <<"TXT", "OK", "NL">> /\ executed' = 1 /\ job' = "none"
  BY <1>1 DEF Answer, Working
<1>3. Len(WIFI_CMD) <= text
  <2>1. Len(WIFI_CMD) + Len(line) <= text /\ Len(line) = 0
    BY <1>1 DEF Working, Quiet, Answer
  <2> QED
    BY <1>t, <2>1
<1>4. Len(<<"TXT", "OK", "NL">>) = 3
  OBVIOUS
<1>5. Coming'
  BY <1>t, <1>2, <1>3, <1>4 DEF Coming, Answer
<1>6. Answering'
  BY <1>1, <1>2, <1>5 DEF Answering, Working, Answer
<1>7. ~Answered
  BY <1>1 DEF Answered, Working
<1> QED
  BY <1>1, <1>6, <1>7 DEF Answer

\* An unsolicited character comes only between the module's lines.
LEMMA ChatterPrompt ==
  ASSUME IInv, InStep, Chatter
  PROVE  InStep'
<1> USE DEF InStep, sharedVars, threadVars, auxVars
<1>t. WIFI_CMD \in Seq(Tokens) /\ Len(WIFI_CMD) \in Nat /\ text \in Nat
  BY DEF IInv, TypeOK
<1>1. line = << >> /\ line' = <<"TXT">> /\ text' = text + 1 /\ WIFI_CMD' = WIFI_CMD
  BY DEF Chatter
<1>2. Len(<< >>) = 0 /\ Len(<<"TXT">>) = 1
  OBVIOUS
<1>3. Quiet => Quiet'
  BY <1>t, <1>1, <1>2 DEF Quiet
<1>4. ~Answering
  BY <1>1 DEF Answering, Coming
<1>5. (Working => Working') /\ (Answered => Answered')
  BY <1>3 DEF Working, Answered, Chatter
<1> QED
  BY <1>3, <1>4, <1>5 DEF Chatter

LEMMA NextPrompt ==
  ASSUME TIMEOUT >= 2, IInv, PromptInv, [Next]_vars
  PROVE  PromptInv'
<1> SUFFICES ASSUME kind' = "prompt", LineHasRoom'
             PROVE  InStep'
  BY DEF PromptInv
<1>0. kind' = kind /\ text' >= text
  <2>1. text \in Nat
    BY DEF IInv, TypeOK
  <2>2. CASE Thread
    BY <2>1, <2>2 DEF Thread, SendCMD, Escape, Listen, ClearFlag, EnterCmdMode, Send,
                Poll, Delay, TimedOut, Retry, ReturnOk, ReturnNoResponse,
                ReturnError, CallerRecords, moduleVars
  <2> QED
    BY <2>1, <2>2 DEF Next, WIFI_USART_IRQHandler, Answer, Chatter, vars, moduleVars
<1>1. kind = "prompt" /\ LineHasRoom /\ InStep
  <2>1. text \in Nat /\ text' \in Nat /\ CmdSize \in Nat
    BY NextIInv, SizeAssumption DEF IInv, TypeOK
  <2>2. LineHasRoom
    BY <1>0, <2>1 DEF LineHasRoom
  <2> QED
    BY <1>0, <2>2 DEF PromptInv
<1>2. CASE UNCHANGED vars
  BY <1>1, <1>2 DEF vars, sharedVars, threadVars, moduleVars, auxVars, InStep,
                    Working, Answering, Answered, Quiet, Coming, Has
<1> QED
  BY <1>1, <1>2, ThreadPrompt, InterruptPrompt, AnswerPrompt, ChatterPrompt DEF Next

\* With a module that answers in time and whose lines fit, the OK that
\* WIFI_SendCMD reports is the answer to the command it sent: it never takes the
\* answer to the command before, and never what was left in WIFI_CMD or
\* WIFI_CMD_FLAG.  A time-out of one interval would be too short for the thread
\* to look at the flag after its wait; the source has 2000.
THEOREM OkIsOurs ==
  ASSUME TIMEOUT >= 2
  PROVE  Spec => []OkIsOursIfPrompt
<1>1. Init => PromptInv
  BY InitPrompt
<1>2. IInv /\ PromptInv /\ [Next]_vars => PromptInv'
  BY NextPrompt
<1>3. PromptInv => OkIsOursIfPrompt
  BY DEF PromptInv, OkIsOursIfPrompt, InStep, Answered
<1> QED
  BY <1>1, <1>2, <1>3, Invariance, PTL DEF Spec
=============================================================================
