------------------------------- MODULE BsipTx -------------------------------
(***************************************************************************)
(* What the BSIP port sends: the task UserHMI handles a telegram, if one   *)
(* has come, and then calls BSIP_TxManagment, which first queues at most   *)
(* one message and then sends at most one, a message's interval after the  *)
(* one before.  Acknowledgements come first, then the four messages of the *)
(* parameters, answers to requests for process data, and running status.   *)
(* Time is counted in rounds of the task.                                  *)
(*                                                                         *)
(* The tasks Fpga and ModbusSend set NeedSend_ACK too, for a frame of      *)
(* firmware that they have forwarded, which may have come over this port   *)
(* or over the FGIPv2 one.  ModbusSend preempts UserHMI; what it does in   *)
(* the middle of a step is as if done before it or after.                  *)
(*                                                                         *)
(* NeedSend_FactoryParams is set only together with NeedSend_InitParams    *)
(* and has no effect of its own.  External: the Modbus master, whose       *)
(* reading of process data the parameters wait for.                        *)
(***************************************************************************)
EXTENDS Naturals, Sequences

CONSTANTS
  Telegrams,  \* kinds of telegrams the host sends
  AckGap, InitGap, StatusGap, DebugGap, \* TIME_INTERVAL_* in rounds
  FrameNos,   \* numbers of the frames of process data
  MaxBusy,    \* bound: times the Modbus master does something else
  QueueLength \* what BsipTxQueue holds (10)

\* "set" stands for all telegrams without an effect here; "signature" is the
\* firmware frame in which the signature of an MCU file is complete, "frame0"
\* and "frame" are others that are accepted, "forward0" and "forward" those for
\* the FPGA or the supply, "refused" one that is not accepted.
Kinds == {"set", "mute", "unmute", "sync", "getdata", "frame0", "frame",
          "forward0", "forward", "signature", "refused"}

ASSUME BsipTxAssumption ==
  /\ Telegrams \subseteq Kinds
  /\ {AckGap, InitGap, StatusGap, DebugGap} \subseteq Nat \ {0}
  /\ FrameNos # {} /\ FrameNos \subseteq Nat /\ MaxBusy \in Nat
  /\ QueueLength \in Nat \ {0}

VARIABLES
  at,      \* where the task is in its round
  ack, init, debug, status, \* NeedSend_*
  frameNo, \* DebugData.FrameNo
  step,    \* sendStep of SendInitParams
  count,   \* its sendCnt
  statusCount, \* sendCnt of SendRunningStatus
  queue,   \* BsipTxQueue
  sendCnt, sendTimeOut, \* of BSIP_TxTimeManagment
  reading, \* whether the Modbus master reads process data
  busied,  \* how often it has left that
  told,    \* parameters' messages that were sent
  owed,    \* whether the last telegram was processed, and has had no answer
  forwarded \* history: whether a frame was forwarded since the last telegram

flagVars == <<ack, init, debug, status, frameNo>>
sendVars == <<step, count, statusCount, queue, sendCnt, sendTimeOut, told>>
supplyVars == <<reading, busied>>
vars == <<at, flagVars, sendVars, supplyVars, owed, forwarded>>

InitMsgs == {"parts", "user", "internal", "modbus"}
Messages == InitMsgs \cup {"ack", "status", "debug"}

Interval(m) ==
  CASE m = "ack" -> AckGap
    [] m \in InitMsgs -> InitGap
    [] m = "status" -> StatusGap
    [] m = "debug" -> DebugGap

TypeOK ==
  /\ at \in {"receive", "transmit"}
  /\ {ack, init, debug, status, reading, owed, forwarded} \subseteq BOOLEAN
  /\ frameNo \in FrameNos
  /\ step \in 0..4 /\ count \in 0..InitGap /\ statusCount \in 0..StatusGap
  /\ queue \in Seq(Messages) /\ Len(queue) <= QueueLength
  /\ sendCnt \in 0..sendTimeOut
  /\ sendTimeOut \in {0, AckGap, InitGap, StatusGap, DebugGap}
  /\ busied \in 0..MaxBusy
  /\ told \subseteq InitMsgs

Init ==
  /\ at = "receive"
  /\ ack = FALSE /\ init = TRUE /\ debug = FALSE /\ status = FALSE
  /\ frameNo \in FrameNos
  /\ step = 0 /\ count = 0 /\ statusCount = StatusGap
  /\ queue = <<>> /\ sendCnt = 0 /\ sendTimeOut = 0
  /\ reading = FALSE /\ busied = 0 /\ told = {}
  /\ owed = FALSE /\ forwarded = FALSE

-----------------------------------------------------------------------------
(* Dealwith_BSIP_Layer7.  A handler clears NeedSend_ACK when it refuses the *)
(* telegram, where the telegram has another answer, or will be answered    *)
(* when it has been forwarded, and by mistake.                             *)
Owed(k) == k \notin {"refused", "getdata", "forward0", "forward"}
Acked(k) == Owed(k) /\ k # "signature"

\* Mutant of Layer7: what waits to be sent stays in the queue.
Layer7NoReset(k) ==
  /\ ack' = Acked(k) /\ owed' = Owed(k)
  /\ UNCHANGED queue

Layer7(k) ==
  /\ ack' = Acked(k) /\ owed' = Owed(k)
  /\ queue' = <<>>

\* The rest of the handler: what is to be sent from now on.
Handler(k) ==
  /\ init' = (init \/ k = "sync")
  /\ debug' = (debug \/ k = "getdata")
  /\ status' = CASE k \in {"mute", "sync", "frame0", "forward0"} -> FALSE
                 [] k \in {"unmute", "refused"} -> TRUE
                 [] k = "getdata" -> status /\ debug
                 [] OTHER -> status
  /\ IF k = "getdata" THEN frameNo' \in FrameNos ELSE UNCHANGED frameNo

Telegram ==
  /\ at = "receive"
  /\ \E k \in Telegrams : Layer7(k) /\ Handler(k)
  /\ at' = "transmit" /\ forwarded' = FALSE
  /\ UNCHANGED <<step, count, statusCount, sendCnt, sendTimeOut, told, supplyVars>>

NoTelegram ==
  /\ at = "receive"
  /\ at' = "transmit"
  /\ UNCHANGED <<flagVars, sendVars, supplyVars, owed, forwarded>>

(* A frame of firmware was forwarded and acknowledged by its device: Fpga  *)
(* or ModbusSend set NeedSend_ACK, without a telegram.                     *)
Forwarded ==
  /\ ack' = TRUE /\ forwarded' = TRUE
  /\ UNCHANGED <<at, init, debug, status, frameNo, sendVars, supplyVars, owed>>

-----------------------------------------------------------------------------
(* BSIP_TxBufManagment: its next message, if any, as a sequence.  With the *)
(* last of the process data the running status begins.                     *)
\* Mutant of InitDue: no interval between the messages.
InitDueAlways == reading /\ step < 4

InitDue == reading /\ step < 4 /\ (step = 0 \/ count = InitGap)
StatusDue == statusCount = StatusGap

\* Mutant of Pushed: the parameters come before the acknowledgement.
PushedInitFirst ==
  IF InitDue THEN <<(<<"parts", "user", "internal", "modbus">>)[step + 1]>>
  ELSE IF ack THEN <<"ack">> ELSE <<>>

\* Which of them SendInitParams reports as its last one, it never reports.
Pushed ==
  IF ack THEN <<"ack">>
  ELSE IF init
       THEN IF InitDue THEN <<(<<"parts", "user", "internal", "modbus">>)[step + 1]>> ELSE <<>>
  ELSE IF debug THEN <<"debug">>
  ELSE IF status /\ StatusDue THEN <<"status">> ELSE <<>>

TxBufManagment ==
  /\ ack' = FALSE
  /\ IF ~ack /\ init /\ reading /\ step < 4
     THEN /\ step' = IF InitDue THEN step + 1 ELSE step
          /\ count' = IF InitDue THEN 0 ELSE count + 1
     ELSE UNCHANGED <<step, count>>
  /\ debug' = (debug /\ (ack \/ init))
  /\ statusCount' = IF ack \/ init \/ debug \/ ~status THEN statusCount
                    ELSE IF StatusDue THEN 0 ELSE statusCount + 1
  /\ status' \in (IF debug /\ ~ack /\ ~init THEN {status, TRUE} ELSE {status})
  /\ UNCHANGED <<init, frameNo>>

\* What is queued when BSIP_TxTimeManagment looks.
Queued == IF Len(queue) < QueueLength THEN queue \o Pushed ELSE queue

\* Mutant of TxTimeManagment: rounds without a message are not counted.
TxTimeUncounted ==
  IF sendCnt = sendTimeOut /\ Queued # <<>>
  THEN /\ queue' = Tail(Queued)
       /\ sendCnt' = 0 /\ sendTimeOut' = Interval(Head(Queued))
       /\ told' = told \cup ({Head(Queued)} \cap InitMsgs)
       /\ owed' = (owed /\ Head(Queued) # "ack")
  ELSE queue' = Queued /\ UNCHANGED <<sendCnt, sendTimeOut, told, owed>>

TxTimeManagment ==
  IF sendCnt = sendTimeOut /\ Queued # <<>>
  THEN /\ queue' = Tail(Queued)
       /\ sendCnt' = 0 /\ sendTimeOut' = Interval(Head(Queued))
       /\ told' = told \cup ({Head(Queued)} \cap InitMsgs)
       /\ owed' = (owed /\ Head(Queued) # "ack")
  ELSE /\ queue' = Queued
       /\ sendCnt' = IF sendCnt = sendTimeOut THEN sendCnt ELSE sendCnt + 1
       /\ UNCHANGED <<sendTimeOut, told, owed>>

Transmit ==
  /\ at = "transmit"
  /\ TxBufManagment
  /\ TxTimeManagment
  /\ at' = "receive"
  /\ UNCHANGED <<supplyVars, forwarded>>

-----------------------------------------------------------------------------
(* The Modbus master.                                                      *)
ReadProcess ==
  /\ ~reading /\ reading' = TRUE
  /\ UNCHANGED <<at, flagVars, sendVars, busied, owed, forwarded>>

LeaveProcess ==
  /\ reading /\ busied < MaxBusy
  /\ reading' = FALSE /\ busied' = busied + 1
  /\ UNCHANGED <<at, flagVars, sendVars, owed, forwarded>>

Next ==
  Telegram \/ NoTelegram \/ Forwarded \/ Transmit \/ ReadProcess \/ LeaveProcess

Spec == Init /\ [][Next]_vars

FairSpec ==
  Spec /\ WF_vars(NoTelegram \/ Telegram) /\ WF_vars(Transmit) /\ WF_vars(ReadProcess)

-----------------------------------------------------------------------------
\* Until a telegram that was processed is acknowledged, the acknowledgement is
\* the next message to go out: nothing that was due before comes first.
AckIsNext ==
  owed => (ack /\ queue = <<>>) \/ (queue # <<>> /\ Head(queue) = "ack")

\* "If there is any process error", says bsip_layer7.c:86, there is none: an
\* acknowledgement that is to be sent is that of the last telegram, which was
\* processed and has had none yet, unless a frame was forwarded since.
AckIsDue ==
  ack \/ (\E j \in DOMAIN queue : queue[j] = "ack") => owed \/ forwarded

\* However fast telegrams come, an acknowledgement goes out, or the last
\* telegram is one that has none.
AckIsSent == owed ~> ~owed

\* Unless telegrams come or frames are forwarded for ever, the parameters' four
\* messages are queued, each after its interval, and the queue is sent until it
\* is empty.
ParamsAreSent ==
  <>(step = 4 /\ queue = <<>>) \/ []<><<Telegram>>_vars \/ []<><<Forwarded>>_vars

\* When all the parameters' messages were queued, none was lost.
ParamsArrive == step = 4 => \A m \in InitMsgs : m \in told \/ \E j \in DOMAIN queue : queue[j] = m

\* When all of them were sent, the running status begins.
StatusFollows == (told = InitMsgs) ~> status

\* A request is left alone until it has been answered.
RequestStands == [][debug /\ debug' => frameNo' = frameNo]_vars
=============================================================================
