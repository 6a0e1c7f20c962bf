--------------------------- MODULE BsipTx_proofs ---------------------------
(***************************************************************************)
(* Proofs about what the BSIP port sends, for any intervals and any kinds  *)
(* of telegrams: every variable keeps its type, so that no counter passes  *)
(* the value it is compared with; and an acknowledgement that is owed is   *)
(* the next message to go out, if no telegram is the firmware frame that   *)
(* completes a signature; and no acknowledgement is sent that is not due,  *)
(* unless a frame was forwarded since the last telegram.                   *)
(***************************************************************************)
EXTENDS BsipTx, TLAPS

\* A round queues at most one message.
LEMMA PushedOne ==
  ASSUME TypeOK
  PROVE  Pushed = <<>> \/ \E m \in Messages : Pushed = <<m>>
<1>1. CASE ack
  <2>1. Pushed = <<"ack">> BY <1>1 DEF Pushed
  <2> QED BY <2>1 DEF Messages
<1>2. CASE ~ack /\ init
  <2>1. CASE InitDue
    <3>1. step \in 0..3 BY <2>1 DEF InitDue, TypeOK
    <3>2. (<<"parts", "user", "internal", "modbus">>)[step + 1] \in InitMsgs
      BY <3>1 DEF InitMsgs
    <3>3. Pushed = <<(<<"parts", "user", "internal", "modbus">>)[step + 1]>>
      BY <1>2, <2>1 DEF Pushed
    <3> QED BY <3>2, <3>3 DEF Messages
  <2>2. CASE ~InitDue
    BY <1>2, <2>2 DEF Pushed
  <2> QED BY <2>1, <2>2
<1>3. CASE ~ack /\ ~init
  <2>1. Pushed \in {<<"debug">>, <<"status">>, <<>>} BY <1>3 DEF Pushed
  <2> QED BY <2>1 DEF Messages
<1> QED BY <1>1, <1>2, <1>3

\* What waits then is a sequence of messages, of no more than the queue's length.
LEMMA QueuedType ==
  ASSUME TypeOK
  PROVE  /\ Queued \in Seq(Messages) /\ Len(Queued) <= QueueLength
         /\ queue # <<>> => Queued # <<>> /\ Head(Queued) = Head(queue)
<1>1. queue \in Seq(Messages) /\ Len(queue) <= QueueLength /\ QueueLength \in Nat
  BY BsipTxAssumption DEF TypeOK
<1>2. CASE Pushed = <<>>
  <2>1. Queued = queue BY <1>1, <1>2 DEF Queued
  <2> QED BY <1>1, <2>1
<1>3. CASE \E m \in Messages : Pushed = <<m>>
  <2>1. PICK m \in Messages : Pushed = <<m>> BY <1>3
  <2>2. Queued = queue \/ (Len(queue) < QueueLength /\ Queued = queue \o <<m>>)
    BY <1>1, <2>1 DEF Queued
  <2>3. CASE Queued = queue BY <1>1, <2>3
  <2>4. CASE Len(queue) < QueueLength /\ Queued = queue \o <<m>>
    BY <1>1, <2>1, <2>4
  <2> QED BY <2>2, <2>3, <2>4
<1> QED BY PushedOne, <1>2, <1>3

\* The part of the send step that BSIP_TxTimeManagment does keeps its types.
LEMMA TxTimeType ==
  ASSUME TypeOK, TxTimeManagment
  PROVE  /\ queue' \in Seq(Messages) /\ Len(queue') <= QueueLength
         /\ sendCnt' \in 0..sendTimeOut'
         /\ sendTimeOut' \in {0, AckGap, InitGap, StatusGap, DebugGap}
         /\ told' \subseteq InitMsgs
         /\ owed' \in BOOLEAN
<1> USE BsipTxAssumption
<1>1. Queued \in Seq(Messages) /\ Len(Queued) <= QueueLength BY QueuedType
<1>2. sendCnt \in 0..sendTimeOut /\ told \subseteq InitMsgs /\ owed \in BOOLEAN
  BY DEF TypeOK
<1>3. sendTimeOut \in {0, AckGap, InitGap, StatusGap, DebugGap} BY DEF TypeOK
<1>4. CASE sendCnt = sendTimeOut /\ Queued # <<>>
  <2>1. /\ queue' = Tail(Queued)
        /\ sendCnt' = 0 /\ sendTimeOut' = Interval(Head(Queued))
        /\ told' = told \cup ({Head(Queued)} \cap InitMsgs)
        /\ owed' = (owed /\ Head(Queued) # "ack")
    BY <1>4 DEF TxTimeManagment
  <2>2. Head(Queued) \in Messages BY <1>1, <1>4
  <2>3. Interval(Head(Queued)) \in {AckGap, InitGap, StatusGap, DebugGap}
    BY <2>2 DEF Interval, Messages, InitMsgs
  <2>4. queue' \in Seq(Messages) /\ Len(queue') <= QueueLength BY <1>1, <1>4, <2>1
  <2>5. sendCnt' \in 0..sendTimeOut' BY <2>1, <2>3
  <2> QED BY <1>2, <2>1, <2>3, <2>4, <2>5
<1>5. CASE ~(sendCnt = sendTimeOut /\ Queued # <<>>)
  <2>1. /\ queue' = Queued
        /\ sendCnt' = IF sendCnt = sendTimeOut THEN sendCnt ELSE sendCnt + 1
        /\ UNCHANGED <<sendTimeOut, told, owed>>
    BY <1>5 DEF TxTimeManagment
  <2>2. sendTimeOut \in Nat BY <1>3
  <2>3. sendCnt' \in 0..sendTimeOut' BY <1>2, <2>1, <2>2
  <2> QED BY <1>1, <1>2, <1>3, <2>1, <2>3
<1> QED BY <1>4, <1>5

\* Every step keeps the type of every variable: no counter of rounds passes the
\* interval it is compared with for equality.
LEMMA TypeStep == TypeOK /\ [Next]_vars => TypeOK'
<1> SUFFICES ASSUME TypeOK, [Next]_vars PROVE TypeOK' OBVIOUS
<1> USE BsipTxAssumption
<1>1. CASE Telegram
  <2>1. PICK k \in Telegrams : Layer7(k) /\ Handler(k) BY <1>1 DEF Telegram
  <2>2. {ack', init', debug', status', reading', owed', forwarded'} \subseteq BOOLEAN
    BY <1>1, <2>1 DEF Telegram, Layer7, Handler, Acked, Owed, TypeOK, supplyVars
  <2>3. frameNo' \in FrameNos BY <2>1 DEF Handler, TypeOK
  <2>4. queue' \in Seq(Messages) /\ Len(queue') <= QueueLength
    BY <2>1 DEF Layer7
  <2> QED BY <1>1, <2>2, <2>3, <2>4 DEF Telegram, supplyVars, TypeOK
<1>2. CASE NoTelegram
  BY <1>2 DEF NoTelegram, TypeOK, flagVars, sendVars, supplyVars
<1>3. CASE Transmit
  <2>0. TxBufManagment /\ TxTimeManagment /\ at' = "receive"
        /\ UNCHANGED <<supplyVars, forwarded>>
    BY <1>3 DEF Transmit
  <2>1. {ack', init', debug', status', reading', forwarded'} \subseteq BOOLEAN
        /\ frameNo' \in FrameNos
    BY <2>0 DEF TxBufManagment, TypeOK, supplyVars
  <2>2. step' \in 0..4 /\ count' \in 0..InitGap
    <3>1. CASE ~ack /\ init /\ reading /\ step < 4
      <4>1. /\ step' = IF InitDue THEN step + 1 ELSE step
            /\ count' = IF InitDue THEN 0 ELSE count + 1
        BY <2>0, <3>1 DEF TxBufManagment
      <4>2. CASE InitDue BY <3>1, <4>1, <4>2 DEF TypeOK
      <4>3. CASE ~InitDue
        <5>1. count # InitGap BY <3>1, <4>3 DEF InitDue
        <5> QED BY <4>1, <4>3, <5>1 DEF TypeOK
      <4> QED BY <4>2, <4>3
    <3>2. CASE ~(~ack /\ init /\ reading /\ step < 4)
      BY <2>0, <3>2 DEF TxBufManagment, TypeOK
    <3> QED BY <3>1, <3>2
  <2>3. statusCount' \in 0..StatusGap
    BY <2>0 DEF TxBufManagment, StatusDue, TypeOK
  <2>4. /\ queue' \in Seq(Messages) /\ Len(queue') <= QueueLength
        /\ sendCnt' \in 0..sendTimeOut'
        /\ sendTimeOut' \in {0, AckGap, InitGap, StatusGap, DebugGap}
        /\ told' \subseteq InitMsgs
        /\ owed' \in BOOLEAN
    BY <2>0, TxTimeType
  <2> QED BY <2>0, <2>1, <2>2, <2>3, <2>4 DEF TypeOK, supplyVars
<1>4. CASE ReadProcess
  BY <1>4 DEF ReadProcess, TypeOK, flagVars, sendVars
<1>5. CASE LeaveProcess
  <2>1. busied' \in 0..MaxBusy /\ reading' = FALSE
    BY <1>5 DEF LeaveProcess, TypeOK
  <2>2. UNCHANGED <<at, flagVars, sendVars, owed, forwarded>> BY <1>5 DEF LeaveProcess
  <2> QED BY <2>1, <2>2 DEF TypeOK, flagVars, sendVars
<1>6. CASE Forwarded
  BY <1>6 DEF Forwarded, TypeOK, sendVars, supplyVars
<1>7. CASE UNCHANGED vars
  BY <1>7 DEF vars, TypeOK, flagVars, sendVars, supplyVars
<1> QED BY <1>1, <1>2, <1>3, <1>4, <1>5, <1>6, <1>7 DEF Next

\* Type correctness of the port's transmit side: its counters stay within their
\* intervals and its queue within its length, for any intervals.
THEOREM BsipTypeCorrect == Spec => []TypeOK
<1>1. Init => TypeOK
  <2> SUFFICES ASSUME Init PROVE TypeOK OBVIOUS
  <2>1. 0 \in 0..MaxBusy /\ 0 \in 0..InitGap /\ StatusGap \in 0..StatusGap
    BY BsipTxAssumption
  <2>2. queue \in Seq(Messages) /\ Len(queue) <= QueueLength
    BY BsipTxAssumption DEF Init
  <2>3. {ack, init, debug, status, reading, owed, forwarded} \subseteq BOOLEAN BY DEF Init
  <2>4. 0 \in 0..0 OBVIOUS
  <2> QED BY <2>1, <2>2, <2>3, <2>4 DEF Init, TypeOK
<1> QED BY <1>1, TypeStep, PTL DEF Spec

-----------------------------------------------------------------------------
\* A step keeps the owed acknowledgement at the head, if a telegram that leaves
\* one owed has asked for it.
LEMMA AckStep ==
  ASSUME "signature" \notin Telegrams
  PROVE  TypeOK /\ AckIsNext /\ [Next]_vars => AckIsNext'
<1> SUFFICES ASSUME TypeOK, AckIsNext, [Next]_vars, owed' PROVE
        (ack' /\ queue' = <<>>) \/ (queue' # <<>> /\ Head(queue') = "ack")
  BY DEF AckIsNext
<1>1. CASE Telegram
  <2>1. PICK k \in Telegrams : Layer7(k) /\ Handler(k) BY <1>1 DEF Telegram
  <2>2. k # "signature" OBVIOUS
  <2> QED BY <2>1, <2>2 DEF Layer7, Acked
<1>2. CASE Transmit
  <2>0. TxTimeManagment BY <1>2 DEF Transmit
  <2>1. owed BY <2>0 DEF TxTimeManagment, TypeOK
  <2>2. Queued # <<>> /\ Head(Queued) = "ack"
    <3>1. CASE queue # <<>> /\ Head(queue) = "ack"
      BY <3>1, QueuedType
    <3>2. CASE ack /\ queue = <<>>
      <4>1. Pushed = <<"ack">> BY <3>2 DEF Pushed
      <4>2. Queued = <<"ack">> BY <3>2, <4>1, BsipTxAssumption DEF Queued
      <4> QED BY <4>2
    <3> QED BY <2>1, <3>1, <3>2 DEF AckIsNext
  <2>3. sendCnt # sendTimeOut BY <2>0, <2>2 DEF TxTimeManagment
  <2>4. queue' = Queued BY <2>0, <2>3 DEF TxTimeManagment
  <2> QED BY <2>2, <2>4
<1>3. CASE Forwarded
  BY <1>3 DEF Forwarded, sendVars, AckIsNext
<1>4. CASE NoTelegram \/ ReadProcess \/ LeaveProcess \/ UNCHANGED vars
  <2>1. UNCHANGED <<ack, queue, owed>>
    BY <1>4 DEF NoTelegram, ReadProcess, LeaveProcess, vars, flagVars, sendVars
  <2> QED BY <2>1 DEF AckIsNext
<1> QED BY <1>1, <1>2, <1>3, <1>4 DEF Next

\* Whatever else waits to be sent and however telegrams and rounds meet, an
\* acknowledgement that is owed is the next message on the line.
THEOREM AckComesNext ==
  ASSUME "signature" \notin Telegrams
  PROVE  Spec => []AckIsNext
<1>1. Init => AckIsNext BY DEF Init, AckIsNext
<1>2. TypeOK /\ AckIsNext /\ [Next]_vars => AckIsNext' BY AckStep
<1> QED BY <1>1, <1>2, BsipTypeCorrect, PTL DEF Spec

-----------------------------------------------------------------------------
(* Whose acknowledgement waits.  Since a telegram, if nothing was forwarded,*)
(* one at most is queued, and it is at the head.                           *)
DueInv ==
  ~forwarded =>
    /\ \A j \in 2..Len(queue) : queue[j] # "ack"
    /\ queue # <<>> /\ queue[1] = "ack" => owed /\ ~ack
    /\ ack => owed /\ queue = <<>>

\* The same of what waits when BSIP_TxTimeManagment looks.
LEMMA QueuedDue ==
  ASSUME TypeOK, DueInv, ~forwarded
  PROVE  /\ \A j \in 2..Len(Queued) : Queued[j] # "ack"
         /\ Queued # <<>> /\ Queued[1] = "ack" => owed
<1>1. queue \in Seq(Messages) /\ Len(queue) \in Nat BY DEF TypeOK
<1>2. CASE ack
  <2>1. Pushed = <<"ack">> /\ queue = <<>> /\ owed BY <1>2 DEF Pushed, DueInv
  <2>2. Queued = <<"ack">> BY <2>1, BsipTxAssumption DEF Queued
  <2> QED BY <2>1, <2>2
<1>3. CASE ~ack
  <2>1. Pushed = <<>> \/ \E m \in Messages : m # "ack" /\ Pushed = <<m>>
    <3>1. CASE init /\ InitDue
      <4>1. step \in 0..3 BY <3>1 DEF InitDue, TypeOK
      <4>2. (<<"parts", "user", "internal", "modbus">>)[step + 1] \in InitMsgs
        BY <4>1 DEF InitMsgs
      <4>3. Pushed = <<(<<"parts", "user", "internal", "modbus">>)[step + 1]>>
        BY <1>3, <3>1 DEF Pushed
      <4>4. "ack" \notin InitMsgs BY DEF InitMsgs
      <4> QED BY <4>2, <4>3, <4>4 DEF Messages
    <3>2. CASE ~(init /\ InitDue)
      <4>1. Pushed \in {<<"debug">>, <<"status">>, <<>>} BY <1>3, <3>2 DEF Pushed
      <4> QED BY <4>1 DEF Messages
    <3> QED BY <3>1, <3>2
  <2>2. CASE Queued = queue
    BY <2>2 DEF DueInv
  <2>3. CASE Queued # queue
    <3>1. Queued = queue \o Pushed BY <2>3 DEF Queued
    <3>2. Pushed # <<>> BY <1>1, <2>3, <3>1
    <3>3. PICK m \in Messages : m # "ack" /\ Pushed = <<m>> BY <2>1, <3>2
    <3>4. Queued = Append(queue, m) BY <1>1, <3>1, <3>3
    <3>5. /\ Len(Queued) = Len(queue) + 1 /\ Queued[Len(queue) + 1] = m
          /\ \A j \in 1..Len(queue) : Queued[j] = queue[j]
      BY <1>1, <3>4
    <3>6. ASSUME NEW j \in 2..Len(Queued) PROVE Queued[j] # "ack"
      <4>1. j \in 2..Len(queue) \/ j = Len(queue) + 1 BY <1>1, <3>5
      <4> QED BY <1>1, <3>3, <3>5, <4>1 DEF DueInv
    <3>7. Queued[1] = "ack" => owed
      <4>1. CASE queue = <<>> BY <3>3, <3>4, <4>1
      <4>2. CASE queue # <<>>
        <5>1. Queued[1] = queue[1] BY <1>1, <3>5, <4>2
        <5> QED BY <4>2, <5>1 DEF DueInv
      <4> QED BY <4>1, <4>2
    <3> QED BY <3>6, <3>7
  <2> QED BY <2>2, <2>3
<1> QED BY <1>2, <1>3

LEMMA DueStep == TypeOK /\ DueInv /\ [Next]_vars => DueInv'
<1> SUFFICES ASSUME TypeOK, DueInv, [Next]_vars, ~forwarded' PROVE DueInv'
  BY DEF DueInv
<1>1. CASE Telegram
  <2>1. PICK k \in Telegrams : Layer7(k) /\ Handler(k) BY <1>1 DEF Telegram
  <2>2. queue' = <<>> /\ (ack' => owed') BY <2>1 DEF Layer7, Acked
  <2> QED BY <2>2 DEF DueInv
<1>2. CASE Transmit
  <2>1. TxTimeManagment /\ ack' = FALSE /\ ~forwarded
    BY <1>2 DEF Transmit, TxBufManagment
  <2>2. Queued \in Seq(Messages) BY QueuedType
  <2>3. /\ \A j \in 2..Len(Queued) : Queued[j] # "ack"
        /\ Queued # <<>> /\ Queued[1] = "ack" => owed
    BY <2>1, QueuedDue
  <2>4. CASE sendCnt = sendTimeOut /\ Queued # <<>>
    <3>1. queue' = Tail(Queued) BY <2>1, <2>4 DEF TxTimeManagment
    <3>2. /\ Len(Queued) \in Nat /\ Len(queue') = Len(Queued) - 1
          /\ \A j \in 1..Len(queue') : queue'[j] = Queued[j + 1]
      BY <2>2, <2>4, <3>1
    <3>3. \A j \in 1..Len(queue') : queue'[j] # "ack"
      BY <2>3, <3>2
    <3>4. queue' # <<>> => queue'[1] # "ack"
      <4>1. queue' \in Seq(Messages) BY <2>2, <2>4, <3>1
      <4>2. queue' # <<>> => 1 \in 1..Len(queue') BY <4>1
      <4> QED BY <3>3, <4>2
    <3>5. \A j \in 2..Len(queue') : queue'[j] # "ack" BY <3>2, <3>3
    <3> QED BY <2>1, <3>4, <3>5 DEF DueInv
  <2>5. CASE ~(sendCnt = sendTimeOut /\ Queued # <<>>)
    <3>1. queue' = Queued /\ owed' = owed BY <2>1, <2>5 DEF TxTimeManagment
    <3> QED BY <2>1, <2>3, <3>1 DEF DueInv
  <2> QED BY <2>4, <2>5
<1>3. CASE Forwarded
  BY <1>3 DEF Forwarded
<1>4. CASE NoTelegram \/ ReadProcess \/ LeaveProcess \/ UNCHANGED vars
  <2>1. UNCHANGED <<ack, queue, owed, forwarded>>
    BY <1>4 DEF NoTelegram, ReadProcess, LeaveProcess, vars, flagVars, sendVars
  <2> QED BY <2>1 DEF DueInv
<1> QED BY <1>1, <1>2, <1>3, <1>4 DEF Next

\* No telegram is acknowledged twice, and none that was refused or has another
\* answer, unless a frame was forwarded since: bsip_layer7.c:86-87 clear what an
\* earlier telegram has left, for any telegrams, intervals and length of queue.
THEOREM AckIsDueCorrect == Spec => []AckIsDue
<1>1. Init => DueInv BY DEF Init, DueInv
<1>2. TypeOK /\ DueInv => AckIsDue
  <2> SUFFICES ASSUME TypeOK, DueInv, ~forwarded,
                      ack \/ \E j \in DOMAIN queue : queue[j] = "ack"
               PROVE  owed
    BY DEF AckIsDue
  <2>1. CASE ack BY <2>1 DEF DueInv
  <2>2. CASE \E j \in DOMAIN queue : queue[j] = "ack"
    <3>1. PICK j \in DOMAIN queue : queue[j] = "ack" BY <2>2
    <3>2. queue # <<>> /\ j \in 1..Len(queue) /\ Len(queue) \in Nat
      BY <3>1 DEF TypeOK
    <3>3. j = 1 BY <3>1, <3>2 DEF DueInv
    <3> QED BY <3>1, <3>2, <3>3 DEF DueInv
  <2> QED BY <2>1, <2>2
<1>3. TypeOK /\ DueInv /\ [Next]_vars => DueInv' BY DueStep
<1> QED BY <1>1, <1>2, <1>3, BsipTypeCorrect, PTL DEF Spec
=============================================================================
