------------------------- MODULE ModbusMaster_proofs -------------------------
(***************************************************************************)
(* The type invariant of the Modbus master, and that a host that sets all  *)
(* factors at once never makes the supply go back to older ones.  For this *)
(* there are two invariants: if setters are not interrupted, IInv, in      *)
(* which answers may be late and several requests be under way; if answers *)
(* are not late, OneInv, in which a setter may be interrupted but one      *)
(* message at most is under way.                                           *)
(***************************************************************************)
EXTENDS ModbusMaster, TLAPS

Newest == [f \in Factors |-> sets + 1]

\* m brings no older factors than old.
NotOlder(m, old) == m.of = "param" => \A f \in Factors : m.value[f] >= old[f]

\* A write that is asked for sends the newest factors; those under way are in
\* the order of their age.
IInv ==
  /\ TypeOK
  /\ type = "param" \/ host = "stored" => param = Newest
  /\ host = "stored" => rxQueue = None
  /\ \A f \in Factors : supply[f] <= sets + 1
  /\ \A m \in {frame, request} : \A f \in Factors : m.value[f] <= sets + 1
  /\ NotOlder(request, supply) /\ NotOlder(frame, supply)
  /\ request.of = "param" => NotOlder(frame, request.value)

LEMMA Constants ==
  /\ PollLimit \in Nat /\ MaxSets \in Nat /\ MaxForwards \in Nat /\ MaxFaults \in Nat
  /\ Unread \in Values /\ Factory \in Values
  /\ \A t \in Types \cup {"refused"}, v \in Values : Msg(t, v) \in Message
<1>1. PollLimit \in Nat /\ MaxSets \in Nat /\ MaxForwards \in Nat /\ MaxFaults \in Nat
  BY ModbusAssumption DEF ModbusAssumption
<1>2. Unread \in Values /\ Factory \in Values
  BY <1>1 DEF Unread, Factory, Values
<1> QED BY <1>1, <1>2 DEF Message, Msg

LEMMA TypeInit == Init => TypeOK
<1> SUFFICES ASSUME Init PROVE TypeOK
  OBVIOUS
<1>1. {param, supply, asked} \subseteq Values
  BY Constants DEF Init
<1>2. {frame, request, reply, rx, rxQueue} \subseteq Message \cup {None}
  BY DEF Init
<1>3. /\ timing \in Timings /\ type \in Types /\ host \in {"idle", "stored"}
      /\ sender \in {"idle", "send", "fw", "ack"} /\ tries \in 1..2
  BY DEF Init, Types
<1>5. re \in BOOLEAN
  BY DEF Init
<1>4. /\ polls \in 0..PollLimit /\ sets \in 0..MaxSets /\ faults \in 0..MaxFaults
      /\ forwards \in 0..MaxForwards /\ fwQueue \in 0..forwards
  BY Constants DEF Init
<1> QED BY <1>1, <1>2, <1>3, <1>4, <1>5 DEF TypeOK

LEMMA HostStoreType == ASSUME TypeOK, NEW F \in Setters, HostStore(F) PROVE TypeOK'
<1>1. sets' \in 0..MaxSets /\ sets + 2 \in 0..(MaxSets + 1)
  BY Constants DEF TypeOK, HostStore
<1>2. param' \in Values /\ asked' \in Values
  BY <1>1 DEF TypeOK, HostStore, Values
<1> QED BY <1>1, <1>2 DEF TypeOK, HostStore, sendVars, fwVars, lineVars

LEMMA SendType == TypeOK /\ Send => TypeOK'
<1> SUFFICES ASSUME TypeOK, Send PROVE TypeOK'
  OBVIOUS
<1>1. CASE Build
  <2>1. \A v \in Values : Msg(type, v) \in Message
    BY Constants DEF TypeOK
  <2>2. frame' \in Message \cup {None}
    BY <1>1, <2>1, Constants DEF Build, TypeOK
  <2> QED BY <1>1, <2>2, Constants DEF Build, Waited, TypeOK, hostVars, fwVars
<1>2. CASE Transmit
  BY <1>2 DEF Transmit, TypeOK, hostVars, fwVars
<1>3. CASE FirmwareFrame
  <2>1. Msg("software", Unread) \in Message
    BY Constants DEF Types
  <2> QED BY <1>3, <2>1, Constants DEF FirmwareFrame, TypeOK, hostVars, lineVars
<1>4. CASE FirmwareAcked
  BY <1>4 DEF FirmwareAcked, TypeOK, hostVars, lineVars
<1>5. CASE FirmwareAgain
  BY <1>5, Constants DEF FirmwareAgain, Waited, TypeOK, hostVars, fwVars
<1>6. CASE FirmwareEnds
  BY <1>6, Constants DEF FirmwareEnds, Waited, SetType, TypeOK, Types, hostVars, fwVars
<1> QED BY <1>1, <1>2, <1>3, <1>4, <1>5, <1>6 DEF Send

LEMMA LineType ==
  TypeOK /\ ((\E t \in Types : Serve(t)) \/ Refuse \/ Answer \/ Received \/ Lose) => TypeOK'
<1> SUFFICES ASSUME TypeOK,
                    (\E t \in Types : Serve(t)) \/ Refuse \/ Answer \/ Received \/ Lose
             PROVE TypeOK'
  OBVIOUS
<1>1. ASSUME NEW t \in Types, Serve(t) PROVE TypeOK'
  <2>1. reply' \in Message
    BY <1>1, Constants DEF Serve, TypeOK
  <2>2. supply' \in Values
    <3>1. CASE t = "param"
      <4>1. request \in Message
        BY <1>1, <3>1 DEF TypeOK, Serve, None
      <4> QED BY <1>1, <3>1, <4>1 DEF Serve, Message
    <3> QED BY <1>1, <3>1 DEF Serve, TypeOK
  <2> QED BY <1>1, <2>1, <2>2 DEF Serve, TypeOK, hostVars, sendVars, fwVars
<1>2. CASE Refuse
  <2>1. Msg("refused", Unread) \in Message
    BY Constants
  <2> QED BY <1>2, <2>1, Constants DEF Refuse, TypeOK, hostVars, sendVars, fwVars
<1>3. CASE Answer
  BY <1>3 DEF Answer, TypeOK, hostVars, sendVars, fwVars
<1>4. CASE Received
  BY <1>4 DEF Received, TypeOK, hostVars, sendVars, fwVars
<1>5. CASE Lose
  BY <1>5, Constants DEF Lose, TypeOK, hostVars, sendVars, fwVars
<1> QED BY <1>1, <1>2, <1>3, <1>4, <1>5

LEMMA RecvType == TypeOK /\ Recv => TypeOK'
<1> SUFFICES ASSUME TypeOK, Recv PROVE TypeOK'
  OBVIOUS
<1> USE DEF TypeOK, SetType, Types, hostVars, sendVars, fwVars, lineVars
<1>1. CASE RecvProcess
  BY <1>1, Constants DEF RecvProcess
<1>2. CASE RecvVersion
  BY <1>2 DEF RecvVersion
<1>3. CASE RecvHold
  <2>1. rxQueue \in Message
    BY <1>3 DEF RecvHold, None
  <2> QED BY <1>3, <2>1 DEF RecvHold, Message
<1>4. CASE RecvWritten
  BY <1>4 DEF RecvWritten
<1>5. CASE RecvSoftware
  BY <1>5 DEF RecvSoftware
<1> QED BY <1>1, <1>2, <1>3, <1>4, <1>5 DEF Recv

LEMMA TypeStep == TypeOK /\ [Next]_vars => TypeOK'
<1> SUFFICES ASSUME TypeOK, [Next]_vars PROVE TypeOK'
  OBVIOUS
<1>1. CASE HostAsk
  BY <1>1 DEF HostAsk, TypeOK, Types, sendVars, fwVars, lineVars
<1>2. CASE Forward
  BY <1>2, Constants DEF Forward, SetType, TypeOK, Types, hostVars, sendVars, lineVars
<1>3. CASE UNCHANGED vars
  BY <1>3 DEF vars, TypeOK, hostVars, sendVars, fwVars, lineVars
<1> QED BY <1>1, <1>2, <1>3, HostStoreType, SendType, LineType, RecvType DEF Next

\* Every variable of the Modbus master keeps its type, whatever the line loses
\* and wherever a frame comes in.
THEOREM ModbusTypeCorrect == Spec => []TypeOK
<1> QED BY TypeInit, TypeStep, PTL DEF Spec

-----------------------------------------------------------------------------
(* One kind of step after the other, for hosts that set everything, uninterrupted.    *)
LEMMA InvInit == Init => IInv
<1> SUFFICES ASSUME Init PROVE IInv
  OBVIOUS
<1>1. None.of = "none" /\ \A f \in Factors : None.value[f] = 0
  BY DEF None, Unread
<1> QED BY <1>1, TypeInit DEF Init, IInv, NotOlder, Factory

LEMMA MessageValues ==
  ASSUME TypeOK
  PROVE  \A m \in {frame, request, reply, rx, rxQueue} : m.value \in Values
BY Constants DEF TypeOK, Message, None

LEMMA HostStoreInv ==
  ASSUME IInv, TypeOK', HostStore(Factors) PROVE IInv'
<1>1. sets \in Nat /\ sets' = sets + 1 /\ param' = Newest'
  BY DEF IInv, TypeOK, HostStore, Newest
<1>2. \A n \in Nat : n <= sets + 1 => n <= sets' + 1
  BY <1>1
<1>3. /\ \A f \in Factors : supply[f] \in Nat
      /\ \A m \in {frame, request} : \A f \in Factors : m.value[f] \in Nat
  BY MessageValues DEF IInv, TypeOK, Values
<1>4. UNCHANGED <<type, frame, request, rxQueue, supply>> /\ rxQueue = None
  BY DEF HostStore, sendVars, lineVars
<1>5. /\ \A f \in Factors : supply'[f] <= sets' + 1
      /\ \A m \in {frame', request'} : \A f \in Factors : m.value[f] <= sets' + 1
  BY <1>2, <1>3, <1>4 DEF IInv
<1> QED BY <1>1, <1>4, <1>5 DEF IInv, NotOlder

LEMMA HostAskInv == ASSUME IInv, TypeOK', HostAsk PROVE IInv'
BY DEF IInv, HostAsk, sendVars, lineVars, Newest, NotOlder

LEMMA ForwardInv == ASSUME IInv, TypeOK', Forward PROVE IInv'
BY DEF IInv, Forward, SetType, hostVars, sendVars, lineVars, Newest, NotOlder

LEMMA BuildInv == ASSUME IInv, TypeOK', Build PROVE IInv'
<1>1. CASE type = "software"
  BY <1>1 DEF IInv, Build, hostVars, lineVars, Newest, NotOlder
<1>2. CASE type # "software"
  <2>1. frame' = Msg(type, IF type = "param" THEN param ELSE Unread)
    BY <1>2 DEF Build
  <2>2. UNCHANGED <<type, param, host, sets, request, rxQueue, supply>>
    BY DEF Build, hostVars, lineVars
  <2>3. sets \in Nat
    BY DEF IInv, TypeOK
  <2>4. frame'.of = type /\ (type = "param" => frame'.value = Newest)
        /\ (type # "param" => frame'.value = Unread)
    BY <2>1 DEF Msg, IInv
  <2>5. \A f \in Factors : frame'.value[f] <= sets + 1
    BY <2>3, <2>4 DEF Newest, Unread
  <2>6. NotOlder(frame', supply) /\ NotOlder(frame', request.value)
    BY <2>3, <2>4, MessageValues DEF IInv, NotOlder, Newest, TypeOK, Values
  <2> QED BY <2>2, <2>5, <2>6 DEF IInv, Newest, NotOlder
<1> QED BY <1>1, <1>2

LEMMA TransmitInv == ASSUME IInv, TypeOK', Transmit PROVE IInv'
<1>1. \A f \in Factors : frame.value[f] \in Nat
  BY MessageValues DEF IInv, TypeOK, Values
<1> QED BY <1>1 DEF IInv, Transmit, hostVars, Newest, NotOlder

LEMMA FirmwareInv ==
  ASSUME IInv, TypeOK', FirmwareFrame \/ FirmwareAcked \/ FirmwareAgain \/ FirmwareEnds
  PROVE  IInv'
<1>1. CASE FirmwareFrame
  <2>1. frame' = Msg("software", Unread) /\ sets \in Nat
    BY <1>1 DEF FirmwareFrame, IInv, TypeOK
  <2>2. frame'.of # "param" /\ \A f \in Factors : frame'.value[f] <= sets + 1
    BY <2>1 DEF Msg, Unread
  <2> QED BY <1>1, <2>2 DEF IInv, FirmwareFrame, hostVars, lineVars, Newest, NotOlder
<1>2. CASE FirmwareAcked
  BY <1>2 DEF IInv, FirmwareAcked, hostVars, lineVars, Newest, NotOlder
<1>3. CASE FirmwareAgain
  BY <1>3 DEF IInv, FirmwareAgain, hostVars, lineVars, Newest, NotOlder
<1>4. CASE FirmwareEnds
  BY <1>4 DEF IInv, FirmwareEnds, SetType, hostVars, lineVars, Newest, NotOlder
<1> QED BY <1>1, <1>2, <1>3, <1>4

LEMMA ServeInv ==
  ASSUME IInv, TypeOK', NEW t \in Types, Serve(t)
  PROVE  IInv' /\ \A f \in Factors : supply'[f] >= supply[f]
<1>1. None.of = "none" /\ \A f \in Factors : None.value[f] = 0
  BY DEF None, Unread
<1>2. sets \in Nat /\ (\A f \in Factors : supply[f] \in Nat)
  BY DEF IInv, TypeOK, Values
<1>3. UNCHANGED <<type, param, host, sets, frame, rxQueue>> /\ request' = None
  BY DEF Serve, hostVars, sendVars
<1>4. CASE t = "param"
  <2>1. supply' = request.value /\ request.of = "param"
    BY <1>4 DEF Serve
  <2> QED BY <1>1, <1>2, <1>3, <2>1 DEF IInv, NotOlder, Newest
<1>5. CASE t # "param"
  <2>1. supply' = supply
    BY <1>5 DEF Serve
  <2> QED BY <1>1, <1>2, <1>3, <2>1 DEF IInv, NotOlder, Newest
<1> QED BY <1>4, <1>5

LEMMA LineInv ==
  ASSUME IInv, TypeOK', ~timing.interrupted, Refuse \/ Answer \/ Received \/ Lose
  PROVE  IInv'
<1>1. None.of = "none" /\ \A f \in Factors : None.value[f] = 0
  BY DEF None, Unread
<1>2. sets \in Nat /\ UNCHANGED <<type, param, host, sets, frame, supply>>
  BY DEF IInv, TypeOK, Refuse, Answer, Received, Lose, hostVars, sendVars
<1>3. request' \in {request, None}
  BY DEF Refuse, Answer, Received, Lose
<1>4. host = "stored" => rxQueue' = None
  BY DEF IInv, Refuse, Answer, Received, Lose
<1> QED BY <1>1, <1>2, <1>3, <1>4 DEF IInv, NotOlder, Newest

LEMMA RecvInv == ASSUME IInv, TypeOK', Recv PROVE IInv'
<1>1. UNCHANGED <<host, sets, frame, request, supply>>
  BY DEF Recv, RecvProcess, RecvVersion, RecvHold, RecvWritten, RecvSoftware,
         hostVars, sendVars, lineVars
<1>2. host # "stored"
  BY DEF IInv, None, Recv, RecvProcess, RecvVersion, RecvHold, RecvWritten, RecvSoftware
<1>3. type' = "param" => type = "param" /\ param' = param
  BY DEF Recv, RecvProcess, RecvVersion, RecvHold, RecvWritten, RecvSoftware, SetType
<1> QED BY <1>1, <1>2, <1>3 DEF IInv, NotOlder, Newest

LEMMA StepInv ==
  ASSUME Setters = {Factors}, ~timing.interrupted, IInv, [Next]_vars
  PROVE  IInv' /\ \A f \in Factors : supply'[f] >= supply[f]
<1>1. TypeOK'
  BY TypeStep DEF IInv
<1>2. \A f \in Factors : supply[f] \in Nat
  BY DEF IInv, TypeOK, Values
<1>3. CASE \E t \in Types : Serve(t)
  BY <1>1, <1>3, ServeInv
<1>4. CASE HostStore(Factors) \/ HostAsk \/ Forward
  <2>1. IInv'
    BY <1>1, <1>4, HostStoreInv, HostAskInv, ForwardInv
  <2>2. supply' = supply
    BY <1>4 DEF HostStore, HostAsk, Forward
  <2> QED BY <1>2, <2>1, <2>2
<1>5. CASE Send
  <2>1. IInv'
    BY <1>1, <1>5, BuildInv, TransmitInv, FirmwareInv DEF Send
  <2>2. supply' = supply
    BY <1>5 DEF Send, Build, Transmit, FirmwareFrame, FirmwareAcked, FirmwareAgain, FirmwareEnds
  <2> QED BY <1>2, <2>1, <2>2
<1>6. CASE Recv
  <2>1. IInv'
    BY <1>1, <1>6, RecvInv
  <2>2. supply' = supply
    BY <1>6 DEF Recv, RecvProcess, RecvVersion, RecvHold, RecvWritten, RecvSoftware
  <2> QED BY <1>2, <2>1, <2>2
<1>7. CASE Refuse \/ Answer \/ Received \/ Lose
  <2>1. IInv'
    BY <1>1, <1>7, LineInv DEF IInv, TypeOK
  <2>2. supply' = supply
    BY <1>7 DEF Refuse, Answer, Received, Lose
  <2> QED BY <1>2, <2>1, <2>2
<1>8. CASE UNCHANGED vars
  <2>1. IInv'
    BY <1>1, <1>8 DEF vars, hostVars, sendVars, lineVars, IInv, NotOlder, Newest
  <2>2. supply' = supply
    BY <1>8 DEF vars
  <2> QED BY <1>2, <2>1, <2>2
<1> QED BY <1>3, <1>4, <1>5, <1>6, <1>7, <1>8 DEF Next

-----------------------------------------------------------------------------
(* If answers are not late but a setter may be interrupted, a full read may *)
(* replace the factors between the setter's assignments, and then it is     *)
(* they that are written.  But there is one message on the line at most,    *)
(* so that these are still the supply's.                                    *)
OneMessage ==
  /\ sender \in {"fw", "send"} => Answered
  /\ request # None => reply = None /\ rx = None /\ rxQueue = None
  /\ reply # None => rx = None /\ rxQueue = None
  /\ rx # None => rxQueue = None
  /\ sender = "ack" => frame.of = "software"

\* m is no newer than what would be written next.
NotNewer(m) == m.of = "param" => \A f \in Factors : param[f] >= m.value[f]

OneInv ==
  /\ TypeOK /\ OneMessage
  /\ \A f \in Factors : supply[f] <= sets + 1 /\ param[f] <= sets + 1
  /\ \A m \in {frame, request} : \A f \in Factors : m.value[f] <= sets + 1
  /\ \A m \in {reply, rx, rxQueue} : m.of = "hold" => m.value = supply
  /\ NotOlder(request, supply) /\ (sender = "send" => NotOlder(frame, supply))
  /\ type = "param" \/ host = "stored" =>
       /\ \A f \in Factors : param[f] >= supply[f]
       /\ NotNewer(request) /\ (sender = "send" => NotNewer(frame))

LEMMA OneMessageStep ==
  ASSUME TypeOK, OneMessage, ~timing.late, [Next]_vars
  PROVE  OneMessage'
<1> USE DEF OneMessage, Answered
<1>0. None.of = "none" /\ \A v : \A t \in Types \cup {"refused"} : Msg(t, v) # None
  BY DEF None, Msg, Types
<1>1. CASE (\E F \in Setters : HostStore(F)) \/ HostAsk \/ Forward
  BY <1>1 DEF HostStore, HostAsk, Forward, SetType, sendVars, lineVars
<1>2. CASE Build
  BY <1>2 DEF Build, Waited
<1>3. CASE Transmit
  BY <1>3 DEF Transmit
<1>4. CASE FirmwareFrame \/ FirmwareAcked
  BY <1>4 DEF FirmwareFrame, FirmwareAcked, lineVars
<1>5. CASE FirmwareAgain
  BY <1>5 DEF FirmwareAgain, Waited
<1>6. CASE FirmwareEnds
  BY <1>6 DEF FirmwareEnds, SetType
<1>7. ASSUME NEW t \in Types, Serve(t) PROVE OneMessage'
  <2>1. request # None
    BY <1>0, <1>7 DEF Serve, Types
  <2> QED BY <1>7, <2>1 DEF Serve, sendVars
<1>8. CASE Refuse \/ Answer \/ Received \/ Lose
  BY <1>8 DEF Refuse, Answer, Received, Lose, sendVars
<1>9. CASE Recv
  <2>1. UNCHANGED <<sender, frame, request, reply, rx>> /\ rxQueue # None /\ rxQueue' = None
    BY <1>0, <1>9 DEF Recv, RecvProcess, RecvVersion, RecvHold, RecvWritten, RecvSoftware,
       SetType, sendVars, lineVars
  <2> QED BY <2>1
<1>10. CASE UNCHANGED vars
  BY <1>10 DEF vars, sendVars, lineVars
<1> QED BY <1>1, <1>2, <1>3, <1>4, <1>5, <1>6, <1>7, <1>8, <1>9, <1>10 DEF Next, Send

LEMMA OneInit == Init => OneInv
<1> SUFFICES ASSUME Init PROVE OneInv
  OBVIOUS
<1>1. None.of = "none" /\ \A f \in Factors : None.value[f] = 0
  BY DEF None, Unread
<1>2. OneMessage
  BY DEF Init, OneMessage
<1> QED BY <1>1, <1>2, TypeInit DEF Init, OneInv, NotOlder, NotNewer, Factory, Unread

LEMMA OneNumbers ==
  ASSUME TypeOK
  PROVE  /\ sets \in Nat
         /\ \A f \in Factors :
              /\ supply[f] \in Nat /\ param[f] \in Nat
              /\ \A m \in {frame, request, reply, rx, rxQueue} : m.value[f] \in Nat
BY MessageValues DEF TypeOK, Values

LEMMA OneHosts ==
  ASSUME OneInv, TypeOK', OneMessage', HostStore(Factors) \/ HostAsk \/ Forward
  PROVE  OneInv'
<1>1. UNCHANGED <<sender, frame, request, reply, rx, supply>> /\ rxQueue' = None
  BY DEF HostStore, HostAsk, Forward, SetType, sendVars, lineVars
<1>2. None.of = "none"
  BY DEF None
<1>3. CASE HostStore(Factors)
  <2>1. sets' = sets + 1 /\ \A f \in Factors : param'[f] = sets + 2
    BY <1>3 DEF HostStore
  <2>2. /\ \A f \in Factors :
             param'[f] >= supply[f] /\ supply[f] <= sets' + 1 /\ param'[f] <= sets' + 1
        /\ \A m \in {frame, request} : \A f \in Factors :
             m.value[f] <= sets' + 1 /\ param'[f] >= m.value[f]
    BY <2>1, OneNumbers DEF OneInv
  <2> QED BY <1>1, <1>2, <2>2 DEF OneInv, NotOlder, NotNewer
<1>4. CASE HostAsk
  <2>1. UNCHANGED <<param, sets>> /\ host = "stored"
    BY <1>4 DEF HostAsk
  <2> QED BY <1>1, <1>2, <2>1 DEF OneInv, NotOlder, NotNewer
<1>5. CASE Forward
  <2>1. UNCHANGED <<param, sets, host>> /\ type' = "software"
    BY <1>5 DEF Forward, SetType, hostVars
  <2> QED BY <1>1, <1>2, <2>1 DEF OneInv, NotOlder, NotNewer
<1> QED BY <1>3, <1>4, <1>5

LEMMA OneSends ==
  ASSUME OneInv, TypeOK', OneMessage', ~timing.late, Send
  PROVE  OneInv'
<1>0. None.of = "none" /\ \A f \in Factors : None.value[f] = 0
  BY DEF None, Unread
<1>1. CASE Build
  <2>1. Answered /\ UNCHANGED <<type, param, host, sets, request, reply, rx, rxQueue, supply>>
    BY <1>1 DEF Build, Waited, hostVars
  <2>2. CASE type = "software"
    <3>1. frame' = frame /\ sender' = "fw"
      BY <1>1, <2>2 DEF Build
    <3> QED BY <2>1, <3>1 DEF OneInv, NotOlder, NotNewer
  <2>3. CASE type # "software"
    <3>1. frame'.of = type /\ frame'.value = (IF type = "param" THEN param ELSE Unread)
      BY <1>1, <2>3 DEF Build, Msg
    <3>2. type = "param" => \A f \in Factors : param[f] >= supply[f]
      BY DEF OneInv
    <3>3. \A f \in Factors : frame'.value[f] <= sets + 1
      BY <3>1, OneNumbers DEF OneInv, Unread
    <3> QED BY <2>1, <3>1, <3>2, <3>3, OneNumbers DEF OneInv, NotOlder, NotNewer
  <2> QED BY <2>2, <2>3
<1>2. CASE Transmit
  <2>1. /\ sender = "send" /\ request' = frame /\ reply' = None /\ sender' \in {"idle", "ack"}
        /\ UNCHANGED <<type, param, host, sets, frame, rx, rxQueue, supply>>
    BY <1>2 DEF Transmit, hostVars
  <2> QED BY <1>0, <2>1 DEF OneInv, NotOlder, NotNewer
<1>3. CASE FirmwareFrame
  <2>1. frame'.of = "software" /\ frame'.value = Unread
    BY <1>3 DEF FirmwareFrame, Msg
  <2>2. UNCHANGED <<type, param, host, sets, request, reply, rx, rxQueue, supply>>
    BY <1>3 DEF FirmwareFrame, hostVars, lineVars
  <2>3. \A f \in Factors : frame'.value[f] <= sets + 1
    BY <2>1, OneNumbers DEF OneInv, Unread
  <2> QED BY <2>1, <2>2, <2>3 DEF OneInv, NotOlder, NotNewer
<1>4. CASE FirmwareAcked
  BY <1>4 DEF FirmwareAcked, OneInv, NotOlder, NotNewer, hostVars, lineVars
<1>5. CASE FirmwareAgain
  <2>1. frame.of = "software"
    BY <1>5 DEF FirmwareAgain, OneInv, OneMessage
  <2> QED BY <1>5, <2>1 DEF FirmwareAgain, OneInv, NotOlder, NotNewer, hostVars
<1>6. CASE FirmwareEnds
  <2>1. /\ type' = "version" /\ sender' = "idle" /\ rxQueue' \in {None, rxQueue}
        /\ UNCHANGED <<param, host, sets, frame, request, reply, rx, supply>>
    BY <1>6 DEF FirmwareEnds, SetType, hostVars
  <2> QED BY <1>0, <2>1 DEF OneInv, NotOlder, NotNewer
<1> QED BY <1>1, <1>2, <1>3, <1>4, <1>5, <1>6 DEF Send

LEMMA OneServes ==
  ASSUME OneInv, TypeOK', OneMessage', NEW t \in Types, Serve(t)
  PROVE  OneInv' /\ \A f \in Factors : supply'[f] >= supply[f]
<1>1. None.of = "none" /\ \A f \in Factors : None.value[f] = 0
  BY DEF None, Unread
<1>2. request # None /\ rx = None /\ rxQueue = None /\ sender # "send"
  BY <1>1 DEF Serve, Types, OneInv, OneMessage, Answered
<1>3. /\ UNCHANGED <<type, param, host, sets, sender, frame, rx, rxQueue>> /\ request' = None
      /\ reply'.of = t /\ reply'.value = (IF t = "hold" THEN supply ELSE Unread)
  BY DEF Serve, Msg, hostVars, sendVars
<1>4. CASE t = "param"
  <2>1. supply' = request.value /\ request.of = "param"
    BY <1>4 DEF Serve
  <2>2. \A f \in Factors : supply'[f] >= supply[f] /\ supply'[f] <= sets + 1
    BY <2>1 DEF OneInv, NotOlder
  <2>3. reply'.of # "hold"
    BY <1>3, <1>4
  <2>4. type = "param" \/ host = "stored" => \A f \in Factors : param[f] >= supply'[f]
    BY <2>1 DEF OneInv, NotNewer
  <2>5. OneInv'
    BY <1>1, <1>2, <1>3, <2>2, <2>3, <2>4, OneNumbers DEF OneInv, NotOlder, NotNewer
  <2> QED BY <2>2, <2>5
<1>5. CASE t # "param"
  <2>1. supply' = supply
    BY <1>5 DEF Serve
  <2> QED BY <1>1, <1>2, <1>3, <2>1, OneNumbers DEF OneInv, NotOlder, NotNewer
<1> QED BY <1>4, <1>5

LEMMA OneLine ==
  ASSUME OneInv, TypeOK', OneMessage', Refuse \/ Answer \/ Received \/ Lose
  PROVE  OneInv'
<1>1. None.of = "none" /\ \A f \in Factors : None.value[f] = 0
  BY DEF None, Unread
<1>2. UNCHANGED <<type, param, host, sets, sender, frame, supply>> /\ request' \in {request, None}
  BY DEF Refuse, Answer, Received, Lose, hostVars, sendVars
<1>3. \A m \in {reply', rx', rxQueue'} : m.of = "hold" => m \in {reply, rx, rxQueue}
  BY <1>1 DEF Refuse, Answer, Received, Lose, Msg
<1>4. sets \in Nat
  BY OneNumbers DEF OneInv
<1> QED BY <1>1, <1>2, <1>3, <1>4 DEF OneInv, NotOlder, NotNewer

\* The answer to a full read: what it puts back is what the supply has.
LEMMA OneReceives ==
  ASSUME OneInv, TypeOK', OneMessage', Recv
  PROVE  OneInv'
<1>1. None.of = "none"
  BY DEF None
<1>2. UNCHANGED <<host, sets, sender, frame, request, reply, rx, supply>> /\ rxQueue' = None
  BY DEF Recv, RecvProcess, RecvVersion, RecvHold, RecvWritten, RecvSoftware, SetType,
         hostVars, sendVars, lineVars
<1>3. CASE RecvHold
  <2>1. param' = rxQueue.value /\ rxQueue.of = "hold" /\ rxQueue # None
    BY <1>1, <1>3 DEF RecvHold
  <2>2. param' = supply
    BY <2>1 DEF OneInv
  <2>3. request = None /\ sender # "send"
    BY <2>1 DEF OneInv, OneMessage, Answered
  <2> QED BY <1>1, <1>2, <2>2, <2>3, OneNumbers DEF OneInv, NotOlder, NotNewer
<1>4. CASE ~RecvHold
  <2>1. param' = param /\ (type' = "param" => type = "param")
    BY <1>4 DEF Recv, RecvProcess, RecvVersion, RecvWritten, RecvSoftware, SetType
  <2> QED BY <1>1, <1>2, <2>1 DEF OneInv, NotOlder, NotNewer
<1> QED BY <1>3, <1>4

LEMMA OneStep ==
  ASSUME Setters = {Factors}, OneInv, ~timing.late, [Next]_vars
  PROVE  OneInv' /\ \A f \in Factors : supply'[f] >= supply[f]
<1>1. TypeOK' /\ OneMessage'
  BY TypeStep, OneMessageStep DEF OneInv
<1>2. CASE \E t \in Types : Serve(t)
  BY <1>1, <1>2, OneServes
<1>3. CASE Next /\ ~(\E t \in Types : Serve(t))
  <2>1. OneInv'
    BY <1>1, <1>3, OneHosts, OneSends, OneLine, OneReceives DEF Next
  <2>2. supply' = supply
    BY <1>3 DEF Next, HostStore, HostAsk, Forward, Send, Build, Transmit, FirmwareFrame,
       FirmwareAcked, FirmwareAgain, FirmwareEnds, Recv, RecvProcess, RecvVersion, RecvHold,
       RecvWritten, RecvSoftware, Refuse, Answer, Received, Lose
  <2> QED BY <2>1, <2>2, OneNumbers DEF OneInv
<1>4. CASE UNCHANGED vars
  <2>1. OneInv'
    BY <1>1, <1>4 DEF vars, hostVars, sendVars, lineVars, OneInv, NotOlder, NotNewer
  <2>2. supply' = supply
    BY <1>4 DEF vars
  <2> QED BY <2>1, <2>2, OneNumbers DEF OneInv
<1> QED BY <1>2, <1>3, <1>4

-----------------------------------------------------------------------------
\* Which of the two it is does not change.
ForwardInvariant == TypeOK /\ IF timing.interrupted THEN OneInv ELSE IInv

\* The supply never goes back to older factors, for any number of calls,
\* faults and firmware frames, if hosts set all factors at once, and answers
\* that come late and frames that come in between a setter's two assignments
\* do not come together.
THEOREM SupplyForwardCorrect ==
  ASSUME Setters = {Factors}, \A t \in Timings : ~(t.late /\ t.interrupted)
  PROVE  Spec => SupplyForward
<1>1. Init => ForwardInvariant
  BY TypeInit, InvInit, OneInit DEF ForwardInvariant
<1>2. ASSUME ForwardInvariant, [Next]_vars
      PROVE  ForwardInvariant' /\ \A f \in Factors : supply'[f] >= supply[f]
  <2>1. timing' = timing
    BY <1>2 DEF Next, vars, HostStore, HostAsk, Forward, Send, Build, Transmit, FirmwareFrame,
       FirmwareAcked, FirmwareAgain, FirmwareEnds, Recv, RecvProcess, RecvVersion, RecvHold,
       RecvWritten, RecvSoftware, Serve, Refuse, Answer, Received, Lose
  <2>2. TypeOK'
    BY <1>2, TypeStep DEF ForwardInvariant
  <2>3. CASE timing.interrupted
    <3>1. ~timing.late /\ OneInv
      BY <1>2, <2>3 DEF ForwardInvariant, TypeOK
    <3> QED BY <1>2, <2>1, <2>2, <2>3, <3>1, OneStep DEF ForwardInvariant
  <2>4. CASE ~timing.interrupted
    <3>1. IInv
      BY <1>2, <2>4 DEF ForwardInvariant
    <3> QED BY <1>2, <2>1, <2>2, <2>4, <3>1, StepInv DEF ForwardInvariant
  <2> QED BY <2>3, <2>4
<1>3. ForwardInvariant /\ [Next]_vars => ForwardInvariant'
  BY <1>2
<1>4. ForwardInvariant /\ [Next]_vars => [\A f \in Factors : supply'[f] >= supply[f]]_vars
  BY <1>2
<1> QED BY <1>1, <1>3, <1>4, PTL DEF Spec, SupplyForward
=============================================================================
