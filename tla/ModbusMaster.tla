---------------------------- MODULE ModbusMaster ----------------------------
(***************************************************************************)
(* The master of the RS-485 bus to the AC/DC supply (ModBus.c).  One       *)
(* variable, ModBusSendType, says which request ModbusSend sends next; it  *)
(* is assigned by every answer (ModbusRecv), by every setter (the hosts'   *)
(* tasks) and by the firmware update.  Send and Recv have priority 4, the  *)
(* hosts 2 and 3: a host's task runs only while Recv has no frame waiting, *)
(* and may be interrupted between its two assignments.                     *)
(*                                                                         *)
(* The supply is external: it serves the last request it heard, once, and  *)
(* a request takes longer on the line than Recv takes for a frame or a     *)
(* setter for its assignments.  Factors are below 65 536 000, so that the  *)
(* two 16-bit registers of a factor hold its thousands and the rest.       *)
(***************************************************************************)
EXTENDS Naturals

CONSTANTS
  Factors,     \* the calibration factors in a write of parameters
  Setters,     \* the sets of factors a host sets in one call
  PollLimit,   \* the process answers before the next full read (100)
  Timings,     \* whether answers may be late, and setters interrupted
  MaxFaults,   \* bound: frames lost or refused, and answers that are late
  MaxSets,     \* bound: calls of a setter
  MaxForwards  \* bound: firmware frames for the supply

ASSUME ModbusAssumption ==
  /\ Setters \subseteq SUBSET Factors
  /\ PollLimit \in Nat /\ MaxSets \in Nat /\ MaxForwards \in Nat
  /\ MaxFaults \in Nat
  /\ Timings \subseteq [late : BOOLEAN,        \* an answer may take longer than the sender waits
                        interrupted : BOOLEAN] \* a frame may be received inside a setter

VARIABLES
  timing,    \* which of Timings it is
  type,      \* ModBusSendType
  polls,     \* ModbusSendTypeTimer
  param,     \* ModbusParam; the n-th call of a setter sets the value n + 1
  host,      \* where a host's setter is
  asked,     \* ghost: the value last set, per factor; 0 if none was
  sets,      \* calls of a setter so far
  sender,    \* where ModbusSend is
  frame,     \* ModBuffer, the request built last
  tries,     \* sendings of the firmware frame in hand
  fwQueue,   \* frames in ModbusFWQueue
  forwards,  \* frames forwarded so far
  re,        \* ModbusReSemaphore
  request,   \* the request the supply has heard and not served
  reply,     \* the supply's answer, not yet begun
  rx,        \* g_RxBuf: the answer being received, its flag set
  rxQueue,   \* ModbusRxQueue
  faults,    \* faults so far
  supply     \* the factors in the supply

hostVars == <<host, asked, sets>>
sendVars == <<sender, frame, tries>>
fwVars == <<fwQueue, forwards, re>>
lineVars == <<request, reply, rx, faults>>
vars == <<timing, type, polls, param, hostVars, sendVars, fwVars, lineVars, rxQueue, supply>>

Types == {"version", "hold", "process", "param", "software"}
Values == [Factors -> 0..(MaxSets + 1)]
Unread == [f \in Factors |-> 0]  \* ModbusParam before the first answer
Factory == [f \in Factors |-> 1] \* what the supply was made with

Message == [of : Types \cup {"refused"}, value : Values]
None == [of |-> "none", value |-> Unread]
Msg(of, value) == [of |-> of, value |-> value]

TypeOK ==
  /\ timing \in Timings
  /\ type \in Types /\ polls \in 0..PollLimit
  /\ {param, supply, asked} \subseteq Values
  /\ host \in {"idle", "stored"} /\ sets \in 0..MaxSets
  /\ sender \in {"idle", "send", "fw", "ack"} /\ tries \in 1..2
  /\ forwards \in 0..MaxForwards /\ fwQueue \in 0..forwards /\ re \in BOOLEAN
  /\ faults \in 0..MaxFaults
  /\ {frame, request, reply, rx, rxQueue} \subseteq Message \cup {None}

Init ==
  /\ timing \in Timings
  /\ type = "version" /\ polls = 0
  /\ param = Unread /\ supply = Factory /\ asked = Unread
  /\ host = "idle" /\ sets = 0
  /\ sender = "idle" /\ frame = None /\ tries = 1
  /\ fwQueue = 0 /\ forwards = 0 /\ re = FALSE
  /\ request = None /\ reply = None /\ rx = None /\ rxQueue = None /\ faults = 0

\* IF_ACDC_SetParamsRWType: a change of type empties the receive queue, here
\* left as q otherwise.
SetType(t, q) ==
  /\ type' = t
  /\ rxQueue' = IF t # type THEN None ELSE q

-----------------------------------------------------------------------------
(* The hosts.  A setter stores its factors, then asks for their writing.   *)
HostStore(F) ==
  /\ host = "idle" /\ rxQueue = None /\ sets < MaxSets
  /\ sets' = sets + 1
  /\ param' = [f \in Factors |-> IF f \in F THEN sets + 2 ELSE param[f]]
  /\ asked' = [f \in Factors |-> IF f \in F THEN sets + 2 ELSE asked[f]]
  /\ host' = "stored"
  /\ UNCHANGED <<timing, type, polls, sendVars, fwVars, lineVars, rxQueue, supply>>

HostAsk ==
  /\ host = "stored" /\ rxQueue = None
  /\ type' = "param"
  /\ host' = "idle"
  /\ UNCHANGED <<timing, polls, param, asked, sets, sendVars, fwVars, lineVars, rxQueue, supply>>

\* A firmware frame for the supply is forwarded.  The request type is set up
\* to 800 ticks before the frame is queued, when the semaphore comes; here
\* both are one step.  What may happen in between is in FirmwareForward.
Forward ==
  /\ host = "idle" /\ rxQueue = None /\ forwards < MaxForwards
  /\ SetType("software", rxQueue)
  /\ forwards' = forwards + 1 /\ fwQueue' = fwQueue + 1
  /\ UNCHANGED <<timing, polls, param, hostVars, sendVars, re, lineVars, supply>>

-----------------------------------------------------------------------------
(* ModbusSend.                                                             *)
Answered == request = None /\ reply = None /\ rx = None /\ rxQueue = None

\* The sender has waited for its answer, which may be late.
Waited ==
  \/ Answered /\ UNCHANGED faults
  \/ ~Answered /\ timing.late /\ faults < MaxFaults /\ faults' = faults + 1

\* Every 100 ticks.
Build ==
  /\ sender = "idle" /\ Waited
  /\ IF type = "software"
     THEN sender' = "fw" /\ UNCHANGED frame
     ELSE /\ sender' = "send"
          /\ frame' = Msg(type, IF type = "param" THEN param ELSE Unread)
  /\ UNCHANGED <<timing, type, polls, param, hostVars, tries, fwVars, request, reply, rx, rxQueue, supply>>

\* RS485_SendData waits while an answer is being received.  A request that
\* was not served, or an answer not begun, is lost to the new request.
Transmit ==
  /\ sender = "send" /\ rx = None
  /\ request' = frame /\ reply' = None
  /\ sender' = IF frame.of = "software" THEN "ack" ELSE "idle"
  /\ UNCHANGED <<timing, type, polls, param, hostVars, frame, tries, fwVars, rx, faults, rxQueue, supply>>

FirmwareFrame ==
  /\ sender = "fw" /\ fwQueue > 0
  /\ fwQueue' = fwQueue - 1
  /\ frame' = Msg("software", Unread) /\ tries' = 1 /\ sender' = "send"
  /\ UNCHANGED <<timing, type, polls, param, hostVars, forwards, re, lineVars, rxQueue, supply>>

FirmwareAcked ==
  /\ sender = "ack" /\ re
  /\ re' = FALSE /\ sender' = "idle"
  /\ UNCHANGED <<timing, type, polls, param, hostVars, frame, tries, fwQueue, forwards, lineVars, rxQueue, supply>>

FirmwareAgain ==
  /\ sender = "ack" /\ ~re /\ Waited /\ tries = 1
  /\ tries' = 2 /\ sender' = "send"
  /\ UNCHANGED <<timing, type, polls, param, hostVars, frame, fwVars, request, reply, rx, rxQueue, supply>>

\* Mutant of FirmwareEnds: the type is left at the firmware's.
FirmwareNeverEnds ==
  /\ \/ sender = "fw" /\ fwQueue = 0 /\ UNCHANGED faults
     \/ sender = "ack" /\ ~re /\ Waited /\ tries = 2
  /\ sender' = "idle"
  /\ UNCHANGED <<timing, type, polls, param, hostVars, frame, tries, fwVars, request, reply, rx, rxQueue, supply>>

\* No frame for 5000 ticks, or no answer to two sendings.
FirmwareEnds ==
  /\ \/ sender = "fw" /\ fwQueue = 0 /\ UNCHANGED faults
     \/ sender = "ack" /\ ~re /\ Waited /\ tries = 2
  /\ SetType("version", rxQueue)
  /\ sender' = "idle"
  /\ UNCHANGED <<timing, polls, param, hostVars, frame, tries, fwVars, request, reply, rx, supply>>

-----------------------------------------------------------------------------
(* The supply and the line.                                                *)
Serve(t) ==
  /\ request.of = t /\ rxQueue = None /\ host = "idle"
  /\ supply' = IF t = "param" THEN request.value ELSE supply
  /\ reply' = Msg(t, IF t = "hold" THEN supply ELSE Unread)
  /\ request' = None
  /\ UNCHANGED <<timing, type, polls, param, hostVars, sendVars, fwVars, rx, faults, rxQueue>>

\* An exception answer: the function code is none of the known ones.
Refuse ==
  /\ faults < MaxFaults /\ request # None /\ rxQueue = None /\ host = "idle"
  /\ faults' = faults + 1
  /\ reply' = Msg("refused", Unread)
  /\ request' = None
  /\ UNCHANGED <<timing, type, polls, param, hostVars, sendVars, fwVars, rx, rxQueue, supply>>

\* The first character of an answer sets the flag of the receive buffer.
Answer ==
  /\ reply # None /\ rx = None
  /\ rx' = reply /\ reply' = None
  /\ UNCHANGED <<timing, type, polls, param, hostVars, sendVars, fwVars, request, faults, rxQueue, supply>>

\* Five ticks without a character: the frame goes to the queue.
Received ==
  /\ rx # None /\ rxQueue = None
  /\ host = "stored" => timing.interrupted
  /\ rxQueue' = rx /\ rx' = None
  /\ UNCHANGED <<timing, type, polls, param, hostVars, sendVars, fwVars, request, reply, faults, supply>>

\* A request is not heard, an answer not sent or its checksum wrong.
Lose ==
  /\ faults < MaxFaults /\ rxQueue = None /\ host = "idle"
  /\ faults' = faults + 1
  /\ \/ request # None /\ request' = None /\ UNCHANGED <<reply, rx>>
     \/ reply # None /\ reply' = None /\ UNCHANGED <<request, rx>>
     \/ rx # None /\ rx' = None /\ UNCHANGED <<request, reply>>
  /\ UNCHANGED <<timing, type, polls, param, hostVars, sendVars, fwVars, rxQueue, supply>>

-----------------------------------------------------------------------------
(* ModbusRecv: Dealwith_Modbus_Service.                                    *)
\* Mutant of RecvProcess: the full read is never asked for again.
RecvProcessOnly ==
  /\ rxQueue.of = "process"
  /\ rxQueue' = None
  /\ UNCHANGED <<timing, type, polls, param, hostVars, sendVars, fwVars, lineVars, supply>>

\* An answer of process data counts; every PollLimit + 1 lead to a full read.
RecvProcess ==
  /\ rxQueue.of = "process"
  /\ IF polls = PollLimit
     THEN polls' = 0 /\ SetType("version", None)
     ELSE polls' = polls + 1 /\ rxQueue' = None /\ UNCHANGED type
  /\ UNCHANGED <<timing, param, hostVars, sendVars, fwVars, lineVars, supply>>

RecvVersion ==
  /\ rxQueue.of = "version"
  /\ SetType("hold", None)
  /\ UNCHANGED <<timing, polls, param, hostVars, sendVars, fwVars, lineVars, supply>>

\* Mutant of RecvHold: a write that was asked for in the meantime is kept.
RecvHoldKeepsWrite ==
  /\ rxQueue.of = "hold"
  /\ param' = rxQueue.value /\ rxQueue' = None
  /\ type' = IF type = "param" THEN type ELSE "process"
  /\ UNCHANGED <<timing, polls, hostVars, sendVars, fwVars, lineVars, supply>>

\* The answer of a full read replaces the factors, and whatever was to be
\* sent next.
RecvHold ==
  /\ rxQueue.of = "hold"
  /\ param' = rxQueue.value
  /\ SetType("process", None)
  /\ UNCHANGED <<timing, polls, hostVars, sendVars, fwVars, lineVars, supply>>

RecvWritten ==
  /\ rxQueue.of \in {"param", "refused"}
  /\ SetType("process", None)
  /\ UNCHANGED <<timing, polls, param, hostVars, sendVars, fwVars, lineVars, supply>>

RecvSoftware ==
  /\ rxQueue.of = "software"
  /\ re' = TRUE
  /\ SetType("software", None)
  /\ UNCHANGED <<timing, polls, param, hostVars, sendVars, fwQueue, forwards, lineVars, supply>>

-----------------------------------------------------------------------------
Send == Build \/ Transmit \/ FirmwareFrame \/ FirmwareAcked \/ FirmwareAgain \/ FirmwareEnds
Recv == RecvProcess \/ RecvVersion \/ RecvHold \/ RecvWritten \/ RecvSoftware

Next ==
  \/ \E F \in Setters : HostStore(F)
  \/ HostAsk \/ Forward
  \/ Send \/ Recv
  \/ \E t \in Types : Serve(t)
  \/ Refuse \/ Answer \/ Received \/ Lose

Spec == Init /\ [][Next]_vars

\* The tasks run, and the supply serves what it has heard and answers.
FairSpec ==
  /\ Spec
  /\ WF_vars(HostAsk) /\ WF_vars(Send) /\ WF_vars(Recv)
  /\ WF_vars(\E t \in Types : Serve(t)) /\ WF_vars(Answer) /\ WF_vars(Received)

-----------------------------------------------------------------------------
\* A factor of the supply never goes back to an older value: a full read that
\* puts older factors back into ModbusParam also takes back the write that was
\* to send them.  This is so for hosts that set all factors at once, if late
\* answers and interrupted setters do not come together.
SupplyForward == [][\A f \in Factors : supply'[f] >= supply[f]]_vars

\* Whatever was lost, refused or overwritten, the process data are asked for
\* again and again: no type is a dead end, the firmware's included.
PollsReturn == []<>(type = "process")

\* Once no factor is set any more, what a host reads of the factors becomes,
\* and remains, what the supply has.
ShownIsSupply == <>[](param = supply)

\* A factor no host has set keeps the value the supply was made with.
UnsetKept == \A f \in Factors : asked[f] = 0 => supply[f] = Factory[f]

\* A factor that was set reaches the supply, unless it is set again.
SetReaches ==
  \A f \in Factors, n \in 2..(MaxSets + 1) :
    asked[f] = n ~> supply[f] = n \/ asked[f] > n
=============================================================================
