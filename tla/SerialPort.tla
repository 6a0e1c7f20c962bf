----------------------------- MODULE SerialPort -----------------------------
(***************************************************************************)
(* A serial port as a whole: one interrupt handler receives (LinkReceive)  *)
(* and sends (LinkTransmit), and whatever octet comes in, of the host's or *)
(* of the line's, may run the handler's sending branch as well.  The two   *)
(* directions share nothing else, and the port's task does one thing at a  *)
(* time: it takes a frame or sends one.                                    *)
(***************************************************************************)
EXTENDS LinkTransmit

CONSTANTS Contents, QueueLen, MaxFaults

VARIABLES f, p, late, faults, flag, buf, queue, handled, dropped, clean

R == INSTANCE LinkReceive

rxState == <<f, p, late, faults, flag, buf, queue, handled, dropped, clean>>
portState == <<vars, rxState>>

ASSUME PortAssumption == R!ReceiveConstants

PortInit == Init /\ R!Init

-----------------------------------------------------------------------------
\* USER_UART_Callback: reception first, then the branch for sending.
OctetIn == (R!SendOctet \/ R!Damaged \/ R!Added) /\ RxInterrupt

\* What the handler does when the data register has become empty.
OctetOut == TxInterrupt /\ UNCHANGED rxState

Build == (LoadLen \/ StoreOctet \/ EnableTx) /\ UNCHANGED rxState

\* The task of the port, between two frames that it sends.
TakeFrame == at = "wait" /\ R!Handle /\ UNCHANGED vars

Outside ==
  \/ (R!NextFrame \/ R!Pause \/ R!Lost \/ R!Stopped) /\ UNCHANGED vars
  \/ (Shift \/ Pass) /\ UNCHANGED rxState

PortNext ==
  \/ OctetIn
  \/ OctetOut
  \/ Begin /\ UNCHANGED rxState
  \/ Build
  \/ TakeFrame
  \/ Outside

\* As in LinkTransmit; nobody is bound to send octets to the port.
PortSpec ==
  /\ PortInit /\ [][PortNext]_portState
  /\ WF_portState(Build) /\ WF_portState(OctetOut)
  /\ WF_portState(Shift /\ UNCHANGED rxState)
  /\ WF_portState(Pass /\ UNCHANGED rxState)

-----------------------------------------------------------------------------
\* LinkReceive's two promises, of a port that sends at the same time.
Resynchronises == R!Resynchronises
PauseHeals == R!PauseHeals
=============================================================================
