---------------------------- MODULE LinkTransmit ----------------------------
(***************************************************************************)
(* Sending of frames over a serial port (fgipv2_layer2.c): a task puts the *)
(* octets of a frame into g_TxBuf and enables the interrupt, which sends   *)
(* one octet whenever the data register is empty, and clears the buffer    *)
(* when it has sent as many as there are.  The port's one handler serves   *)
(* reception too, and does not ask which of the two has called it: a       *)
(* character that comes in sends one if the data register is empty.        *)
(*                                                                         *)
(* Interrupts come between any two steps of the task, which tasks of       *)
(* higher priority may hold up, and at once when the data register is      *)
(* empty; a memset that one interrupts has the same outcome.  An octet is  *)
(* appended in two steps, since nothing keeps a compiler from loading the  *)
(* length before the octet.  Time is counted in characters on the line.    *)
(***************************************************************************)
EXTENDS Integers, Sequences

CONSTANTS
  Sizes,     \* octets of each frame, flags and escapes included
  Gap,       \* characters between a frame's start and the next frame
  RxInBuild, \* bound: characters that come in while a frame is built
  BufferSize \* octets of g_TxBuf (520)

Frames == 1..Len(Sizes)
Size(f) == IF f = 0 THEN 0 ELSE Sizes[f]

ASSUME LinkAssumption ==
  /\ BufferSize \in Nat \ {0}
  /\ Sizes \in Seq(1..BufferSize)
  /\ Gap \in Nat /\ RxInBuild \in Nat

VARIABLES
  at,    \* where the task is in SendLayer2Frame
  n,     \* the frame it builds or has built last
  pos,   \* how many of its octets it has appended
  reg,   \* the length as loaded
  data,  \* g_TxBuf: the octets,
  len,   \*   how many there are
  idx,   \*   and how many were sent
  int,   \* whether the transmit interrupt is enabled
  full,  \* whether the data register holds an octet
  line,  \* the octet sent last
  since, \* characters since the interrupt was enabled, up to Gap
  rx     \* characters that came in during this build

taskVars == <<at, n, pos, reg, rx>>
bufVars == <<data, len, idx>>
portVars == <<int, full, line>>
vars == <<taskVars, bufVars, portVars, since>>

\* The i-th octet of frame f; none is <<0, 0>>.
None == <<0, 0>>
Octets == {None} \cup (Frames \X (1..BufferSize))
Cleared == [k \in 0..(BufferSize - 1) |-> None]

TypeOK ==
  /\ at \in {"wait", "load", "store", "enable"}
  /\ n \in 0..Len(Sizes) /\ pos \in 0..Size(n)
  /\ reg \in 0..(BufferSize - 1)
  /\ data \in [0..(BufferSize - 1) -> Octets]
  /\ len \in 0..BufferSize /\ idx \in 0..len
  /\ int \in BOOLEAN /\ full \in BOOLEAN /\ line \in Octets
  /\ since \in 0..Gap /\ rx \in 0..RxInBuild

Init ==
  /\ at = "wait" /\ n = 0 /\ pos = 0 /\ reg = 0 /\ rx = 0
  /\ data = Cleared /\ len = 0 /\ idx = 0
  /\ int = FALSE /\ full = FALSE /\ line = None
  /\ since = Gap

Clear == data' = Cleared /\ len' = 0 /\ idx' = 0

-----------------------------------------------------------------------------
(* SendLayer2Frame.                                                        *)
\* No interrupt is pending.
Free == int => full

\* Mutant of Begin: the task does not wait for the interval.
BeginAtOnce ==
  /\ at = "wait" /\ Free /\ n < Len(Sizes)
  /\ Clear
  /\ at' = "load" /\ n' = n + 1 /\ pos' = 0 /\ rx' = 0
  /\ UNCHANGED <<reg, portVars, since>>

Begin ==
  /\ at = "wait" /\ Free /\ n < Len(Sizes) /\ since >= Gap
  /\ Clear
  /\ at' = "load" /\ n' = n + 1 /\ pos' = 0 /\ rx' = 0
  /\ UNCHANGED <<reg, portVars, since>>

LoadLen ==
  /\ at = "load" /\ Free
  /\ reg' = len
  /\ at' = "store"
  /\ UNCHANGED <<n, pos, rx, bufVars, portVars, since>>

StoreOctet ==
  /\ at = "store" /\ Free
  /\ data' = [data EXCEPT ![reg] = <<n, pos + 1>>] /\ len' = reg + 1
  /\ pos' = pos + 1
  /\ at' = IF pos + 1 = Sizes[n] THEN "enable" ELSE "load"
  /\ UNCHANGED <<n, reg, rx, idx, portVars, since>>

EnableTx ==
  /\ at = "enable" /\ Free
  /\ int' = TRUE /\ since' = 0
  /\ at' = "wait"
  /\ UNCHANGED <<n, pos, reg, rx, bufVars, full, line>>

-----------------------------------------------------------------------------
(* The port's interrupt.                                                   *)
\* Mutant of TransmitChar: the interrupt is switched off with the last octet.
TransmitCharEarly ==
  IF idx < len
  THEN /\ line' = data[idx] /\ full' = TRUE /\ idx' = idx + 1
       /\ int' = (int /\ idx + 2 < len)
       /\ UNCHANGED <<data, len>>
  ELSE /\ Clear /\ int' = FALSE
       /\ UNCHANGED <<full, line>>

TransmitChar ==
  IF idx < len
  THEN /\ line' = data[idx] /\ full' = TRUE /\ idx' = idx + 1
       /\ UNCHANGED <<data, len, int>>
  ELSE /\ Clear /\ int' = FALSE
       /\ UNCHANGED <<full, line>>

TxInterrupt ==
  /\ int /\ ~full
  /\ TransmitChar
  /\ UNCHANGED <<taskVars, since>>

RxInterrupt ==
  /\ IF at = "wait" THEN UNCHANGED rx
                    ELSE rx < RxInBuild /\ rx' = rx + 1
  /\ IF full THEN UNCHANGED <<bufVars, portVars>> ELSE TransmitChar
  /\ UNCHANGED <<at, n, pos, reg, since>>

Later == IF since < Gap THEN since + 1 ELSE since

\* The line takes the octet from the data register.
Shift ==
  /\ full /\ full' = FALSE
  /\ since' = Later
  /\ UNCHANGED <<taskVars, bufVars, int, line>>

\* The time of a character passes on an idle line.
Pass ==
  /\ ~full /\ ~int /\ since < Gap
  /\ since' = since + 1
  /\ UNCHANGED <<taskVars, bufVars, portVars>>

-----------------------------------------------------------------------------
SendLayer2Frame == Begin \/ LoadLen \/ StoreOctet \/ EnableTx

Next == SendLayer2Frame \/ TxInterrupt \/ RxInterrupt \/ Shift \/ Pass

Spec == Init /\ [][Next]_vars

\* A frame that is begun is built, and the port's hardware works.
FairSpec ==
  /\ Spec
  /\ WF_vars(LoadLen \/ StoreOctet \/ EnableTx)
  /\ WF_vars(TxInterrupt) /\ WF_vars(Shift) /\ WF_vars(Pass)

-----------------------------------------------------------------------------
Follows(a, b) ==
  \/ a[1] # 0 /\ b = <<a[1], a[2] + 1>>
  \/ a[2] = Size(a[1]) /\ b = <<a[1] + 1, 1>>

\* On the line every frame is whole: each octet is followed by the frame's
\* next one, and the last by the first of the next frame.
LineIsWhole == [][~full /\ full' => Follows(line, line')]_vars

\* A frame that was built goes out to its last octet.
FramesGoOut ==
  \A f \in Frames : (at = "enable" /\ n = f) ~> line = <<f, Size(f)>>
=============================================================================
