---------------------------- MODULE LinkReceive ----------------------------
(***************************************************************************)
(* Reception of frames over the user and debug ports: the interrupt's      *)
(* ReceiveChar finds frames between flags, and their task takes them out   *)
(* of a queue, undoes the escapes and checks the CRC.  The line may lose,  *)
(* damage or add octets, and the host may pause for longer than the        *)
(* time-out of 10 ticks.                                                   *)
(*                                                                         *)
(* An octet that needs no escape stands for any run of such octets, "x"    *)
(* for a damaged one.  The CRC is right if the contents are those of a     *)
(* frame that the host has.                                                *)
(***************************************************************************)
EXTENDS Integers, SequencesExt

CONSTANTS
  Contents,   \* contents of the host's frames, in the order of sending
  BufferSize, \* octets of g_RxBuf (520)
  QueueLen,   \* length of the task's queue
  MaxFaults   \* bound: disturbances of the line

Frames == DOMAIN Contents

\* What the constants are; SerialPort assumes it.
ReceiveConstants ==
  /\ IsInjective(Contents)
  /\ BufferSize \in Nat \ 0..2 /\ QueueLen \in Nat \ {0} /\ MaxFaults \in Nat

VARIABLES
  f,       \* the frame the host sends,
  p,       \*   how many of its octets it has sent
  late,    \* whether more than 10 ticks have passed since the last octet
  faults,  \* disturbances up to now
  flag,    \* ReceiveChar's state,
  buf,     \*   and the octets it has taken, len of them
  queue,   \* UserQueue or FGIPv2Queue
  handled, \* frames that the task has taken for right
  dropped, \* frames that found the queue full
  clean    \* frames that began after a pause and were not disturbed

hostVars == <<f, p, late, faults, clean>>
portVars == <<flag, buf, queue, dropped>>
vars == <<hostVars, portVars, handled>>

-----------------------------------------------------------------------------
(* Escapes: XOR 0x20.                                                      *)
Toggle(o) == CASE o = "7E" -> "5E" [] o = "5E" -> "7E"
               [] o = "7D" -> "5D" [] o = "5D" -> "7D"
               [] OTHER -> "x"

Escaped(o) == IF o \in {"7E", "7D"} THEN <<"7D", Toggle(o)>> ELSE <<o>>

\* The octets of a frame on the line.
Line(g) ==
  <<"7E">> \o FlattenSeq([i \in DOMAIN Contents[g] |-> Escaped(Contents[g][i])])
           \o <<"7E">>

\* An escape at the end is dropped.
Decapsulate(d) ==
  FoldLeft(LAMBDA r, o :
             IF r.escape THEN [out |-> Append(r.out, Toggle(o)), escape |-> FALSE]
             ELSE IF o = "7D" THEN [r EXCEPT !.escape = TRUE]
             ELSE [r EXCEPT !.out = Append(@, o)],
           [out |-> <<>>, escape |-> FALSE], d).out

\* The frames, one or none, that the octets between the first and the last
\* make up.
Right(d) ==
  LET t == Decapsulate(d)
  IN  {g \in Frames : Len(t) > 2 /\ SubSeq(t, 2, Len(t) - 1) = Contents[g]}

-----------------------------------------------------------------------------
TypeOK ==
  /\ f \in Frames /\ p \in 0..Len(Line(f)) /\ late \in BOOLEAN
  /\ faults \in 0..MaxFaults
  /\ flag \in 0..2 /\ Len(buf) < BufferSize
  /\ flag = 1 => buf = <<"7E">>
  /\ flag = 2 => Head(buf) = "7E" /\ Len(buf) > 1
  /\ Len(queue) <= QueueLen
  /\ handled \subseteq 1..f /\ dropped \subseteq 1..f /\ clean \subseteq 1..f

Init ==
  /\ f = 1 /\ p = 0 /\ late = TRUE /\ faults = 0 /\ clean = {}
  /\ flag = 0 /\ buf = <<>> /\ queue = <<>> /\ dropped = {}
  /\ handled = {}

-----------------------------------------------------------------------------
(* ReceiveChar, in the interrupt.                                          *)
Bounded(d) == IF Len(d) >= BufferSize THEN Front(d) ELSE d

\* xQueueSendFromISR, whose result nobody looks at.
SendToRxQueue(d) ==
  IF Len(queue) < QueueLen
  THEN queue' = Append(queue, d) /\ UNCHANGED dropped
  ELSE dropped' = dropped \cup Right(d) /\ UNCHANGED queue

\* Mutant of State: no time-out.
StateKept == flag
State == IF late THEN 0 ELSE flag

Start(ch) ==
  /\ State = 0
  /\ IF ch = "7E" THEN flag' = 1 /\ buf' = <<ch>> ELSE flag' = 0 /\ UNCHANGED buf
  /\ UNCHANGED <<queue, dropped>>

\* Mutant of First: a second flag ends the frame.
FirstEnds(ch) ==
  /\ State = 1
  /\ IF ch # "7E" THEN flag' = 2 /\ buf' = Append(buf, ch) ELSE flag' = 0 /\ UNCHANGED buf
  /\ UNCHANGED <<queue, dropped>>

\* A second flag begins the frame again.
First(ch) ==
  /\ State = 1
  /\ IF ch # "7E" THEN flag' = 2 /\ buf' = Append(buf, ch) ELSE UNCHANGED <<flag, buf>>
  /\ UNCHANGED <<queue, dropped>>

Store(ch) ==
  /\ State = 2
  /\ buf' = Bounded(Append(buf, ch))
  /\ IF ch = "7E" THEN flag' = 0 /\ SendToRxQueue(buf')
                  ELSE UNCHANGED <<flag, queue, dropped>>

ReceiveChar(ch) ==
  /\ Start(ch) \/ First(ch) \/ Store(ch)
  /\ late' = FALSE

-----------------------------------------------------------------------------
(* The host and the line.                                                  *)
SendOctet ==
  /\ p < Len(Line(f))
  /\ ReceiveChar(Line(f)[p + 1])
  /\ p' = p + 1
  /\ clean' = IF p = 0 /\ late THEN clean \cup {f} ELSE clean
  /\ UNCHANGED <<f, faults, handled>>

NextFrame ==
  /\ p = Len(Line(f)) /\ f + 1 \in Frames
  /\ f' = f + 1 /\ p' = 0
  /\ UNCHANGED <<late, faults, clean, portVars, handled>>

Pause ==
  /\ p = 0 /\ ~late /\ late' = TRUE
  /\ UNCHANGED <<f, p, faults, clean, portVars, handled>>

\* What makes a frame incomplete; between frames it harms none that is sent.
Fault ==
  /\ faults < MaxFaults /\ faults' = faults + 1
  /\ p < Len(Line(f))
  /\ clean' = clean \ {f}
  /\ UNCHANGED <<f, handled>>

Lost == Fault /\ p' = p + 1 /\ UNCHANGED <<late, portVars>>

Noise == {"7E", "7D", "x"}

Damaged == Fault /\ p' = p + 1 /\ \E ch \in Noise : ReceiveChar(ch)

Added == Fault /\ p' = p /\ \E ch \in Noise : ReceiveChar(ch)

Stopped == Fault /\ p' = p /\ p > 0 /\ late' = TRUE /\ UNCHANGED portVars

-----------------------------------------------------------------------------
\* The task's layer 2.
Handle ==
  /\ queue # <<>>
  /\ queue' = Tail(queue)
  /\ handled' = handled \cup Right(Head(queue))
  /\ UNCHANGED <<hostVars, flag, buf, dropped>>

Next ==
  \/ SendOctet \/ NextFrame \/ Pause
  \/ Lost \/ Damaged \/ Added \/ Stopped
  \/ Handle

Spec == Init /\ [][Next]_vars

-----------------------------------------------------------------------------
Octets == Noise \cup {"5E", "5D"} \cup UNION {Range(Contents[g]) : g \in Frames}

\* What is to be known of a frame's octets: they fit the buffer, only the first
\* and the last are flags, and the task reads them as that frame.
Readable(g) ==
  LET l == Line(g)
  IN  /\ l \in Seq(Octets) /\ Len(l) \in 3..(BufferSize - 1)
      /\ \A k \in 1..Len(l) : l[k] = "7E" <=> k \in {1, Len(l)}
      /\ g \in Right(l)

Sent == 1..(IF p = Len(Line(f)) THEN f ELSE f - 1)
Came == handled \cup dropped \cup UNION {Right(queue[i]) : i \in DOMAIN queue}

\* Flags of beginning and of end look the same, and yet the receiver never
\* takes the one for the other for long: a disturbance costs two frames at
\* most, even if frames follow one another without a pause.
Resynchronises == Cardinality(Sent \ Came) <= 2 * faults

\* A pause puts right whatever was before it: a frame that begins after one
\* and is not disturbed itself comes in.
PauseHeals == clean \cap Sent \subseteq Came
=============================================================================
