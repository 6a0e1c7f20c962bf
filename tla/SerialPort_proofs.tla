------------------------- MODULE SerialPort_proofs -------------------------
(***************************************************************************)
(* Proofs about a serial port, for any frames, lengths of its buffers and  *)
(* disturbances of its line: in each direction it does what LinkTransmit   *)
(* and LinkReceive do alone; the frames it sends are whole; and frames     *)
(* that come in are found again after a disturbance.                       *)
(*                                                                         *)
(* Sending: that frames are whole supposes that the interval is long       *)
(* enough for each of them and that at most one character comes in while   *)
(* one is built.  The invariant: while a frame is built, what is in the    *)
(* buffer is what was appended, of which a character that came in has sent *)
(* no more than the first octet; while it is sent, it has sent at least as *)
(* many octets as characters have passed, so that the interval ends after  *)
(* it.                                                                     *)
(***************************************************************************)
EXTENDS SerialPort, FiniteSetTheorems, SequenceTheorems, TLAPS

Holds == \A k \in 0..(len - 1) : data[k] = <<n, k + 1>>
LineAt == line = IF idx = 0 THEN <<n - 1, Size(n - 1)>> ELSE <<n, idx>>

Building ==
  at # "wait" =>
    /\ n # 0 /\ ~int
    /\ len = pos /\ Holds /\ LineAt
    /\ idx <= rx /\ idx <= 1 /\ (full => idx = 1)
    /\ IF at = "enable" THEN pos = Sizes[n] ELSE pos < Sizes[n]
    /\ at = "store" => reg = pos

Going ==
  at = "wait" /\ int =>
    /\ n # 0
    /\ len = Sizes[n] /\ Holds /\ LineAt
    /\ since + (IF full THEN 1 ELSE 0) <= idx

Gone ==
  at = "wait" /\ ~int => len = 0 /\ idx = 0 /\ ~full /\ line = <<n, Size(n)>>

LinkInv == TypeOK /\ Building /\ Going /\ Gone

\* The interval is long enough, and a build sees one character at most.
Timely == RxInBuild <= 1 /\ \A k \in Frames : Sizes[k] <= Gap

LEMMA SizesType ==
  ASSUME NEW k \in Frames
  PROVE  /\ Sizes[k] \in 1..BufferSize /\ Size(k) = Sizes[k]
         /\ k \in Nat \ {0} /\ Len(Sizes) \in Nat
  BY LinkAssumption DEF Frames, Size

LEMMA FrameOf ==
  ASSUME TypeOK, n # 0
  PROVE  n \in Frames
  BY LinkAssumption DEF TypeOK, Frames

LEMMA ClearedType == Cleared \in [0..(BufferSize - 1) -> Octets]
  BY LinkAssumption DEF Cleared, Octets

\* Clearing an empty buffer changes nothing but the unused octets.
LEMMA TransmitStep ==
  ASSUME LinkInv, Timely, TransmitChar, ~full, n # 0,
         at' = at, n' = n, pos' = pos, reg' = reg, since' = since,
         at = "wait" => int /\ rx' = rx,
         at # "wait" => rx < RxInBuild /\ rx' = rx + 1
  PROVE  LinkInv' /\ (full' => Follows(line, line'))
<1>1. n \in Frames BY FrameOf DEF LinkInv
<1>2. /\ Sizes[n] \in 1..BufferSize /\ Size(n) = Sizes[n] /\ n \in Nat \ {0}
      /\ Len(Sizes) \in Nat
  BY <1>1, SizesType
<1>3. /\ len \in 0..BufferSize /\ idx \in 0..len /\ pos \in 0..Sizes[n]
      /\ since \in 0..Gap /\ rx \in 0..RxInBuild /\ Gap \in Nat /\ RxInBuild \in Nat
      /\ BufferSize \in Nat \ {0}
  BY <1>2, LinkAssumption DEF LinkInv, TypeOK
<1>4. LineAt /\ Holds BY DEF LinkInv, Building, Going
<1>5. CASE idx < len
  <2>1. /\ line' = data[idx] /\ full' = TRUE /\ idx' = idx + 1
        /\ data' = data /\ len' = len /\ int' = int
    BY <1>5 DEF TransmitChar
  <2>2. line' = <<n, idx + 1>> BY <1>3, <1>4, <1>5, <2>1 DEF Holds
  <2>3. Follows(line, line')
    <3>1. CASE idx = 0
      <4>1. line = <<n - 1, Size(n - 1)>> /\ line' = <<n, 1>>
        BY <1>4, <2>2, <3>1 DEF LineAt
      <4>2. n - 1 + 1 = n BY <1>2
      <4> QED BY <4>1, <4>2 DEF Follows
    <3>2. CASE idx # 0
      <4>1. line = <<n, idx>> BY <1>4, <3>2 DEF LineAt
      <4> QED BY <4>1, <2>2 DEF Follows
    <3> QED BY <3>1, <3>2
  <2>4. at # "wait" => rx = 0 /\ rx' = 1 /\ idx = 0
    <3> SUFFICES ASSUME at # "wait" PROVE rx = 0 /\ rx' = 1 /\ idx = 0 OBVIOUS
    <3>1. rx = 0 /\ rx' = 1 BY <1>3 DEF Timely
    <3>2. idx <= rx BY DEF LinkInv, Building
    <3> QED BY <1>3, <3>1, <3>2
  <2>5. line' \in Octets
    <3>1. idx + 1 \in 1..BufferSize BY <1>3, <1>5
    <3> QED BY <1>1, <2>2, <3>1 DEF Octets
  <2>6. TypeOK'
    <3>1. idx' \in 0..len' BY <1>3, <1>5, <2>1
    <3>2. rx' \in 0..RxInBuild BY <1>3
    <3> QED BY <2>1, <2>5, <3>1, <3>2 DEF LinkInv, TypeOK, Size
  <2>7. LineAt' /\ Holds'
    BY <1>3, <1>4, <2>1, <2>2 DEF LineAt, Holds
  <2>8. Building'
    BY <1>3, <2>1, <2>4, <2>7 DEF LinkInv, Building
  <2>9. Going'
    <3> SUFFICES ASSUME at = "wait" PROVE since + 1 <= idx + 1 /\ len = Sizes[n]
      BY <2>1, <2>7 DEF Going
    <3>1. since + 0 <= idx /\ len = Sizes[n] BY DEF LinkInv, Going
    <3> QED BY <1>3, <3>1
  <2>10. Gone' BY <2>1 DEF Gone
  <2> QED BY <2>3, <2>6, <2>8, <2>9, <2>10 DEF LinkInv
<1>6. CASE ~(idx < len)
  <2>1. /\ data' = Cleared /\ len' = 0 /\ idx' = 0 /\ int' = FALSE
        /\ full' = full /\ line' = line
    BY <1>6 DEF TransmitChar, Clear
  <2>2. TypeOK'
    <3>1. len' \in 0..BufferSize /\ idx' \in 0..len' /\ rx' \in 0..RxInBuild
      BY <1>3, <2>1
    <3> QED BY <2>1, <3>1, ClearedType DEF LinkInv, TypeOK, Size
  <2>3. Building'
    <3> SUFFICES ASSUME at # "wait" PROVE Building' BY DEF Building
    <3>1. rx = 0 /\ idx <= rx BY <1>3 DEF LinkInv, Building, Timely
    <3>2. idx = 0 /\ len = 0 BY <1>3, <1>6, <3>1
    <3>3. LineAt' /\ Holds' BY <1>4, <2>1, <3>2 DEF LineAt, Holds
    <3>4. at # "enable" /\ pos = 0 BY <1>2, <3>2 DEF LinkInv, Building
    <3>5. idx' <= rx' BY <1>3, <2>1
    <3> QED BY <2>1, <3>2, <3>3, <3>4, <3>5 DEF LinkInv, Building
  <2>4. Going' BY <2>1 DEF Going
  <2>5. Gone'
    <3> SUFFICES ASSUME at = "wait" PROVE line = <<n, Size(n)>>
      BY <2>1 DEF Gone
    <3>1. len = Sizes[n] BY DEF LinkInv, Going
    <3>2. idx = Sizes[n] /\ idx # 0 BY <1>2, <1>3, <1>6, <3>1
    <3> QED BY <1>2, <1>4, <3>2 DEF LineAt
  <2> QED BY <2>1, <2>2, <2>3, <2>4, <2>5 DEF LinkInv
<1> QED BY <1>5, <1>6

LEMMA TypeStep ==
  ASSUME LinkInv, SendLayer2Frame
  PROVE  TypeOK'
<1>1. TypeOK BY DEF LinkInv
<1>2. CASE Begin
  <2>1. n + 1 \in 0..Len(Sizes) /\ 0 \in 0..Size(n + 1)
    <3>1. n + 1 \in Frames BY <1>1, <1>2, LinkAssumption DEF Begin, TypeOK, Frames
    <3> QED BY <3>1, SizesType DEF Frames
  <2>2. 0 \in 0..BufferSize /\ 0 \in 0..RxInBuild BY LinkAssumption
  <2> QED BY <1>1, <1>2, <2>1, <2>2, ClearedType DEF Begin, Clear, TypeOK, portVars
<1>3. CASE LoadLen
  <2>1. n \in Frames BY <1>1, <1>3, FrameOf DEF LinkInv, Building, LoadLen
  <2>2. len = pos /\ pos < Sizes[n] BY <1>3 DEF LinkInv, Building, LoadLen
  <2>3. len \in 0..(BufferSize - 1)
    BY <1>1, <2>1, <2>2, SizesType, LinkAssumption DEF TypeOK
  <2> QED BY <1>1, <1>3, <2>3 DEF LoadLen, TypeOK, bufVars, portVars, Size
<1>4. CASE StoreOctet
  <2>1. n \in Frames BY <1>1, <1>4, FrameOf DEF LinkInv, Building, StoreOctet
  <2>2. len = pos /\ pos < Sizes[n] /\ reg = pos
    BY <1>4 DEF LinkInv, Building, StoreOctet
  <2>3. /\ Sizes[n] \in 1..BufferSize /\ Size(n) = Sizes[n]
        /\ pos \in 0..Sizes[n] /\ idx \in 0..len /\ BufferSize \in Nat
    BY <1>1, <2>1, SizesType, LinkAssumption DEF TypeOK
  <2>4. pos + 1 \in 0..Size(n) /\ pos + 1 \in 1..BufferSize /\ reg + 1 = pos + 1
    BY <2>2, <2>3
  <2>5. <<n, pos + 1>> \in Octets BY <2>1, <2>4 DEF Octets
  <2>6. idx \in 0..(reg + 1) BY <2>2, <2>3
  <2> QED BY <1>1, <1>4, <2>3, <2>4, <2>5, <2>6
          DEF StoreOctet, TypeOK, portVars, Size
<1>5. CASE EnableTx
  <2>1. 0 \in 0..Gap BY LinkAssumption
  <2> QED BY <1>1, <1>5, <2>1 DEF EnableTx, TypeOK, bufVars, Size
<1> QED BY <1>2, <1>3, <1>4, <1>5 DEF SendLayer2Frame

\* The task's steps.  Begin finds the frame before gone: it is no longer than
\* the interval, and no more characters have passed than it has sent octets.
LEMMA TaskStep ==
  ASSUME LinkInv, Timely, SendLayer2Frame
  PROVE  LinkInv'
<1>1. TypeOK' BY TypeStep
<1>2. TypeOK BY DEF LinkInv
<1>3. CASE Begin
  <2>1. ~int
    <3> SUFFICES ASSUME int PROVE FALSE OBVIOUS
    <3>1. full /\ at = "wait" /\ since >= Gap BY <1>3 DEF Begin, Free
    <3>2. n # 0 /\ len = Sizes[n] /\ since + 1 <= idx
      BY <3>1 DEF LinkInv, Going
    <3>3. n \in Frames BY <1>2, <3>2, FrameOf
    <3>4. Sizes[n] <= Gap /\ Sizes[n] \in 1..BufferSize
      BY <3>3, SizesType DEF Timely
    <3>5. since \in Int /\ Gap \in Nat /\ idx \in 0..len
      BY <1>2, LinkAssumption DEF TypeOK
    <3> QED BY <3>1, <3>2, <3>4, <3>5
  <2>2. ~full /\ line = <<n, Size(n)>> BY <1>3, <2>1 DEF Begin, LinkInv, Gone
  <2>3. n + 1 \in Frames /\ n \in Nat
    BY <1>2, <1>3, LinkAssumption DEF Begin, TypeOK, Frames
  <2>4. Sizes[n + 1] \in 1..BufferSize /\ BufferSize \in Nat
    BY <2>3, SizesType, LinkAssumption
  <2>5. LineAt' BY <1>3, <2>2, <2>3 DEF Begin, Clear, LineAt, portVars
  <2>6. Building'
    BY <1>3, <2>1, <2>2, <2>3, <2>4, <2>5 DEF Begin, Clear, Building, Holds, portVars
  <2> QED BY <1>1, <1>3, <2>6 DEF LinkInv, Begin, Going, Gone
<1>4. CASE LoadLen
  <2>1. Building'
    BY <1>4 DEF LinkInv, LoadLen, Building, Holds, LineAt, Size, bufVars, portVars
  <2> QED BY <1>1, <1>4, <2>1 DEF LinkInv, LoadLen, Going, Gone
<1>5. CASE StoreOctet
  <2>1. /\ n # 0 /\ ~int /\ len = pos /\ Holds /\ LineAt
        /\ idx <= rx /\ idx <= 1 /\ (full => idx = 1)
        /\ pos < Sizes[n] /\ reg = pos
    BY <1>5 DEF StoreOctet, LinkInv, Building
  <2>2. n \in Frames BY <1>2, <2>1, FrameOf
  <2>3. Sizes[n] \in 1..BufferSize /\ pos \in 0..Sizes[n] /\ BufferSize \in Nat
    BY <1>2, <2>2, SizesType, LinkAssumption DEF TypeOK
  <2>4. Holds'
    BY <1>2, <1>5, <2>1, <2>3 DEF StoreOctet, Holds, TypeOK
  <2>5. LineAt' BY <1>5, <2>1 DEF StoreOctet, LineAt, Size, portVars
  <2>6. IF at' = "enable" THEN pos' = Sizes[n'] ELSE pos' < Sizes[n']
    BY <1>5, <2>1, <2>3 DEF StoreOctet
  <2>7. Building'
    BY <1>5, <2>1, <2>4, <2>5, <2>6 DEF StoreOctet, Building, portVars
  <2> QED BY <1>1, <1>5, <2>7 DEF LinkInv, StoreOctet, Going, Gone
<1>6. CASE EnableTx
  <2>1. /\ n # 0 /\ len = pos /\ Holds /\ LineAt /\ pos = Sizes[n]
        /\ (full => idx = 1)
    BY <1>6 DEF EnableTx, LinkInv, Building
  <2>2. Holds' /\ LineAt'
    BY <1>6, <2>1 DEF EnableTx, Holds, LineAt, Size, bufVars
  <2>3. 0 + (IF full THEN 1 ELSE 0) <= idx BY <1>2, <2>1 DEF TypeOK
  <2>4. Going' BY <1>6, <2>1, <2>2, <2>3 DEF EnableTx, Going, bufVars
  <2> QED BY <1>1, <1>6, <2>4 DEF LinkInv, EnableTx, Building, Gone
<1> QED BY <1>3, <1>4, <1>5, <1>6 DEF SendLayer2Frame

LEMMA LinkStep ==
  ASSUME LinkInv, Timely, [Next]_vars
  PROVE  LinkInv' /\ (~full /\ full' => Follows(line, line'))
<1>1. TypeOK BY DEF LinkInv
<1>2. CASE SendLayer2Frame
  <2>1. full' = full
    BY <1>2 DEF SendLayer2Frame, Begin, LoadLen, StoreOctet, EnableTx, portVars
  <2> QED BY <1>2, <2>1, TaskStep
<1>3. CASE TxInterrupt
  <2>1. at = "wait" BY <1>3 DEF TxInterrupt, LinkInv, Building
  <2>2. n # 0 BY <1>3, <2>1 DEF TxInterrupt, LinkInv, Going
  <2> QED BY <1>3, <2>1, <2>2, TransmitStep DEF TxInterrupt, taskVars
<1>4. CASE RxInterrupt
  <2>1. CASE full
    <3>1. rx' \in 0..RxInBuild /\ rx' >= rx
      BY <1>1, <1>4, LinkAssumption DEF RxInterrupt, TypeOK
    <3>2. /\ UNCHANGED <<at, n, pos, reg, since, bufVars, portVars>>
      BY <1>4, <2>1 DEF RxInterrupt
    <3>3. TypeOK' BY <1>1, <3>1, <3>2 DEF TypeOK, Size, bufVars, portVars
    <3>4. idx \in Int /\ rx \in Int BY <1>1, LinkAssumption DEF TypeOK
    <3>5. Building'
      BY <1>1, <3>1, <3>2, <3>4
         DEF LinkInv, Building, Holds, LineAt, Size, bufVars, portVars
    <3>6. Going' /\ Gone'
      BY <3>2 DEF LinkInv, Going, Gone, Holds, LineAt, Size, bufVars, portVars
    <3> QED BY <2>1, <3>3, <3>5, <3>6 DEF LinkInv
  <2>2. CASE ~full /\ at = "wait" /\ ~int
    <3>1. len = 0 /\ idx = 0 /\ line = <<n, Size(n)>> BY <2>2 DEF LinkInv, Gone
    <3>2. /\ data' = Cleared /\ len' = 0 /\ idx' = 0 /\ int' = FALSE
          /\ full' = full /\ line' = line
          /\ UNCHANGED <<at, n, pos, reg, since, rx>>
      BY <1>1, <1>4, <2>2, <3>1 DEF RxInterrupt, TransmitChar, Clear
    <3>3. 0 \in 0..BufferSize /\ 0 \in 0..0 BY LinkAssumption
    <3>4. TypeOK' BY <1>1, <3>2, <3>3, ClearedType DEF TypeOK, Size
    <3> QED BY <2>2, <3>1, <3>2, <3>4 DEF LinkInv, Building, Going, Gone, Size
  <2>3. CASE ~full /\ ~(at = "wait" /\ ~int)
    <3>1. n # 0 BY <2>3 DEF LinkInv, Building, Going
    <3> QED BY <1>4, <2>3, <3>1, TransmitStep DEF RxInterrupt
  <2> QED BY <2>1, <2>2, <2>3
<1>5. CASE Shift
  <2>1. /\ full /\ full' = FALSE /\ since' = Later
        /\ UNCHANGED <<at, n, pos, reg, rx, data, len, idx, int, line>>
    BY <1>5 DEF Shift, taskVars, bufVars
  <2>2. since' \in 0..Gap /\ since' <= since + 1
    BY <1>1, <2>1, LinkAssumption DEF Later, TypeOK
  <2>3. TypeOK' BY <1>1, <2>1, <2>2 DEF TypeOK, Size
  <2>4. Building' BY <2>1 DEF LinkInv, Building, Holds, LineAt, Size
  <2>5. Going'
    <3> SUFFICES ASSUME at = "wait", int PROVE Going' BY <2>1 DEF Going
    <3>1. since + 1 <= idx BY <2>1 DEF LinkInv, Going
    <3>2. since \in Int /\ since' \in Int /\ idx \in Int
      BY <1>1, <2>2, LinkAssumption DEF TypeOK
    <3>3. since' <= since + 1 BY <2>2
    <3>4. since' <= idx BY <3>1, <3>2, <3>3
    <3> QED BY <2>1, <3>2, <3>4 DEF LinkInv, Going, Holds, LineAt, Size
  <2>6. Gone' BY <2>1 DEF LinkInv, Gone, Size
  <2> QED BY <2>1, <2>3, <2>4, <2>5, <2>6 DEF LinkInv
<1>6. CASE Pass
  <2>1. /\ ~int /\ since' \in 0..Gap
        /\ UNCHANGED <<at, n, pos, reg, rx, data, len, idx, int, full, line>>
    BY <1>1, <1>6, LinkAssumption DEF Pass, TypeOK, taskVars, bufVars, portVars
  <2>2. TypeOK' BY <1>1, <2>1 DEF TypeOK, Size
  <2>3. Building' BY <2>1 DEF LinkInv, Building, Holds, LineAt, Size
  <2>4. Going' BY <2>1 DEF Going
  <2>5. Gone' BY <2>1 DEF LinkInv, Gone, Size
  <2> QED BY <2>1, <2>2, <2>3, <2>4, <2>5 DEF LinkInv
<1>7. CASE UNCHANGED vars
  BY <1>7 DEF LinkInv, TypeOK, Building, Going, Gone, Holds, LineAt, Size,
              vars, taskVars, bufVars, portVars
<1> QED BY <1>2, <1>3, <1>4, <1>5, <1>6, <1>7 DEF Next

LEMMA LinkInit == Init => LinkInv
<1> SUFFICES ASSUME Init PROVE LinkInv OBVIOUS
<1>1. /\ 0 \in 0..Len(Sizes) /\ 0 \in 0..Size(0) /\ 0 \in 0..(BufferSize - 1)
      /\ 0 \in 0..BufferSize /\ Gap \in 0..Gap /\ 0 \in 0..RxInBuild /\ None \in Octets
  BY LinkAssumption DEF Size, Octets
<1>2. 0 \in 0..0 OBVIOUS
<1>3. TypeOK BY <1>1, <1>2, ClearedType DEF Init, TypeOK
<1> QED BY <1>3 DEF Init, LinkInv, Building, Going, Gone, Size, None

\* The line carries whole frames only, for any frames that fit the interval and
\* whatever characters come in, one at most in each build.
THEOREM WholeFrames ==
  ASSUME Timely
  PROVE  Spec => LineIsWhole
<1>1. LinkInv /\ [Next]_vars => LinkInv' BY LinkStep
<1>2. LinkInv /\ [Next]_vars => [~full /\ full' => Follows(line, line')]_vars
  BY LinkStep
<1> QED BY <1>1, <1>2, LinkInit, PTL DEF Spec, LineIsWhole

\* Every variable keeps its type: no octet is put behind the buffer's end, and
\* no more octets are sent than there are.
THEOREM LinkTypeCorrect ==
  ASSUME Timely
  PROVE  Spec => []TypeOK
<1>1. LinkInv /\ [Next]_vars => LinkInv' BY LinkStep
<1>2. LinkInv => TypeOK BY DEF LinkInv
<1> QED BY <1>1, <1>2, LinkInit, PTL DEF Spec

-----------------------------------------------------------------------------
(* The two directions.                                                     *)
LEMMA PortStep == [PortNext]_portState => [Next]_vars /\ [R!Next]_(R!vars)
<1> SUFFICES ASSUME [PortNext]_portState PROVE [Next]_vars /\ [R!Next]_(R!vars) OBVIOUS
<1>1. UNCHANGED rxState => UNCHANGED R!vars BY DEF rxState, R!vars, R!hostVars, R!portVars
<1>2. CASE PortNext
  BY <1>1, <1>2
     DEF PortNext, OctetIn, OctetOut, Build, TakeFrame, Outside, R!Next, Next, SendLayer2Frame
<1>3. CASE UNCHANGED portState BY <1>1, <1>3 DEF portState
<1>4. QED BY <1>2, <1>3

\* One handler for both directions makes neither do what it does not do alone:
\* what a port sends is as LinkTransmit has it, what it receives as LinkReceive.
THEOREM PortImplements == PortSpec => Spec /\ R!Spec
<1>1. PortInit => Init /\ R!Init BY DEF PortInit
<1>2. QED BY <1>1, PortStep, PTL DEF PortSpec, Spec, R!Spec

\* Frames are whole on the line while others come in.
THEOREM PortSendsWhole ==
  ASSUME Timely
  PROVE  PortSpec => LineIsWhole
<1>1. QED BY PortImplements, WholeFrames, PTL

-----------------------------------------------------------------------------
(* Reception.  The receiver has lost its place when it does not hold       *)
(* exactly what was sent of the present frame, or, between two frames, when *)
(* it waits for an end.  That costs the next frame that ends, and no more: *)
(* after a flag that is the end of a frame it does not wait for an end.    *)
Last == Len(R!Line(f))

InPlace ==
  /\ p > 0 /\ p < Last /\ ~late
  /\ Len(buf) = p /\ \A k \in 1..p : buf[k] = R!Line(f)[k]
  /\ flag = IF p = 1 THEN 1 ELSE 2

\* The frames that a lost place is still to cost.
Debt ==
  IF p = 0 \/ p = Last THEN (IF flag = 2 /\ ~late THEN 1 ELSE 0)
  ELSE (IF InPlace THEN 0 ELSE 1)

Missing == R!Sent \ R!Came

RxType ==
  /\ f \in R!Frames /\ f \in Nat \ {0} /\ p \in 0..Last /\ late \in BOOLEAN
  /\ faults \in Nat
  /\ flag \in 0..2 /\ buf \in Seq(R!Octets) /\ queue \in Seq(Seq(R!Octets))
  /\ flag = 1 => buf = <<"7E">>

CleanInv ==
  /\ clean \subseteq 1..f
  /\ f \in clean => p > 0 /\ (p < Last => InPlace)
  /\ clean \cap R!Sent \subseteq R!Came

RxInv == RxType /\ CleanInv /\ Cardinality(Missing) + Debt <= 2 * faults

\* The frames of the host: there is one, and each can be read.
FramesReadable ==
  /\ R!Frames \subseteq Nat \ {0} /\ 1 \in R!Frames
  /\ \A g \in R!Frames : R!Readable(g)

LEMMA LineFacts ==
  ASSUME FramesReadable, f \in R!Frames
  PROVE  /\ R!Line(f) \in Seq(R!Octets) /\ Last \in 3..(BufferSize - 1) /\ BufferSize \in Nat
         /\ QueueLen \in Nat \ {0}
         /\ R!Line(f)[1] = "7E" /\ R!Line(f)[Last] = "7E"
         /\ \A k \in 2..(Last - 1) : R!Line(f)[k] # "7E"
         /\ f \in R!Right(R!Line(f))
<1>1. /\ R!Line(f) \in Seq(R!Octets) /\ Last \in 3..(BufferSize - 1)
      /\ \A k \in 1..Last : R!Line(f)[k] = "7E" <=> k \in {1, Last}
      /\ f \in R!Right(R!Line(f))
  BY DEF FramesReadable, R!Readable, Last
<1>2. BufferSize \in Nat /\ QueueLen \in Nat \ {0} BY PortAssumption DEF R!ReceiveConstants
<1>3. QED BY <1>1, <1>2

LEMMA NoiseOctets == R!Noise \subseteq R!Octets
  BY DEF R!Octets

\* A queued octet string is read or, if the queue is full, counted as dropped.
LEMMA QueueGrows ==
  ASSUME queue \in Seq(Seq(R!Octets)), NEW d \in Seq(R!Octets), R!SendToRxQueue(d),
         handled' = handled
  PROVE  /\ queue' \in Seq(Seq(R!Octets))
         /\ R!Came \subseteq R!Came' /\ R!Right(d) \subseteq R!Came'
<1>1. CASE Len(queue) < QueueLen
  <2>1. queue' = Append(queue, d) /\ dropped' = dropped BY <1>1 DEF R!SendToRxQueue
  <2>2. \A i \in DOMAIN queue : i \in DOMAIN queue' /\ queue'[i] = queue[i] BY <2>1
  <2>3. Len(queue) + 1 \in DOMAIN queue' /\ queue'[Len(queue) + 1] = d BY <2>1
  <2>4. queue' \in Seq(Seq(R!Octets)) BY <2>1
  <2>5. QED BY <2>1, <2>2, <2>3, <2>4 DEF R!Came
<1>2. CASE ~(Len(queue) < QueueLen)
  BY <1>2 DEF R!SendToRxQueue, R!Came
<1>3. QED BY <1>1, <1>2

\* The buffer takes an octet more, or has no room for it.
LEMMA BoundedType ==
  ASSUME NEW d \in Seq(R!Octets), BufferSize \in Nat \ 0..2
  PROVE  /\ R!Bounded(d) \in Seq(R!Octets)
         /\ Len(d) < BufferSize => R!Bounded(d) = d
<1>1. CASE Len(d) < BufferSize BY <1>1 DEF R!Bounded
<1>2. CASE ~(Len(d) < BufferSize)
  <2>1. R!Bounded(d) = SubSeq(d, 1, Len(d) - 1) BY <1>2 DEF R!Bounded, R!Front
  <2>2. SubSeq(d, 1, Len(d) - 1) \in Seq(R!Octets) OBVIOUS
  <2>3. QED BY <1>2, <2>1, <2>2
<1>3. QED BY <1>1, <1>2

\* What an octet does to the receiver: what came in is kept, and after a flag it
\* does not wait for an end.
LEMMA Received ==
  ASSUME RxType, BufferSize \in Nat \ 0..2, NEW ch \in R!Octets, R!ReceiveChar(ch), handled' = handled
  PROVE  /\ late' = FALSE /\ flag' \in 0..2 /\ buf' \in Seq(R!Octets)
         /\ queue' \in Seq(Seq(R!Octets)) /\ (flag' = 1 => buf' = <<"7E">>)
         /\ R!Came \subseteq R!Came' /\ (ch = "7E" => flag' # 2)
<1>1. late' = FALSE BY DEF R!ReceiveChar
<1>2. ASSUME UNCHANGED <<queue, dropped>> PROVE R!Came \subseteq R!Came'
  BY <1>2 DEF R!Came
<1>3. CASE R!Start(ch)
  <2>1. <<ch>> \in Seq(R!Octets) OBVIOUS
  <2>2. /\ queue' = queue /\ R!Came \subseteq R!Came'
        /\ IF ch = "7E" THEN flag' = 1 /\ buf' = <<ch>> ELSE flag' = 0 /\ buf' = buf
    BY <1>2, <1>3 DEF R!Start
  <2>3. flag' \in 0..2 /\ (ch = "7E" => flag' # 2) BY <2>2
  <2>4. buf' \in Seq(R!Octets) /\ (flag' = 1 => buf' = <<"7E">>)
    <3>1. CASE ch = "7E"
      <4>1. buf' = <<ch>> BY <2>2, <3>1
      <4>2. buf' = <<"7E">> BY <3>1, <4>1
      <4>3. QED BY <2>1, <4>1, <4>2
    <3>2. CASE ch # "7E"
      <4>1. flag' = 0 /\ buf' = buf BY <2>2, <3>2
      <4>2. buf \in Seq(R!Octets) BY DEF RxType
      <4>3. QED BY <4>1, <4>2
    <3>3. QED BY <3>1, <3>2
  <2>5. queue' \in Seq(Seq(R!Octets)) BY <2>2 DEF RxType
  <2>6. QED BY <1>1, <2>2, <2>3, <2>4, <2>5
<1>4. CASE R!First(ch)
  <2>1. flag = 1 BY <1>4 DEF R!First, R!State, RxType
  <2>2. Append(buf, ch) \in Seq(R!Octets) BY DEF RxType
  <2>3. /\ queue' = queue /\ R!Came \subseteq R!Came'
        /\ IF ch # "7E" THEN flag' = 2 /\ buf' = Append(buf, ch)
                        ELSE flag' = flag /\ buf' = buf
    BY <1>2, <1>4 DEF R!First
  <2>4. flag' \in 0..2 /\ (ch = "7E" => flag' # 2) BY <2>1, <2>3
  <2>5. buf' \in Seq(R!Octets) /\ (flag' = 1 => buf' = <<"7E">>)
    <3>1. CASE ch = "7E"
      <4>1. buf' = buf BY <2>3, <3>1
      <4>2. buf \in Seq(R!Octets) /\ buf = <<"7E">> BY <2>1 DEF RxType
      <4>3. QED BY <4>1, <4>2
    <3>2. CASE ch # "7E"
      <4>1. flag' = 2 /\ buf' = Append(buf, ch) BY <2>3, <3>2
      <4>2. QED BY <2>2, <4>1
    <3>3. QED BY <3>1, <3>2
  <2>6. queue' \in Seq(Seq(R!Octets)) BY <2>3 DEF RxType
  <2>7. QED BY <1>1, <2>3, <2>4, <2>5, <2>6
<1>5. CASE R!Store(ch)
  <2>1. Append(buf, ch) \in Seq(R!Octets) BY DEF RxType
  <2>2. buf' = R!Bounded(Append(buf, ch)) /\ buf' \in Seq(R!Octets)
    BY <1>5, <2>1, BoundedType DEF R!Store
  <2>3. flag = 2 BY <1>5 DEF R!Store, R!State, RxType
  <2>4. CASE ch = "7E"
    <3>1. flag' = 0 /\ R!SendToRxQueue(buf') BY <1>5, <2>4 DEF R!Store
    <3>2. queue \in Seq(Seq(R!Octets)) BY DEF RxType
    <3>3. queue' \in Seq(Seq(R!Octets)) /\ R!Came \subseteq R!Came'
      BY <2>2, <3>1, <3>2, QueueGrows
    <3>4. QED BY <1>1, <2>2, <3>1, <3>3
  <2>5. CASE ch # "7E"
    BY <1>1, <1>2, <1>5, <2>2, <2>3, <2>5 DEF R!Store, RxType
  <2>6. QED BY <2>4, <2>5
<1>6. QED BY <1>3, <1>4, <1>5 DEF R!ReceiveChar

LEMMA DebtBounds == Debt \in {0, 1}
  BY DEF Debt

\* At most one frame more is missing, if at most the present one was sent.
LEMMA OneMoreMissing ==
  ASSUME RxType, NEW S, NEW C, R!Came \subseteq C, S \subseteq R!Sent \cup {f}
  PROVE  /\ IsFiniteSet(Missing) /\ Cardinality(Missing) \in Nat
         /\ IsFiniteSet(S \ C) /\ Cardinality(S \ C) \in Nat
         /\ Cardinality(S \ C) <= Cardinality(Missing) + 1
         /\ S \subseteq R!Sent \cup C => Cardinality(S \ C) <= Cardinality(Missing)
<1>1. IsFiniteSet(R!Sent)
  <2>1. f \in Int /\ f - 1 \in Int BY DEF RxType
  <2>2. IsFiniteSet(1..f) /\ IsFiniteSet(1..(f - 1)) BY <2>1, FS_Interval
  <2>3. R!Sent = 1..f \/ R!Sent = 1..(f - 1) BY DEF R!Sent
  <2>4. QED BY <2>2, <2>3
<1>2. IsFiniteSet(Missing) BY <1>1, FS_Subset DEF Missing
<1>3. /\ IsFiniteSet(Missing \cup {f}) /\ Cardinality(Missing) \in Nat
      /\ Cardinality(Missing \cup {f}) \in {Cardinality(Missing), Cardinality(Missing) + 1}
  BY <1>2, FS_AddElement, FS_CardinalityType
<1>4. S \ C \subseteq Missing \cup {f} BY DEF Missing
<1>5. IsFiniteSet(S \ C) /\ Cardinality(S \ C) <= Cardinality(Missing \cup {f})
  BY <1>3, <1>4, FS_Subset
<1>6. Cardinality(S \ C) \in Nat BY <1>5, FS_CardinalityType
<1>7. S \subseteq R!Sent \cup C => Cardinality(S \ C) <= Cardinality(Missing)
  <2>1. SUFFICES ASSUME S \subseteq R!Sent \cup C
                 PROVE  Cardinality(S \ C) <= Cardinality(Missing)
    OBVIOUS
  <2>2. S \ C \subseteq Missing BY <2>1 DEF Missing
  <2>3. QED BY <1>2, <2>2, FS_Subset
<1>8. QED BY <1>2, <1>3, <1>5, <1>6, <1>7

\* A disturbance costs the present frame and, with the place lost, one more.
LEMMA FaultCosts ==
  ASSUME RxInv, R!Fault, RxType', p' \in {p, p + 1}, R!Came \subseteq R!Came'
  PROVE  RxInv'
<1>1. f' = f /\ p < Last /\ faults' = faults + 1 /\ clean' = clean \ {f} /\ faults \in Nat
  BY DEF R!Fault, Last, RxInv, RxType
<1>2. R!Sent' \subseteq R!Sent \cup {f}
  BY <1>1 DEF R!Sent, Last, RxInv, RxType
<1>3. CleanInv'
  <2>1. clean' \subseteq 1..f' BY <1>1 DEF RxInv, CleanInv
  <2>2. f' \notin clean' BY <1>1
  <2>3. clean' \cap R!Sent' \subseteq R!Came'
    BY <1>1, <1>2 DEF RxInv, CleanInv
  <2>4. QED BY <2>1, <2>2, <2>3 DEF CleanInv
<1>4. /\ Cardinality(Missing) \in Nat /\ Cardinality(Missing') \in Nat
      /\ Cardinality(Missing') <= Cardinality(Missing) + 1
  <2>1. RxType BY DEF RxInv
  <2>2. /\ Cardinality(Missing) \in Nat /\ Cardinality(R!Sent' \ R!Came') \in Nat
        /\ Cardinality(R!Sent' \ R!Came') <= Cardinality(Missing) + 1
    BY <1>2, <2>1, OneMoreMissing
  <2>3. QED BY <2>2 DEF Missing
<1>5. Debt \in {0, 1} /\ Debt' \in {0, 1} BY DebtBounds DEF Debt
<1>6. Cardinality(Missing) + Debt <= 2 * faults BY DEF RxInv
<1>7. Cardinality(Missing') + Debt' <= 2 * faults' BY <1>1, <1>4, <1>5, <1>6
<1>8. QED BY <1>3, <1>7 DEF RxInv

\* An octet of the frame, the receiver in its place: it stays there, and takes
\* the frame with the last octet.
LEMMA PlaceKept ==
  ASSUME FramesReadable, RxType, R!SendOctet,
         InPlace \/ (p = 0 /\ (late \/ flag # 2))
  PROVE  /\ p' < Last => InPlace'
         /\ p' = Last => f \in R!Came'
<1>1. /\ R!Line(f) \in Seq(R!Octets) /\ Last \in 3..(BufferSize - 1) /\ BufferSize \in Nat
      /\ QueueLen \in Nat \ {0}
      /\ R!Line(f)[1] = "7E" /\ R!Line(f)[Last] = "7E"
      /\ \A k \in 2..(Last - 1) : R!Line(f)[k] # "7E"
      /\ f \in R!Right(R!Line(f))
  BY LineFacts DEF RxType
<1> DEFINE ch == R!Line(f)[p + 1]
<1>2. /\ p \in Nat /\ p < Last /\ p' = p + 1 /\ f' = f /\ handled' = handled
      /\ R!ReceiveChar(ch) /\ late' = FALSE /\ Last' = Last /\ R!Line(f)' = R!Line(f)
  BY DEF R!SendOctet, R!ReceiveChar, Last, RxType
<1>3. ch \in R!Octets BY <1>1, <1>2 DEF Last
<1>4. CASE p = 0
  <2>1. ch = "7E" /\ late \in BOOLEAN /\ flag \in 0..2 BY <1>1, <1>4 DEF RxType
  <2>2. flag' = 1 /\ buf' = <<"7E">>
    <3>1. R!State \in {0, 1} BY <1>4, <2>1 DEF R!State, InPlace
    <3>2. CASE R!State = 0
      <4>1. R!Start(ch) BY <1>2, <3>2 DEF R!ReceiveChar, R!First, R!Store
      <4>2. QED BY <2>1, <4>1 DEF R!Start
    <3>3. CASE R!State = 1
      <4>1. R!First(ch) BY <1>2, <3>3 DEF R!ReceiveChar, R!Start, R!Store
      <4>2. flag = 1 /\ buf = <<"7E">> BY <3>3 DEF R!State, RxType
      <4>3. flag' = flag /\ buf' = buf BY <2>1, <4>1 DEF R!First
      <4>4. QED BY <4>2, <4>3
    <3>4. QED BY <3>1, <3>2, <3>3
  <2>3. p' = 1 BY <1>2, <1>4
  <2>4. Len(buf') = 1 /\ buf'[1] = R!Line(f)[1] BY <1>1, <2>2
  <2>5. InPlace' BY <1>1, <1>2, <2>2, <2>3, <2>4 DEF InPlace
  <2>6. QED BY <1>1, <2>3, <2>5
<1>5. CASE p # 0
  <2>1. /\ p > 0 /\ ~late /\ Len(buf) = p /\ \A k \in 1..p : buf[k] = R!Line(f)[k]
        /\ flag = IF p = 1 THEN 1 ELSE 2
    BY <1>5 DEF InPlace
  <2>2. buf \in Seq(R!Octets) BY DEF RxType
  <2>3. /\ Append(buf, ch) \in Seq(R!Octets) /\ Len(Append(buf, ch)) = p + 1
        /\ \A k \in 1..(p + 1) : Append(buf, ch)[k] = R!Line(f)[k]
    BY <1>2, <1>3, <2>1, <2>2
  <2>4. CASE p + 1 < Last
    <3>1. ch # "7E" BY <1>1, <1>2, <1>5, <2>4
    <3>2. flag' = 2 /\ buf' = Append(buf, ch)
      <4>1. CASE p = 1
        <5>1. R!State = 1 BY <2>1, <4>1 DEF R!State
        <5>2. R!First(ch) BY <1>2, <5>1 DEF R!ReceiveChar, R!Start, R!Store
        <5>3. QED BY <3>1, <5>2 DEF R!First
      <4>2. CASE p # 1
        <5>1. R!State = 2 BY <2>1, <4>2 DEF R!State
        <5>2. R!Store(ch) BY <1>2, <5>1 DEF R!ReceiveChar, R!Start, R!First
        <5>3. R!Bounded(Append(buf, ch)) = Append(buf, ch)
          BY <1>1, <1>2, <2>3, <2>4 DEF R!Bounded
        <5>4. QED BY <2>1, <3>1, <4>2, <5>2, <5>3 DEF R!Store
      <4>3. QED BY <4>1, <4>2
    <3>3. InPlace' BY <1>2, <1>5, <2>3, <2>4, <3>2 DEF InPlace
    <3>4. QED BY <1>1, <1>2, <2>4, <3>3
  <2>5. CASE p + 1 = Last
    <3>1. ch = "7E" /\ flag = 2 BY <1>1, <1>2, <2>1, <2>5
    <3>2. R!State = 2 BY <2>1, <3>1 DEF R!State
    <3>3. R!Store(ch) BY <1>2, <3>2 DEF R!ReceiveChar, R!Start, R!First
    <3>4. R!Bounded(Append(buf, ch)) = Append(buf, ch)
      BY <1>1, <1>2, <2>3, <2>5 DEF R!Bounded
    <3>5. Append(buf, ch) = R!Line(f)
      <4>1. Len(R!Line(f)) = p + 1 BY <2>5 DEF Last
      <4>2. QED BY <1>1, <2>3, <4>1, SeqEqual
    <3>6. R!SendToRxQueue(R!Line(f)) BY <3>1, <3>3, <3>4, <3>5 DEF R!Store
    <3>7. R!Right(R!Line(f)) \subseteq R!Came'
      BY <1>1, <1>2, <3>6, QueueGrows DEF RxType
    <3>8. QED BY <1>1, <1>2, <2>5, <3>7
  <2>6. QED BY <1>1, <1>2, <2>4, <2>5
<1>6. QED BY <1>4, <1>5

LEMMA SendOctetKeeps ==
  ASSUME FramesReadable, RxInv, R!SendOctet
  PROVE  RxInv'
<1>0. RxType /\ CleanInv BY DEF RxInv
<1>1. /\ R!Line(f) \in Seq(R!Octets) /\ Last \in 3..(BufferSize - 1) /\ BufferSize \in Nat
      /\ R!Line(f)[Last] = "7E"
  BY <1>0, LineFacts DEF RxType
<1> DEFINE ch == R!Line(f)[p + 1]
<1>2. /\ p \in Nat /\ p < Last /\ p' = p + 1 /\ f' = f /\ handled' = handled
      /\ R!ReceiveChar(ch) /\ faults' = faults /\ Last' = Last
      /\ clean' = IF p = 0 /\ late THEN clean \cup {f} ELSE clean
  BY <1>0 DEF R!SendOctet, Last, RxType
<1>3. ch \in R!Octets BY <1>1, <1>2 DEF Last
<1>4. /\ late' = FALSE /\ flag' \in 0..2 /\ buf' \in Seq(R!Octets)
      /\ queue' \in Seq(Seq(R!Octets)) /\ (flag' = 1 => buf' = <<"7E">>)
      /\ R!Came \subseteq R!Came' /\ (ch = "7E" => flag' # 2)
  <2>1. BufferSize \in Nat \ 0..2 BY PortAssumption DEF R!ReceiveConstants
  <2>2. QED BY <1>0, <1>2, <1>3, <2>1, Received
<1>5. RxType'
  <2>1. p' \in 0..Last' BY <1>1, <1>2
  <2>2. late' \in BOOLEAN BY <1>4
  <2>3. QED BY <1>0, <1>2, <1>4, <2>1, <2>2 DEF RxType
<1>6. InPlace \/ (p = 0 /\ (late \/ flag # 2)) =>
        (p' < Last => InPlace') /\ (p' = Last => f \in R!Came')
  BY <1>0, PlaceKept
<1>7. CleanInv'
  <2>1. R!Sent' \subseteq R!Sent \cup {f} /\ (p' < Last => R!Sent' \subseteq R!Sent)
    BY <1>0, <1>1, <1>2 DEF R!Sent, Last, RxType
  <2>2. clean' \subseteq clean \cup {f} /\ clean' \subseteq 1..f'
    BY <1>0, <1>2 DEF CleanInv, RxType
  <2>3. ASSUME f \in clean'
        PROVE  (p' < Last => InPlace') /\ (p' = Last => f \in R!Came')
    <3>1. CASE p = 0 /\ late BY <1>6, <3>1
    <3>2. CASE ~(p = 0 /\ late)
      <4>1. f \in clean BY <1>2, <2>3, <3>2
      <4>2. InPlace BY <1>0, <1>2, <4>1 DEF CleanInv
      <4>3. QED BY <1>6, <4>2
    <3>3. QED BY <3>1, <3>2
  <2>4. clean' \cap R!Sent' \subseteq R!Came'
    <3>1. SUFFICES ASSUME NEW g \in clean', g \in R!Sent' PROVE g \in R!Came' OBVIOUS
    <3>2. CASE g = f /\ p' = Last BY <2>3, <3>2
    <3>3. CASE g = f /\ p' # Last
      <4>1. g \notin R!Sent' BY <1>0, <1>2, <3>3 DEF R!Sent, Last, RxType
      <4>2. QED BY <3>1, <4>1
    <3>4. CASE g # f
      <4>1. g \in clean /\ g \in R!Sent BY <2>1, <2>2, <3>1, <3>4
      <4>2. QED BY <1>0, <1>4, <4>1 DEF CleanInv
    <3>5. QED BY <3>2, <3>3, <3>4
  <2>5. p' > 0 BY <1>2
  <2>6. QED BY <1>2, <2>2, <2>3, <2>4, <2>5 DEF CleanInv
<1>8. /\ Cardinality(Missing) \in Nat /\ Cardinality(Missing') \in Nat
      /\ Cardinality(Missing') <= Cardinality(Missing) + 1
      /\ p' < Last \/ f \in R!Came' => Cardinality(Missing') <= Cardinality(Missing)
  <2>1. R!Sent' \subseteq R!Sent \cup {f} /\ (p' < Last => R!Sent' \subseteq R!Sent)
    BY <1>0, <1>1, <1>2 DEF R!Sent, Last, RxType
  <2>2. p' < Last \/ f \in R!Came' => R!Sent' \subseteq R!Sent \cup R!Came'
    BY <2>1
  <2>3. /\ Cardinality(Missing) \in Nat /\ Cardinality(R!Sent' \ R!Came') \in Nat
        /\ Cardinality(R!Sent' \ R!Came') <= Cardinality(Missing) + 1
        /\ R!Sent' \subseteq R!Sent \cup R!Came' =>
             Cardinality(R!Sent' \ R!Came') <= Cardinality(Missing)
    BY <1>0, <1>4, <2>1, OneMoreMissing
  <2>4. QED BY <2>2, <2>3 DEF Missing
<1>9. Cardinality(Missing') + Debt' <= Cardinality(Missing) + Debt
  <2>1. Debt \in {0, 1} /\ Debt' \in {0, 1} BY DebtBounds DEF Debt
  <2>2. CASE p' < Last
    <3>1. Debt = 0 => InPlace \/ (p = 0 /\ (late \/ flag # 2))
      BY <1>2 DEF Debt
    <3>2. Debt = 0 => Debt' = 0
      BY <1>2, <1>6, <2>2, <3>1 DEF Debt
    <3>3. QED BY <1>8, <2>1, <2>2, <3>2
  <2>3. CASE p' = Last
    <3>1. ch = "7E" BY <1>1, <1>2, <2>3
    <3>2. Debt' = 0 BY <1>2, <1>4, <2>3, <3>1 DEF Debt
    <3>3. Debt = 0 => f \in R!Came'
      <4>1. Debt = 0 => InPlace BY <1>1, <1>2, <2>3 DEF Debt
      <4>2. QED BY <1>6, <2>3, <4>1
    <3>4. QED BY <1>8, <2>1, <3>2, <3>3
  <2>4. QED BY <1>1, <1>2, <2>2, <2>3
<1>10. Cardinality(Missing') + Debt' <= 2 * faults'
  <2>1. Debt \in {0, 1} /\ Debt' \in {0, 1} BY DebtBounds DEF Debt
  <2>2. Cardinality(Missing) + Debt <= 2 * faults /\ faults \in Nat
    BY DEF RxInv, RxType
  <2>3. QED BY <1>2, <1>8, <1>9, <2>1, <2>2
<1>11. QED BY <1>5, <1>7, <1>10 DEF RxInv

LEMMA NextFrameKeeps ==
  ASSUME FramesReadable, RxInv, R!NextFrame
  PROVE  RxInv'
<1>0. RxType /\ CleanInv BY DEF RxInv
<1>1. /\ p = Last /\ f' = f + 1 /\ f + 1 \in R!Frames /\ p' = 0
      /\ UNCHANGED <<late, faults, clean, flag, buf, queue, dropped, handled>>
  BY DEF R!NextFrame, R!portVars, Last
<1>2. Last' \in 3..(BufferSize - 1)
  <2>1. R!Readable(f + 1) BY <1>1 DEF FramesReadable
  <2>2. QED BY <1>1, <2>1 DEF R!Readable, Last
<1>3. BufferSize \in Nat /\ f \in Nat BY <1>0, LineFacts DEF RxType
<1>4. RxType' BY <1>0, <1>1, <1>2, <1>3 DEF RxType
<1>5. R!Sent' = R!Sent
  <2>1. R!Sent = 1..f BY <1>1 DEF R!Sent, Last
  <2>2. R!Sent' = 1..(f + 1 - 1) BY <1>1, <1>2, <1>3 DEF R!Sent, Last
  <2>3. QED BY <1>3, <2>1, <2>2
<1>6. R!Came' = R!Came BY <1>1 DEF R!Came
<1>7. Missing' = Missing BY <1>5, <1>6 DEF Missing
<1>8. Debt' = Debt BY <1>1 DEF Debt
<1>9. CleanInv'
  <2>1. clean \subseteq 1..f /\ clean \cap R!Sent \subseteq R!Came
    BY <1>0 DEF CleanInv
  <2>2. clean \subseteq 1..(f + 1) /\ f + 1 \notin clean BY <1>3, <2>1
  <2>3. QED BY <1>1, <1>5, <1>6, <2>1, <2>2 DEF CleanInv
<1>10. QED BY <1>1, <1>4, <1>7, <1>8, <1>9 DEF RxInv

LEMMA PauseKeeps ==
  ASSUME FramesReadable, RxInv, R!Pause
  PROVE  RxInv'
<1>0. RxType /\ CleanInv BY DEF RxInv
<1>1. /\ p = 0 /\ late' = TRUE
      /\ UNCHANGED <<f, p, faults, clean, flag, buf, queue, dropped, handled>>
  BY DEF R!Pause, R!portVars
<1>2. RxType' BY <1>0, <1>1 DEF RxType, Last
<1>3. Missing' = Missing /\ R!Came' = R!Came /\ R!Sent' = R!Sent
  BY <1>1 DEF Missing, R!Came, R!Sent
<1>4. Debt' = 0 BY <1>1 DEF Debt
<1>5. CleanInv' BY <1>0, <1>1, <1>3 DEF CleanInv
<1>6. /\ Cardinality(Missing) + Debt <= 2 * faults /\ faults \in Nat
      /\ Debt \in {0, 1}
  BY DebtBounds DEF RxInv, RxType
<1>7. Cardinality(Missing) \in Nat
  <2>1. R!Came \subseteq R!Came /\ R!Sent \subseteq R!Sent \cup {f} OBVIOUS
  <2>2. QED BY <1>0, <2>1, OneMoreMissing
<1>8. QED BY <1>1, <1>2, <1>3, <1>4, <1>5, <1>6, <1>7 DEF RxInv

\* The task takes a frame: what was in the queue is handled.
LEMMA HandleKeeps ==
  ASSUME RxInv, R!Handle
  PROVE  RxInv'
<1>0. RxType /\ CleanInv BY DEF RxInv
<1>1. /\ queue # <<>> /\ queue' = Tail(queue)
      /\ handled' = handled \cup R!Right(Head(queue))
      /\ UNCHANGED <<f, p, late, faults, clean, flag, buf, dropped>>
  BY DEF R!Handle, R!hostVars
<1>2. queue \in Seq(Seq(R!Octets)) BY <1>0 DEF RxType
<1>3. RxType' BY <1>0, <1>1, <1>2 DEF RxType, Last
<1>4. R!Came' = R!Came
  <2>1. Len(queue) \in Nat \ {0} /\ Head(queue) = queue[1] BY <1>1, <1>2
  <2>2. /\ Len(queue') = Len(queue) - 1
        /\ \A k \in 1..(Len(queue) - 1) : queue'[k] = queue[k + 1]
    BY <1>1, <1>2
  <2>3. DOMAIN queue = 1..Len(queue) /\ DOMAIN queue' = 1..(Len(queue) - 1)
    BY <1>1, <1>2
  <2>4. ASSUME NEW g \in UNION {R!Right(queue[k]) : k \in DOMAIN queue}
        PROVE  g \in R!Right(queue[1]) \cup UNION {R!Right(queue'[k]) : k \in DOMAIN queue'}
    <3>1. PICK k \in DOMAIN queue : g \in R!Right(queue[k]) BY <2>4
    <3>2. CASE k = 1 BY <3>1, <3>2
    <3>3. CASE k # 1
      <4>1. k - 1 \in 1..(Len(queue) - 1) /\ k - 1 + 1 = k BY <2>1, <2>3, <3>1, <3>3
      <4>2. queue'[k - 1] = queue[k] BY <2>2, <4>1
      <4>3. QED BY <2>3, <3>1, <4>1, <4>2
    <3>4. QED BY <3>2, <3>3
  <2>5. ASSUME NEW k \in DOMAIN queue'
        PROVE  \E j \in DOMAIN queue : queue[j] = queue'[k]
    <3>1. k + 1 \in 1..Len(queue) BY <2>1, <2>3
    <3>2. QED BY <2>2, <2>3, <3>1
  <2>6. 1 \in DOMAIN queue BY <2>1, <2>3
  <2>7. QED BY <1>1, <2>1, <2>4, <2>5, <2>6 DEF R!Came
<1>5. R!Sent' = R!Sent /\ Missing' = Missing BY <1>1, <1>4 DEF R!Sent, Missing
<1>6. InPlace' <=> InPlace BY <1>1 DEF InPlace, Last
<1>7. Debt' = Debt BY <1>1, <1>6 DEF Debt, Last
<1>8. CleanInv' BY <1>0, <1>1, <1>4, <1>5, <1>6 DEF CleanInv, Last
<1>9. QED BY <1>1, <1>3, <1>5, <1>7, <1>8 DEF RxInv

LEMMA RxStep ==
  ASSUME FramesReadable, RxInv, [R!Next]_(R!vars)
  PROVE  RxInv'
<1>0. RxType /\ BufferSize \in Nat \ 0..2
  BY PortAssumption DEF RxInv, R!ReceiveConstants
<1>1. ASSUME R!Fault, NEW ch \in R!Noise, R!ReceiveChar(ch), p' \in {p, p + 1} PROVE RxInv'
  <2>1. f' = f /\ p < Last /\ faults' = faults + 1 /\ handled' = handled
    BY <1>1 DEF R!Fault, Last
  <2>2. /\ late' = FALSE /\ flag' \in 0..2 /\ buf' \in Seq(R!Octets)
        /\ queue' \in Seq(Seq(R!Octets)) /\ (flag' = 1 => buf' = <<"7E">>)
        /\ R!Came \subseteq R!Came'
    BY <1>0, <1>1, <2>1, NoiseOctets, Received
  <2>3. p' \in 0..Last /\ Last' = Last
    BY <1>0, <1>1, <2>1 DEF RxType, Last
  <2>4. late' \in BOOLEAN BY <2>2
  <2>5. RxType' BY <1>0, <2>1, <2>2, <2>3, <2>4 DEF RxType
  <2>6. QED BY <1>1, <2>2, <2>5, FaultCosts
<1>2. CASE R!Lost \/ R!Stopped
  <2>1. /\ R!Fault /\ p' \in {p, p + 1} /\ UNCHANGED <<flag, buf, queue, dropped>>
        /\ late' \in BOOLEAN
    BY <1>0, <1>2 DEF R!Lost, R!Stopped, R!portVars, RxType
  <2>2. f' = f /\ p < Last /\ faults' = faults + 1 /\ handled' = handled
    BY <2>1 DEF R!Fault, Last
  <2>3. p' \in 0..Last /\ Last' = Last
    BY <1>0, <2>1, <2>2 DEF RxType, Last
  <2>4. RxType' BY <1>0, <2>1, <2>2, <2>3 DEF RxType
  <2>5. R!Came' = R!Came BY <2>1, <2>2 DEF R!Came
  <2>6. QED BY <2>1, <2>4, <2>5, FaultCosts
<1>3. CASE R!Damaged \/ R!Added
  BY <1>1, <1>3 DEF R!Damaged, R!Added
<1>4. CASE UNCHANGED R!vars
  <2>1. UNCHANGED <<f, p, late, faults, clean, flag, buf, queue, dropped, handled>>
    BY <1>4 DEF R!vars, R!hostVars, R!portVars
  <2>2. RxType' BY <1>0, <2>1 DEF RxType, Last
  <2>3. /\ R!Came' = R!Came /\ R!Sent' = R!Sent /\ (InPlace' <=> InPlace)
        /\ Last' = Last
    BY <2>1 DEF R!Came, R!Sent, InPlace, Last
  <2>4. Missing' = Missing /\ Debt' = Debt BY <2>1, <2>3 DEF Missing, Debt
  <2>5. CleanInv' BY <2>1, <2>3 DEF RxInv, CleanInv
  <2>6. QED BY <2>1, <2>2, <2>4, <2>5 DEF RxInv
<1>5. QED
  BY <1>2, <1>3, <1>4, SendOctetKeeps, NextFrameKeeps, PauseKeeps, HandleKeeps DEF R!Next

LEMMA RxInit ==
  ASSUME FramesReadable, R!Init
  PROVE  RxInv
<1>1. /\ f = 1 /\ p = 0 /\ late = TRUE /\ faults = 0 /\ clean = {}
      /\ flag = 0 /\ buf = <<>> /\ queue = <<>>
  BY DEF R!Init
<1>2. f \in R!Frames BY <1>1 DEF FramesReadable
<1>3. Last \in 3..(BufferSize - 1) /\ BufferSize \in Nat BY <1>2, LineFacts
<1>4. RxType
  <2>1. p \in 0..Last /\ late \in BOOLEAN BY <1>1, <1>3
  <2>2. buf \in Seq(R!Octets) /\ queue \in Seq(Seq(R!Octets)) BY <1>1
  <2>3. QED BY <1>1, <1>2, <2>1, <2>2 DEF RxType
<1>5. CleanInv BY <1>1 DEF CleanInv
<1>6. Debt = 0 BY <1>1 DEF Debt
<1>7. Missing = {}
  <2>1. R!Sent = 1..0 BY <1>1, <1>3 DEF R!Sent, Last
  <2>2. QED BY <2>1 DEF Missing
<1>8. Cardinality(Missing) = 0 BY <1>7, FS_EmptySet
<1>9. QED BY <1>1, <1>4, <1>5, <1>6, <1>8 DEF RxInv

LEMMA RxInvariance ==
  ASSUME FramesReadable
  PROVE  PortSpec => []RxInv
<1>1. R!Init => RxInv BY RxInit
<1>2. RxInv /\ [R!Next]_(R!vars) => RxInv' BY RxStep
<1>3. QED BY <1>1, <1>2, PortImplements, PTL DEF R!Spec

LEMMA SameCardinality == \A S : R!Cardinality(S) = Cardinality(S)
  BY DEF R!Cardinality, Cardinality

\* Whatever the line does to a frame, and in whatever state that leaves the
\* receiver, it is in its place again after two frames at most (ReceiveChar).
THEOREM ReceiverResynchronises ==
  ASSUME FramesReadable
  PROVE  PortSpec => []Resynchronises
<1>1. RxInv => Resynchronises
  <2>1. SUFFICES ASSUME RxInv PROVE Cardinality(Missing) <= 2 * faults
    BY SameCardinality DEF Resynchronises, R!Resynchronises, Missing
  <2>2. /\ Cardinality(Missing) + Debt <= 2 * faults /\ faults \in Nat /\ RxType
        /\ Debt \in {0, 1}
    BY <2>1, DebtBounds DEF RxInv, RxType
  <2>3. Cardinality(Missing) \in Nat
    <3>1. R!Came \subseteq R!Came /\ R!Sent \subseteq R!Sent \cup {f} OBVIOUS
    <3>2. QED BY <2>2, <3>1, OneMoreMissing
  <2>4. QED BY <2>2, <2>3
<1>2. QED BY <1>1, RxInvariance, PTL

\* A frame that begins after a pause and is not disturbed itself comes in,
\* whatever was on the line before the pause (the time-out of ReceiveChar).
THEOREM ReceiverHeals ==
  ASSUME FramesReadable
  PROVE  PortSpec => []PauseHeals
<1>1. RxInv => PauseHeals BY DEF RxInv, CleanInv, PauseHeals, R!PauseHeals
<1>2. QED BY <1>1, RxInvariance, PTL
=============================================================================
