------------------------- MODULE FpgaForward_proofs -------------------------
(***************************************************************************)
(* The FPGA's registers: while a cycle of Main ends within its tick,       *)
(* FpgaSensor.c's record of them is true, for any number of registers,     *)
(* bytes and resets.  And the frames of firmware forwarded to the FPGA or  *)
(* the supply, which share nothing with the registers: over a line whose   *)
(* losses the second sending mends, what is accepted arrives, as long as   *)
(* ModbusSend does not disturb it.                                         *)
(***************************************************************************)
EXTENDS FpgaRegisters, FirmwareForward, SequenceTheorems, TLAPS

Writing == pc \in {"select", "clock", "release"}

(* The bytes of the register being written that the FPGA already has. *)
BytesWritten ==
  /\ pc \in {"select", "clock"} => \A i \in 1..(byte - 1) : fpga[reg][i] = want[reg][i]
  /\ pc = "release" => \A i \in 1..byte : fpga[reg][i] = want[reg][i]

(* The pins belong to whoever is in the middle of an access. *)
BusOwned ==
  /\ sensor # "asleep" => pc = "wait"
  /\ sensor = "asleep" => bus.out
  /\ pc = "clock" =>
       bus.re /\ bus.we /\ bus.addr = <<reg, byte>> /\ bus.data = want[reg][byte]

(* While the processor runs.  A reset may come anywhere. *)
IInv ==
  /\ TypeOK
  /\ Writing => reg \in RegIds
  /\ CacheAgrees
  /\ pc = "boot" => sensor = "asleep"
  /\ pc # "boot" => BytesWritten /\ BusOwned

LEMMA ByteTypes ==
  /\ Len(Zero) \in Nat /\ Len(Zero) > 0 /\ 1 \in ByteIds /\ Regs \in Nat /\ Regs > 0
  /\ Zero \in [ByteIds -> Bytes] /\ Zero[1] \in Bytes
  /\ ZeroRegs \in [RegIds -> [ByteIds -> Bytes]]
  /\ IdleBus \in [re : BOOLEAN, we : BOOLEAN, out : BOOLEAN,
                  addr : Addresses, data : Bytes]
<1>1. Len(Zero) \in Nat /\ Len(Zero) > 0 /\ 1 \in ByteIds /\ Regs \in Nat /\ Regs > 0
  BY RegisterAssumption DEF RegisterAssumption, ByteIds
<1>2. Zero \in [ByteIds -> Bytes]
  BY RegisterAssumption DEF RegisterAssumption
<1>3. Zero[1] \in Bytes /\ ZeroRegs \in [RegIds -> [ByteIds -> Bytes]]
  BY <1>1, <1>2 DEF ZeroRegs
<1>4. 1 \in RegIds
  BY <1>1 DEF RegIds
<1> QED BY <1>1, <1>2, <1>3, <1>4 DEF IdleBus, Addresses

LEMMA InitInv == Init => IInv
<1> SUFFICES ASSUME Init PROVE IInv
  OBVIOUS
<1> USE ByteTypes
<1>1. [RegIds -> Values] \subseteq [RegIds -> [ByteIds -> Bytes]]
  BY RegisterAssumption DEF RegisterAssumption
<1>2. {cmd, want, last, fpga} \subseteq [RegIds -> [ByteIds -> Bytes]]
  BY <1>1 DEF Init
<1>3. resets \in 0..MaxResets /\ reg \in 1..(Regs + 1) /\ byte \in ByteIds
  BY RegisterAssumption DEF RegisterAssumption, Init
<1>4. TypeOK
  BY <1>2, <1>3 DEF Init, TypeOK
<1> QED BY <1>4 DEF Init, IInv, Writing, CacheAgrees

LEMMA BootInv == IInv /\ Boot => IInv'
<1> SUFFICES ASSUME IInv, Boot PROVE IInv'
  OBVIOUS
<1> USE ByteTypes
<1>1. TypeOK'
  BY DEF IInv, TypeOK, Boot
<1>2. CacheAgrees' /\ ~Writing'
  BY DEF Boot, CacheAgrees, Writing
<1>3. sensor' = "asleep" \/ pc' = "wait"
  BY DEF Boot
<1>4. BytesWritten' /\ BusOwned'
  BY <1>3 DEF Boot, BytesWritten, BusOwned, IdleBus
<1> QED BY <1>1, <1>2, <1>4 DEF IInv, Boot

LEMMA ResetInv == IInv /\ Reset => IInv'
<1> SUFFICES ASSUME IInv, Reset PROVE IInv'
  OBVIOUS
<1> USE ByteTypes
<1>1. resets' \in 0..MaxResets
  <2>1. resets \in Nat /\ resets < MaxResets /\ resets' = resets + 1 /\ MaxResets \in Nat
    BY RegisterAssumption DEF RegisterAssumption, IInv, TypeOK, Reset
  <2> QED BY <2>1
<1>2. reg' \in 1..(Regs + 1) /\ byte' \in ByteIds
  BY DEF Reset
<1>3. TypeOK'
  BY <1>1, <1>2 DEF IInv, TypeOK, Reset
<1> QED BY <1>3 DEF IInv, Reset, Writing, CacheAgrees

LEMMA ReadInv == ~Overrun /\ IInv /\ Read => IInv'
<1> SUFFICES ASSUME ~Overrun, IInv, Read PROVE IInv'
  OBVIOUS
<1>1. pc = "wait" /\ UNCHANGED <<cmd, want, last, fpga, reg, byte, idle, resets>>
  <2>1. CASE ReadStart
    BY <2>1 DEF ReadStart
  <2>2. CASE ReadSelect \/ ReadSample \/ ReadEnd
    <3>1. sensor # "asleep" /\ UNCHANGED <<cmd, want, last, fpga, reg, byte, idle, resets>>
      BY <2>2 DEF ReadSelect, ReadSample, ReadEnd
    <3>2. pc # "boot"
      BY <3>1 DEF IInv
    <3> QED BY <3>1, <3>2 DEF IInv, BusOwned
  <2> QED BY <2>1, <2>2 DEF Read
<1>2. pc' \in {"wait", "cycle"} /\ (pc' = "cycle" => sensor' = "asleep")
  BY <1>1 DEF Read, ReadStart, ReadSelect, ReadSample, ReadEnd
<1>3. TypeOK'
  BY <1>1 DEF IInv, TypeOK, Read, ReadStart, ReadSelect, ReadSample, ReadEnd
<1>4. (sensor' = "asleep") => bus'.out
  BY DEF IInv, TypeOK, Read, ReadStart, ReadSelect, ReadSample, ReadEnd
<1>5. CacheAgrees' /\ BytesWritten' /\ BusOwned' /\ ~Writing'
  BY <1>1, <1>2, <1>4 DEF IInv, CacheAgrees, BytesWritten, BusOwned, Writing
<1> QED BY <1>2, <1>3, <1>5 DEF IInv

LEMMA CycleInv ==
  IInv /\ (CycleStart \/ CycleSkip \/ NextRegister \/ CycleEnd) => IInv'
<1> SUFFICES ASSUME IInv, CycleStart \/ CycleSkip \/ NextRegister \/ CycleEnd PROVE IInv'
  OBVIOUS
<1> USE ByteTypes
<1>1. /\ pc \in {"cycle", "next"} /\ UNCHANGED <<last, fpga, bus, sensor>>
      /\ sensor = "asleep" /\ pc' \in {"next", "select", "wait"}
  BY DEF CycleStart, CycleSkip, NextRegister, CycleEnd
<1>2. TypeOK'
  <2>1. CASE CycleStart
    BY <2>1 DEF IInv, TypeOK, CycleStart
  <2>2. CASE NextRegister
    BY <2>2 DEF IInv, TypeOK, NextRegister, RegIds
  <2>3. CASE CycleSkip \/ CycleEnd
    BY <2>3 DEF IInv, TypeOK, CycleSkip, CycleEnd
  <2> QED BY <2>1, <2>2, <2>3
<1>3. CacheAgrees'
  BY <1>1 DEF IInv, CacheAgrees
<1>4. pc' = "select" => reg' \in RegIds /\ byte' = 1
  BY DEF CycleStart, CycleSkip, NextRegister, CycleEnd
<1>5. BytesWritten' /\ BusOwned'
  BY <1>1, <1>4 DEF IInv, BytesWritten, BusOwned
<1> QED BY <1>1, <1>2, <1>3, <1>4, <1>5 DEF IInv, Writing

LEMMA SelectInv == IInv /\ WriteSelect => IInv'
<1> SUFFICES ASSUME IInv, WriteSelect PROVE IInv'
  OBVIOUS
<1>1. reg \in RegIds /\ byte \in ByteIds /\ want[reg][byte] \in Bytes
  BY DEF IInv, TypeOK, Writing, WriteSelect
<1>2. TypeOK'
  BY <1>1 DEF IInv, TypeOK, WriteSelect, Addresses
<1>3. /\ bus'.re /\ bus'.we /\ bus'.addr = <<reg, byte>>
      /\ bus'.data = want[reg][byte] /\ bus'.out
  BY DEF IInv, TypeOK, WriteSelect, BusOwned
<1>4. CacheAgrees' /\ BytesWritten' /\ BusOwned'
  BY <1>3 DEF IInv, CacheAgrees, BytesWritten, BusOwned, WriteSelect
<1> QED BY <1>1, <1>2, <1>4 DEF IInv, Writing, WriteSelect

LEMMA ClockInv == IInv /\ WriteClock => IInv'
<1> SUFFICES ASSUME IInv, WriteClock PROVE IInv'
  OBVIOUS
<1>1. /\ reg \in RegIds /\ byte \in ByteIds /\ want[reg][byte] \in Bytes
      /\ byte \in Nat /\ fpga \in [RegIds -> [ByteIds -> Bytes]]
  BY DEF IInv, TypeOK, Writing, WriteClock, ByteIds
<1>2. fpga' = [fpga EXCEPT ![reg][byte] = want[reg][byte]]
  <2>1. /\ bus.re /\ bus.we /\ bus.out /\ bus.data = want[reg][byte]
        /\ bus.addr[1] = reg /\ bus.addr[2] = byte
    BY DEF IInv, BusOwned, WriteClock
  <2>2. \E d \in {bus.data} : fpga' = [fpga EXCEPT ![bus.addr[1]][bus.addr[2]] = d]
    BY <2>1 DEF WriteClock
  <2> QED BY <2>1, <2>2
<1>3. fpga' \in [RegIds -> [ByteIds -> Bytes]]
  BY <1>1, <1>2
<1>4. TypeOK'
  BY <1>3 DEF IInv, TypeOK, WriteClock
<1>5. /\ \A r \in RegIds : r # reg => fpga'[r] = fpga[r]
      /\ \A i \in ByteIds : fpga'[reg][i] = IF i = byte THEN want[reg][byte] ELSE fpga[reg][i]
  BY <1>1, <1>2
<1>6. CacheAgrees'
  BY <1>5 DEF IInv, CacheAgrees, WriteClock
<1>7. BytesWritten'
  <2> SUFFICES ASSUME NEW i \in 1..byte PROVE fpga'[reg][i] = want[reg][i]
    BY DEF BytesWritten, WriteClock
  <2>1. i \in ByteIds /\ (i = byte \/ i \in 1..(byte - 1))
    BY <1>1, ByteTypes DEF ByteIds
  <2> QED BY <1>5, <2>1 DEF IInv, BytesWritten, WriteClock
<1>8. BusOwned'
  BY DEF IInv, BusOwned, WriteClock
<1> QED BY <1>1, <1>4, <1>6, <1>7, <1>8 DEF IInv, Writing, WriteClock

LEMMA ReleaseInv == IInv /\ WriteRelease => IInv'
<1> SUFFICES ASSUME IInv, WriteRelease PROVE IInv'
  OBVIOUS
<1>1. /\ reg \in RegIds /\ byte \in ByteIds /\ byte \in Nat
      /\ fpga[reg] \in [ByteIds -> Bytes] /\ want[reg] \in [ByteIds -> Bytes]
      /\ last \in [RegIds -> [ByteIds -> Bytes]]
  BY DEF IInv, TypeOK, Writing, WriteRelease, ByteIds
<1>2. \A i \in 1..byte : fpga[reg][i] = want[reg][i]
  BY DEF IInv, BytesWritten, WriteRelease
<1>3. BusOwned'
  <2>1. bus'.out = bus.out
    BY DEF IInv, TypeOK, WriteRelease
  <2> QED BY <2>1 DEF IInv, BusOwned, WriteRelease
<1>4. CASE byte < Len(Zero)
  <2>1. byte + 1 \in ByteIds
    BY <1>1, <1>4, ByteTypes DEF ByteIds
  <2>2. TypeOK'
    BY <1>4, <2>1 DEF IInv, TypeOK, WriteRelease
  <2>3. BytesWritten' /\ CacheAgrees'
    BY <1>1, <1>2, <1>4 DEF IInv, BytesWritten, CacheAgrees, WriteRelease
  <2> QED BY <1>1, <1>3, <1>4, <2>2, <2>3 DEF IInv, Writing, WriteRelease
<1>5. CASE ~(byte < Len(Zero))
  <2>1. byte = Len(Zero)
    <3>1. byte \in 1..Len(Zero) /\ Len(Zero) \in Nat
      BY <1>1, ByteTypes DEF ByteIds
    <3> QED BY ONLY <3>1, <1>5
  <2>2. fpga[reg] = want[reg]
    BY <1>1, <1>2, <2>1 DEF ByteIds
  <2>3. pc' = "next" /\ last' = [last EXCEPT ![reg] = want[reg]] /\ byte' = byte
    BY <1>5 DEF WriteRelease
  <2>4. last' \in [RegIds -> [ByteIds -> Bytes]]
    BY <1>1, <2>3
  <2>5. TypeOK'
    BY <2>3, <2>4 DEF IInv, TypeOK, WriteRelease
  <2>6. CacheAgrees'
    BY <1>1, <2>2, <2>3 DEF IInv, CacheAgrees, WriteRelease
  <2>7. BytesWritten'
    BY <2>3 DEF BytesWritten
  <2> QED BY <1>3, <2>3, <2>5, <2>6, <2>7 DEF IInv, Writing, WriteRelease
<1> QED BY <1>4, <1>5

LEMMA CommandInv == IInv /\ Command => IInv'
<1> SUFFICES ASSUME IInv, Command PROVE IInv'
  OBVIOUS
<1>1. cmd' \in [RegIds -> [ByteIds -> Bytes]]
  BY RegisterAssumption DEF RegisterAssumption, IInv, TypeOK, Command
<1> QED BY <1>1 DEF IInv, TypeOK, Writing, CacheAgrees, BytesWritten, BusOwned, Command

LEMMA StateInv == IInv /\ StateChange => IInv'
<1> SUFFICES ASSUME IInv, StateChange PROVE IInv'
  OBVIOUS
<1> QED BY DEF IInv, TypeOK, Writing, CacheAgrees, BytesWritten, BusOwned, StateChange

(* Every step keeps the invariant if no cycle overruns its tick. *)
LEMMA StepInv == ~Overrun /\ IInv /\ [Next]_vars => IInv'
<1> SUFFICES ASSUME ~Overrun, IInv, [Next]_vars PROVE IInv'
  OBVIOUS
<1>1. CASE Boot
  BY <1>1, BootInv
<1>2. CASE Reset
  BY <1>2, ResetInv
<1>3. CASE Read
  BY <1>3, ReadInv
<1>4. CASE Write
  BY <1>4, CycleInv, SelectInv, ClockInv, ReleaseInv DEF Write
<1>5. CASE Command
  BY <1>5, CommandInv
<1>6. CASE StateChange
  BY <1>6, StateInv
<1>7. CASE UNCHANGED vars
  BY <1>7 DEF vars, IInv, TypeOK, Writing, CacheAgrees, BytesWritten, BusOwned
<1> QED BY <1>1, <1>2, <1>3, <1>4, <1>5, <1>6, <1>7 DEF Next

(* If a cycle of Main never overruns its tick, then between cycles the     *)
(* FPGA holds in every register what FpgaSensor.c believes to have written *)
(* there, however many registers there are and wherever resets come.       *)
THEOREM CacheCorrect == ASSUME ~Overrun PROVE Spec => []CacheAgrees
<1>1. IInv => CacheAgrees
  BY DEF IInv
<1>2. IInv /\ [Next]_vars => IInv'
  BY StepInv
<1> QED BY <1>1, <1>2, InitInv, PTL DEF Spec

(* Under the same condition every variable keeps its type.                 *)
THEOREM RegisterTypeCorrect == ASSUME ~Overrun PROVE Spec => []TypeOK
<1>1. IInv => TypeOK
  BY DEF IInv
<1>2. IInv /\ [Next]_vars => IInv'
  BY StepInv
<1> QED BY <1>1, <1>2, InitInv, PTL DEF Spec

-----------------------------------------------------------------------------
(* Firmware frames (FirmwareForward), which do not share anything with the *)
(* registers.  The invariant: over a line whose losses the second sending  *)
(* mends, everything accepted has arrived, or the last frame accepted is   *)
(* still in the buffer, queued, or it is under way.  Under way it is       *)
(* acknowledged exactly once, and before the host's handler gives up.      *)

\* The first m frames of this transfer are in the device.
Arrived(m) == \A k \in 0..(m - 1) : <<transfer, k>> \in got

Settled == queue = 0 /\ sender \in {"poll", "wait"} /\ acks = <<>> /\ ~re /\ Arrived(no)

InBuffer ==
  /\ queue = 1 /\ sender = "wait" /\ acks = <<>> /\ ~re /\ ~nf /\ host \in {"ready", "done"}
  /\ no > 0 /\ buffer = <<transfer, no - 1>> /\ Arrived(no - 1)

\* Of a frame that was sent: its acknowledgement comes, or it was lost, or the
\* channel's task is told.
Coming == acks = <<since>> /\ since <= line.delay /\ ~re /\ ~nf /\ sent \in got
Missed == acks = <<>> /\ since <= ReTimeout /\ ~re /\ ~nf /\ tries = 1 /\ lost[1] = 1
Told == acks = <<>> /\ since <= line.delay /\ re /\ (nf => ~ToFpga) /\ sent \in got

UnderWay ==
  /\ queue = 0 /\ sender = "sent" /\ host # "failed"
  /\ no > 0 /\ sent = <<transfer, no - 1>> /\ Arrived(no - 1)
  /\ host = "waiting" => waited <= since + (IF tries = 2 THEN ReTimeout ELSE 0)
  /\ Coming \/ Missed \/ Told

ForwardType ==
  /\ line \in Lines /\ no \in Nat /\ waited \in Nat /\ since \in Nat /\ tries \in {1, 2}

FrameInv ==
  /\ host = "waiting" => buffer = <<transfer, no>>
  /\ Settled \/ InBuffer \/ UnderWay

ForwardInv == ForwardType /\ (Mended /\ ~disturbed => FrameInv)

LEMMA LineFacts ==
  ASSUME ForwardType, Mended
  PROVE  /\ line.delay \in Nat \ {0} /\ line.losses \in {0, 1}
         /\ ReTimeout \in {3, 5} /\ NfTimeout = 8
         /\ line.delay < ReTimeout /\ ReTimeout + line.delay < 8
<1>1. line.delay \in Nat \ {0} /\ line.losses \in Nat
  BY ForwardAssumption DEF ForwardAssumption, ForwardType
<1>2. ReTimeout \in {3, 5} /\ NfTimeout = 8
  BY DEF ReTimeout, NfTimeout
<1>3. line.losses \in {0, 1}
  BY <1>1 DEF Mended
<1> QED BY <1>1, <1>2, <1>3 DEF Mended

LEMMA ForwardInvInit == ForwardInit => ForwardInv
<1> SUFFICES ASSUME ForwardInit PROVE ForwardInv
  OBVIOUS
<1>1. ForwardType
  BY DEF ForwardInit, ForwardType
<1>2. Arrived(no)
  BY DEF ForwardInit, Arrived
<1> QED BY <1>1, <1>2 DEF ForwardInit, ForwardInv, FrameInv, Settled

(* The device keeps what it has.                                           *)
LEMMA ArrivedKeeps ==
  ASSUME NEW m, Arrived(m), transfer' = transfer, got \subseteq got'
  PROVE  \A k \in 0..(m - 1) : <<transfer', k>> \in got'
BY DEF Arrived

(* The first sending of a frame, from the buffer.                          *)
LEMMA ReceiveForward ==
  ASSUME ForwardInv, Receive
  PROVE  ForwardInv'
<1>1. ForwardType'
  BY DEF ForwardInv, ForwardType, Receive, hostVars
<1>2. SUFFICES ASSUME Mended, ~disturbed PROVE FrameInv'
  BY <1>1 DEF ForwardInv, Mended, ReTimeout, ToFpga, NfTimeout, Receive, modeVars
<1>3. InBuffer
  BY <1>2 DEF ForwardInv, FrameInv, Settled, UnderWay, Receive, CanReceive
<1>4. /\ no' = no /\ host' = host /\ waited' = waited /\ transfer' = transfer
      /\ buffer' = buffer /\ line' = line /\ nf' = nf /\ re' = re /\ queue' = queue - 1
      /\ disturbed' = disturbed
      /\ sent' = buffer /\ tries' = 1 /\ since' = 0 /\ sender' = "sent"
  BY DEF Receive, hostVars, modeVars
<1>5. got \subseteq got'
  BY DEF Receive, Transmit
<1>6. (Arrived(no - 1))'
  BY <1>3, <1>4, <1>5, ArrivedKeeps DEF InBuffer, Arrived
<1>7. CASE acks' = Append(acks, 0) /\ got' = got \cup {buffer}
  <2>1. acks' = <<0>> /\ 0 <= line.delay
    BY <1>2, <1>3, <1>7, LineFacts DEF ForwardInv, InBuffer
  <2>2. Coming'
    BY <1>3, <1>4, <1>7, <2>1 DEF InBuffer, Coming
  <2> QED BY <1>3, <1>4, <1>6, <2>2 DEF InBuffer, FrameInv, UnderWay
<1>8. CASE acks' = acks /\ lost'[1] = 1
  <2>1. ReTimeout' = ReTimeout /\ 0 <= ReTimeout
    BY <1>2, <1>4, LineFacts DEF ForwardInv, ReTimeout, ToFpga
  <2>2. Missed'
    BY <1>3, <1>4, <1>8, <2>1 DEF InBuffer, Missed
  <2> QED BY <1>3, <1>4, <1>6, <2>2 DEF InBuffer, FrameInv, UnderWay
<1>9. <<0 + 1, lost[2] + 1>>[1] = 1
  OBVIOUS
<1> QED BY <1>7, <1>8, <1>9 DEF Receive, Transmit

LEMMA TakeReForward ==
  ASSUME ForwardInv, TakeRe
  PROVE  ForwardInv'
<1>1. /\ UNCHANGED <<line, host, no, transfer, waited, buffer, queue, mode, sent, tries, since>>
      /\ UNCHANGED <<acks, lost, got, disturbed>> /\ re' = FALSE /\ sender' \in {"poll", "wait"}
  BY DEF TakeRe, hostVars, deviceVars, modeVars, Afterwards
<1>2. ForwardType'
  BY <1>1 DEF ForwardInv, ForwardType
<1>3. SUFFICES ASSUME Mended, ~disturbed PROVE FrameInv'
  BY <1>1, <1>2 DEF ForwardInv, Mended, ReTimeout, ToFpga, NfTimeout
<1>4. UnderWay /\ Told
  BY <1>3 DEF ForwardInv, FrameInv, Settled, InBuffer, UnderWay, Coming, Missed, TakeRe, CanTake
<1>5. Arrived(no)
  BY <1>4, <1>2, <1>1 DEF ForwardType, UnderWay, Told, Arrived
<1>6. Settled'
  BY <1>1, <1>4, <1>5 DEF UnderWay, Told, Settled, Arrived
<1> QED BY <1>1, <1>3, <1>6 DEF ForwardInv, FrameInv

(* The second sending is not lost: the first was.                          *)
LEMMA SendAgainForward ==
  ASSUME ForwardInv, SendAgain
  PROVE  ForwardInv'
<1>1. /\ UNCHANGED <<line, host, no, transfer, waited, buffer, queue, mode, sender, sent, nf, re, disturbed>>
      /\ tries' = 2 /\ since' = 0 /\ tries = 1
      /\ sender = "sent" /\ ~re /\ since = ReTimeout
  BY DEF SendAgain, hostVars, modeVars, Expired
<1>2. ForwardType'
  BY <1>1 DEF ForwardInv, ForwardType
<1>3. SUFFICES ASSUME Mended, ~disturbed PROVE FrameInv'
  BY <1>1, <1>2 DEF ForwardInv, Mended, ReTimeout, ToFpga, NfTimeout
<1>4. UnderWay /\ Missed
  BY <1>1, <1>3, LineFacts
     DEF ForwardInv, FrameInv, ForwardType, Settled, InBuffer, UnderWay, Coming, Told
<1>5. acks' = Append(acks, 0) /\ got' = got \cup {sent}
  BY <1>3, <1>4, LineFacts DEF ForwardInv, Missed, SendAgain, Transmit
<1>6. acks' = <<0>> /\ 0 <= line.delay
  BY <1>3, <1>4, <1>5, LineFacts DEF ForwardInv, Missed
<1>7. Coming'
  BY <1>1, <1>4, <1>5, <1>6 DEF Missed, Coming
<1>8. (Arrived(no - 1))'
  BY <1>1, <1>4, <1>5, ArrivedKeeps DEF UnderWay, Arrived
<1>9. ReTimeout' = ReTimeout /\ ReTimeout \in Nat
  BY <1>1, <1>3, LineFacts DEF ForwardInv, ReTimeout, ToFpga
<1>10. (host = "waiting" => waited <= since + (IF tries = 2 THEN ReTimeout ELSE 0))'
  BY <1>1, <1>2, <1>4, <1>9 DEF UnderWay, ForwardType
<1>11. UnderWay'
  BY <1>1, <1>4, <1>7, <1>8, <1>10 DEF UnderWay
<1> QED BY <1>1, <1>3, <1>11 DEF ForwardInv, FrameInv

(* The channel's task never gives a frame up.                              *)
LEMMA GiveUpForward ==
  ASSUME ForwardInv, GiveUp
  PROVE  ForwardInv'
<1>1. /\ UNCHANGED <<line, no, waited, since, tries, disturbed>> /\ tries = 2
      /\ sender = "sent" /\ ~re /\ since = ReTimeout
  BY DEF GiveUp, hostVars, modeVars, Expired
<1>2. ForwardType'
  BY <1>1 DEF ForwardInv, ForwardType
<1>3. ~(Mended /\ ~disturbed)
  BY <1>1, LineFacts
     DEF ForwardInv, FrameInv, ForwardType, Settled, InBuffer, UnderWay, Coming, Missed, Told
<1> QED BY <1>1, <1>2, <1>3 DEF ForwardInv, Mended, ReTimeout, ToFpga, NfTimeout

LEMMA LeaveForward ==
  ASSUME ForwardInv, Leave
  PROVE  ForwardInv'
<1>1. /\ UNCHANGED <<line, host, no, transfer, waited, buffer, queue, sent, tries, since>>
      /\ UNCHANGED <<re, acks, got, disturbed>>
      /\ sender = "wait" /\ queue = 0 /\ sender' = "poll"
  BY DEF Leave, hostVars, deviceVars, modeVars
<1>2. ForwardType'
  BY <1>1 DEF ForwardInv, ForwardType
<1>3. SUFFICES ASSUME Mended, ~disturbed PROVE FrameInv'
  BY <1>1, <1>2 DEF ForwardInv, Mended, ReTimeout, ToFpga, NfTimeout
<1>4. Settled
  BY <1>1, <1>3 DEF ForwardInv, FrameInv, InBuffer, UnderWay
<1>5. Settled'
  BY <1>1, <1>4 DEF Settled, Arrived
<1> QED BY <1>1, <1>3, <1>5 DEF ForwardInv, FrameInv

LEMMA EnterForward ==
  ASSUME ForwardInv, Enter
  PROVE  ForwardInv'
<1>1. /\ UNCHANGED <<line, host, no, transfer, waited, buffer, queue, sent, tries, since>>
      /\ UNCHANGED <<re, acks, got, disturbed>>
      /\ sender = "poll" /\ sender' = "wait"
  BY DEF Enter, CanEnter, hostVars, deviceVars, modeVars
<1>2. ForwardType'
  BY <1>1 DEF ForwardInv, ForwardType
<1>3. SUFFICES ASSUME Mended, ~disturbed PROVE FrameInv'
  BY <1>1, <1>2 DEF ForwardInv, Mended, ReTimeout, ToFpga, NfTimeout
<1>4. Settled
  BY <1>1, <1>3 DEF ForwardInv, FrameInv, InBuffer, UnderWay
<1>5. Settled'
  BY <1>1, <1>4 DEF Settled, Arrived
<1> QED BY <1>1, <1>3, <1>5 DEF ForwardInv, FrameInv

(* While a frame is on its way, FpgaNf does not come from ModbusSend unless *)
(* that counts as a disturbance.                                           *)
LEMMA StrayForward ==
  ASSUME ForwardInv, Stray
  PROVE  ForwardInv'
<1>1. /\ UNCHANGED <<line, host, no, transfer, waited, buffer, queue, sender, sent, tries, since>>
      /\ UNCHANGED <<re, acks, lost, got>> /\ nf' = TRUE
      /\ disturbed' = (disturbed \/ (~nf /\ no > 0))
  BY DEF Stray, hostVars, sendVars, deviceVars
<1>2. ForwardType'
  BY <1>1 DEF ForwardInv, ForwardType
<1>3. SUFFICES ASSUME Mended, ~disturbed, nf \/ ~(no > 0) PROVE FrameInv'
  BY <1>1, <1>2 DEF ForwardInv, Mended, ReTimeout, ToFpga, NfTimeout
<1>4. Settled \/ (UnderWay /\ nf)
  BY <1>3 DEF ForwardInv, FrameInv, InBuffer, UnderWay
<1>5. CASE Settled
  <2>1. Settled'
    BY <1>1, <1>5 DEF Settled, Arrived
  <2> QED BY <1>1, <1>3, <2>1 DEF ForwardInv, FrameInv
<1>6. CASE UnderWay /\ nf
  <2>1. Told /\ ~ToFpga
    BY <1>6 DEF UnderWay, Coming, Missed, Told
  <2> QED BY <2>1 DEF Stray
<1> QED BY <1>4, <1>5, <1>6

LEMMA TakeBackForward ==
  ASSUME ForwardInv, TakeBack
  PROVE  ForwardInv'
<1>1. /\ UNCHANGED <<line, host, no, transfer, waited, buffer, queue, sender, sent, tries, since>>
      /\ UNCHANGED <<nf, re, acks, lost, got, disturbed>>
  BY DEF TakeBack, hostVars, sendVars, deviceVars
<1> QED BY <1>1 DEF ForwardInv, ForwardType, FrameInv, Mended, ReTimeout, NfTimeout, ToFpga,
         Settled, InBuffer, UnderWay, Arrived, Coming, Missed, Told

(* The acknowledgement is the frame's only one.                            *)
LEMMA AcknowledgeForward ==
  ASSUME ForwardInv, Acknowledge
  PROVE  ForwardInv'
<1>1. /\ UNCHANGED <<line, host, no, transfer, waited, buffer, queue, sender, sent, tries, since>>
      /\ UNCHANGED <<got, disturbed>> /\ acks # <<>> /\ acks' = Tail(acks) /\ re' = TRUE
      /\ (nf' = nf /\ mode' = mode) \/ (~ToFpga /\ mode' = TRUE)
  BY DEF Acknowledge, hostVars, sendVars, modeVars
<1>2. ForwardType'
  BY <1>1 DEF ForwardInv, ForwardType
<1>3. SUFFICES ASSUME Mended, ~disturbed PROVE FrameInv'
  BY <1>1, <1>2 DEF ForwardInv, Mended, ReTimeout, ToFpga, NfTimeout
<1>4. UnderWay /\ Coming
  BY <1>1, <1>3 DEF ForwardInv, FrameInv, Settled, InBuffer, UnderWay, Missed, Told
<1>5. acks' = <<>>
  BY <1>1, <1>4 DEF Coming
<1>6. Told'
  BY <1>1, <1>4, <1>5 DEF Coming, Told, ToFpga
<1>7. ReTimeout' = ReTimeout
  BY <1>1 DEF ReTimeout, ToFpga
<1>8. UnderWay'
  BY <1>1, <1>4, <1>6, <1>7 DEF UnderWay, Arrived
<1> QED BY <1>1, <1>3, <1>8 DEF ForwardInv, FrameInv

(* The host sends when no frame waits in the buffer.                       *)
LEMMA HostSendForward ==
  ASSUME ForwardInv, HostSend
  PROVE  ForwardInv'
<1>1. /\ UNCHANGED <<line, no, transfer, queue, sender, sent, tries, since, re, acks, lost, got, disturbed>>
      /\ buffer' = <<transfer, no>> /\ nf' = (nf \/ (ToFpga /\ no = 0))
      /\ host = "ready" /\ ~CanReceive /\ host' = "waiting" /\ waited' = 0
  BY DEF HostSend, sendVars, deviceVars, modeVars
<1>2. ForwardType'
  BY <1>1 DEF ForwardInv, ForwardType
<1>3. SUFFICES ASSUME Mended, ~disturbed PROVE FrameInv'
  BY <1>1, <1>2 DEF ForwardInv, Mended, ReTimeout, ToFpga, NfTimeout
<1>4. CASE Settled
  BY <1>1, <1>4 DEF Settled, Arrived, FrameInv
<1>5. CASE UnderWay
  <2>1. no > 0 /\ no' > 0 /\ ReTimeout' = ReTimeout /\ ReTimeout \in Nat
    BY <1>1, <1>3, <1>5, LineFacts DEF UnderWay, ForwardInv, ReTimeout, ToFpga
  <2>2. no # 0
    BY <2>1 DEF ForwardInv, ForwardType
  <2>3. nf' <=> nf
    BY <1>1, <2>2
  <2>4. (Coming \/ Missed \/ Told)'
    BY <1>1, <1>5, <2>1, <2>3 DEF UnderWay, Coming, Missed, Told, ToFpga
  <2>5. waited' <= since' + (IF tries' = 2 THEN ReTimeout' ELSE 0)
    BY <1>1, <2>1 DEF ForwardInv, ForwardType
  <2>6. UnderWay'
    BY <1>1, <1>5, <2>1, <2>4, <2>5 DEF UnderWay, Arrived
  <2> QED BY <1>1, <2>6 DEF FrameInv
<1> QED BY <1>1, <1>3, <1>4, <1>5 DEF ForwardInv, FrameInv, InBuffer, CanReceive

(* Nf is free: the frame before has arrived.                               *)
LEMMA AcceptForward ==
  ASSUME ForwardInv, Accept
  PROVE  ForwardInv'
<1>1. /\ UNCHANGED <<line, transfer, waited, buffer, mode, sender, sent, tries, since, re, acks, lost, got>>
      /\ host = "waiting" /\ nf /\ (~ToFpga => ~CanTake) /\ nf' = FALSE /\ no' = no + 1
      /\ queue' = (IF queue < 10 THEN queue + 1 ELSE queue)
      /\ host' = (IF no + 1 = Frames THEN "done" ELSE "ready")
      /\ disturbed' = (disturbed \/ sender = "poll")
  BY DEF Accept, sendVars, deviceVars
<1>2. ForwardType'
  BY <1>1 DEF ForwardInv, ForwardType
<1>3. SUFFICES ASSUME Mended, ~disturbed, sender # "poll" PROVE FrameInv'
  BY <1>1, <1>2 DEF ForwardInv, Mended, ReTimeout, ToFpga, NfTimeout
<1>4. Settled
  BY <1>1, <1>3 DEF ForwardInv, FrameInv, InBuffer, UnderWay, Coming, Missed, Told, CanTake
<1>5. no' - 1 = no /\ no' > 0
  BY <1>1 DEF ForwardInv, ForwardType
<1>6. buffer' = <<transfer', no' - 1>>
  BY <1>1, <1>3, <1>5 DEF ForwardInv, FrameInv
<1>7. (Arrived(no - 1))'
  BY <1>1, <1>4, <1>5 DEF Settled, Arrived
<1>8. queue' = 1 /\ host' \in {"ready", "done"}
  BY <1>1, <1>4 DEF Settled
<1>9. InBuffer'
  BY <1>1, <1>3, <1>4, <1>5, <1>6, <1>7, <1>8 DEF Settled, InBuffer
<1> QED BY <1>8, <1>9 DEF FrameInv

(* The handler gives up on nothing that is under way.                      *)
LEMMA RejectForward ==
  ASSUME ForwardInv, Reject
  PROVE  ForwardInv'
<1>1. /\ UNCHANGED <<line, no, transfer, waited, queue, sender, tries, since, re, acks, got, disturbed>>
      /\ host = "waiting" /\ waited = 8 /\ host' = "failed"
  BY DEF Reject, sendVars, deviceVars, modeVars, NfTimeout
<1>2. ForwardType'
  BY <1>1 DEF ForwardInv, ForwardType
<1>3. SUFFICES ASSUME Mended, ~disturbed PROVE FrameInv'
  BY <1>1, <1>2 DEF ForwardInv, Mended, ReTimeout, ToFpga, NfTimeout
<1>4. ~UnderWay
  BY <1>1, <1>3, LineFacts DEF ForwardInv, ForwardType, UnderWay, Coming, Missed, Told
<1>5. Settled
  BY <1>1, <1>3, <1>4 DEF ForwardInv, FrameInv, InBuffer
<1>6. Settled'
  BY <1>1, <1>5 DEF Settled, Arrived
<1> QED BY <1>1, <1>6 DEF FrameInv

LEMMA RestartForward ==
  ASSUME ForwardInv, Restart
  PROVE  ForwardInv'
<1>1. /\ UNCHANGED <<line, waited, queue, sender, tries, since, re, acks, disturbed>>
      /\ host = "failed" /\ host' = "ready" /\ no' = 0
  BY DEF Restart, sendVars, deviceVars, modeVars
<1>2. ForwardType'
  BY <1>1 DEF ForwardInv, ForwardType
<1>3. SUFFICES ASSUME Mended, ~disturbed PROVE FrameInv'
  BY <1>1, <1>2 DEF ForwardInv, Mended, ReTimeout, ToFpga, NfTimeout
<1>4. Settled
  BY <1>1, <1>3 DEF ForwardInv, FrameInv, InBuffer, UnderWay
<1>5. Settled'
  BY <1>1, <1>4 DEF Settled, Arrived
<1> QED BY <1>1, <1>5 DEF FrameInv

(* The acknowledgement ages with the time since the sending.               *)
LEMMA TickForward ==
  ASSUME ForwardInv, Tick
  PROVE  ForwardInv'
<1>1. /\ UNCHANGED <<line, host, no, transfer, buffer, queue, mode, sender, sent, tries, nf, re, lost, got, disturbed>>
      /\ waited' = (IF host = "waiting" THEN waited + 1 ELSE waited)
      /\ since' = (IF sender = "sent" THEN since + 1 ELSE since)
      /\ acks' = [i \in DOMAIN acks |-> acks[i] + 1]
      /\ ~CanReceive /\ ~CanTake /\ ~Expired /\ (acks # <<>> => Head(acks) < line.delay)
  BY DEF Tick, modeVars
<1>2. ForwardType'
  BY <1>1 DEF ForwardInv, ForwardType
<1>3. SUFFICES ASSUME Mended, ~disturbed PROVE FrameInv'
  BY <1>1, <1>2 DEF ForwardInv, Mended, ReTimeout, ToFpga, NfTimeout
<1>4. acks = <<>> => acks' = <<>>
  BY <1>1
<1>5. CASE Settled
  <2>1. Settled'
    BY <1>1, <1>4, <1>5 DEF Settled, Arrived
  <2> QED BY <1>1, <1>3, <2>1 DEF ForwardInv, FrameInv
<1>6. CASE UnderWay
  <2>1. ReTimeout' = ReTimeout /\ ReTimeout \in Nat /\ since \in Nat /\ since' = since + 1
        /\ line.delay \in Nat
    BY <1>1, <1>3, <1>6, LineFacts
       DEF ForwardInv, ForwardType, UnderWay, ReTimeout, ToFpga
  <2>2. (host = "waiting" => waited <= since + (IF tries = 2 THEN ReTimeout ELSE 0))'
    BY <1>1, <1>6, <2>1 DEF UnderWay, ForwardInv, ForwardType
  <2>3. ASSUME Coming PROVE Coming'
    <3>1. acks' = <<since'>>
      BY <1>1, <2>1, <2>3 DEF Coming
    <3>2. since' <= line.delay
      BY <1>1, <2>1, <2>3 DEF Coming
    <3> QED BY <1>1, <2>3, <3>1, <3>2 DEF Coming
  <2>4. ASSUME Missed PROVE Missed'
    <3>1. since # ReTimeout
      BY <1>1, <1>6, <2>4 DEF UnderWay, Missed, Expired
    <3> QED BY <1>1, <1>4, <2>1, <2>4, <3>1 DEF Missed
  <2>5. ~Told
    BY <1>1, <1>6 DEF UnderWay, Told, CanTake
  <2>6. (Coming \/ Missed)'
    BY <1>6, <2>3, <2>4, <2>5 DEF UnderWay
  <2>7. UnderWay'
    BY <1>1, <1>6, <2>2, <2>6 DEF UnderWay, Arrived
  <2> QED BY <1>1, <1>3, <2>7 DEF ForwardInv, FrameInv
<1> QED BY <1>1, <1>3, <1>5, <1>6 DEF ForwardInv, FrameInv, InBuffer, CanReceive

LEMMA ForwardInvStep == ForwardInv /\ [ForwardNext]_forwardVars => ForwardInv'
<1> SUFFICES ASSUME ForwardInv, [ForwardNext]_forwardVars PROVE ForwardInv'
  OBVIOUS
<1>1. CASE UNCHANGED forwardVars
  BY <1>1 DEF forwardVars, hostVars, sendVars, deviceVars, modeVars, ForwardInv, ForwardType, FrameInv,
    Mended, ReTimeout, NfTimeout, ToFpga, Settled, InBuffer, UnderWay, Arrived, Coming,
    Missed, Told
<1> QED BY <1>1, EnterForward, ReceiveForward, TakeReForward, SendAgainForward, GiveUpForward,
           LeaveForward, StrayForward, TakeBackForward, AcknowledgeForward, HostSendForward, AcceptForward, RejectForward, RestartForward,
           TickForward DEF ForwardNext

(* Over a line whose losses the second sending mends, when a frame is      *)
(* accepted the device has all frames before it but the last, for any      *)
(* lines, lengths of files and numbers of transfers, however often the     *)
(* firmware mode is left or taken back and FpgaNf given by ModbusSend: all *)
(* but a frame accepted while ModbusSend still polls, and an FpgaNf that   *)
(* comes in the middle of the file, does no harm.                          *)
THEOREM ForwardCorrect ==
  ForwardSpec => []FramesArrive
<1>1. ForwardInv => FramesArrive
  <2> SUFFICES ASSUME ForwardInv, Mended, ~disturbed, NEW k \in 0..(no - 2) PROVE <<transfer, k>> \in got
    BY DEF FramesArrive, AcceptedArrived
  <2>1. Arrived(no) \/ Arrived(no - 1)
    BY DEF ForwardInv, FrameInv, Settled, InBuffer, UnderWay
  <2> QED BY <2>1 DEF ForwardInv, ForwardType, Arrived
<1> QED BY <1>1, ForwardInvInit, ForwardInvStep, PTL DEF ForwardSpec

(* Types.  Acknowledgements are in the order of their age, so that none is *)
(* older than the first, which Tick does not let become overdue.           *)
ForwardTypes ==
  /\ ForwardTypeOK
  /\ host \in {"ready", "waiting"} => no < Frames
  /\ \A i, j \in 1..Len(acks) : i < j => acks[j] <= acks[i]

LEMMA ForwardConstants ==
  ASSUME ForwardTypeOK
  PROVE  /\ Frames \in Nat \ {0} /\ MaxTransfers \in Nat \ {0} /\ MaxLosses \in Nat /\ MaxTaken \in Nat
         /\ line.delay \in Nat \ {0} /\ line.losses \in Nat
         /\ ReTimeout \in {3, 5} /\ NfTimeout = 8 /\ ToFpga \in BOOLEAN
BY ForwardAssumption DEF ForwardAssumption, ForwardTypeOK, ReTimeout, NfTimeout, ToFpga

LEMMA ForwardTypesInit ==
  ASSUME ForwardInit
  PROVE  ForwardTypes
<1>1. line \in Lines /\ Frames \in Nat \ {0} /\ MaxTransfers \in Nat \ {0} /\ MaxLosses \in Nat /\ MaxTaken \in Nat
  BY ForwardAssumption DEF ForwardInit, ForwardAssumption
<1>2. line.losses \in Nat /\ line.delay \in Nat /\ ReTimeout \in {3, 5} /\ ToFpga \in BOOLEAN
  BY <1>1, ForwardAssumption DEF ForwardAssumption, ReTimeout, ToFpga
<1>3. <<1, 0>> \in FrameIds
  BY <1>1 DEF FrameIds
<1>4. <<0, 0>> \in (0..line.losses) \X (0..MaxLosses)
  BY <1>1, <1>2
<1>5. <<>> \in Seq(0..line.delay)
  OBVIOUS
<1>6. ForwardTypeOK
  <2>1. acks \in Seq(0..line.delay) /\ lost \in (0..line.losses) \X (0..MaxLosses)
    BY <1>4, <1>5 DEF ForwardInit
  <2>2. mode \in BOOLEAN /\ nf \in BOOLEAN /\ re \in BOOLEAN
    BY <1>2 DEF ForwardInit
  <2>3. /\ no \in 0..Frames /\ transfer \in 1..MaxTransfers /\ waited \in 0..NfTimeout
        /\ queue \in 0..10 /\ tries \in 1..2 /\ since \in 0..ReTimeout
    BY <1>1, <1>2 DEF ForwardInit, NfTimeout
  <2>4. taken \in 0..MaxTaken /\ disturbed \in BOOLEAN /\ sender \in {"poll", "wait", "sent"}
    <3>1. taken = 0 /\ MaxTaken \in Nat
      BY ForwardAssumption DEF ForwardInit, ForwardAssumption
    <3>2. taken \in 0..MaxTaken
      BY ONLY <3>1
    <3>3. disturbed \in BOOLEAN /\ sender \in {"poll", "wait"}
      BY DEF ForwardInit
    <3> QED BY <3>2, <3>3
  <2> QED BY <1>1, <1>3, <2>1, <2>2, <2>3, <2>4 DEF ForwardInit, ForwardTypeOK
<1>7. no < Frames /\ Len(acks) = 0
  BY <1>1 DEF ForwardInit
<1> QED BY <1>6, <1>7 DEF ForwardTypes

(* A sending adds the youngest acknowledgement at most.                    *)
LEMMA TransmitTypes ==
  ASSUME ForwardTypes, NEW frame \in FrameIds, NEW l \in 0..line.losses,
         Transmit(frame, l)
  PROVE  /\ acks' \in Seq(0..line.delay) /\ got' \subseteq FrameIds
         /\ lost' \in (0..line.losses) \X (0..MaxLosses)
         /\ \A i, j \in 1..Len(acks') : i < j => acks'[j] <= acks'[i]
<1>1. /\ acks \in Seq(0..line.delay) /\ got \subseteq FrameIds /\ line.delay \in Nat \ {0}
      /\ line.losses \in Nat /\ MaxLosses \in Nat /\ lost \in (0..line.losses) \X (0..MaxLosses)
  BY ForwardConstants DEF ForwardTypes, ForwardTypeOK
<1>2. CASE got' = got \cup {frame} /\ acks' = Append(acks, 0) /\ lost' = <<l, lost[2]>>
  <2>1. acks' \in Seq(0..line.delay) /\ Len(acks') = Len(acks) + 1 /\ Len(acks) \in Nat
    BY <1>1, <1>2
  <2>2. /\ \A i \in 1..Len(acks) : acks'[i] = acks[i] /\ acks[i] \in 0..line.delay
        /\ acks'[Len(acks) + 1] = 0
    <3>1. acks' = Append(acks, 0) /\ acks \in Seq(0..line.delay)
      BY <1>1, <1>2
    <3>2. \A i \in 1..Len(acks) : acks'[i] = acks[i]
      BY <3>1
    <3>3. \A i \in 1..Len(acks) : acks[i] \in 0..line.delay
      BY <3>1, ElementOfSeq
    <3> QED BY <3>1, <3>2, <3>3
  <2>3. \A i, j \in 1..Len(acks') : i < j => acks'[j] <= acks'[i]
    <3> SUFFICES ASSUME NEW i \in 1..Len(acks'), NEW j \in 1..Len(acks'), i < j
                 PROVE  acks'[j] <= acks'[i]
      OBVIOUS
    <3>1. i \in 1..Len(acks)
      BY <2>1
    <3>2. CASE j \in 1..Len(acks)
      <4>1. acks[j] <= acks[i]
        BY <3>1, <3>2 DEF ForwardTypes
      <4> QED BY <2>2, <3>1, <3>2, <4>1
    <3>3. CASE j = Len(acks) + 1
      <4>1. acks'[i] \in 0..line.delay /\ acks'[j] = 0
        BY <2>2, <3>1, <3>3
      <4>2. acks'[i] \in Nat
        BY <1>1, <4>1
      <4> QED BY <4>1, <4>2
    <3> QED BY <2>1, <3>2, <3>3
  <2> QED BY <1>1, <1>2, <2>1, <2>3
<1>3. CASE /\ l < line.losses /\ lost[2] < MaxLosses /\ lost' = <<l + 1, lost[2] + 1>>
           /\ got' \in {got, got \cup {frame}} /\ acks' = acks
  <2>1. lost' \in (0..line.losses) \X (0..MaxLosses)
    BY <1>1, <1>3
  <2> QED BY <1>1, <1>3, <2>1 DEF ForwardTypes
<1> QED BY <1>2, <1>3 DEF Transmit

LEMMA ForwardTypesStep ==
  ForwardTypes /\ [ForwardNext]_forwardVars => ForwardTypes'
<1> SUFFICES ASSUME ForwardTypes, [ForwardNext]_forwardVars PROVE ForwardTypes'
  OBVIOUS
<1>0. ForwardTypeOK
  BY DEF ForwardTypes
<1>1. /\ Frames \in Nat \ {0} /\ MaxTransfers \in Nat \ {0} /\ MaxLosses \in Nat /\ MaxTaken \in Nat
      /\ line.delay \in Nat \ {0} /\ line.losses \in Nat
      /\ ReTimeout \in {3, 5} /\ NfTimeout = 8 /\ ToFpga \in BOOLEAN
  BY <1>0, ForwardConstants
<1>2. CASE Receive
  <2>1. 0 \in 0..line.losses /\ buffer \in FrameIds /\ Transmit(buffer, 0)
    BY <1>0, <1>1, <1>2 DEF ForwardTypeOK, Receive
  <2>2. queue' \in 0..10
    BY <1>0, <1>2 DEF Receive, CanReceive, ForwardTypeOK
  <2>3. /\ acks' \in Seq(0..line.delay) /\ got' \subseteq FrameIds
        /\ lost' \in (0..line.losses) \X (0..MaxLosses)
        /\ \A i, j \in 1..Len(acks') : i < j => acks'[j] <= acks'[i]
    BY <2>1, TransmitTypes
  <2> QED BY <1>0, <1>1, <1>2, <2>1, <2>2, <2>3
          DEF Receive, hostVars, modeVars, ForwardTypeOK, FrameIds, ReTimeout, NfTimeout, ToFpga, ForwardTypes
<1>3. CASE SendAgain
  <2>1. lost[1] \in 0..line.losses /\ sent \in FrameIds /\ Transmit(sent, lost[1])
    BY <1>0, <1>1, <1>3 DEF ForwardTypeOK, SendAgain
  <2>2. /\ acks' \in Seq(0..line.delay) /\ got' \subseteq FrameIds
        /\ lost' \in (0..line.losses) \X (0..MaxLosses)
        /\ \A i, j \in 1..Len(acks') : i < j => acks'[j] <= acks'[i]
    BY <2>1, TransmitTypes
  <2> QED BY <1>0, <1>1, <1>3, <2>1, <2>2
          DEF SendAgain, hostVars, modeVars, ForwardTypeOK, FrameIds, ReTimeout, NfTimeout, ToFpga, ForwardTypes
<1>4. CASE TakeRe
  BY <1>0, <1>4 DEF TakeRe, Afterwards, hostVars, deviceVars, modeVars, ForwardTypeOK, FrameIds, ReTimeout,
    NfTimeout, ToFpga, ForwardTypes
<1>5. CASE GiveUp
  <2>1. nf' \in BOOLEAN /\ mode' \in BOOLEAN
    BY <1>0, <1>5 DEF GiveUp, ForwardTypeOK
  <2> QED BY <1>0, <1>5, <2>1 DEF GiveUp, Afterwards, hostVars, deviceVars, modeVars, ForwardTypeOK, FrameIds,
            ReTimeout, NfTimeout, ToFpga, ForwardTypes
<1>6. CASE Leave
  BY <1>0, <1>6 DEF Leave, hostVars, sendVars, deviceVars, modeVars, ForwardTypeOK, FrameIds,
    ReTimeout, NfTimeout, ToFpga, ForwardTypes
<1>7. CASE Enter
  BY <1>0, <1>7 DEF Enter, hostVars, deviceVars, modeVars, ForwardTypeOK, FrameIds, ReTimeout,
    NfTimeout, ToFpga, ForwardTypes
<1>8. CASE Stray
  <2>1. disturbed' \in BOOLEAN
    BY <1>0, <1>8 DEF Stray, ForwardTypeOK
  <2> QED BY <1>0, <1>8, <2>1 DEF Stray, hostVars, sendVars, deviceVars, ForwardTypeOK, FrameIds,
            ReTimeout, NfTimeout, ToFpga, ForwardTypes
<1>9. CASE TakeBack
  <2>1. taken' \in 0..MaxTaken
    BY <1>0, <1>1, <1>9 DEF TakeBack, ForwardTypeOK
  <2> QED BY <1>0, <1>9, <2>1 DEF TakeBack, hostVars, sendVars, deviceVars, ForwardTypeOK, FrameIds,
            ReTimeout, NfTimeout, ToFpga, ForwardTypes
<1>10. CASE Acknowledge
  <2>1. acks \in Seq(0..line.delay) /\ acks # <<>> /\ acks' = Tail(acks)
    BY <1>0, <1>10 DEF Acknowledge, ForwardTypeOK
  <2>2. acks' \in Seq(0..line.delay) /\ Len(acks) \in Nat /\ Len(acks') = Len(acks) - 1
    BY <2>1
  <2>3. \A i \in 1..Len(acks') : acks'[i] = acks[i + 1]
    BY <2>1, <2>2
  <2>4. \A i, j \in 1..Len(acks') : i < j => acks'[j] <= acks'[i]
    BY <2>2, <2>3 DEF ForwardTypes
  <2>5. re' \in BOOLEAN /\ nf' \in BOOLEAN /\ mode' \in BOOLEAN
    BY <1>0, <1>10 DEF Acknowledge, ForwardTypeOK
  <2> QED BY <1>0, <1>10, <2>2, <2>4, <2>5 DEF Acknowledge, hostVars, sendVars, modeVars, ForwardTypeOK,
            FrameIds, ReTimeout, NfTimeout, ToFpga, ForwardTypes
<1>11. CASE HostSend
  <2>1. <<transfer, no>> \in FrameIds
    BY <1>0, <1>1, <1>11 DEF HostSend, ForwardTypeOK, FrameIds, ForwardTypes
  <2>2. nf' \in BOOLEAN /\ mode' \in BOOLEAN
    BY <1>11 DEF HostSend
  <2> QED BY <1>0, <1>1, <1>11, <2>1, <2>2 DEF HostSend, sendVars, deviceVars, modeVars, ForwardTypeOK,
            FrameIds, ReTimeout, NfTimeout, ToFpga, ForwardTypes
<1>12. CASE Accept
  <2>1. no' \in 0..Frames /\ (host' \in {"ready", "waiting"} => no' < Frames)
    BY <1>0, <1>1, <1>12 DEF Accept, ForwardTypeOK, ForwardTypes
  <2>2. queue' \in 0..10 /\ host' \in {"ready", "done"}
    BY <1>0, <1>12 DEF Accept, ForwardTypeOK
  <2>3. disturbed' \in BOOLEAN
    BY <1>0, <1>12 DEF Accept, ForwardTypeOK
  <2> QED BY <1>0, <1>12, <2>1, <2>2, <2>3 DEF Accept, sendVars, deviceVars, modeVars, ForwardTypeOK, FrameIds,
            ReTimeout, NfTimeout, ToFpga, ForwardTypes
<1>13. CASE Reject
  BY <1>0, <1>13 DEF Reject, sendVars, deviceVars, modeVars, ForwardTypeOK, FrameIds, ReTimeout,
    NfTimeout, ToFpga, ForwardTypes
<1>14. CASE Restart
  BY <1>0, <1>1, <1>14 DEF Restart, sendVars, deviceVars, modeVars, ForwardTypeOK, FrameIds, ReTimeout,
    NfTimeout, ToFpga, ForwardTypes
<1>15. CASE Tick
  <2>1. waited' \in 0..8
    BY <1>0, <1>1, <1>15 DEF Tick, ForwardTypeOK
  <2>2. since' \in 0..ReTimeout
    BY <1>0, <1>1, <1>15 DEF Tick, ForwardTypeOK, CanTake, Expired
  <2>3. acks \in Seq(0..line.delay) /\ acks' = [i \in DOMAIN acks |-> acks[i] + 1]
    BY <1>0, <1>15 DEF Tick, ForwardTypeOK
  <2>4. Len(acks) \in Nat /\ Len(acks') = Len(acks) /\ acks' \in Seq(Nat)
        /\ \A i \in 1..Len(acks) : acks'[i] = acks[i] + 1 /\ acks[i] \in 0..line.delay
    <3>1. DOMAIN acks = 1..Len(acks) /\ Len(acks) \in Nat
      BY <2>3
    <3>2. \A i \in 1..Len(acks) : acks'[i] = acks[i] + 1 /\ acks[i] \in 0..line.delay
      <4> SUFFICES ASSUME NEW i \in 1..Len(acks)
                   PROVE  acks'[i] = acks[i] + 1 /\ acks[i] \in 0..line.delay
        OBVIOUS
      <4>1. acks[i] \in 0..line.delay
        BY <2>3, ElementOfSeq
      <4>2. acks'[i] = acks[i] + 1
        BY <2>3, <3>1
      <4> QED BY <4>1, <4>2
    <3>3. \A i \in 1..Len(acks) : acks[i] + 1 \in Nat
      BY <1>1, <3>2
    <3>4. acks' = [i \in 1..Len(acks) |-> acks[i] + 1]
      BY <2>3, <3>1
    <3>5. acks' \in Seq(Nat) /\ Len(acks') = Len(acks)
      BY <3>1, <3>3, <3>4
    <3> QED BY <3>1, <3>2, <3>5
  <2>5. \A i \in 1..Len(acks) : acks[i] < line.delay
    <3> SUFFICES ASSUME NEW i \in 1..Len(acks) PROVE acks[i] < line.delay
      OBVIOUS
    <3>1. acks # <<>> /\ Head(acks) = acks[1] /\ 1 \in 1..Len(acks)
      BY <2>3, <2>4
    <3>2. acks[1] < line.delay
      BY <1>15, <3>1 DEF Tick
    <3>3. i = 1 \/ acks[i] <= acks[1]
      BY <2>4, <3>1 DEF ForwardTypes
    <3> QED BY <1>1, <2>4, <3>1, <3>2, <3>3
  <2>6. \A i \in 1..Len(acks') : acks'[i] \in 0..line.delay
    BY <1>1, <2>4, <2>5
  <2>7. acks' \in Seq(0..line.delay)
    <3> DEFINE ages == 0..line.delay
    <3>1. acks' = [i \in 1..Len(acks) |-> acks'[i]] /\ \A i \in 1..Len(acks) : acks'[i] \in ages
      BY <2>4, <2>6
    <3> HIDE DEF ages
    <3>2. [i \in 1..Len(acks) |-> acks'[i]] \in Seq(ages)
      BY <2>4, <3>1
    <3>3. acks' \in Seq(ages)
      BY <3>1, <3>2
    <3> QED BY <3>3 DEF ages
  <2>8. \A i, j \in 1..Len(acks') : i < j => acks'[j] <= acks'[i]
    BY <1>1, <2>4 DEF ForwardTypes
  <2> QED BY <1>0, <1>1, <1>15, <2>1, <2>2, <2>7, <2>8 DEF Tick, modeVars, ForwardTypeOK, FrameIds,
            ReTimeout, NfTimeout, ToFpga, ForwardTypes
<1>16. CASE UNCHANGED forwardVars
  BY <1>0, <1>16 DEF forwardVars, hostVars, sendVars, deviceVars, modeVars, ForwardTypeOK, FrameIds,
    ReTimeout, NfTimeout, ToFpga, ForwardTypes
<1> QED BY <1>2, <1>3, <1>4, <1>5, <1>6, <1>7, <1>8, <1>9, <1>10, <1>11, <1>12, <1>13,
            <1>14, <1>15, <1>16 DEF ForwardNext

(* The queue of ten, the times and the counts of losses stay in range, for *)
(* any lines, files and numbers of transfers.                              *)
THEOREM ForwardTypeCorrect ==
  ForwardSpec => []ForwardTypeOK
<1>1. ForwardTypes => ForwardTypeOK
  BY DEF ForwardTypes
<1> QED BY <1>1, ForwardTypesInit, ForwardTypesStep, PTL DEF ForwardSpec
=============================================================================
