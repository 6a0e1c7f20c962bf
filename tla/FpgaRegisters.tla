--------------------------- MODULE FpgaRegisters ---------------------------
(***************************************************************************)
(* The registers of the FPGA, written by the Main task and read by the     *)
(* Sensor task over one parallel bus of pins.  FpgaSensor.c writes a       *)
(* register only when its value differs from the one written last, byte by *)
(* byte; nothing is read back.  Both tasks have priority 5.  Every tick    *)
(* wakes Sensor, ahead of a Main task that has not finished its cycle.     *)
(***************************************************************************)
EXTENDS Naturals, Sequences

CONSTANTS
  Regs,      \* how many registers are written (23)
  Values,    \* the values of a register, sequences of bytes
  Zero,      \* the value of a register after a reset
  Overrun,   \* whether a cycle of Main may last longer than a tick
  MaxResets  \* bound: resets of the processor

RegIds == 1..Regs
ByteIds == 1..Len(Zero)
Bytes == {v[i] : v \in Values, i \in ByteIds}

ASSUME RegisterAssumption ==
  /\ Regs \in Nat \ {0} /\ MaxResets \in Nat /\ Overrun \in BOOLEAN
  /\ Zero \in Values /\ Len(Zero) \in Nat \ {0}
  /\ Values \subseteq [ByteIds -> Bytes]

VARIABLES
  cmd,     \* what the Get functions of FpgaSensor.c return
  want,    \* FpgaWriteReg
  last,    \* lastFpgaWriteReg
  fpga,    \* the registers in the FPGA
  bus,     \* the pins: RE, WE, the data pins' direction, address and data
  pc,      \* where Main is in its cycle
  reg,     \* the register Main has come to
  byte,    \* Sensor_2G_SetMcuRegister's i
  sensor,  \* where Sensor is
  idle,    \* whether RunState.Now is IDLE or above
  resets   \* resets so far

vars == <<cmd, want, last, fpga, bus, pc, reg, byte, sensor, idle, resets>>

Addresses == RegIds \X ByteIds

TypeOK ==
  /\ {cmd, want, last, fpga} \subseteq [RegIds -> [ByteIds -> Bytes]]
  /\ bus \in [re : BOOLEAN, we : BOOLEAN, out : BOOLEAN,
              addr : Addresses, data : Bytes]
  /\ pc \in {"boot", "wait", "cycle", "next", "select", "clock", "release"}
  /\ reg \in 1..(Regs + 1)
  /\ byte \in ByteIds
  /\ sensor \in {"asleep", "select", "sample"}
  /\ idle \in BOOLEAN
  /\ resets \in 0..MaxResets

ZeroRegs == [r \in RegIds |-> Zero]
IdleBus == [re |-> FALSE, we |-> FALSE, out |-> TRUE, addr |-> <<1, 1>>, data |-> Zero[1]]

Init ==
  /\ cmd \in [RegIds -> Values] /\ want = ZeroRegs /\ last = ZeroRegs
  /\ fpga \in [RegIds -> Values]
  /\ bus = IdleBus
  /\ pc = "boot" /\ reg = 1 /\ byte = 1 /\ sensor = "asleep"
  /\ idle = FALSE /\ resets = 0

-----------------------------------------------------------------------------
(* Start of the processor: IF_FpgaUnit_Init pulses the FPGA's reset line,  *)
(* IF_FpgaSensor_ParamInit clears both copies of the registers.            *)
Boot ==
  /\ pc = "boot"
  /\ fpga' = ZeroRegs /\ want' = ZeroRegs /\ last' = ZeroRegs
  /\ bus' = IdleBus
  /\ pc' = "wait"
  /\ UNCHANGED <<cmd, reg, byte, sensor, idle, resets>>

Reset ==
  /\ pc # "boot" /\ resets < MaxResets
  /\ resets' = resets + 1
  /\ pc' = "boot" /\ reg' = 1 /\ byte' = 1 /\ sensor' = "asleep"
  /\ idle' = FALSE
  /\ UNCHANGED <<cmd, want, last, fpga, bus>>

-----------------------------------------------------------------------------
(* Sensor: ReadStart turns the data pins around, each read moves address   *)
(* and control pins, ReadEnd turns them back and Main is notified.  A read *)
(* of the registers ends before the next tick.                             *)
ReadStart ==
  /\ sensor = "asleep"
  /\ pc = "wait" \/ (Overrun /\ pc # "boot")
  /\ bus' = [bus EXCEPT !.out = FALSE]
  /\ sensor' = "select"
  /\ UNCHANGED <<cmd, want, last, fpga, pc, reg, byte, idle, resets>>

ReadSelect ==
  /\ sensor = "select"
  /\ \E a \in Addresses :
       bus' = [bus EXCEPT !.re = TRUE, !.we = FALSE, !.addr = a]
  /\ sensor' = "sample"
  /\ UNCHANGED <<cmd, want, last, fpga, pc, reg, byte, idle, resets>>

ReadSample ==
  /\ sensor = "sample"
  /\ bus' = [bus EXCEPT !.re = FALSE]
  /\ sensor' = "select"
  /\ UNCHANGED <<cmd, want, last, fpga, pc, reg, byte, idle, resets>>

(* Mutant: the data pins stay inputs. *)
ReadEndKeepsInput ==
  /\ sensor = "select"
  /\ sensor' = "asleep"
  /\ pc' = IF pc = "wait" THEN "cycle" ELSE pc
  /\ UNCHANGED <<cmd, want, last, fpga, bus, reg, byte, idle, resets>>

ReadEnd ==
  /\ sensor = "select"
  /\ bus' = [bus EXCEPT !.out = TRUE]
  /\ sensor' = "asleep"
  /\ pc' = IF pc = "wait" THEN "cycle" ELSE pc
  /\ UNCHANGED <<cmd, want, last, fpga, reg, byte, idle, resets>>

-----------------------------------------------------------------------------
(* Main, from IDLE on: the registers are collected, and written where they *)
(* have changed.                                                           *)
CycleStart ==
  /\ pc = "cycle" /\ sensor = "asleep" /\ idle
  /\ want' = cmd
  /\ pc' = "next" /\ reg' = 1
  /\ UNCHANGED <<cmd, last, fpga, bus, byte, sensor, idle, resets>>

(* Below IDLE (STANDBY, INTLK) a cycle writes nothing.                     *)
CycleSkip ==
  /\ pc = "cycle" /\ sensor = "asleep" /\ ~idle
  /\ pc' = "wait"
  /\ UNCHANGED <<cmd, want, last, fpga, bus, reg, byte, sensor, idle, resets>>

NextRegister ==
  /\ pc = "next" /\ sensor = "asleep" /\ reg \in RegIds
  /\ IF last[reg] = want[reg]
     THEN pc' = pc /\ reg' = reg + 1
     ELSE pc' = "select" /\ reg' = reg
  /\ byte' = 1
  /\ UNCHANGED <<cmd, want, last, fpga, bus, sensor, idle, resets>>

CycleEnd ==
  /\ pc = "next" /\ sensor = "asleep" /\ reg = Regs + 1
  /\ pc' = "wait"
  /\ UNCHANGED <<cmd, want, last, fpga, bus, reg, byte, sensor, idle, resets>>

WriteSelect ==
  /\ pc = "select" /\ sensor = "asleep"
  /\ bus' = [bus EXCEPT !.re = TRUE, !.we = TRUE, !.addr = <<reg, byte>>,
                        !.data = want[reg][byte]]
  /\ pc' = "clock"
  /\ UNCHANGED <<cmd, want, last, fpga, reg, byte, sensor, idle, resets>>

(* A rising edge of the clock stores the data pins, if the FPGA is asked   *)
(* to; pins that nobody drives may read as anything.                       *)
WriteClock ==
  /\ pc = "clock" /\ sensor = "asleep"
  /\ IF bus.re /\ bus.we
     THEN \E d \in IF bus.out THEN {bus.data} ELSE Bytes :
            fpga' = [fpga EXCEPT ![bus.addr[1]][bus.addr[2]] = d]
     ELSE UNCHANGED fpga
  /\ pc' = "release"
  /\ UNCHANGED <<cmd, want, last, bus, reg, byte, sensor, idle, resets>>

(* Mutant: one write records them all. *)
WriteReleaseRecordsAll ==
  /\ pc = "release" /\ sensor = "asleep"
  /\ bus' = [bus EXCEPT !.re = FALSE, !.we = FALSE]
  /\ IF byte < Len(Zero)
     THEN pc' = "select" /\ byte' = byte + 1 /\ UNCHANGED last
     ELSE pc' = "next" /\ byte' = byte /\ last' = want
  /\ UNCHANGED <<cmd, want, fpga, reg, sensor, idle, resets>>

WriteRelease ==
  /\ pc = "release" /\ sensor = "asleep"
  /\ bus' = [bus EXCEPT !.re = FALSE, !.we = FALSE]
  /\ IF byte < Len(Zero)
     THEN pc' = "select" /\ byte' = byte + 1 /\ UNCHANGED last
     ELSE pc' = "next" /\ byte' = byte /\ last' = [last EXCEPT ![reg] = want[reg]]
  /\ UNCHANGED <<cmd, want, fpga, reg, sensor, idle, resets>>

(* A host or the regulator sets a new value. *)
Command ==
  /\ \E r \in RegIds, v \in Values : cmd' = [cmd EXCEPT ![r] = v]
  /\ UNCHANGED <<want, last, fpga, bus, pc, reg, byte, sensor, idle, resets>>

(* The ladder of states or a host takes the device to IDLE, or back; the   *)
(* guard has been passed then or not, a cycle is not broken off.           *)
StateChange ==
  /\ pc # "boot"
  /\ idle' = ~idle
  /\ UNCHANGED <<cmd, want, last, fpga, bus, pc, reg, byte, sensor, resets>>

-----------------------------------------------------------------------------
Read == ReadStart \/ ReadSelect \/ ReadSample \/ ReadEnd
Write == CycleStart \/ CycleSkip \/ NextRegister \/ CycleEnd
           \/ WriteSelect \/ WriteClock \/ WriteRelease

Next == Boot \/ Reset \/ Read \/ Write \/ Command \/ StateChange

Spec == Init /\ [][Next]_vars

(* Sensor and Main run every tick; a read comes to its end.                *)
FairSpec ==
  Spec /\ WF_vars(Boot) /\ WF_vars(Read) /\ WF_vars(Write) /\ SF_vars(ReadEnd)

-----------------------------------------------------------------------------
(* The FPGA holds what was written last: between cycles in every register, *)
(* in a cycle in all but the one that is being written.  On this alone the *)
(* test of FpgaSensor.c:131-251 relies, across resets of the processor.    *)
CacheAgrees ==
  pc # "boot" =>
    \A r \in RegIds :
      fpga[r] = last[r] \/ (r = reg /\ pc \in {"select", "clock", "release"})

(* A value that stays asked for, in a device that stays in IDLE or above,  *)
(* reaches the FPGA and stays there.  Below IDLE it may wait for ever.     *)
AskedIsWritten ==
  \A r \in RegIds, v \in Values :
    <>[](cmd[r] = v /\ idle) => <>[](fpga[r] = v)

(* "Write the register values of the FPGA", says FpgaSensor.c:124: at the  *)
(* end of a cycle the FPGA holds what the cycle collected.                 *)
CycleWrites == pc = "next" /\ reg = Regs + 1 => fpga = want

=============================================================================
