# Verification of the RF generator firmware (GN_AT32F437)

TLA+ models, TLC runs and TLAPS proofs about the firmware of an AT32F437 RF
power generator. Paths below are relative to the repository root (`src/`).
`PROJECT.json` lists the runs, the source lines of every definition, the
hazards the properties are aimed at, the findings and the theorems.

## 1. The system

The firmware is built twice from the same sources: as a bootloader (`BOOT`
defined) and as the application. Both start FreeRTOS tasks, serve the same host
ports, and share the flash and an external serial EEPROM.

| Part | State it keeps | Operations | Talks to |
|---|---|---|---|
| Bootloader (`SL/Boot/Boot.c`) | none in RAM but loop variables | count the reset, decrypt, check, copy, erase the flag, jump | firmware store |
| Firmware store (`SL/Nvm/Nvm.c`, `HAL/MCU_Flash/Flash.c`) | three file areas, the download flag, the reset counter | sector writes, CRC checks, flag | flash, EEPROM |
| Download handlers (`SL/Comm/fgipv2/fgipv2_layer7.c`, `SL/Comm/bsipv1/bsip_layer7.c`) | expected frame, file index, buffer and its fill, one set per port | one numbered frame at a time | firmware store; forward FPGA and ACDC files through queues and semaphores |
| Parameter store (`SL/Nvm/params_impl.c`) | four blocks, twice in RAM and twice in EEPROM; save flags `ActionsRSP`; factory mode | setters, resume factory settings, loop from flags to commands | `CmdQueue`, EEPROM |
| Command execution (`APP/PT_SWC/PT_ModuleOutput.c`) | `CmdQueue` | saves, baud rate, device reset; LED and interlock outputs, reflected-power switch-off | parameter store, timers |
| RF power control (`APP/PT_SWC/PT_ModuleInput.c`, `PT_SWC.c`) | run state, set power, PID state | run-state ladder, slow start, PID, ACDC switch-on | sensors, command parameters |
| Timers (`SL/Timer/Timer.c`) | a set of counters driven by a 1 ms interrupt | start, stop, time out | everyone |
| Modbus master (`SL/Comm/modus/ModBus.c`) | one pending request type, register images | send request, handle answer | ACDC supply on RS485 |
| BSIP transmit side (`bsip_layer7.c`) | pending acknowledgement, status and init parameters, resend | `BSIP_TxManagment` | UART1 |
| Link layers, UART driver | receive buffer per port, filled by interrupts | framing, CRC, time-out | queues of the tasks |
| FPGA sensor (`SL/Sensor/FpgaSensor.c`) | register cache written/last written | write what changed, read | SPI |
| EEPROM driver (`HAL/BSP_At24c256`) | none; a bit-banged bus | byte and page transfers | several tasks, no lock |
| Interface signals (`SL/Interface/Interface.c`) | debounce counters | sample, debounce | power control |

Tasks (`RTE/main.c`): Sensor and Main (priority 5), Interface, ModbusRecv and
ModbusSend (4), UserHMI for BSIP on UART1 (3), DebugHMI for FGIPv2 on UART2,
Port and the FPGA forwarder (2, time-sliced among themselves), HwTest (1). The
idle hook feeds an external watchdog.

What is hard here: power failing between or inside sector writes; the same
flash area, EEPROM and flags used by several tasks; retransmitted and restarted
transfers; counters one byte wide; queues filled without waiting; semaphores
with time-outs; flags that outlive what raised them. `PROJECT.json` lists each
such place under "hazards".

What makes each part correct:

- *Bootloader, store, downloads*: an application runs only if whole and
  verified; an interrupted boot is repeated with the same outcome; a download
  never leaves a running board without an application; the bootloader keeps the
  board only for a reason; boots end; crash loops are caught, and a healthy
  application is not locked out.
- *Parameter store*: what is set is stored, in its own place, whatever the
  interleaving of the three tasks and wherever power fails.
- *Power control*: outputs are off outside the run state; reflected power above
  the limit switches off after the delay and only then.
- *Modbus master*: a write once requested is sent; the schedule never stops.
- *Forwarding*: a forwarded frame is answered or refused; no task waits for ever.
- *BSIP transmit side*: each accepted frame is acknowledged and no refused one.
- *EEPROM bus*: a transfer is not interleaved with another.

## 2. Plan

Done are 1 to 10; 11 to 13 are what could come next. A module `X_proofs` has the
proofs about `X`.

1. `FlashAreas`, `Bootloader`, `Download`, `FirmwareUpdate` with the abstract
   `SafeUpdate`; proofs in `FirmwareUpdate_proofs`.
2. `ResetLimit`: the reset counter with its real limits; proofs in
   `FirmwareUpdate_proofs`.
3. `NvmParams`: flags, queue and saves; `NvmParams_proofs`.
4. `EepromBus`: HwTest's clearing of the reset counter against Port's saves on
   the bit-banged bus; `EepromBus_proofs`.
5. `PowerControl`: from the interlock's pin to the FPGA's registers;
   `PowerControl_proofs`.
6. `ModbusMaster`: request types, answers, setters; `ModbusMaster_proofs`.
7. `FirmwareForward`: FPGA and supply files through queues and semaphores;
   proofs in `FpgaForward_proofs`.
8. `BsipTx`: what the BSIP port sends, and when; `BsipTx_proofs`.
9. `LinkTransmit`, `LinkReceive` and, composed of them, `SerialPort`: frames
   between a task and an interrupt; `SerialPort_proofs`.
10. `FpgaRegisters`: the cache of written registers; `FpgaForward_proofs`.
11. `NvmParams`: the order of a reset and a save.
12. That `EepromBus` implements the save that `NvmParams` takes as two steps.
13. Forwarding over BSIP, which hands on a pointer into the received telegram.

One passing run per component, or composition, is the rule: 11 runs are to
pass, one is to show a disagreement (section 7 has them all).

## 3. The firmware update

### Modules

- `FlashAreas` - the flash. A sector is the file whose data it begins with and
  whether it is that file's sector to the end: what a CRC over a length in a
  header can tell. `Intact` is what the three CRC checks of `Nvm.c` accept.
- `Bootloader` - `IF_Bootloader` with one step per sector it rewrites. `pc` is
  the place in the code; `idx` and `todo` are the loop variable and the 16-bit
  sector count of the decrypting and copying loops; `erasing` is the argument
  of `CrcCheckForAppAndRun`; `resets` is the byte in the EEPROM. A length that
  is no file's leads to `hang`, a fault whose handler loops until the watchdog
  resets the processor.
- `Download` - both ports' frame protocol. `Frame` is the handler up to its
  flash writes, `WriteSector`, `FlushSector`, `CheckLength`, `CheckCrc` and
  `WriteDownloadFlag` are the rest, one flash access each (made with interrupts
  off). BSIP runs at the higher priority: `MayRun` keeps FGIPv2 out of it, and
  lets BSIP between any two steps of FGIPv2.
- `FirmwareUpdate` - both together with resets and power failures, the
  properties, and the inductive invariant `IInv`.
- `SafeUpdate` - the promise, without flash: one image the next boot starts,
  unchanged by booting however often interrupted, and under a running
  application always there. The refinement maps `image` to `BootImage` and all
  stages of booting to one.

### Properties

`AppIsIntact`, `BootKeepsImage`, `LossNeedsBrokenRun`, `StayHasReason`,
`HangNeedsTornHeader` and `SafeSpec` (refinement) state the above. `TransferInv`
says of a transfer, through lost, repeated and restarted frames: as many chunks
were stored as frames were counted, the buffer holds no more than it has room
for, and only a file that passed the first checks writes. `BootInv` says at each
step of the boot what the areas hold (both are parts of the invariant that is
proved). `BootTerminates` and `CrashLoopCaught` are the liveness properties.

### Runs

| Run | Instance | Shows |
|---|---|---|
| `update_one_port` | 3 files (one crashes early, one cannot be decrypted, one has no vectors to jump to) and a foreign one, BSIP, 2 power failures, fairness | every safety property, the refinement; boots end, crash loops are caught, rejected files leave the application alone |
| `update_two_ports` | 1 file, both ports, 1 power failure | the refinement and `LossNeedsBrokenRun` hold with the ports interleaved; the other properties are proved for any ports |
| `reset_limit` | 1 file, limits 10 and 255, history up to 300 | the limit holds up to the 255th reset, none is counted too many |

Bounds: areas of two sectors and files of one and one and a half are the
smallest with a copy that can stop half-way, a partly filled last buffer and two
files of different length. Two power failures allow one during the repetition
of an interrupted boot. `ResetMax` is 3 and `BlankByte` 4
to keep the product small; `reset_limit` has the real 10 and 255.

Fairness (`FairSpec`): the processor executes the bootloader's steps; the
watchdog, which is external and fed by the idle hook, resets a processor that
hangs in a fault handler; an application in `Crashy` does crash. The clearing of
the counter after ten seconds, downloads, and everything a host does are not
assumed to happen.

### What is proved

`FirmwareUpdate_proofs` proves, for every set of files, any area size, any
number of power failures and any reset limit allowed by the assumptions of the
modules, that `Spec` implies `[]TypeOK`, `[]TransferInv`, `[]AppIsIntact`,
`[]HangNeedsTornHeader`, the action properties `BootKeepsImage`,
`LossNeedsBrokenRun` and `StayHasReason`, and the refinement `SafeSpec`.

The argument: `IInv` says at each `pc` what earlier steps have achieved - the
decrypted area is a copy of the download up to `idx`, the running area of the
decrypted one up to `idx`, and as long as the flag is set the download it was
set for is still what a repeated boot would accept (`PendingGood`). `TypeOK`
alone does not exclude a step from `copy` with other contents, hence the
strengthening. A boot step writes only what `BootImage` does not look at, or
what it will be compared with before the flag goes; this gives
`BootKeepsImage`, and with it the other action properties and the simulation of
`SafeUpdate` step by step. Arithmetic enters only in the lemmas about chunks and
sectors.

The same module proves `ResetLimitHolds` and `NeverEarly` of `ResetLimit` for
every limit: `LimitInv` relates the byte in the EEPROM to the number of starts in a row -
it keeps up with it until it reads as erased, and is never ahead. The theorems
assume that the history counts further than the byte (`MaxBoots > BlankByte`).

Assumptions on constants: `AreaAssumption`, `BootAssumption`,
`DownloadAssumption`, `PowerAssumption`. `(ErasedSectors + 1) % 65536 = 0` is the
arithmetic of the erased header, checked by TLC with the real number.

The theorem `Invariance` also gives `BootInv`, which no run lists.

### What the model assumes

- CRC-32 has no collisions, and a length word is written whole or not at all.
- A scrambled header's length asks for at least one sector.
- No file has a sector whose first half is 0xFF throughout with data after it
  (`IF_Flash_ReadWord` advances by bytes, `Flash.c:66`); an unaligned write
  reads its neighbours wrong for the same reason, which is modelled (`Scrambled`).
- Flash and EEPROM operations succeed unless power fails.
- A frame is half a sector and frame 0 carries more than 32 bytes of file; a
  file leaves the last half sector of its area free.
- A host sends the frames of one file in one transfer; what a frame of another
  file would do is refused as unexpected. `FlushSector`'s test and write are
  one step.
- A host sends no frame beyond the end of its file: neither handler bounds
  `DownloadFileIndex`, so that only then a download's writes stay inside its area.
- Files for the FPGA and for the ACDC supply are in `FirmwareForward`.
- BSIP never sends process data: `SendInitParams` never returns success, so
  that `SendDebugData`'s use of the file buffer is unreachable (section 7).

## 4. The parameters

`NvmParams` models the blocks in RAM and EEPROM, the flags `ActionsRSP`, the
queue, and the three tasks that run the loop over the flags. UserHMI's telegrams
are one step, since the other two tasks have lower priority; DebugHMI's setters
are split at every statement and DebugHMI's and Port's loops between sending and
clearing. Test and sending are one step: a loop that sends between them only makes
the command come twice. `writing`/`mixed` let a block change while it is being written page
by page. A content is named after the setting that made it.

| Run | Instance | Shows |
|---|---|---|
| `nvm_saves` | one block, a queue of 3, two settings | `SavedOrPending`, `FactorySavedOrPending`: the loops clear each other's flags but lose no save |
| `blank_common` | parts and common | **finding**: an erased common block wipes the parts read before it |

One block with two copies, their two flags and the reset flag already give every
interleaving of a setting with a loop; the queue holds all three kinds of command
or is full. Two settings are needed for one to overtake another's save.
The models stop when the settings are used up, so deadlock is not checked there.

Proved: `SavedOrPending` and `FactorySavedOrPending` (`NvmParams_proofs`), for any
of the four blocks together, any length of the queue and any number of settings,
restarts and power failures. The two do not hold by themselves from step to
step: when DebugHMI or Port clears a flag whose command it has sent, the block
must be safe without it. `KeptInv` says that every block whose copies differ is
flagged, about to be flagged by DebugHMI, or `Sure`: under way without its flag,
refused, or saved. `LoopInv` says why the flag that a loop has sent may go. In the
Port task the command is still in the queue, because only this task takes
commands out. In DebugHMI it may have been executed meanwhile, but in the middle
of DebugHMI's loop only UserHMI can have changed the block since, and UserHMI
sends its commands before anybody else runs. What a loop sends is a sequence
chosen from the flags in their order (`InOrder`), so that the proof needs no
induction over the flags. `TypeOK` is proved in part (`NvmType`): that a loop's
position is at most `Len(Order)` is not, as `Order` is filtered from a list.
Assumptions: `BlocksAssumption`, `QueueAssumption`, and `ValuesAssumption`, that an
erased block differs from what is ever written.

Assumed: memory is laid out in the order of the declarations, so that the
over-long reads of the common blocks (`Nvm.c:408-450`) only reach blocks that are
read afterwards; block copies in RAM are not interrupted; values are in the
ranges the checks enforce; the EEPROM answers. A blank common block reads as
`Zero`, where the code leaves 0xFF in all its fields but two. Not modelled: the maps, the data
rate (which raises a baud-rate command and no save), reads that fail.

## 5. The other components

Each has one run. What `TLC` checks is stated with the bound it needs; what
TLAPS proves holds for every value of the constants under the assumptions named.

### Power control: `PowerControl`, run `power`

`Sample` is the Interface task's filter, `Main` a whole cycle of the Main task
(highest priority, it does not block; the millisecond interrupt comes before it or
after it), `Port...` the statements of
`Module_Port_Output` one by one, because everything preempts the Port task, and
`Tick` the millisecond interrupt. The regulator is a choice, whether the phase it
arrives at is at most the limit: the PID is floating point. Only in the first cycle
of an output it is, because `Module_PowerAdjustInit` looks up the phase of a power
that is not above the one set, in a table that is searched from below. The enable output is
one of the two interlock inputs of the ladder, so the ladder and the Port task
wait for each other: `ClosedInterlockOpens` and `OpenInterlockDisables` say that
this loop opens and closes. `ReflectionEnds` is about the reflected-power
time-out, which an interrupt raises and a task of low priority takes back,
`RequestReachesFpga` about slow start. `DriveIsAsked` relates the registers of
the FPGA, from IDLE on, to what hosts have asked for since the state was entered
(`asked` is a history variable).

Instance: every delay is one tick or cycle, which already lets it end before, in
and after a step of another task; slow start is on, hosts switch RF and power, the
load reflects or not. Fairness: tasks and timer are periodic; hosts, pin and load
are free. Proved: `TypeOK`, `NoOldRequest`, `DriveIsAsked`, for all delays, timer
widths and commands. `CmdIsAsked` is the strengthening: the commands, from which
the next cycle writes the registers, agree with who asked, and the supply's
counter with the cycles in RUN.

### FPGA registers: `FpgaRegisters`, run `fpga`

Main writes the registers that differ from the record of what was written last,
byte by byte on a bus of pins, which Sensor drives too when a tick wakes it.
`CacheAgrees`: between cycles, what is recorded is what the FPGA has.
Registers are written only in IDLE or above (`idle`), which the ladder of states
may leave and reach again at any moment: `AskedIsWritten` says that what stays asked
for in a device that stays there is written. Below IDLE it may wait for ever.
Instance: two registers of two bytes, three values, one reset anywhere; the two
bytes are needed for a register half written. Both, and the proof of `CacheAgrees`
and `TypeOK`, assume that a cycle of Main ends within its tick (`Overrun = FALSE`);
what happens otherwise is in section 7. The invariant proved says which bytes of the current register
are in the FPGA and that Sensor is asleep while Main has the bus. After a
processor reset the record starts at zero, as the FPGA, reset by its pin, does. An
FPGA that restarts on its own is not modelled: the record would be wrong for good.

### Modbus master: `ModbusMaster`, run `modbus`

One variable, `ModBusSendType`, is the state of the master; the answers, the
setters of the host tasks and the firmware mode all assign it. A setter's two
assignments are two steps; for a firmware frame, setting the type and queueing the
frame are one step here and two in `FirmwareForward`. The supply, the line and its faults are external.
`SupplyForward`: the supply never goes back to older factors, although a read
that was under way puts old ones into `ModbusParam`. `PollsReturn`: no request
type is a dead end. `ShownIsSupply`: in the end, what hosts read is what the
supply has. A late answer is one that comes after the next request was built, and
counts as a fault. `SupplyForward` holds for hosts that set all factors at once
(as BSIP does) and when late answers and interrupted setters do not come
together, which `Timings` says. TLC checks both ways, and both are proved, for any
number of factors, faults, calls and frames. There is an invariant for each. With
late answers (`IInv`), a write that is asked for carries the newest factors, and
requests under way are in the order of their age. With interrupted setters
(`OneInv`), a read may replace the factors in the middle of a setter, which then
asks for the writing of old ones; but one message at most is under way, so that
what the read puts back is what the supply still has. Bounds: two faults, three
calls, one firmware frame, a poll limit of one. Factors are below 65 536 000 (two 16-bit registers). The
setters of settings, hardware version and coils have no caller. That the RS485
driver's flag falls is assumed: the receive timer clears it.

### Forwarding of firmware: `FirmwareForward`, run `forward`

The handler of a frame (DebugHMI) and the task of the channel (Fpga or
ModbusSend) pass frames through one buffer, a queue of pointers to it, and two
semaphores, with time-outs of 800 ticks against two of 500 (FPGA) or 300
(supply); a step of time is 100 ticks. The host and the device are external: a
host sends the frames in order and begins anew after an error.
ModbusSend serves its queue only in the firmware mode, which it looks at every 100
ticks. The mode is set with each frame (`HostSend`) and found (`Enter`); an answer
that was under way, or another host's setter, may take it back (`TakeBack`); and
ModbusSend leaves it after a frame that nobody acknowledged (`GiveUp`) or 5000 ticks
without one (`Leave`; these are not counted, it may leave whenever it waits), and
then gives the semaphore of the *FPGA's* channel. A behaviour is about one channel:
in one of the FPGA's, ModbusSend may be in the mode from a file before, and gives
the semaphore at any moment (`Stray`).

`FramesArrive`: over a line whose losses the second sending mends (`Mended`), a
frame that is accepted has all frames before it but the last with the device,
unless ModbusSend has disturbed it: `disturbed` records that a frame was accepted
before ModbusSend had found its mode, or that it gave the FPGA's semaphore in the
middle of a file. Without that the property is false (section 7).
`FileArrives`: over such a line, undisturbed, a transfer ends with the whole file
there. `TransferEnds`: over any line, disturbed or not, a transfer ends. The run has
both channels with a good line and with one that loses a frame twice and answers
late; three frames, two losses, four transfers, the mode taken back once. Three
frames are the fewest of which one can be overwritten while the property looks at
it, two losses those of one frame sent twice, and the supply's first transfer
always fails, since its semaphore starts empty. Deadlock is not checked: the
transfer ends.

Proved (`FpgaForward_proofs`, with the registers): `ForwardTypeOK`, and `FramesArrive` for
any lines, files, numbers of transfers and of modes taken back under
`ForwardAssumption`, which the run evaluates. `FrameInv`: undisturbed, everything
accepted has arrived (`Settled`), or the last frame accepted waits in the buffer (`InBuffer`), or is under way (`UnderWay`), and
then it is acknowledged exactly once - it comes, or was lost and is sent again,
or the task has been told. The time DebugHMI has waited is bounded by the time
since the sendings, so that it does not give up on a frame under way.
Forwarding over BSIP is not modelled.

### EEPROM bus: `EepromBus`, run `eeprom_saves`

Port's save of a block and HwTest's clearing of the counter of resets, byte by
byte over the bus that the processor drives pin by pin; the EEPROM is external.
Port preempts HwTest between any two steps. `SaveArrives`: a save that has
returned is in the EEPROM, though it began in the middle of another's byte.
`OkIsCleared`: HwTest is not told that a write succeeded which Port destroyed.
`WritesReturn`: no write polls for ever. Two pages of two bytes and two saves
suffice for a page boundary and a save during the write of another; the poll
limit is greater than all waiting there is (`Polls`, 1000 in the source).
Proved: `SaveArrives`, `OkIsCleared` and that no write of the block gives up
(`PortNeverFails`), for any sizes of pages and blocks, write time and number of
saves (`EepromAssumption`). `PortInv`: from Port's first stop condition on, the
EEPROM follows Port byte by byte, and what Port has sent is in the page or in
the memory; of a page that is being written, polls and remaining write time
add up to no more than the write time. `HwTestInv`: after Port's stop condition
HwTest's next byte is not answered, so that it fails or has written already.
That the bytes in hand are of one page (`TypeOK`) is only model-checked. Reading
and the device check happen only before the scheduler starts.
Saves are bounded, so deadlock is not checked.

### BSIP, sending: `BsipTx`, run `bsip_sends`

One round of UserHMI: a telegram, if one came, then at most one message queued
and one sent. The intervals are those of the source in rounds (1, 10, 10, 20).
`Forwarded`: Fpga and ModbusSend ask for an acknowledgement too, at any moment and
without a telegram, for a frame that came over this port or the other.
`AckIsNext`: an acknowledgement that is owed is the next message, whatever was
due before it, and (`AckIsSent`) goes out however fast telegrams come. `AckIsDue`:
one that is to be sent is that of the last telegram, unless a frame was forwarded
since; what an earlier telegram has left never acknowledges a refused one.
`ParamsAreSent`: the parameters' messages are all queued and the queue emptied,
unless telegrams come or frames are forwarded for ever. The queue holds three here
and ten in the source; forwarded frames can fill it, and a message that finds it
full is lost (`Queued`). Fairness: UserHMI's rounds, and the Modbus master's return
to reading process data.
Proved: `TypeOK` and `AckIsNext` for any intervals and queue, if no telegram completes
the signature of a file (that one is not acknowledged, section 7); `AckIsDue`
for all telegrams. Its invariant (`DueInv`): an acknowledgement waits as a flag
or at the head of the queue, not as both, and nowhere else, since each telegram
empties the queue. That of `AckIsNext`: an
acknowledgement that is due finds the queue empty, and the request for parameters
is never done, so that nothing else is queued.

### Link layer of the user and debug ports: run `serial_port`

`LinkTransmit`: a task fills `g_TxBuf`, the interrupt empties it and clears it
when all was sent. Time is counted in characters; `Gap` is the interval that the
caller keeps between frames. A character that comes in runs the branch that
sends, too. `LineIsWhole`: each frame is whole on the line and is followed by the
next; `FramesGoOut`: a frame that is built goes out to its end.
`LinkReceive`: `ReceiveChar` finds frames between flags; escapes and CRC are the
task's. The line may lose, damage or add an octet, or stop. `Resynchronises`:
each such fault costs two frames at most, even without pauses between frames;
`PauseHeals`: a frame that begins after the time-out of 10 ticks and is not
disturbed itself comes in or finds the queue full. CRCs are right for what the
host sent and for nothing else.
`SerialPort` composes the two, as the handler does: each octet that comes in is
a step of both. Instance: two frames out, three in, with octets to be escaped,
any two faults, a queue of one and one octet coming in per build. Three frames
are one more than one fault may cost, so that the run shows `Resynchronises` for one
fault only; that two cost no more than four frames is proved. Fairness: the task and the UART work; nobody
need send. After the last frame nothing happens: deadlock is not checked.

Proved (`SerialPort_proofs`): `LineIsWhole` and `TypeOK` of `LinkTransmit` for any
number of frames of any lengths, if they fit the interval and the buffer and at
most one character comes in during each build (`Timely`). The invariant follows a
frame from the task (`Building`) through the interrupt (`Going`) to the cleared
buffer (`Gone`); a frame that was begun `since` characters ago has as many octets
on the line. `PortImplements`: `SerialPort` implements `LinkTransmit` and
`LinkReceive`, although one handler serves both, so that `LineIsWhole` holds of the
port too (`PortSendsWhole`).
`Resynchronises` and `PauseHeals` for any number of frames, lengths of buffer and
queue, and faults. A receiver is `InPlace` if its buffer is what was sent of the
frame so far. If it is not, or takes the gap between frames for a frame, it will
cost one frame more (`Debt`), and never two: the next flag that ends a frame puts
it right. Frames missing and debt together are at most twice the faults. The
proof takes it as a hypothesis that a frame comes out of its escapes as it went
in, begins and ends with a flag and has none inside (`FramesReadable`). This is
about folds over the octets, for which there is no induction in this prover; TLC
evaluates it for the run's frames (`MCReadable`).

## 6. What is only model-checked, and what is not modelled

Every invariant and every action property that a passing run checks is proved.
Only model-checked are the liveness properties, which are out of the prover's
reach: `BootTerminates`, `CrashLoopCaught`, `WritesReturn`, `AckIsSent`,
`ParamsAreSent`, `ClosedInterlockOpens`, `OpenInterlockDisables`, `ReflectionEnds`,
`RequestReachesFpga`, `AskedIsWritten`, `PollsReturn`, `ShownIsSupply`, `FileArrives`,
`TransferEnds` and `FramesGoOut`. `FramesReadable` is evaluated for the frames of the
run and a hypothesis elsewhere.

Every module states its types in `TypeOK`. A run checks that of `FirmwareUpdate`;
all are proved but those of `NvmParams`, `EepromBus` and `LinkReceive`, of which the
proofs use a part (`NvmType`, `BusType`, `RxType`). These three hold in the instances
of the runs when they are added to the cfg. `NoOldRequest` is proved and not in a
run's list.

Not modelled: the parts marked `not_modelled` in `PROJECT.json`. The PID and the
sensor arithmetic are floating point; CRC arithmetic is abstracted to right or
not. CSIP, the AE bus and the matcher component are not compiled into this
product. The several hundred parameter commands of FGIPv2 are range checks with a
setter each; `NvmParams` and `ModbusMaster` have the setters' effect. The vendored
SDK, RTOS and databases, nine tenths of the repository's lines, are external.
Hazards without a property have a note in `PROJECT.json`: the order of a reset and a
save, which nothing in the source states; a setting that power interrupts, of which
a restart remembers nothing; forwarding over BSIP, which waits for an answer the
code does not send; and those for which the property is one the code does not
keep, which the next section lists.

## 7. Disagreements found while modelling

Each property below states what a comment says of the program. All are false of
the models: TLC finds a counterexample with the constants of the component's cfg,
changed as the third column says (`-` for unchanged). `PartsKept` is kept as the
run `blank_common`; the others are definitions of their modules.

| Property | Module | Constants | The source says | What happens |
|---|---|---|---|---|
| `PartsKept` | `NvmParams` | `Blocks = {"parts", "common"}` | `params_impl.c:180`: blank blocks are initialised | an erased common block wipes the parts block that was read before it, and stays erased itself |
| `FactoryUserKept` | `NvmParams` | `Blocks = {"user"}` | `PT_ModuleOutput.c:76`: saves the factory configuration | the factory's user block is written to the address of the one in force |
| `TenthResetStays` | `ResetLimit` | - | `Boot.c:96`: ten resets run the bootloader | the 256th reset in a row runs the application, the byte reads as erased |
| `ChangeSwitchesOff` | `PowerControl` | - | `PT_ModuleInput.c:100`: switches the drive and the supply off | in STANDBY and INTLK registers are not written, the FPGA goes on driving |
| `DelayIsKept` | `PowerControl` | `DelayOff = 2` | `params_impl.h:136`: delay after reaching the threshold | a time-out raised while reflected power falls is found when it rises next |
| `SlowStopIsSlow` | `PowerControl` | `SlowDelay = 2`, `TimerWidth = 4` | `params_impl.h:141`, `PT_SWC.c:99`: slow power off | the drive goes off in the cycle of the command |
| `CycleWrites` | `FpgaRegisters` | `Overrun = TRUE` | `FpgaSensor.c:124`: writes the register values | a cycle that overruns its tick loses a byte to Sensor, and records it as written |
| `UnsetKept` | `ModbusMaster` | two factors, `Setters <- OneByOne` | `bsip_layer7.c:246`: waits until Modbus is initialised | one factor set before the first full read writes zeros over the others |
| `SetReaches` | `ModbusMaster` | `MaxFaults = 0` | `fgipv2_layer7.c:2614`: sets the parameter | the answer of a read under way takes the write back |
| `AcceptedArrived` | `FirmwareForward` | - | `Comm.c:23`: the semaphore notifies of success | given after two failures too; a late acknowledgement is taken for the next frame's; and the handler waits for less time (800 ticks) than two sendings take (1000) |
| `FramesArrive` without `~disturbed` | `FirmwareForward` | - | the same, and `Comm.c:21` of the supply's | over a good line: ModbusSend gives the FPGA's semaphore up to 5 s after a file for the supply; and a frame is accepted while ModbusSend polls, its mode taken back or left, and the next one overwrites it |
| `ResetsCleared` | `EepromBus` | - | `SL_Cfg.c:303`: after 10 s the count of resets is cleared | a write that Port destroys is not repeated |
| `ParamsArrive` | `BsipTx` | - | `bsip_layer7.c:252`: all frames have been sent | a telegram empties the queue while a message waits in it |
| `StatusFollows` | `BsipTx` | `Telegrams = {}` | the same | `SendInitParams` returns `E_NOT_OK` always, so the running status never begins |
| `RequestStands` | `BsipTx` | `FrameNos = {0, 1}` | `bsip_layer7.c:496`: a new command does nothing before the old one is done | the frame number is taken over before that is looked at |
| `AckIsNext` | `BsipTx` | `"signature"` in `Telegrams` | `bsip_layer7.c:86`: no acknowledgement only after an error | the frame that completes a right signature is processed and not acknowledged |
| `AckIsDue` without `forwarded` | `BsipTx` | - | the same | a frame forwarded over FGIPv2 has the BSIP port acknowledge a telegram it refused |
| `LineIsWhole` | `SerialPort` | `RxInBuild = 2` | `fgipv2_layer2.c:75`: switches the interrupt off when all is sent | two characters that come in during a build send an octet and clear the rest |
| `LineIsWhole` | `SerialPort` | `Sizes <- ParamSizes`, `Gap = 105`, `BufferSize = 520` | `bsip_layer7.c:198`: the interval suits the type of message | at 9600 bit/s the first message of the parameters is longer than its interval |
| `PauseHeals` | `SerialPort` | `Contents <- LongContents`, `BufferSize = 6`, `MaxFaults = 0` | `fgipv2.h:11`: room for 255 octets, all escaped, and two flags | the octet that fills the buffer is taken back, be it the closing flag |
