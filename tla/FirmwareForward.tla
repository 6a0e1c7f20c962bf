-------------------------- MODULE FirmwareForward --------------------------
(***************************************************************************)
(* Forwarding a firmware file to the FPGA or to the AC/DC supply.  The     *)
(* FGIPv2 handler (task DebugHMI) puts a frame into NvmFlash, takes the    *)
(* channel's Nf semaphore and queues a pointer to the frame; the channel's *)
(* task (Fpga, or ModbusSend) copies the frame from the buffer, sends it,  *)
(* waits for the Re semaphore that the device's acknowledgement gives,     *)
(* sends once more, and gives Nf.  Fpga has DebugHMI's priority, ModbusSend *)
(* a higher one.  Time is counted in units of 100 ticks.                   *)
(*                                                                         *)
(* ModbusSend serves its queue only in the firmware mode, which it looks   *)
(* at every 100 ticks; after 5000 ticks without a frame, or a frame that   *)
(* is not acknowledged, it leaves the mode and gives the Nf of the FPGA.   *)
(* A behaviour is about one channel.  In one of the FPGA's, ModbusSend may *)
(* be in the firmware mode still, from a file for the supply before.       *)
(*                                                                         *)
(* External: the host, which sends the frames in order, one at a time, and *)
(* begins anew after an error; the device with its line; and the answers   *)
(* and setters of ModbusMaster that take the firmware mode back.           *)
(***************************************************************************)
EXTENDS Naturals, Sequences

CONSTANTS
  Lines,         \* the channels, and how bad their lines are
  Frames,        \* frames of a file
  MaxLosses,     \* bound: losses in all
  MaxTransfers,  \* bound: transfers the host begins
  MaxTaken       \* bound: times the firmware mode is taken back

ASSUME ForwardAssumption ==
  /\ Lines \subseteq [channel : {"fpga", "modbus"},
                      delay : Nat \ {0}, \* time within which an acknowledgement comes
                      losses : Nat]      \* times one frame, or its acknowledgement, is lost
  /\ {Frames, MaxTransfers} \subseteq Nat \ {0}
  /\ {MaxLosses, MaxTaken} \subseteq Nat

VARIABLES
  line,     \* the channel with its line
  host,     \* where the host and the handler of its frame are
  no,       \* the frame to be sent or being forwarded
  transfer, \* which transfer this is
  waited,   \* time DebugHMI has waited for Nf
  buffer,   \* NvmFlash: the transfer and number of the frame in it
  queue,    \* FpgaFWQueue or ModbusFWQueue: how many pointers to NvmFlash
  mode,     \* ModBusSendType: whether it is that of firmware
  sender,   \* where the channel's task is
  sent,     \* its copy of a frame
  tries,    \* sendings of that frame
  since,    \* time since the last of them
  nf, re,   \* the two semaphores
  acks,     \* ages of the acknowledgements on their way
  lost,     \* losses of this frame, and in all
  got,      \* the frames the device has received
  taken,    \* how often the mode was taken back
  disturbed \* history: a frame was accepted before ModbusSend was ready for it,
            \* or ModbusSend has given the FPGA's Nf in the middle of its file

hostVars == <<host, no, transfer, waited, buffer>>
sendVars == <<sender, sent, tries, since>>
deviceVars == <<acks, lost, got>>
modeVars == <<taken, disturbed>>
forwardVars == <<line, hostVars, queue, mode, sendVars, nf, re, deviceVars, modeVars>>

ToFpga == line.channel = "fpga"
NfTimeout == 8
ReTimeout == IF ToFpga THEN 5 ELSE 3

FrameIds == (1..MaxTransfers) \X (0..(Frames - 1))

ForwardTypeOK ==
  /\ line \in Lines
  /\ host \in {"ready", "waiting", "failed", "done"}
  /\ no \in 0..Frames /\ transfer \in 1..MaxTransfers /\ waited \in 0..NfTimeout
  /\ {buffer, sent} \subseteq FrameIds
  /\ queue \in 0..10 /\ mode \in BOOLEAN
  /\ sender \in {"poll", "wait", "sent"} /\ tries \in 1..2 /\ since \in 0..ReTimeout
  /\ nf \in BOOLEAN /\ re \in BOOLEAN
  /\ acks \in Seq(0..line.delay)
  /\ lost \in (0..line.losses) \X (0..MaxLosses)
  /\ got \subseteq FrameIds
  /\ taken \in 0..MaxTaken /\ disturbed \in BOOLEAN

ForwardInit ==
  /\ line \in Lines
  /\ host = "ready" /\ no = 0 /\ transfer = 1 /\ waited = 0 /\ buffer = <<1, 0>>
  /\ queue = 0 /\ mode \in {FALSE, ToFpga}
  /\ sender = (IF ToFpga THEN "wait" ELSE "poll") /\ sent = <<1, 0>> /\ tries = 1 /\ since = 0
  /\ nf = FALSE /\ re = FALSE
  /\ acks = <<>> /\ lost = <<0, 0>> /\ got = {}
  /\ taken = 0 /\ disturbed = FALSE

-----------------------------------------------------------------------------
(* The channel's task.                                                     *)
CanEnter == sender = "poll" /\ mode /\ ~ToFpga
CanReceive == sender = "wait" /\ queue > 0
CanTake == sender = "sent" /\ re

\* A frame goes out: it arrives and is acknowledged, or it or its
\* acknowledgement is lost.  l is the count of this frame's losses so far.
Transmit(frame, l) ==
  \/ /\ got' = got \cup {frame} /\ acks' = Append(acks, 0)
     /\ lost' = <<l, lost[2]>>
  \/ /\ l < line.losses /\ lost[2] < MaxLosses
     /\ lost' = <<l + 1, lost[2] + 1>>
     /\ got' \in {got, got \cup {frame}} /\ acks' = acks

\* ModbusSend finds its firmware mode and from now on waits for a frame.
Enter ==
  /\ CanEnter
  /\ sender' = "wait"
  /\ UNCHANGED <<line, hostVars, queue, mode, sent, tries, since, nf, re, deviceVars, modeVars>>

\* What ModbusSend does after a frame depends on the mode it finds, firmware.
Afterwards(firmware) == IF ToFpga \/ firmware THEN "wait" ELSE "poll"

\* The queue holds pointers: what is copied is what NvmFlash holds now.
Receive ==
  /\ CanReceive
  /\ queue' = queue - 1
  /\ sent' = buffer /\ tries' = 1 /\ since' = 0 /\ sender' = "sent"
  /\ Transmit(buffer, 0)
  /\ UNCHANGED <<line, hostVars, mode, nf, re, modeVars>>

\* Mutant of TakeRe: success is not notified.
TakeReSilent ==
  /\ CanTake
  /\ re' = FALSE /\ sender' = Afterwards(mode)
  /\ UNCHANGED <<line, hostVars, queue, mode, sent, tries, since, nf, deviceVars, modeVars>>

TakeRe ==
  /\ CanTake
  /\ re' = FALSE /\ nf' = TRUE /\ sender' = Afterwards(mode)
  /\ UNCHANGED <<line, hostVars, queue, mode, sent, tries, since, deviceVars, modeVars>>

Expired == sender = "sent" /\ ~re /\ since = ReTimeout

\* Mutant of SendAgain: the task does not send, only waits once more.
WaitAgain ==
  /\ Expired /\ tries = 1
  /\ tries' = 2 /\ since' = 0
  /\ UNCHANGED <<line, hostVars, queue, mode, sender, sent, nf, re, deviceVars, modeVars>>

SendAgain ==
  /\ Expired /\ tries = 1
  /\ tries' = 2 /\ since' = 0
  /\ Transmit(sent, lost[1])
  /\ UNCHANGED <<line, hostVars, queue, mode, sender, sent, nf, re, modeVars>>

\* The Fpga task gives Nf all the same.  ModbusSend goes back to reading the
\* supply; the Nf it gives is the FPGA's (Stray).
GiveUp ==
  /\ Expired /\ tries = 2
  /\ sender' = Afterwards(FALSE)
  /\ IF ToFpga THEN nf' = TRUE /\ UNCHANGED mode
               ELSE mode' = FALSE /\ UNCHANGED nf
  /\ UNCHANGED <<line, hostVars, queue, sent, tries, since, re, deviceVars, modeVars>>

\* ModbusSend leaves the firmware mode after 5000 ticks without a frame, which
\* are not counted: it may leave whenever it waits.
Leave ==
  /\ ~ToFpga /\ sender = "wait" /\ queue = 0
  /\ mode' = FALSE /\ sender' = "poll"
  /\ UNCHANGED <<line, hostVars, queue, sent, tries, since, nf, re, deviceVars, modeVars>>

\* ModbusSend leaves it, or gives its last frame up, during a file for the FPGA,
\* and gives the Nf of the FPGA.
Stray ==
  /\ ToFpga /\ mode
  /\ mode' = FALSE /\ nf' = TRUE
  /\ disturbed' = (disturbed \/ (~nf /\ no > 0))
  /\ UNCHANGED <<line, hostVars, queue, sendVars, re, deviceVars, taken>>

\* An answer to a read that was under way, or a setter of another host, sets
\* ModBusSendType.
TakeBack ==
  /\ ~ToFpga /\ mode /\ taken < MaxTaken
  /\ mode' = FALSE /\ taken' = taken + 1
  /\ UNCHANGED <<line, hostVars, queue, sendVars, nf, re, deviceVars, disturbed>>

-----------------------------------------------------------------------------
(* The device.  The FPGA's acknowledgement gives Re from the interrupt; the *)
(* supply's comes to ModbusRecv, which gives both semaphores.               *)
Acknowledge ==
  /\ acks # <<>> /\ Head(acks) > 0
  /\ acks' = Tail(acks) /\ re' = TRUE
  /\ IF ToFpga THEN UNCHANGED <<nf, mode>>
               ELSE nf' = TRUE /\ mode' = TRUE
  /\ UNCHANGED <<line, hostVars, queue, sendVars, lost, got, modeVars>>

-----------------------------------------------------------------------------
(* The host and the FGIPv2 handler of its frames.                          *)
\* A frame takes longer on the line than the channel's task for its steps.
HostSend ==
  /\ host = "ready" /\ ~CanReceive /\ ~CanTake /\ ~Expired
  /\ buffer' = <<transfer, no>>
  /\ nf' = (nf \/ (ToFpga /\ no = 0))
  /\ mode' = (mode \/ ~ToFpga)
  /\ host' = "waiting" /\ waited' = 0
  /\ UNCHANGED <<line, no, transfer, queue, sendVars, re, deviceVars, modeVars>>

\* The handler gets Nf: the frame is queued and the host answered.
Accept ==
  /\ host = "waiting" /\ nf
  /\ ~ToFpga => ~CanTake
  /\ nf' = FALSE
  /\ queue' = IF queue < 10 THEN queue + 1 ELSE queue
  /\ no' = no + 1
  /\ host' = IF no + 1 = Frames THEN "done" ELSE "ready"
  /\ disturbed' = (disturbed \/ sender = "poll")
  /\ UNCHANGED <<line, transfer, waited, buffer, mode, sendVars, re, deviceVars, taken>>

\* Mutant of Reject: Nf is not given for the next attempt.
RejectForGood ==
  /\ host = "waiting" /\ ~nf /\ waited = NfTimeout
  /\ host' = "failed"
  /\ UNCHANGED <<line, no, transfer, waited, buffer, queue, mode, sendVars, nf, re, deviceVars, modeVars>>

\* 800 ticks without Nf: HardwareError.
Reject ==
  /\ host = "waiting" /\ ~nf /\ waited = NfTimeout
  /\ nf' = TRUE
  /\ host' = "failed"
  /\ UNCHANGED <<line, no, transfer, waited, buffer, queue, mode, sendVars, re, deviceVars, modeVars>>

Restart ==
  /\ host = "failed" /\ transfer < MaxTransfers
  /\ transfer' = transfer + 1 /\ no' = 0 /\ host' = "ready"
  /\ UNCHANGED <<line, waited, buffer, queue, mode, sendVars, nf, re, deviceVars, modeVars>>

-----------------------------------------------------------------------------
Waiting == host = "waiting" \/ sender = "sent" \/ acks # <<>>

\* Time passes when no task can run and no acknowledgement is overdue.
Tick ==
  /\ Waiting
  /\ ~CanEnter /\ ~CanReceive /\ ~CanTake /\ ~Expired
  /\ host = "waiting" => ~nf /\ waited < NfTimeout
  /\ acks # <<>> => Head(acks) < line.delay
  /\ waited' = IF host = "waiting" THEN waited + 1 ELSE waited
  /\ since' = IF sender = "sent" THEN since + 1 ELSE since
  /\ acks' = [i \in DOMAIN acks |-> acks[i] + 1]
  /\ UNCHANGED <<line, host, no, transfer, buffer, queue, mode, sender, sent, tries, nf, re, lost, got, modeVars>>

ForwardNext ==
  \/ Enter \/ Receive \/ TakeRe \/ SendAgain \/ GiveUp
  \/ Leave \/ Stray \/ TakeBack \/ Acknowledge
  \/ HostSend \/ Accept \/ Reject \/ Restart \/ Tick

ForwardSpec == ForwardInit /\ [][ForwardNext]_forwardVars

FairForwardSpec ==
  /\ ForwardSpec
  /\ WF_forwardVars(Enter \/ Receive \/ TakeRe \/ SendAgain \/ GiveUp)
  /\ WF_forwardVars(Acknowledge)
  /\ WF_forwardVars(HostSend \/ Accept \/ Reject) /\ WF_forwardVars(Restart)
  /\ WF_forwardVars(Tick)

-----------------------------------------------------------------------------
\* A frame or its acknowledgement is lost once at most, and both sendings with
\* the acknowledgement take less time than the host's handler waits.
Mended == line.losses < 2 /\ line.delay < ReTimeout /\ ReTimeout + line.delay < NfTimeout

\* When a frame is accepted, the device has all frames before it but the last:
\* over every line, as Comm.c:23 says of the semaphore, "notification that
\* sending succeeded" (which the code does not keep),
AcceptedArrived == \A k \in 0..(no - 2) : <<transfer, k>> \in got

\* and, unless ModbusSend has disturbed it, over a line whose losses the second
\* sending mends.
FramesArrive == Mended /\ ~disturbed => AcceptedArrived

\* Over such a line and undisturbed a transfer comes to its end, and its last
\* frame arrives.
FileArrives ==
  Mended ~> \/ disturbed
            \/ host = "done" /\ \A k \in 0..(Frames - 1) : <<transfer, k>> \in got

\* Whatever the device loses, the handler answers, and a host that begins anew
\* after an error gets to the end of a transfer.
TransferEnds == <>(host = "done")
=============================================================================
