---------------------------- MODULE PowerControl ----------------------------
(***************************************************************************)
(* From the interlock pin to the registers of the FPGA that drive the      *)
(* amplifier and its supply: Interface.c filters the inputs, the Main task *)
(* climbs the ladder of run states, regulates and writes the FPGA, the     *)
(* Port task drives the enable output and switches off on reflected power, *)
(* and an interrupt every millisecond counts the delays.                   *)
(*                                                                         *)
(* The Main task has the highest priority and does not block in a cycle,   *)
(* so a cycle is one step; the millisecond interrupt, which may come in    *)
(* the middle of a cycle, comes before or after it here.  The Port task    *)
(* has one of the lowest: whatever runs above it may run between any two   *)
(* of its statements.                                                      *)
(*                                                                         *)
(* The regulator is floating point, and the phase it arrives at a choice,  *)
(* but in the first cycle of an output: Module_PowerAdjustInit begins with *)
(* the phase of a power that is at most the one set, which is at most the  *)
(* limit's, since IF_NvmParam_GetPhaseMapTable is monotone.                *)
(***************************************************************************)
EXTENDS Naturals, FiniteSets

CONSTANTS
  FilterTime,    \* equal samples that a filtered input waits for (15)
  FanTime,       \* ticks until the fan has started (90 steps of 50 ms)
  AcdcCycles,    \* cycles in RUN before the supply is switched on (1000)
  DelayOff,      \* ticks of reflected power before switching off, 0 = never
  Slow,          \* slow mode, a parameter
  SlowDelay,     \* ticks of the slow start and of the slow stop
  TimerWidth,    \* modulus of the unsigned slow-stop timer (2^32)
  HostSets,      \* the commands a host gives
  Reflections    \* whether the reflected power may be above the limit

ASSUME PowerAssumption ==
  /\ {FilterTime, FanTime, AcdcCycles} \subseteq Nat \ {0}
  /\ {DelayOff, SlowDelay} \subseteq Nat
  /\ Slow \in BOOLEAN
  /\ TimerWidth \in Nat \ {0} /\ SlowDelay < TimerWidth
  /\ HostSets \subseteq {"rf", "pwr", "dds", "acdc", "mode"}
  /\ Reflections \subseteq BOOLEAN /\ Reflections # {}

VARIABLES
  detect,    \* the interlock pin
  en,        \* the interlock enable pin, an output that is also read back
  sw,        \* the filtered inputs
  run,       \* GN_Device.RunState, Now and Last
  cmd,       \* DevCmdParam: what is asked of the outputs
  reflected, \* the power reflected by the load is above the limit
  lastState, \* GN_Device.Sensor.Last.State
  over,      \* GN_Device.Sensor.Now.Pref is above the limit
  acdcCnt,   \* GN_Device.ACDCSlow_Cnt
  fpga,      \* the registers DDSState and ACDCState in the FPGA
  fan,       \* FanSlowOnTimer and Pwm_duty; FanTime: FanSlowOnFlag
  off,       \* RFOffDelayFlag, RFOffDelayTimer, RFOffDelayTimeOutFlag
  ramp,      \* SlowStart- and SlowStopDelayFlag and -Timer
  port,      \* the next statement of Module_Port_Output
  asked,     \* history: Drives switched on by a host since the run state changed
  runCycles, \* history: cycles in RUN since it was entered, up to AcdcCycles
  overTicks  \* history: ticks for which over has lasted, up to DelayOff

vars == <<detect, en, sw, run, cmd, reflected, lastState, over, acdcCnt, fpga, fan, off,
          ramp, port, asked, runCycles, overTicks>>

STANDBY == 0
INTLK   == 1
IDLE    == 2
OPEN    == 3
RUN     == 4

Switches == {"detect", "enable"}
Drives == {"rf", "dds", "acdc"}
PortSteps == {"enable", "limit", "arm", "expired", "off", "clear"}

TypeOK ==
  /\ {detect, en, lastState, over} \subseteq BOOLEAN /\ reflected \in Reflections
  /\ sw \in [Switches -> [value : BOOLEAN, last : BOOLEAN, cnt : 0..FilterTime]]
  /\ run \in STANDBY..RUN
  /\ cmd \in [{"rf", "pwr", "dds", "acdc", "mode"} -> BOOLEAN]
  /\ acdcCnt \in 0..AcdcCycles
  /\ fpga \in [{"dds", "acdc"} -> BOOLEAN]
  /\ fan \in 0..FanTime
  /\ off \in [flag : BOOLEAN, timer : 0..DelayOff, timeOut : BOOLEAN]
  /\ ramp \in [startFlag : BOOLEAN, start : 0..SlowDelay,
               stopFlag : BOOLEAN, stop : 0..(TimerWidth - 1)]
  /\ port \in PortSteps
  /\ asked \subseteq HostSets \intersect Drives
  /\ runCycles \in 0..AcdcCycles
  /\ overTicks \in 0..DelayOff

Init ==
  /\ detect \in BOOLEAN
  /\ en = FALSE
  /\ sw = [s \in Switches |-> [value |-> FALSE, last |-> FALSE, cnt |-> FilterTime]]
  /\ run = STANDBY
  /\ cmd = [c \in {"rf", "pwr", "dds", "acdc", "mode"} |-> c = "mode"]
  /\ reflected \in Reflections
  /\ lastState = FALSE
  /\ over = FALSE
  /\ acdcCnt = 0
  /\ fpga = [d \in {"dds", "acdc"} |-> FALSE]
  /\ fan = 0
  /\ off = [flag |-> FALSE, timer |-> 0, timeOut |-> FALSE]
  /\ ramp = [startFlag |-> FALSE, start |-> 0, stopFlag |-> FALSE, stop |-> 0]
  /\ port = "enable"
  /\ asked = {}
  /\ runCycles = 0
  /\ overTicks = 0

Capped(n, limit) == IF n >= limit THEN limit ELSE n

-----------------------------------------------------------------------------
(* The Interface task: one filtered sample of both inputs.  The second is  *)
(* the enable output itself, read back from the output register.           *)

Filtered(s, pin) ==
  IF s.last # pin
  THEN [s EXCEPT !.last = pin, !.cnt = 0]
  ELSE IF s.cnt + 1 >= FilterTime
       THEN [s EXCEPT !.value = pin, !.cnt = FilterTime]
       ELSE [s EXCEPT !.cnt = @ + 1]

Sample ==
  /\ sw' = [detect |-> Filtered(sw["detect"], detect),
            enable |-> Filtered(sw["enable"], en)]
  /\ UNCHANGED <<detect, en, run, cmd, reflected, lastState, over, acdcCnt, fpga, fan, off,
                 ramp, port, asked, runCycles, overTicks>>

-----------------------------------------------------------------------------
(* The Main task: inputs, regulation, registers.                           *)

(* Module_Port_Input's ladder. *)
Ladder ==
  CASE ~sw["detect"].value -> STANDBY
    [] sw["detect"].value /\ ~sw["enable"].value -> INTLK
    [] sw["detect"].value /\ sw["enable"].value /\ fan < FanTime -> IDLE
    [] OTHER -> IF cmd["mode"] THEN RUN ELSE OPEN

(* Mutant: only a way down switches off.                                   *)
CmdOffDownwards(s) ==
  IF s >= run THEN cmd ELSE [c \in DOMAIN cmd |-> IF c = "mode" THEN cmd[c] ELSE FALSE]

(* The commands after Module_Port_Input: a new state starts switched off. *)
CmdAfterInput(s) ==
  IF s = run THEN cmd ELSE [c \in DOMAIN cmd |-> IF c = "mode" THEN cmd[c] ELSE FALSE]

(* Module_PowerDriverCtrl: which ramp runs while power is on or off. *)
RampFlags(on) ==
  [ramp EXCEPT !.startFlag = Slow /\ on, !.stopFlag = Slow /\ ~on]

(* The quotient of two integers: nothing until the delay is over.  Divided *)
(* by a delay of zero it is zero on this processor.                        *)
FullRate(r) == r.startFlag => SlowDelay > 0 /\ r.start >= SlowDelay

(* One cycle.  within: the phase that the regulator arrives at is at most  *)
(* the limit for the power set.                                            *)
MainCycle(within) ==
  LET s       == Ladder
      c       == CmdAfterInput(s)
      running == s = RUN
      outputs == running /\ c["rf"] /\ c["pwr"] /\ FullRate(RampFlags(TRUE))
      cnt     == IF running THEN Capped(acdcCnt + 1, AcdcCycles) ELSE 0
      dds     == IF ~running THEN c["dds"]
                 ELSE outputs /\ (c["dds"] \/ within)
      acdc    == c["acdc"] \/ cnt = AcdcCycles
  IN /\ outputs /\ ~lastState => within
     /\ run' = s
     /\ cmd' = [c EXCEPT !["dds"] = dds, !["acdc"] = acdc]
     /\ ramp' = IF running THEN RampFlags(c["rf"]) ELSE ramp
     /\ lastState' = IF running THEN outputs ELSE lastState
     /\ over' = (outputs /\ reflected)
     /\ acdcCnt' = cnt
     /\ fpga' = IF s >= IDLE THEN [dds |-> dds, acdc |-> acdc] ELSE fpga
     /\ asked' = IF s = run THEN asked ELSE {}
     /\ runCycles' = IF running THEN Capped(runCycles + 1, AcdcCycles) ELSE 0
     /\ overTicks' = IF outputs /\ reflected THEN overTicks ELSE 0
     /\ UNCHANGED <<detect, en, sw, reflected, fan, off, port>>

-----------------------------------------------------------------------------
(* Module_Port_Output, statement by statement.                             *)

PortUnchanged ==
  UNCHANGED <<detect, sw, run, reflected, lastState, over, acdcCnt, fpga, fan, ramp,
              asked, runCycles, overTicks>>

(* Mutants: enabled only by the state that waits for it; never disabled. *)
PortEnableLate ==
  /\ port = "enable"
  /\ en' = (run >= IDLE)
  /\ port' = "limit"
  /\ UNCHANGED <<cmd, off>> /\ PortUnchanged

PortEnableLatched ==
  /\ port = "enable"
  /\ en' = (en \/ run # STANDBY)
  /\ port' = "limit"
  /\ UNCHANGED <<cmd, off>> /\ PortUnchanged

PortEnable ==
  /\ port = "enable"
  /\ en' = (run # STANDBY)
  /\ port' = "limit"
  /\ UNCHANGED <<cmd, off>> /\ PortUnchanged

PortBelowLimit ==
  /\ port = "limit" /\ ~over
  /\ off' = [off EXCEPT !.flag = FALSE]
  /\ port' = "enable"
  /\ UNCHANGED <<en, cmd>> /\ PortUnchanged

PortAboveLimit ==
  /\ port = "limit" /\ over
  /\ port' = "arm"
  /\ UNCHANGED <<en, cmd, off>> /\ PortUnchanged

PortArm ==
  /\ port = "arm"
  /\ off' = IF DelayOff > 0 THEN [off EXCEPT !.flag = TRUE] ELSE off
  /\ port' = "expired"
  /\ UNCHANGED <<en, cmd>> /\ PortUnchanged

PortExpired ==
  /\ port = "expired"
  /\ port' = IF off.timeOut THEN "off" ELSE "enable"
  /\ UNCHANGED <<en, cmd, off>> /\ PortUnchanged

PortSwitchOff ==
  /\ port = "off"
  /\ cmd' = [cmd EXCEPT !["rf"] = FALSE]
  /\ port' = "clear"
  /\ UNCHANGED <<en, off>> /\ PortUnchanged

PortClear ==
  /\ port = "clear"
  /\ off' = [off EXCEPT !.timeOut = FALSE]
  /\ port' = "enable"
  /\ UNCHANGED <<en, cmd>> /\ PortUnchanged

PortStep ==
  \/ PortEnable \/ PortBelowLimit \/ PortAboveLimit \/ PortArm
  \/ PortExpired \/ PortSwitchOff \/ PortClear

-----------------------------------------------------------------------------
(* TMR_1ms_Callback.                                                       *)

(* Mutant: a time-out is taken back with the flag. *)
CheckReflectOffTakenBack ==
  IF ~off.flag THEN [off EXCEPT !.timer = 0, !.timeOut = FALSE]
  ELSE IF off.timer + 1 >= DelayOff
       THEN [flag |-> FALSE, timer |-> DelayOff, timeOut |-> TRUE]
       ELSE [off EXCEPT !.timer = @ + 1]

CheckReflectOff ==
  IF ~off.flag THEN [off EXCEPT !.timer = 0]
  ELSE IF off.timer + 1 >= DelayOff
       THEN [flag |-> FALSE, timer |-> DelayOff, timeOut |-> TRUE]
       ELSE [off EXCEPT !.timer = @ + 1]

(* Mutant: the slow start stops one short. *)
CheckRampsShort ==
  [ramp EXCEPT !.start = IF ramp.startFlag THEN Capped(@ + 1, SlowDelay - 1) ELSE 0,
               !.stop  = IF ramp.stopFlag THEN (@ + TimerWidth - 1) % TimerWidth
                         ELSE SlowDelay]

(* The timer of the slow stop is unsigned: it passes below zero. *)
CheckRamps ==
  [ramp EXCEPT !.start = IF ramp.startFlag THEN Capped(@ + 1, SlowDelay) ELSE 0,
               !.stop  = IF ramp.stopFlag THEN (@ + TimerWidth - 1) % TimerWidth
                         ELSE SlowDelay]

Tick ==
  /\ off' = CheckReflectOff
  /\ ramp' = CheckRamps
  /\ fan' = Capped(fan + 1, FanTime)
  /\ overTicks' = IF over THEN Capped(overTicks + 1, DelayOff) ELSE 0
  /\ UNCHANGED <<detect, en, sw, run, cmd, reflected, lastState, over, acdcCnt, fpga, port,
                 asked, runCycles>>

-----------------------------------------------------------------------------
(* A host's command, by FGIPv2 or BSIP, the load and the pin.              *)

HostSet(c, v) ==
  /\ cmd' = [cmd EXCEPT ![c] = v]
  /\ asked' = IF v /\ c \in Drives THEN asked \union {c} ELSE asked
  /\ UNCHANGED <<detect, en, sw, run, reflected, lastState, over, acdcCnt, fpga, fan, off,
                 ramp, port, runCycles, overTicks>>

LoadChanges ==
  /\ reflected' \in Reflections \ {reflected}
  /\ UNCHANGED <<detect, en, sw, run, cmd, lastState, over, acdcCnt, fpga, fan,
                 off, ramp, port, asked, runCycles, overTicks>>

PinChanges ==
  /\ detect' = ~detect
  /\ UNCHANGED <<en, sw, run, cmd, reflected, lastState, over, acdcCnt, fpga, fan, off,
                 ramp, port, asked, runCycles, overTicks>>

-----------------------------------------------------------------------------
Main == \E within \in BOOLEAN : MainCycle(within)

Next ==
  \/ Sample \/ Main \/ PortStep \/ Tick
  \/ \E c \in HostSets, v \in BOOLEAN : HostSet(c, v)
  \/ LoadChanges \/ PinChanges

Spec == Init /\ [][Next]_vars

(* Every task of main.c that takes part is periodic, and so is the timer's *)
(* interrupt; hosts, load and pin do as they like.                           *)
Fairness == WF_vars(Sample) /\ WF_vars(Main) /\ WF_vars(PortStep) /\ WF_vars(Tick)

FairSpec == Spec /\ Fairness

-----------------------------------------------------------------------------
(* Outside STANDBY and INTLK the drive of the amplifier is on only if a    *)
(* host asked for it, and the supply only if a host asked for it or RUN    *)
(* has lasted for AcdcCycles, since the run state was entered: nothing     *)
(* that was on before an interlock opened is on when it closes again,      *)
(* whichever of its conditions failed first (PT_ModuleInput.c:95-102).     *)
DriveIsAsked ==
  run >= IDLE =>
    /\ fpga["dds"] => asked \intersect {"rf", "dds"} # {}
    /\ fpga["acdc"] => "acdc" \in asked \/ (run = RUN /\ runCycles = AcdcCycles)

(* RF power is on only by a command newer than the last change of state.   *)
NoOldRequest == cmd["rf"] => "rf" \in asked

(* A closed interlock leads to OPEN or RUN: the enable output, which the   *)
(* Port task raises only outside STANDBY, comes back as the input that the *)
(* ladder waits for.                                                       *)
ClosedInterlockOpens == <>[]detect => <>[](run >= OPEN)

(* An open interlock leads to STANDBY with the enable output low.          *)
OpenInterlockDisables == <>[]~detect => <>[](run = STANDBY /\ ~en)

(* Reflected power does not stay above the limit with RF power on, if the  *)
(* delay is not zero (PT_ModuleOutput.c:145-158, Timer.c:275-290).         *)
ReflectionEnds == DelayOff > 0 => []<>(~over \/ ~cmd["rf"])

(* In RUN, RF power that is switched on and not off again reaches the      *)
(* FPGA, slow start or not, unless slow start has a delay of zero.         *)
Requested == run = RUN /\ cmd["rf"] /\ cmd["pwr"]
RequestReachesFpga ==
  (Slow => SlowDelay > 0) =>
    (Requested /\ ~lastState ~> fpga["dds"] \/ ~Requested)

-----------------------------------------------------------------------------
(* "Close the amplifier drive's supply, close the AC-DC supply", says      *)
(* PT_ModuleInput.c:100-101 of a change of state.  In STANDBY and INTLK    *)
(* the registers are not written any more (PT_ModuleOutput.c:31), so that  *)
(* the FPGA goes on driving.                                               *)
ChangeSwitchesOff ==
  [][run' # run => ~fpga'["dds"] /\ ~fpga'["acdc"]]_vars

(* "Delay time after reaching Reflect Power Threshould until RF is turn    *)
(* off", says params_impl.h:136.  A time-out raised while reflected power  *)
(* falls stays raised: the next time it rises, Port finds it expired.      *)
DelayIsKept ==
  [][PortAboveLimit /\ off.timeOut => overTicks >= DelayOff]_vars

(* "Slow delay power off", says params_impl.h:141: in RUN with slow mode,  *)
(* switching RF power off lets the slow-stop timer run out first.  The     *)
(* drive is switched off at once (PT_SWC.c:115), the ramp is not looked at.*)
SlowStopIsSlow ==
  [][Slow /\ run = RUN /\ run' = RUN /\ fpga["dds"] /\ ~fpga'["dds"]
       => ramp.stop = 0]_vars

=============================================================================
