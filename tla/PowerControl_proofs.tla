------------------------ MODULE PowerControl_proofs ------------------------
(***************************************************************************)
(* For any filter, delay and width of the timers: every variable of        *)
(* PowerControl keeps its type, and nothing is driven that was not asked   *)
(* for since the run state was entered.                                    *)
(***************************************************************************)
EXTENDS PowerControl, TLAPS

(* The commands behind the registers: what is asked of them has an asker,  *)
(* and the counter of the supply's delay counts the cycles in RUN.         *)
CmdIsAsked ==
  /\ cmd["dds"] => asked \intersect {"rf", "dds"} # {}
  /\ cmd["acdc"] => "acdc" \in asked \/ (run = RUN /\ runCycles = AcdcCycles)
  /\ acdcCnt = runCycles

IInv == TypeOK /\ NoOldRequest /\ DriveIsAsked /\ CmdIsAsked

(* The constants, each by itself. *)
LEMMA ConstantTypes ==
  /\ FilterTime \in Nat /\ FilterTime > 0 /\ FilterTime \in 0..FilterTime
  /\ FanTime \in Nat /\ FanTime > 0 /\ AcdcCycles \in Nat /\ AcdcCycles > 0
  /\ DelayOff \in Nat /\ SlowDelay \in Nat /\ TimerWidth \in Nat /\ TimerWidth > 0
  /\ SlowDelay \in 0..(TimerWidth - 1) /\ Slow \in BOOLEAN
BY PowerAssumption DEF PowerAssumption

(* A capped count stays within its limit. *)
LEMMA CappedType ==
  ASSUME NEW limit \in Nat, NEW n \in Nat
  PROVE  Capped(n, limit) \in 0..limit
BY DEF Capped

(* The ladder of Module_Port_Input ends in one of the five states. *)
LEMMA LadderType == Ladder \in STANDBY..RUN
<1>1. CASE ~sw["detect"].value
  BY <1>1 DEF Ladder, STANDBY, RUN
<1>2. CASE sw["detect"].value /\ ~sw["enable"].value
  BY <1>2 DEF Ladder, STANDBY, RUN, INTLK
<1>3. CASE sw["detect"].value /\ sw["enable"].value /\ fan < FanTime
  BY <1>3 DEF Ladder, STANDBY, RUN, IDLE
<1>4. CASE sw["detect"].value /\ sw["enable"].value /\ ~(fan < FanTime)
  BY <1>4 DEF Ladder, STANDBY, RUN, OPEN
<1> QED BY <1>1, <1>2, <1>3, <1>4

LEMMA InitInv == Init => IInv
<1> SUFFICES ASSUME Init PROVE IInv
  OBVIOUS
<1> USE ConstantTypes
<1>1. TypeOK
  <2>1. sw \in [Switches -> [value : BOOLEAN, last : BOOLEAN, cnt : 0..FilterTime]]
    BY DEF Init
  <2>2. cmd \in [{"rf", "pwr", "dds", "acdc", "mode"} -> BOOLEAN]
    BY DEF Init
  <2>3. fpga \in [{"dds", "acdc"} -> BOOLEAN]
    BY DEF Init
  <2>5. off \in [flag : BOOLEAN, timer : 0..DelayOff, timeOut : BOOLEAN]
    BY DEF Init
  <2>6. /\ {detect, en, lastState, over} \subseteq BOOLEAN /\ reflected \in Reflections
    BY Zenon DEF Init
  <2>7. /\ run \in STANDBY..RUN /\ acdcCnt \in 0..AcdcCycles /\ fan \in 0..FanTime
        /\ port \in PortSteps /\ asked \subseteq HostSets \intersect Drives
        /\ runCycles \in 0..AcdcCycles /\ overTicks \in 0..DelayOff
    BY DEF Init, STANDBY, RUN, PortSteps
  <2>4. ramp \in [startFlag : BOOLEAN, start : 0..SlowDelay,
                  stopFlag : BOOLEAN, stop : 0..(TimerWidth - 1)]
    BY DEF Init
  <2> QED BY <2>1, <2>2, <2>3, <2>4, <2>5, <2>6, <2>7 DEF TypeOK
<1>2. NoOldRequest /\ CmdIsAsked
  BY DEF Init, NoOldRequest, CmdIsAsked
<1>3. DriveIsAsked
  BY DEF Init, DriveIsAsked, STANDBY, IDLE
<1> QED BY <1>1, <1>2, <1>3 DEF IInv

LEMMA SampleInv == IInv /\ Sample => IInv'
<1> SUFFICES ASSUME IInv, Sample PROVE IInv'
  OBVIOUS
<1> USE ConstantTypes
<1>1. ASSUME NEW s \in [value : BOOLEAN, last : BOOLEAN, cnt : 0..FilterTime],
             NEW pin \in BOOLEAN
      PROVE  Filtered(s, pin) \in [value : BOOLEAN, last : BOOLEAN, cnt : 0..FilterTime]
  <2>1. CASE s.last # pin
    <3>1. Filtered(s, pin) = [s EXCEPT !.last = pin, !.cnt = 0]
      BY <2>1 DEF Filtered
    <3>2. 0 \in 0..FilterTime
      OBVIOUS
    <3> QED BY ONLY <3>1, <3>2, pin \in BOOLEAN,
               s \in [value : BOOLEAN, last : BOOLEAN, cnt : 0..FilterTime]
  <2>2. CASE s.last = pin /\ s.cnt + 1 >= FilterTime
    <3>1. Filtered(s, pin) = [s EXCEPT !.value = pin, !.cnt = FilterTime]
      BY <2>2 DEF Filtered
    <3> QED BY <3>1
  <2>3. CASE s.last = pin /\ ~(s.cnt + 1 >= FilterTime)
    <3>1. s.cnt + 1 \in 0..FilterTime
      BY <2>3
    <3>2. Filtered(s, pin) = [s EXCEPT !.cnt = @ + 1]
      BY <2>3 DEF Filtered
    <3>3. Filtered(s, pin) = [value |-> s.value, last |-> s.last, cnt |-> s.cnt + 1]
      BY <3>2
    <3> QED BY <3>1, <3>3
  <2> QED BY <2>1, <2>2, <2>3
<1>2. sw' \in [Switches -> [value : BOOLEAN, last : BOOLEAN, cnt : 0..FilterTime]]
  BY <1>1 DEF IInv, TypeOK, Sample, Switches
<1>3. TypeOK'
  BY <1>2 DEF IInv, TypeOK, Sample
<1> QED BY <1>3 DEF IInv, NoOldRequest, DriveIsAsked, CmdIsAsked, Sample

LEMMA MainInv == IInv /\ Main => IInv'
<1> SUFFICES ASSUME IInv, NEW within \in BOOLEAN, MainCycle(within) PROVE IInv'
  BY DEF Main
<1> USE ConstantTypes
<1> DEFINE s == Ladder
           c == CmdAfterInput(s)
           running == s = RUN
           outputs == running /\ c["rf"] /\ c["pwr"] /\ FullRate(RampFlags(TRUE))
           cnt     == IF running THEN Capped(acdcCnt + 1, AcdcCycles) ELSE 0
           dds     == IF ~running THEN c["dds"] ELSE outputs /\ (c["dds"] \/ within)
           acdc    == c["acdc"] \/ cnt = AcdcCycles
<1>1. /\ run' = s
      /\ cmd' = [c EXCEPT !["dds"] = dds, !["acdc"] = acdc]
      /\ ramp' = IF running THEN RampFlags(c["rf"]) ELSE ramp
      /\ lastState' = IF running THEN outputs ELSE lastState
      /\ over' = (outputs /\ reflected)
      /\ acdcCnt' = cnt
      /\ fpga' = IF s >= IDLE THEN [dds |-> dds, acdc |-> acdc] ELSE fpga
      /\ asked' = IF s = run THEN asked ELSE {}
      /\ runCycles' = IF running THEN Capped(runCycles + 1, AcdcCycles) ELSE 0
      /\ overTicks' = IF outputs /\ reflected THEN overTicks ELSE 0
      /\ UNCHANGED <<detect, en, sw, reflected, fan, off, port>>
  BY DEF MainCycle
<1>2. s \in STANDBY..RUN
  BY LadderType
<1>3. c \in [{"rf", "pwr", "dds", "acdc", "mode"} -> BOOLEAN]
  BY DEF CmdAfterInput, IInv, TypeOK
<1>4. /\ s = run => c = cmd
      /\ s # run => ~c["rf"] /\ ~c["dds"] /\ ~c["acdc"]
  BY DEF CmdAfterInput, IInv, TypeOK
<1>5. outputs \in BOOLEAN /\ dds \in BOOLEAN /\ acdc \in BOOLEAN
  BY <1>3 DEF FullRate, RampFlags
<1>6. cnt \in 0..AcdcCycles /\ runCycles' \in 0..AcdcCycles /\ cnt = runCycles'
  BY <1>1, CappedType DEF IInv, TypeOK, CmdIsAsked
<1>7. outputs => s = run /\ "rf" \in asked
  BY <1>4 DEF IInv, NoOldRequest
<1>8. dds => asked' \intersect {"rf", "dds"} # {}
  <2>1. CASE outputs
    BY <1>1, <1>7, <2>1
  <2>2. CASE ~running
    BY <1>1, <1>4, <2>2 DEF IInv, CmdIsAsked
  <2> QED BY <2>1, <2>2
<1>9. acdc => "acdc" \in asked' \/ (s = RUN /\ runCycles' = AcdcCycles)
  <2>1. CASE cnt = AcdcCycles
    BY <1>6, <2>1
  <2>2. CASE c["acdc"] /\ cnt # AcdcCycles
    <3>1. s = run /\ cmd["acdc"]
      BY <1>4, <2>2
    <3>2. ~(run = RUN /\ runCycles = AcdcCycles)
      BY <3>1, <2>2 DEF IInv, TypeOK, CmdIsAsked, Capped
    <3> QED BY <3>1, <3>2, <1>1 DEF IInv, CmdIsAsked
  <2> QED BY <2>1, <2>2
<1> HIDE DEF s, c, outputs, cnt, dds, acdc
<1>10. TypeOK'
  <2>1. cmd' \in [{"rf", "pwr", "dds", "acdc", "mode"} -> BOOLEAN]
    BY <1>1, <1>3, <1>5
  <2>2. ramp' \in [startFlag : BOOLEAN, start : 0..SlowDelay,
                   stopFlag : BOOLEAN, stop : 0..(TimerWidth - 1)]
    BY <1>1, <1>3 DEF IInv, TypeOK, RampFlags
  <2>3. fpga' \in [{"dds", "acdc"} -> BOOLEAN]
    BY <1>1, <1>5 DEF IInv, TypeOK
  <2>4. /\ run' \in STANDBY..RUN
        /\ acdcCnt' \in 0..AcdcCycles /\ runCycles' \in 0..AcdcCycles
        /\ asked' \subseteq HostSets \intersect Drives /\ overTicks' \in 0..DelayOff
        /\ {detect, en, lastState, over}' \subseteq BOOLEAN
    BY <1>1, <1>2, <1>5, <1>6 DEF IInv, TypeOK
  <2> QED BY <1>1, <2>1, <2>2, <2>3, <2>4 DEF IInv, TypeOK
<1>11. NoOldRequest'
  <2>1. cmd'["rf"] = c["rf"]
    BY <1>1, <1>3
  <2> QED BY <1>1, <1>4, <2>1 DEF IInv, NoOldRequest
<1>12. CmdIsAsked'
  <2>1. cmd'["dds"] = dds /\ cmd'["acdc"] = acdc
    BY <1>1, <1>3
  <2> QED BY <1>1, <1>6, <1>8, <1>9, <2>1 DEF CmdIsAsked
<1>13. DriveIsAsked'
  <2> SUFFICES ASSUME s >= IDLE PROVE DriveIsAsked'
    BY <1>1 DEF DriveIsAsked
  <2>1. fpga'["dds"] = dds /\ fpga'["acdc"] = acdc
    BY <1>1
  <2> QED BY <1>1, <1>8, <1>9, <2>1 DEF DriveIsAsked
<1> QED BY <1>10, <1>11, <1>12, <1>13 DEF IInv

LEMMA PortInv == IInv /\ PortStep => IInv'
<1> SUFFICES ASSUME IInv, PortStep PROVE IInv'
  OBVIOUS
<1> USE ConstantTypes
<1>1. /\ UNCHANGED <<run, fpga, asked, runCycles, acdcCnt>>
      /\ UNCHANGED cmd \/ cmd' = [cmd EXCEPT !["rf"] = FALSE]
  BY DEF PortStep, PortUnchanged, PortEnable, PortBelowLimit, PortAboveLimit,
         PortArm, PortExpired, PortSwitchOff, PortClear
<1>2. TypeOK'
  <2>1. CASE PortEnable
    BY <2>1 DEF IInv, TypeOK, PortEnable, PortUnchanged, PortSteps
  <2>2. CASE PortBelowLimit
    BY <2>2 DEF IInv, TypeOK, PortBelowLimit, PortUnchanged, PortSteps
  <2>3. CASE PortAboveLimit
    BY <2>3 DEF IInv, TypeOK, PortAboveLimit, PortUnchanged, PortSteps
  <2>4. CASE PortArm
    BY <2>4 DEF IInv, TypeOK, PortArm, PortUnchanged, PortSteps
  <2>5. CASE PortExpired
    BY <2>5 DEF IInv, TypeOK, PortExpired, PortUnchanged, PortSteps
  <2>6. CASE PortSwitchOff
    BY <2>6 DEF IInv, TypeOK, PortSwitchOff, PortUnchanged, PortSteps
  <2>7. CASE PortClear
    BY <2>7 DEF IInv, TypeOK, PortClear, PortUnchanged, PortSteps
  <2> QED BY <2>1, <2>2, <2>3, <2>4, <2>5, <2>6, <2>7 DEF PortStep
<1>3. NoOldRequest' /\ CmdIsAsked' /\ DriveIsAsked'
  <2>1. CASE UNCHANGED cmd
    BY <1>1, <2>1 DEF IInv, NoOldRequest, CmdIsAsked, DriveIsAsked
  <2>2. CASE cmd' = [cmd EXCEPT !["rf"] = FALSE]
    <3>1. ~cmd'["rf"] /\ cmd'["dds"] = cmd["dds"] /\ cmd'["acdc"] = cmd["acdc"]
      BY <2>2 DEF IInv, TypeOK
    <3> QED BY <1>1, <3>1 DEF IInv, NoOldRequest, CmdIsAsked, DriveIsAsked
  <2> QED BY <1>1, <2>1, <2>2
<1> QED BY <1>2, <1>3 DEF IInv

LEMMA TickInv == IInv /\ Tick => IInv'
<1> SUFFICES ASSUME IInv, Tick PROVE IInv'
  OBVIOUS
<1> USE ConstantTypes
<1>1. off' \in [flag : BOOLEAN, timer : 0..DelayOff, timeOut : BOOLEAN]
  BY DEF IInv, TypeOK, Tick, CheckReflectOff
<1>2. ramp' \in [startFlag : BOOLEAN, start : 0..SlowDelay,
                 stopFlag : BOOLEAN, stop : 0..(TimerWidth - 1)]
  <2>1. Capped(ramp.start + 1, SlowDelay) \in 0..SlowDelay
    <3>1. ramp.start + 1 \in Nat
      BY DEF IInv, TypeOK
    <3> QED BY <3>1, CappedType
  <2>2. (ramp.stop + TimerWidth - 1) % TimerWidth \in 0..(TimerWidth - 1)
    BY DEF IInv, TypeOK
  <2>3. SlowDelay \in 0..(TimerWidth - 1)
    OBVIOUS
  <2> DEFINE start == IF ramp.startFlag THEN Capped(ramp.start + 1, SlowDelay) ELSE 0
             stop  == IF ramp.stopFlag THEN (ramp.stop + TimerWidth - 1) % TimerWidth
                      ELSE SlowDelay
  <2>4. start \in 0..SlowDelay /\ stop \in 0..(TimerWidth - 1)
    BY <2>1, <2>2, <2>3
  <2>5. ramp' = [ramp EXCEPT !.start = start, !.stop = stop]
    BY DEF Tick, CheckRamps
  <2> HIDE DEF start, stop
  <2> QED BY <2>4, <2>5 DEF IInv, TypeOK
<1>3. fan' \in 0..FanTime /\ overTicks' \in 0..DelayOff
  <2>1. fan + 1 \in Nat /\ overTicks + 1 \in Nat
    BY DEF IInv, TypeOK
  <2>2. Capped(fan + 1, FanTime) \in 0..FanTime /\ Capped(overTicks + 1, DelayOff) \in 0..DelayOff
    BY <2>1, CappedType
  <2> QED BY <2>2 DEF Tick
<1>4. TypeOK'
  BY <1>1, <1>2, <1>3 DEF IInv, TypeOK, Tick
<1> QED BY <1>4 DEF IInv, NoOldRequest, CmdIsAsked, DriveIsAsked, Tick

LEMMA HostInv ==
  ASSUME NEW h \in HostSets, NEW v \in BOOLEAN, IInv, HostSet(h, v)
  PROVE  IInv'
<1> USE ConstantTypes
<1>1. \A k \in {"rf", "dds", "acdc"} : cmd'[k] = IF k = h THEN v ELSE cmd[k]
  BY DEF IInv, TypeOK, HostSet
<1>2. asked \subseteq asked' /\ (v /\ h \in {"rf", "dds", "acdc"} => h \in asked')
  BY DEF HostSet, Drives
<1>3. TypeOK'
  BY DEF IInv, TypeOK, HostSet
<1>4. NoOldRequest'
  BY <1>1, <1>2 DEF IInv, NoOldRequest
<1>5. CmdIsAsked'
  BY <1>1, <1>2 DEF IInv, CmdIsAsked, HostSet
<1>6. DriveIsAsked'
  BY <1>2 DEF IInv, DriveIsAsked, HostSet
<1> QED BY <1>3, <1>4, <1>5, <1>6 DEF IInv

(* Every step keeps the invariant. *)
LEMMA StepInv == IInv /\ [Next]_vars => IInv'
<1> SUFFICES ASSUME IInv, [Next]_vars PROVE IInv'
  OBVIOUS
<1>1. CASE Sample
  BY <1>1, SampleInv
<1>2. CASE Main
  BY <1>2, MainInv
<1>3. CASE PortStep
  BY <1>3, PortInv
<1>4. CASE Tick
  BY <1>4, TickInv
<1>5. CASE \E h \in HostSets, v \in BOOLEAN : HostSet(h, v)
  BY <1>5, HostInv
<1>6. CASE LoadChanges \/ PinChanges
  BY <1>6 DEF IInv, TypeOK, NoOldRequest, CmdIsAsked, DriveIsAsked,
              LoadChanges, PinChanges
<1>7. CASE UNCHANGED vars
  BY <1>7 DEF vars, IInv, TypeOK, NoOldRequest, CmdIsAsked, DriveIsAsked
<1> QED BY <1>1, <1>2, <1>3, <1>4, <1>5, <1>6, <1>7 DEF Next

(* The inductive invariant holds in every state. *)
THEOREM PowerInvariance == Spec => []IInv
BY InitInv, StepInv, PTL DEF Spec

(* Every counter and flag keeps its type, whatever the delays: the ticks   *)
(* of Timer.c and the cycles of PT_SWC.c stay within their bounds.         *)
THEOREM PowerTypeCorrect == Spec => []TypeOK
<1>1. IInv => TypeOK
  BY DEF IInv
<1> QED BY <1>1, PowerInvariance, PTL

(* RF power is on only by a command newer than the last change of state    *)
(* (PT_ModuleInput.c:95-102).                                              *)
THEOREM NoOldRequestCorrect == Spec => []NoOldRequest
<1>1. IInv => NoOldRequest
  BY DEF IInv
<1> QED BY <1>1, PowerInvariance, PTL

(* The FPGA drives the amplifier and the supply only as asked since the    *)
(* run state was entered.                                                  *)
THEOREM DriveIsAskedCorrect == Spec => []DriveIsAsked
<1>1. IInv => DriveIsAsked
  BY DEF IInv
<1> QED BY <1>1, PowerInvariance, PTL

=============================================================================
